------------------------------ MODULE Channel ------------------------------
(***************************************************************************)
(* What the message queues promise: an event that was sent is kept until it *)
(* has been handled.  It may be parked in the dead letter queue meanwhile  *)
(* and be brought back from there; it may be handled again; it is never    *)
(* lost.                                                                   *)
(***************************************************************************)
CONSTANT Events

VARIABLE status     \* per event

ChannelInit == status = [e \in Events |-> "unsent"]

Move(e, from, to) == status[e] = from /\ status' = [status EXCEPT ![e] = to]

Send(e) == Move(e, "unsent", "kept")

Handle(e) == Move(e, "kept", "handled")

Park(e) == Move(e, "kept", "parked")

Unpark(e) == Move(e, "parked", "kept")

ChannelNext == \E e \in Events : Send(e) \/ Handle(e) \/ Park(e) \/ Unpark(e)

\* An event that is kept is in the end handled or parked.
Channel ==
  /\ ChannelInit /\ [][ChannelNext]_status
  /\ \A e \in Events : WF_status(Handle(e) \/ Park(e))
=============================================================================
