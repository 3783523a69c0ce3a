---------------------------- MODULE EventDelivery ----------------------------
(***************************************************************************)
(* One queue of events with its consumers and its dead letter queue.  The  *)
(* queue delivers a message until a consumer returns normally, after too   *)
(* many attempts it moves it to the dead letter queue, and from there an   *)
(* operator replays it.  Around the handler of a consumer that has the     *)
(* service for it stands a check: an event whose id is marked as processed *)
(* is skipped, and the mark is set once the handler is done.  No consumer  *)
(* of this program has that service: each delivery is handled.             *)
(***************************************************************************)
EXTENDS Integers, FiniteSets, Absence

CONSTANTS
  Workers,       \* consumers that poll the queue
  Events,        \* event ids
  MaxEFaults     \* failures, timeouts, crashes and expirations (bound)

ASSUME EventsAssumption == Null \notin Events /\ MaxEFaults \in Nat

VARIABLES
  fifo,          \* is the queue a FIFO queue?  (set where it is deployed)
  marking,       \* has the consumer the service that keeps the marks?
  queued, dead,  \* per event: copies in the queue and in the dead letter queue
  worker,        \* per worker: the event it works on, the next step, and whether the
                 \* queue has taken the message back meanwhile
  marked,        \* events marked as processed
  batch, sent,   \* the running replay: events left, and the one sent but not deleted
  known,         \* events that were sent at all
  handled,       \* (history) per event: effects of its handler
  disturbed,     \* (history) events a repeated effect can be explained for
  efaults        \* budget spent

deployment == <<fifo, marking>>
evars == <<deployment, queued, dead, worker, marked, batch, sent, known, handled,
           disturbed, efaults>>

NoDelivery == [event |-> Null, step |-> "idle", late |-> FALSE]

EInit ==
  /\ fifo \in BOOLEAN /\ marking \in BOOLEAN
  /\ queued = [e \in Events |-> 0]
  /\ dead = [e \in Events |-> 0]
  /\ worker = [w \in Workers |-> NoDelivery]
  /\ marked = {}
  /\ batch = {}
  /\ sent = Null
  /\ known = {}
  /\ handled = [e \in Events |-> 0]
  /\ disturbed = {}
  /\ efaults = 0

Fault == efaults < MaxEFaults /\ efaults' = efaults + 1

\* Every event sent gets an id of its own; that no event of this id was sent before
\* is checked, and always so.
SendEvent(e) ==
  /\ e \notin known
  /\ known' = known \cup {e}
  /\ queued' = [queued EXCEPT ![e] = @ + 1]
  /\ UNCHANGED <<deployment, dead, worker, marked, batch, sent, handled, disturbed,
                 efaults>>

-----------------------------------------------------------------------------
(* A consumer.                                                             *)

Works(w, e) == worker[w].event = e

Receive(w) ==
  /\ worker[w] = NoDelivery
  /\ \E e \in Events :
       /\ queued[e] > 0
       /\ queued' = [queued EXCEPT ![e] = @ - 1]
       /\ worker' = [worker EXCEPT ![w] = [event |-> e, late |-> FALSE,
                                            step |-> IF marking THEN "check" ELSE "handle"]]
       /\ disturbed' = IF \E v \in Workers : Works(v, e) THEN disturbed \cup {e} ELSE disturbed
  /\ UNCHANGED <<deployment, dead, marked, batch, sent, known, handled, efaults>>

StepTo(w, step) == worker' = [worker EXCEPT ![w].step = step]

\* Faulty variant: the event is marked before it is handled.
Check_MarksFirst(w) ==
  /\ worker[w].step = "check"
  /\ StepTo(w, IF worker[w].event \in marked THEN "ack" ELSE "handle")
  /\ marked' = marked \cup {worker[w].event}
  /\ UNCHANGED <<deployment, queued, dead, batch, sent, known, handled, disturbed, efaults>>

Check(w) ==
  /\ worker[w].step = "check"
  /\ StepTo(w, IF worker[w].event \in marked THEN "ack" ELSE "handle")
  /\ UNCHANGED <<deployment, queued, dead, marked, batch, sent, known, handled,
                 disturbed, efaults>>

\* Without marks there is nothing that could keep the event from being handled again
\* once the queue has its message back.
HandleEvent(w) ==
  /\ worker[w].step = "handle"
  /\ handled' = [handled EXCEPT ![worker[w].event] = @ + 1]
  /\ StepTo(w, IF marking THEN "mark" ELSE "ack")
  /\ disturbed' = disturbed \cup {e \in {worker[w].event} : ~marking /\ worker[w].late}
  /\ UNCHANGED <<deployment, queued, dead, marked, batch, sent, known, efaults>>

\* Faulty variant: the mark is forgotten.
MarkProcessed_Not(w) ==
  /\ worker[w].step = "mark"
  /\ StepTo(w, "ack")
  /\ UNCHANGED <<deployment, queued, dead, marked, batch, sent, known, handled,
                 disturbed, efaults>>

MarkProcessed(w) ==
  /\ worker[w].step = "mark"
  /\ marked' = marked \cup {worker[w].event}
  /\ StepTo(w, "ack")
  /\ UNCHANGED <<deployment, queued, dead, batch, sent, known, handled, disturbed,
                 efaults>>

\* The handler has returned: the queue deletes the message it delivered.
Acknowledge(w) ==
  /\ worker[w].step = "ack"
  /\ worker' = [worker EXCEPT ![w] = NoDelivery]
  /\ UNCHANGED <<deployment, queued, dead, marked, batch, sent, known, handled,
                 disturbed, efaults>>

\* The queue takes a message back that was not acknowledged in time, or gives it up
\* after as many attempts as it was configured with.
TakeBack(e) ==
  \/ queued' = [queued EXCEPT ![e] = @ + 1] /\ dead' = dead
  \/ dead' = [dead EXCEPT ![e] = @ + 1] /\ queued' = queued

\* The effect of the event is there, and no mark.
Unmarked(w) == worker[w].step = "mark" \/ (worker[w].step = "ack" /\ ~marking)

\* A statement throws (the handler rethrows it), the acknowledgement fails, or the
\* process dies.  When the effect is there and the mark is not, the next delivery
\* repeats the effect.
WorkerFails(w) ==
  /\ worker[w] # NoDelivery /\ Fault
  /\ IF worker[w].late THEN UNCHANGED <<queued, dead>> ELSE TakeBack(worker[w].event)
  /\ disturbed' = disturbed \cup {e \in {worker[w].event} : Unmarked(w)}
  /\ worker' = [worker EXCEPT ![w] = NoDelivery]
  /\ UNCHANGED <<deployment, marked, batch, sent, known, handled>>

\* The handler takes longer than the visibility timeout, and goes on.
VisibilityTimeout(w) ==
  /\ worker[w] # NoDelivery /\ ~worker[w].late /\ Fault
  /\ TakeBack(worker[w].event)
  /\ worker' = [worker EXCEPT ![w].late = TRUE]
  /\ disturbed' = disturbed \cup {e \in {worker[w].event} : ~marking /\ Unmarked(w)}
  /\ UNCHANGED <<deployment, marked, batch, sent, known, handled>>

\* A mark lives for a day; a dead letter is kept longer than that.
MarkExpires ==
  /\ Fault
  /\ \E e \in marked : marked' = marked \ {e} /\ disturbed' = disturbed \cup {e}
  /\ UNCHANGED <<deployment, queued, dead, worker, batch, sent, known, handled>>

-----------------------------------------------------------------------------
(* Replaying the dead letters.                                             *)

\* A batch: one copy of each.
ReplayStart ==
  /\ batch = {}
  /\ batch' = {e \in Events : dead[e] > 0}
  /\ batch' # {}
  /\ UNCHANGED <<deployment, queued, dead, worker, marked, sent, known, handled,
                 disturbed, efaults>>

\* A message is sent to the queue without a group: a FIFO queue refuses it, the error
\* is noted and the message remains a dead letter.
ReplaySend ==
  /\ sent = Null
  /\ \E e \in batch :
       IF fifo
       THEN batch' = batch \ {e} /\ UNCHANGED <<queued, sent>>
       ELSE /\ queued' = [queued EXCEPT ![e] = @ + 1]
            /\ sent' = e /\ batch' = batch
  /\ UNCHANGED <<deployment, dead, worker, marked, known, handled, disturbed, efaults>>

ReplayDelete ==
  /\ sent # Null
  /\ dead' = [dead EXCEPT ![sent] = @ - 1]
  /\ batch' = batch \ {sent}
  /\ sent' = Null
  /\ UNCHANGED <<deployment, queued, worker, marked, known, handled, disturbed, efaults>>

\* One statement fails and the loop goes on with the other messages, or the process
\* dies: a message that was sent and not deleted is in both queues now.
ReplayFails ==
  /\ batch # {} /\ Fault
  /\ batch' \in {{}} \cup {batch \ {e} : e \in IF sent = Null THEN batch ELSE {sent}}
  /\ sent' = Null
  /\ disturbed' = disturbed \cup {e \in Events : e = sent /\ ~marking}
  /\ UNCHANGED <<deployment, queued, dead, worker, marked, known, handled>>

-----------------------------------------------------------------------------
WorkerStep(w) ==
  Receive(w) \/ Check(w) \/ HandleEvent(w) \/ MarkProcessed(w) \/ Acknowledge(w)

ENext ==
  \/ \E e \in Events : SendEvent(e)
  \/ \E w \in Workers :
       \/ Receive(w) \/ Check(w) \/ HandleEvent(w) \/ MarkProcessed(w) \/ Acknowledge(w)
       \/ WorkerFails(w) \/ VisibilityTimeout(w)
  \/ MarkExpires
  \/ ReplayStart \/ ReplaySend \/ ReplayDelete \/ ReplayFails

ESpec == EInit /\ [][ENext]_evars

\* Consumers go on polling.  Whether dead letters are replayed is the operator's choice.
EFairSpec == ESpec /\ \A w \in Workers : WF_evars(WorkerStep(w))

-----------------------------------------------------------------------------
ETypeOK ==
  /\ fifo \in BOOLEAN /\ marking \in BOOLEAN
  /\ queued \in [Events -> Nat] /\ dead \in [Events -> Nat]
  /\ worker \in [Workers -> [event : Events \cup {Null},
                             step  : {"idle", "check", "handle", "mark", "ack"},
                             late  : BOOLEAN]]
  /\ marked \subseteq Events /\ batch \subseteq Events
  /\ sent \in batch \cup {Null}
  /\ known \subseteq Events
  /\ handled \in [Events -> Nat]
  /\ disturbed \subseteq Events
  /\ efaults \in 0..MaxEFaults

\* The effect of an event is repeated only when two deliveries of it were in progress
\* at the same time or when it had its effect and the queue delivers it again all the
\* same.  For a consumer with marks that takes a failure between effect and mark or a
\* mark that has expired: neither a failed acknowledgement nor a copy that a replay left
\* in both queues is a reason.  For one without, which all of this program are, these two
\* are, and a handler that outlasts the visibility timeout; a dead letter, a replay and a
\* failure before the effect are none.
RepeatedOnlyIfDisturbed == \A e \in Events : handled[e] > 1 => e \in disturbed

\* Where an event is.  What is in no queue and with no worker and was never handled
\* is (again) as if it had never been sent.
Where(e) ==
  IF handled[e] > 0 THEN "handled"
  ELSE IF queued[e] > 0 \/ (\E w \in Workers : Works(w, e)) THEN "kept"
  ELSE IF dead[e] > 0 THEN "parked" ELSE "unsent"

Whereabouts == [e \in Events |-> Where(e)]

Abstract == INSTANCE Channel WITH status <- Whereabouts

\* The queue, its consumers, its dead letters and the replay are a channel: no crash,
\* timeout or failure between two statements loses an event, and what is not parked
\* gets handled.
KeepsEveryEvent == Abstract!Channel
=============================================================================
