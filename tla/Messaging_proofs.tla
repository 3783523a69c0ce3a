-------------------------- MODULE Messaging_proofs --------------------------
(***************************************************************************)
(* Proofs about the messages between the services: the queues and their    *)
(* consumers, and what is announced on the topics.                         *)
(***************************************************************************)
EXTENDS EventDelivery, Announcements, SequenceTheorems, TLAPS

-----------------------------------------------------------------------------
(* Proofs about EventDelivery, for any consumers, events and failures:     *)
(* when an effect can be repeated, and that the queues implement the       *)
(* safety part of the abstract Channel.                                    *)
(*                                                                         *)
(* Every step is about one event.  What is invariant is stated for one     *)
(* event (EventOK) and does not change for the others (Elsewhere).  That   *)
(* nothing is lost counts copies: an event that was sent and not handled   *)
(* has a copy in a queue or with a consumer that still owns it; while a    *)
(* replay has sent and not yet deleted it, it has one besides the letter   *)
(* about to be deleted.  Where there are no marks, an undisturbed event     *)
(* has no copies but these (OneCopy), so that none is left to be handled   *)
(* once the event has had its effect.                                      *)

Delivery == [event : Events \cup {Null},
             step  : {"idle", "check", "handle", "mark", "ack"},
             late  : BOOLEAN]

\* A consumer is free or works on an event; one without marks neither checks nor marks.
WorkersOK ==
  \A w \in Workers :
    \/ worker[w] = NoDelivery
    \/ worker[w].event \in Events /\ (~marking => worker[w].step \in {"handle", "ack"})

\* A consumer has the event and would give it back.
Held(e) == \E w \in Workers : Works(w, e) /\ ~worker[w].late

EventOK(e) ==
  /\ e \notin known => /\ queued[e] = 0 /\ dead[e] = 0 /\ handled[e] = 0
                       /\ \A w \in Workers : ~Works(w, e)
  /\ e \in known /\ handled[e] = 0 => queued[e] > 0 \/ dead[e] > 0 \/ Held(e)
  /\ sent = e /\ handled[e] = 0 => queued[e] > 0 \/ dead[e] > 1 \/ Held(e)
  /\ e \in batch => dead[e] > 0
  /\ e \in marked => handled[e] > 0
  /\ \A w \in Workers : Works(w, e) /\ worker[w].step \in {"mark", "ack"} => handled[e] > 0
  /\ e \notin disturbed =>
       /\ \A v, w \in Workers : Works(v, e) /\ Works(w, e) => v = w
       /\ handled[e] <= 1

\* Where there are marks, an event that was handled is marked, or about to be.
Once(e) ==
  marking /\ e \notin disturbed =>
    /\ handled[e] = 1 =>
         e \in marked \/ \E w \in Workers : Works(w, e) /\ worker[w].step = "mark"
    /\ \A w \in Workers : Works(w, e) /\ worker[w].step = "handle" => e \notin marked

\* The letter that a replay has sent on and is about to delete, the copy of a consumer.
Letter(e) == IF sent = e THEN 1 ELSE 0
OwnCopy(e) == IF Held(e) THEN 1 ELSE 0

\* Where there are none, an event has one copy until it is handled, and then none.
OneCopy(e) ==
  ~marking /\ e \notin disturbed =>
    /\ handled[e] = 0 => queued[e] + dead[e] + OwnCopy(e) <= 1 + Letter(e)
    /\ handled[e] > 0 =>
         /\ queued[e] = 0 /\ dead[e] <= Letter(e)
         /\ \A w \in Workers : Works(w, e) => worker[w].step = "ack" /\ ~worker[w].late

AllOK(e) == EventOK(e) /\ Once(e) /\ OneCopy(e)

EventsInv == ETypeOK /\ WorkersOK /\ \A e \in Events : AllOK(e)

\* An event stays where it is, or goes where a channel may let it go.
Moves(e) ==
  <<Where(e), Where(e)'>> \in {<<Where(e), Where(e)>>, <<"unsent", "kept">>, <<"kept", "handled">>,
                              <<"kept", "parked">>, <<"parked", "kept">>}

OneMoves == \E e \in Events : Moves(e) /\ \A d \in Events \ {e} : Where(d)' = Where(d)
-----------------------------------------------------------------------------
LEMMA NoDeliveryType ==
  NoDelivery \in Delivery /\ NoDelivery.event = Null /\ NoDelivery.step = "idle"
BY DEF NoDelivery, Delivery

LEMMA EventsBegin == ASSUME EInit PROVE EventsInv
<1>1. ETypeOK
  BY NoDeliveryType, EventsAssumption DEF EInit, ETypeOK, Delivery
<1>2. WorkersOK
  BY DEF EInit, WorkersOK
<1>3. ASSUME NEW e \in Events PROVE AllOK(e)
  <2>1. (\A w \in Workers : ~Works(w, e)) /\ ~Held(e)
    BY NoDeliveryType, EventsAssumption DEF EInit, Works, Held
  <2> QED BY <2>1, EventsAssumption DEF EInit, AllOK, EventOK, Once, OneCopy, OwnCopy, Letter
<1> QED BY <1>1, <1>2, <1>3 DEF EventsInv

\* An event that a step does not touch.
LEMMA Elsewhere ==
  ASSUME NEW d \in Events, AllOK(d), marking' = marking,
         queued'[d] = queued[d], dead'[d] = dead[d], handled'[d] = handled[d],
         d \in known' <=> d \in known, d \in marked' <=> d \in marked,
         d \in disturbed => d \in disturbed', d \in batch' => d \in batch, sent' = d <=> sent = d,
         \A v \in Workers : /\ Works(v, d)' <=> Works(v, d)
                            /\ Works(v, d) => worker'[v] = worker[v]
  PROVE  AllOK(d)' /\ Where(d)' = Where(d)
<1>1. Held(d)' <=> Held(d)
  BY DEF Held
<1>2. EventOK(d)'
  BY <1>1 DEF AllOK, EventOK
<1>3. Once(d)'
  BY DEF AllOK, Once
<1>4. OneCopy(d)'
  <2>1. OwnCopy(d)' = OwnCopy(d) /\ Letter(d)' = Letter(d)
    BY <1>1 DEF OwnCopy, Letter
  <2> QED BY <2>1 DEF AllOK, OneCopy
<1>5. Where(d)' = Where(d)
  BY DEF Where
<1> QED BY <1>2, <1>3, <1>4, <1>5 DEF AllOK

\* A consumer that turns from one event, or none, to another, or none.
LEMMA WorkerTurns ==
  ASSUME ETypeOK, NEW w \in Workers, NEW x \in Delivery, worker' = [worker EXCEPT ![w] = x],
         NEW d \in Events, worker[w].event # d, x.event # d
  PROVE  \A v \in Workers : /\ Works(v, d)' <=> Works(v, d)
                            /\ Works(v, d) => worker'[v] = worker[v]
BY DEF ETypeOK, Works, Delivery

\* A consumer that is not free has an event.
LEMMA HasEvent ==
  ASSUME EventsInv, NEW w \in Workers, worker[w].step # "idle" \/ worker[w] # NoDelivery
  PROVE  worker[w] # NoDelivery /\ \E e \in Events : worker[w].event = e
BY NoDeliveryType DEF EventsInv, WorkersOK

\* The event of a consumer that goes on with it.
LEMMA WorkerSteps ==
  ASSUME EventsInv, NEW w \in Workers, NEW step \in {"check", "handle", "mark", "ack"}, StepTo(w, step),
         worker[w] # NoDelivery, marking' = marking, ~marking => step \in {"handle", "ack"}
  PROVE  /\ worker[w].event \in Events
         /\ worker' \in [Workers -> Delivery] /\ WorkersOK'
         /\ worker'[w].event = worker[w].event /\ worker'[w].step = step
         /\ worker'[w].late = worker[w].late
         /\ \A v \in Workers : v # w => worker'[v] = worker[v]
         /\ \A v \in Workers, e \in Events : Works(v, e)' <=> Works(v, e)
         /\ \A e \in Events : Held(e)' <=> Held(e)
<1>1. worker \in [Workers -> Delivery] /\ worker[w].event \in Events
  BY DEF EventsInv, ETypeOK, WorkersOK, Delivery
<1> DEFINE x == [worker[w] EXCEPT !.step = step]
<1>2. /\ x \in Delivery /\ x.event = worker[w].event /\ x.step = step
      /\ x.late = worker[w].late
  BY <1>1 DEF Delivery
<1>3. worker' = [worker EXCEPT ![w] = x]
  BY <1>1 DEF StepTo
<1> HIDE DEF x
<1>4. /\ worker' \in [Workers -> Delivery]
      /\ worker'[w] = x /\ \A v \in Workers : v # w => worker'[v] = worker[v]
  BY <1>1, <1>2, <1>3
<1>5. WorkersOK'
  BY <1>1, <1>2, <1>4 DEF EventsInv, WorkersOK
<1>6. \A v \in Workers, e \in Events : Works(v, e)' <=> Works(v, e)
  BY <1>2, <1>4 DEF Works
<1>7. \A v \in Workers : worker'[v].late = worker[v].late
  BY <1>2, <1>4
<1>8. \A e \in Events : Held(e)' <=> Held(e)
  BY <1>6, <1>7 DEF Held
<1> QED BY <1>1, <1>2, <1>4, <1>5, <1>6, <1>8
-----------------------------------------------------------------------------
LEMMA SendInv ==
  ASSUME EventsInv, NEW e \in Events, SendEvent(e) PROVE EventsInv' /\ OneMoves
<1>1. /\ e \notin known /\ known' = known \cup {e} /\ queued' = [queued EXCEPT ![e] = @ + 1]
      /\ UNCHANGED <<fifo, marking, dead, worker, marked, batch, sent, handled, disturbed, efaults>>
  BY DEF SendEvent, deployment
<1>2. queued \in [Events -> Nat] /\ dead \in [Events -> Nat] /\ handled \in [Events -> Nat]
  BY DEF EventsInv, ETypeOK
<1>3. ETypeOK' /\ WorkersOK'
  BY <1>1, <1>2 DEF EventsInv, ETypeOK, WorkersOK
<1>4. /\ \A w \in Workers : ~Works(w, e)
      /\ queued[e] = 0 /\ dead[e] = 0 /\ handled[e] = 0 /\ EventOK(e) /\ ~Held(e)
  BY <1>1 DEF EventsInv, AllOK, EventOK, Held
<1>5. AllOK(e)'
  <2>1. queued'[e] = 1 /\ ~Held(e)'
    BY <1>1, <1>2, <1>4 DEF Held, Works
  <2>2. EventOK(e)'
    BY <1>1, <1>4, <2>1 DEF EventOK, Works
  <2>3. Once(e)' /\ OneCopy(e)'
    BY <1>1, <1>4, <2>1 DEF Once, OneCopy, OwnCopy, Letter, Works
  <2> QED BY <2>2, <2>3 DEF AllOK
<1>6. Where(e) = "unsent" /\ Where(e)' = "kept"
  BY <1>1, <1>2, <1>4 DEF Where
<1>7. ASSUME NEW d \in Events \ {e} PROVE AllOK(d)' /\ Where(d)' = Where(d)
  BY <1>1, <1>2, Elsewhere DEF EventsInv, Works
<1>8. \A d \in Events : AllOK(d)'
  BY <1>5, <1>7
<1> QED BY <1>3, <1>6, <1>7, <1>8 DEF EventsInv, OneMoves, Moves

LEMMA ReceiveInv ==
  ASSUME EventsInv, NEW w \in Workers, Receive(w) PROVE EventsInv' /\ OneMoves
<1>1. PICK e \in Events :
        /\ queued[e] > 0
        /\ queued' = [queued EXCEPT ![e] = @ - 1]
        /\ worker' = [worker EXCEPT ![w] = [event |-> e, late |-> FALSE,
                                             step |-> IF marking THEN "check" ELSE "handle"]]
        /\ disturbed' = IF \E v \in Workers : Works(v, e) THEN disturbed \cup {e} ELSE disturbed
  BY DEF Receive
<1>2. /\ worker[w] = NoDelivery
      /\ UNCHANGED <<fifo, marking, dead, marked, batch, sent, known, handled, efaults>>
  BY DEF Receive, deployment
<1> DEFINE x == [event |-> e, late |-> FALSE, step |-> IF marking THEN "check" ELSE "handle"]
<1>3. /\ x \in Delivery /\ x.event = e /\ x.step \in {"check", "handle"} /\ ~x.late
      /\ marking => x.step = "check"
      /\ ~marking => x.step = "handle"
      /\ worker' = [worker EXCEPT ![w] = x]
  BY <1>1 DEF Delivery
<1> HIDE DEF x
<1>4. /\ queued \in [Events -> Nat] /\ worker \in [Workers -> Delivery] /\ disturbed \subseteq Events
  BY DEF EventsInv, ETypeOK, Delivery
<1>5. /\ worker' \in [Workers -> Delivery] /\ worker'[w] = x
      /\ \A v \in Workers : v # w => worker'[v] = worker[v]
      /\ queued'[e] = queued[e] - 1 /\ queued' \in [Events -> Nat]
      /\ \A d \in Events : d # e => queued'[d] = queued[d]
  <2>1. queued[e] \in Nat /\ queued[e] - 1 \in Nat
    BY <1>1, <1>4
  <2>2. queued' \in [Events -> Nat] /\ queued'[e] = queued[e] - 1
        /\ \A d \in Events : d # e => queued'[d] = queued[d]
    BY <1>1, <1>4, <2>1
  <2> QED BY <1>3, <1>4, <2>2
<1>6. ETypeOK' /\ WorkersOK'
  BY <1>1, <1>2, <1>3, <1>4, <1>5 DEF EventsInv, ETypeOK, WorkersOK, Delivery
<1>7. ~Works(w, e) /\ Works(w, e)' /\ Held(e)'
  BY <1>2, <1>3, <1>5, NoDeliveryType, EventsAssumption DEF Works, Held
<1>8. \A v \in Workers : v # w => (Works(v, e)' <=> Works(v, e)) /\ worker'[v] = worker[v]
  BY <1>5 DEF Works
<1>9. AllOK(e)'
  <2>1. AllOK(e) /\ queued[e] # 0
    BY <1>1, <1>4 DEF EventsInv
  <2>2. e \in known /\ worker'[w].step \in {"check", "handle"} /\ (marking => worker'[w].step = "check")
    BY <1>3, <1>5, <2>1 DEF AllOK, EventOK
  <2>3. e \notin disturbed' => e \notin disturbed /\ (\A v \in Workers : ~Works(v, e)) /\ ~Held(e)
    BY <1>1 DEF Held
  <2>4. EventOK(e)'
    BY <1>2, <1>7, <1>8, <2>1, <2>2, <2>3 DEF AllOK, EventOK
  <2>5. Once(e)'
    BY <1>2, <1>7, <1>8, <2>1, <2>2, <2>3 DEF AllOK, Once
  <2>6. OneCopy(e)'
    <3>1. SUFFICES ASSUME ~marking, e \notin disturbed'
                   PROVE  handled[e] = 0 /\ queued'[e] + dead[e] + OwnCopy(e)' <= 1 + Letter(e)'
      BY <1>2 DEF OneCopy
    <3>2. handled[e] = 0 /\ queued[e] + dead[e] <= 1 + Letter(e)
      <4>1. handled[e] \in Nat /\ queued[e] \in Nat /\ dead[e] \in Nat
        BY DEF EventsInv, ETypeOK
      <4> QED BY <2>1, <2>3, <3>1, <4>1 DEF AllOK, OneCopy, OwnCopy, Letter
    <3>3. OwnCopy(e)' = 1 /\ Letter(e)' = Letter(e) /\ queued'[e] = queued[e] - 1
      BY <1>2, <1>5, <1>7 DEF OwnCopy, Letter
    <3>4. queued[e] \in Nat /\ dead[e] \in Nat
      BY DEF EventsInv, ETypeOK
    <3> QED BY <3>2, <3>3, <3>4 DEF Letter
  <2> QED BY <2>4, <2>5, <2>6 DEF AllOK
<1>10. Where(e) \in {"handled", "kept"} /\ Where(e)' = Where(e)
  BY <1>1, <1>2, <1>7 DEF Where
<1>11. ASSUME NEW d \in Events \ {e} PROVE AllOK(d)' /\ Where(d)' = Where(d)
  <2>1. \A v \in Workers : /\ Works(v, d)' <=> Works(v, d)
                           /\ Works(v, d) => worker'[v] = worker[v]
    BY <1>2, <1>3, NoDeliveryType, WorkerTurns, EventsAssumption DEF EventsInv
  <2>2. d \in disturbed => d \in disturbed'
    BY <1>1
  <2> QED BY <1>2, <1>5, <2>1, <2>2, Elsewhere DEF EventsInv
<1>12. \A d \in Events : AllOK(d)'
  BY <1>9, <1>11
<1> QED BY <1>6, <1>10, <1>11, <1>12 DEF EventsInv, OneMoves, Moves

\* The steps of a consumer that has an event.
LEMMA CheckInv ==
  ASSUME EventsInv, NEW w \in Workers, Check(w) PROVE EventsInv' /\ OneMoves
<1>0. PICK e \in Events : worker[w].event = e
  BY HasEvent DEF Check
<1> DEFINE to == IF e \in marked THEN "ack" ELSE "handle"
<1>1. /\ worker[w].step = "check" /\ worker[w] # NoDelivery /\ StepTo(w, to) /\ marking
      /\ UNCHANGED <<fifo, marking, queued, dead, marked, batch, sent, known, handled, disturbed, efaults>>
  BY <1>0, HasEvent DEF Check, deployment, EventsInv, WorkersOK
<1>2. /\ e \in Events
      /\ worker' \in [Workers -> Delivery] /\ WorkersOK'
      /\ worker'[w].event = e /\ worker'[w].step = to
      /\ \A v \in Workers : v # w => worker'[v] = worker[v]
      /\ \A v \in Workers, d \in Events : Works(v, d)' <=> Works(v, d)
      /\ \A d \in Events : Held(d)' <=> Held(d)
  BY <1>0, <1>1, WorkerSteps
<1>3. ETypeOK'
  BY <1>1, <1>2 DEF EventsInv, ETypeOK, Delivery
<1>4. ASSUME NEW d \in Events PROVE AllOK(d)' /\ Where(d)' = Where(d)
  <2>1. AllOK(d) /\ Where(d)' = Where(d)
    BY <1>1, <1>2 DEF EventsInv, Where
  <2>2. CASE d = e
    BY <1>1, <1>2, <2>1, <2>2 DEF AllOK, EventOK, Once, OneCopy, Works
  <2>3. CASE d # e
    BY <1>1, <1>2, <2>1, <2>3 DEF AllOK, EventOK, Once, OneCopy, Works
  <2> QED BY <2>1, <2>2, <2>3
<1> QED BY <1>2, <1>3, <1>4 DEF EventsInv, OneMoves, Moves

LEMMA HandleInv ==
  ASSUME EventsInv, NEW w \in Workers, HandleEvent(w) PROVE EventsInv' /\ OneMoves
<1>0. PICK e \in Events : worker[w].event = e
  BY HasEvent DEF HandleEvent
<1> DEFINE to == IF marking THEN "mark" ELSE "ack"
<1>1. /\ worker[w].step = "handle" /\ worker[w] # NoDelivery /\ StepTo(w, to)
      /\ handled' = [handled EXCEPT ![e] = @ + 1]
      /\ disturbed' = disturbed \cup {d \in {e} : ~marking /\ worker[w].late}
      /\ UNCHANGED <<fifo, marking, queued, dead, marked, batch, sent, known, efaults>>
  BY <1>0, HasEvent DEF HandleEvent, deployment
<1>2. /\ e \in Events
      /\ worker' \in [Workers -> Delivery] /\ WorkersOK'
      /\ worker'[w].event = e /\ worker'[w].step = to /\ worker'[w].late = worker[w].late
      /\ \A v \in Workers : v # w => worker'[v] = worker[v]
      /\ \A v \in Workers, d \in Events : Works(v, d)' <=> Works(v, d)
      /\ \A d \in Events : Held(d)' <=> Held(d)
  BY <1>0, <1>1, WorkerSteps
<1>3. handled \in [Events -> Nat] /\ disturbed \subseteq Events
  BY DEF EventsInv, ETypeOK
<1>4. handled' \in [Events -> Nat] /\ handled'[e] = handled[e] + 1 /\ handled[e] \in Nat
      /\ \A d \in Events : d # e => handled'[d] = handled[d]
  BY <1>1, <1>2, <1>3
<1>5. /\ disturbed \subseteq disturbed' /\ disturbed' \subseteq Events
      /\ e \notin disturbed' => e \notin disturbed /\ (marking \/ ~worker[w].late)
  BY <1>1, <1>2, <1>3
<1>6. ETypeOK'
  BY <1>1, <1>2, <1>4, <1>5 DEF EventsInv, ETypeOK, Delivery
<1>7. AllOK(e)'
  <2>1. EventOK(e) /\ Once(e) /\ OneCopy(e) /\ Works(w, e)
    BY <1>2 DEF EventsInv, AllOK, Works
  <2>2. e \in known /\ handled'[e] > 0
    BY <1>2, <1>4, <2>1 DEF EventOK
  <2>3. e \notin disturbed => \A v \in Workers : Works(v, e) => v = w
    BY <2>1 DEF EventOK
  <2>4. e \notin disturbed => handled[e] = 0
    <3>1. CASE marking
      <4>1. e \notin disturbed => e \notin marked
        BY <1>1, <2>1, <3>1 DEF Once
      <4>2. e \notin disturbed => handled[e] # 1 /\ handled[e] <= 1
        BY <1>1, <2>1, <2>3, <3>1, <4>1 DEF Once, EventOK
      <4> QED BY <1>4, <4>2
    <3>2. CASE ~marking
      <4>1. e \notin disturbed => ~(handled[e] > 0)
        BY <1>1, <2>1, <3>2 DEF OneCopy
      <4> QED BY <1>4, <4>1
    <3> QED BY <3>1, <3>2
  <2>5. EventOK(e)'
    <3>1. e \notin disturbed' => handled'[e] <= 1 /\ \A v \in Workers : Works(v, e)' => v = w
      BY <1>2, <1>4, <1>5, <2>3, <2>4
    <3>2. \A v, u \in Workers : v = w /\ u = w => v = u
      OBVIOUS
    <3>3. e \in marked' => handled'[e] > 0
      BY <2>2
    <3> QED BY <1>1, <1>2, <2>1, <2>2, <3>1, <3>2 DEF EventOK
  <2>6. Once(e)'
    BY <1>1, <1>2, <1>5, <2>1, <2>3 DEF Once
  <2>7. OneCopy(e)'
    <3>1. SUFFICES ASSUME ~marking, e \notin disturbed'
                   PROVE  /\ queued[e] = 0 /\ dead[e] <= Letter(e)
                          /\ \A v \in Workers : Works(v, e) => worker'[v].step = "ack" /\ ~worker'[v].late
      BY <1>1, <1>2, <2>2 DEF OneCopy, Letter
    <3>2. ~worker[w].late /\ Held(e) /\ handled[e] = 0
      BY <1>5, <2>1, <2>4, <3>1 DEF Held
    <3>3. queued[e] + dead[e] <= Letter(e)
      <4>1. queued[e] \in Nat /\ dead[e] \in Nat
        BY DEF EventsInv, ETypeOK
      <4> QED BY <1>5, <2>1, <3>1, <3>2, <4>1 DEF OneCopy, OwnCopy, Letter
    <3>4. sent = e => dead[e] > 0
      BY <2>1, EventsAssumption DEF EventsInv, ETypeOK, EventOK
    <3>5. queued[e] = 0 /\ dead[e] <= Letter(e)
      <4>1. queued[e] \in Nat /\ dead[e] \in Nat
        BY DEF EventsInv, ETypeOK
      <4> QED BY <3>3, <3>4, <4>1 DEF Letter
    <3>6. \A v \in Workers : Works(v, e) => worker'[v].step = "ack" /\ ~worker'[v].late
      BY <1>2, <1>5, <2>3, <3>1, <3>2
    <3> QED BY <3>5, <3>6
  <2> QED BY <2>5, <2>6, <2>7 DEF AllOK
<1>8. Moves(e)
  BY <1>1, <1>2, <1>4 DEF Moves, Where, Works
<1>9. ASSUME NEW d \in Events \ {e} PROVE AllOK(d)' /\ Where(d)' = Where(d)
  <2>1. \A v \in Workers : /\ Works(v, d)' <=> Works(v, d)
                           /\ Works(v, d) => worker'[v] = worker[v]
    BY <1>2 DEF Works
  <2>2. /\ queued'[d] = queued[d] /\ dead'[d] = dead[d] /\ handled'[d] = handled[d]
        /\ known' = known /\ marked' = marked /\ batch' = batch /\ sent' = sent
        /\ marking' = marking /\ (d \in disturbed => d \in disturbed')
    BY <1>1, <1>4, <1>5
  <2>3. AllOK(d)
    BY DEF EventsInv
  <2> QED BY <2>1, <2>2, <2>3, Elsewhere
<1>10. \A d \in Events : AllOK(d)'
  BY <1>7, <1>9
<1> QED BY <1>2, <1>6, <1>8, <1>9, <1>10 DEF EventsInv, OneMoves

LEMMA MarkInv ==
  ASSUME EventsInv, NEW w \in Workers, MarkProcessed(w) PROVE EventsInv' /\ OneMoves
<1>0. PICK e \in Events : worker[w].event = e
  BY HasEvent DEF MarkProcessed
<1>1. /\ worker[w].step = "mark" /\ worker[w] # NoDelivery /\ StepTo(w, "ack") /\ marking
      /\ marked' = marked \cup {e}
      /\ UNCHANGED <<fifo, marking, queued, dead, batch, sent, known, handled, disturbed, efaults>>
  BY <1>0, HasEvent DEF MarkProcessed, deployment, EventsInv, WorkersOK
<1>2. /\ e \in Events
      /\ worker' \in [Workers -> Delivery] /\ WorkersOK'
      /\ worker'[w].event = e /\ worker'[w].step = "ack"
      /\ \A v \in Workers : v # w => worker'[v] = worker[v]
      /\ \A v \in Workers, d \in Events : Works(v, d)' <=> Works(v, d)
      /\ \A d \in Events : Held(d)' <=> Held(d)
  BY <1>0, <1>1, WorkerSteps
<1>3. ETypeOK'
  BY <1>1, <1>2 DEF EventsInv, ETypeOK, Delivery
<1>4. AllOK(e)'
  <2>1. EventOK(e) /\ Once(e) /\ Works(w, e)
    BY <1>2 DEF EventsInv, AllOK, Works
  <2>2. handled[e] > 0 /\ e \in marked'
    BY <1>1, <1>2, <2>1 DEF EventOK
  <2>3. e \notin disturbed => \A v \in Workers : Works(v, e) => v = w
    BY <2>1 DEF EventOK
  <2>4. EventOK(e)'
    BY <1>1, <1>2, <2>1, <2>2, <2>3 DEF EventOK
  <2>5. Once(e)' /\ OneCopy(e)'
    BY <1>1, <1>2, <2>1, <2>2, <2>3 DEF Once, OneCopy
  <2> QED BY <2>4, <2>5 DEF AllOK
<1>5. ASSUME NEW d \in Events \ {e} PROVE AllOK(d)'
  <2>1. \A v \in Workers : /\ Works(v, d)' <=> Works(v, d)
                           /\ Works(v, d) => worker'[v] = worker[v]
    BY <1>2 DEF Works
  <2>2. /\ queued' = queued /\ dead' = dead /\ handled' = handled /\ known' = known
        /\ d \in marked' <=> d \in marked
        /\ disturbed' = disturbed /\ batch' = batch /\ sent' = sent /\ marking' = marking
    BY <1>1
  <2>3. AllOK(d)
    BY DEF EventsInv
  <2> QED BY <2>1, <2>2, <2>3, Elsewhere
<1>6. \A d \in Events : Where(d)' = Where(d)
  BY <1>1, <1>2 DEF Where
<1>7. \A d \in Events : AllOK(d)'
  BY <1>4, <1>5
<1> QED BY <1>2, <1>3, <1>6, <1>7 DEF EventsInv, OneMoves, Moves

\* A consumer that is done with its event, or dies.
LEMMA WorkerLeaves ==
  ASSUME EventsInv, NEW w \in Workers, worker[w] # NoDelivery, marking' = marking,
         worker' = [worker EXCEPT ![w] = NoDelivery]
  PROVE  /\ worker[w].event \in Events
         /\ worker' \in [Workers -> Delivery] /\ WorkersOK'
         /\ \A v \in Workers : v # w => worker'[v] = worker[v]
         /\ \A d \in Events : ~Works(w, d)'
         /\ \A d \in Events : d # worker[w].event =>
              \A v \in Workers : /\ Works(v, d)' <=> Works(v, d)
                                 /\ Works(v, d) => worker'[v] = worker[v]
<1>1. worker \in [Workers -> Delivery] /\ worker[w].event \in Events
  BY DEF EventsInv, ETypeOK, WorkersOK, Delivery
<1>2. /\ worker' \in [Workers -> Delivery] /\ worker'[w] = NoDelivery
      /\ \A v \in Workers : v # w => worker'[v] = worker[v]
  BY <1>1, NoDeliveryType
<1>3. WorkersOK'
  BY <1>1, <1>2 DEF EventsInv, WorkersOK
<1>4. \A d \in Events : ~Works(w, d)'
  BY <1>2, NoDeliveryType, EventsAssumption DEF Works
<1>5. ASSUME NEW d \in Events, d # worker[w].event
      PROVE  \A v \in Workers : /\ Works(v, d)' <=> Works(v, d)
                                /\ Works(v, d) => worker'[v] = worker[v]
  BY <1>2, <1>4, <1>5 DEF Works
<1> QED BY <1>1, <1>2, <1>3, <1>4, <1>5

LEMMA AcknowledgeInv ==
  ASSUME EventsInv, NEW w \in Workers, Acknowledge(w) PROVE EventsInv' /\ OneMoves
<1>0. PICK e \in Events : worker[w].event = e
  BY HasEvent DEF Acknowledge
<1>1. /\ worker[w].step = "ack" /\ worker[w] # NoDelivery
      /\ worker' = [worker EXCEPT ![w] = NoDelivery]
      /\ UNCHANGED <<fifo, marking, queued, dead, marked, batch, sent, known, handled, disturbed, efaults>>
  BY <1>0, HasEvent DEF Acknowledge, deployment
<1>2. /\ e \in Events
      /\ worker' \in [Workers -> Delivery] /\ WorkersOK'
      /\ \A v \in Workers : v # w => worker'[v] = worker[v]
      /\ \A d \in Events : ~Works(w, d)'
      /\ \A d \in Events : d # e =>
           \A v \in Workers : /\ Works(v, d)' <=> Works(v, d)
                              /\ Works(v, d) => worker'[v] = worker[v]
  BY <1>0, <1>1, WorkerLeaves
<1>3. ETypeOK'
  BY <1>1, <1>2 DEF EventsInv, ETypeOK, Delivery
<1>4. EventOK(e) /\ Once(e) /\ OneCopy(e) /\ Works(w, e) /\ handled[e] > 0 /\ handled[e] \in Nat
  BY <1>0, <1>1, <1>2 DEF EventsInv, ETypeOK, AllOK, EventOK, Works
<1>5. AllOK(e)'
  <2>1. \A v \in Workers : Works(v, e)' => Works(v, e) /\ v # w /\ worker'[v] = worker[v]
    BY <1>2 DEF Works
  <2>2. marking /\ e \notin disturbed => (handled[e] = 1 => e \in marked)
    BY <1>1, <1>4 DEF EventOK, Once
  <2>3. EventOK(e)'
    BY <1>1, <1>4, <2>1 DEF EventOK
  <2>4. Once(e)'
    BY <1>1, <1>4, <2>1, <2>2 DEF Once
  <2>5. OneCopy(e)'
    BY <1>1, <1>4, <2>1 DEF OneCopy, Letter
  <2> QED BY <2>3, <2>4, <2>5 DEF AllOK
<1>6. Where(e)' = Where(e)
  BY <1>1, <1>4 DEF Where
<1>7. ASSUME NEW d \in Events \ {e} PROVE AllOK(d)' /\ Where(d)' = Where(d)
  <2>1. AllOK(d) /\ d # e
    BY DEF EventsInv
  <2>2. \A v \in Workers : /\ Works(v, d)' <=> Works(v, d)
                           /\ Works(v, d) => worker'[v] = worker[v]
    BY <1>2
  <2> QED BY <1>1, <2>1, <2>2, Elsewhere
<1>8. \A d \in Events : AllOK(d)'
  BY <1>5, <1>7
<1> QED BY <1>2, <1>3, <1>6, <1>7, <1>8 DEF EventsInv, OneMoves, Moves
-----------------------------------------------------------------------------
(* Failures.                                                               *)

\* The queue has another copy, or the dead letter queue has.
LEMMA TakenBack ==
  ASSUME EventsInv, NEW e \in Events, TakeBack(e)
  PROVE  /\ queued' \in [Events -> Nat] /\ dead' \in [Events -> Nat]
         /\ queued'[e] >= queued[e] /\ dead'[e] >= dead[e]
         /\ queued'[e] > 0 \/ dead'[e] > dead[e]
         /\ queued'[e] + dead'[e] = queued[e] + dead[e] + 1
         /\ \A d \in Events : d # e => queued'[d] = queued[d] /\ dead'[d] = dead[d]
<1>1. queued \in [Events -> Nat] /\ dead \in [Events -> Nat] /\ queued[e] \in Nat /\ dead[e] \in Nat
  BY DEF EventsInv, ETypeOK
<1>2. CASE queued' = [queued EXCEPT ![e] = @ + 1] /\ dead' = dead
  BY <1>1, <1>2
<1>3. CASE dead' = [dead EXCEPT ![e] = @ + 1] /\ queued' = queued
  BY <1>1, <1>3
<1> QED BY <1>2, <1>3 DEF TakeBack

\* A consumer that the queue has given up owns no copy; one that it has not leaves one.
LEMMA WorkerFailsInv ==
  ASSUME EventsInv, NEW w \in Workers, WorkerFails(w) PROVE EventsInv' /\ OneMoves
<1>0. PICK e \in Events : worker[w].event = e
  BY HasEvent DEF WorkerFails
<1>1. /\ worker[w] # NoDelivery /\ efaults < MaxEFaults /\ efaults' = efaults + 1
      /\ worker' = [worker EXCEPT ![w] = NoDelivery]
      /\ disturbed' = disturbed \cup {d \in {e} : Unmarked(w)}
      /\ IF worker[w].late THEN UNCHANGED <<queued, dead>> ELSE TakeBack(e)
      /\ UNCHANGED <<fifo, marking, marked, batch, sent, known, handled>>
  BY <1>0 DEF WorkerFails, Fault, deployment
<1>2. /\ e \in Events
      /\ worker' \in [Workers -> Delivery] /\ WorkersOK'
      /\ \A v \in Workers : v # w => worker'[v] = worker[v]
      /\ \A d \in Events : ~Works(w, d)'
      /\ \A d \in Events : d # e =>
           \A v \in Workers : /\ Works(v, d)' <=> Works(v, d)
                              /\ Works(v, d) => worker'[v] = worker[v]
  BY <1>0, <1>1, WorkerLeaves
<1>3. /\ queued \in [Events -> Nat] /\ dead \in [Events -> Nat]
      /\ disturbed \subseteq Events /\ efaults \in 0..MaxEFaults
  BY DEF EventsInv, ETypeOK
<1>4. /\ queued' \in [Events -> Nat] /\ dead' \in [Events -> Nat]
      /\ queued'[e] >= queued[e] /\ dead'[e] >= dead[e]
      /\ worker[w].late \/ queued'[e] > 0 \/ dead'[e] > dead[e]
      /\ queued'[e] + dead'[e] = queued[e] + dead[e] + (IF worker[w].late THEN 0 ELSE 1)
      /\ \A d \in Events : d # e => queued'[d] = queued[d] /\ dead'[d] = dead[d]
  <2>1. CASE worker[w].late
    <3>1. queued[e] \in Nat /\ dead[e] \in Nat
      BY <1>2, <1>3
    <3> QED BY <1>1, <1>3, <2>1, <3>1
  <2>2. CASE ~worker[w].late
    BY <1>1, <1>2, <2>2, TakenBack
  <2> QED BY <2>1, <2>2
<1>5. ETypeOK'
  BY <1>1, <1>2, <1>3, <1>4, EventsAssumption DEF EventsInv, ETypeOK, Delivery
<1>6. /\ EventOK(e) /\ Once(e) /\ OneCopy(e) /\ Works(w, e) /\ e \in known
      /\ queued[e] \in Nat /\ dead[e] \in Nat /\ queued'[e] \in Nat /\ dead'[e] \in Nat
  BY <1>0, <1>2, <1>3, <1>4 DEF EventsInv, AllOK, EventOK, Works
<1>7. \A v \in Workers : Works(v, e)' <=> Works(v, e) /\ v # w
  BY <1>2 DEF Works
<1>8. worker[w].late => (Held(e) => Held(e)')
  BY <1>2, <1>7 DEF Held
<1>9. AllOK(e)'
  <2>1. handled[e] = 0 => queued'[e] > 0 \/ dead'[e] > 0 \/ Held(e)'
    BY <1>4, <1>6, <1>8 DEF EventOK
  <2>2. e \in batch => dead'[e] > 0
    BY <1>4, <1>6 DEF EventOK
  <2>3. sent = e /\ handled[e] = 0 => queued'[e] > 0 \/ dead'[e] > 1 \/ Held(e)'
    <3>1. sent = e => dead[e] > 0
      BY <1>2, <1>6, EventsAssumption DEF EventsInv, ETypeOK, EventOK
    <3> QED BY <1>4, <1>6, <1>8, <3>1 DEF EventOK
  <2>4. e \notin disturbed' => e \notin disturbed /\ ~Unmarked(w)
    BY <1>1
  <2>5. \A v \in Workers : Works(v, e)' => Works(v, e) /\ worker'[v] = worker[v]
    BY <1>2, <1>7
  <2>6. \A v \in Workers : Works(v, e) /\ v # w => Works(v, e)' /\ worker'[v] = worker[v]
    BY <1>2, <1>7
  <2>7. /\ e \in known' /\ handled' = handled /\ marked' = marked /\ sent' = sent /\ batch' = batch
        /\ marking' = marking
    BY <1>1, <1>6
  <2>8. Once(e)'
    <3>1. marking /\ e \notin disturbed' /\ handled[e] = 1 =>
            e \in marked \/ \E v \in Workers : Works(v, e)' /\ worker'[v].step = "mark"
      BY <1>6, <2>4, <2>6 DEF Once, Unmarked
    <3>2. marking /\ e \notin disturbed' =>
            \A v \in Workers : Works(v, e)' /\ worker'[v].step = "handle" => e \notin marked
      BY <1>6, <2>4, <2>5 DEF Once
    <3> QED BY <2>7, <3>1, <3>2 DEF Once
  <2>9. e \in marked' => handled'[e] > 0
    BY <1>6, <2>7 DEF EventOK
  <2>10. \A v \in Workers : Works(v, e)' /\ worker'[v].step \in {"mark", "ack"} => handled'[e] > 0
    BY <1>6, <2>5, <2>7 DEF EventOK
  <2>11. e \notin disturbed' =>
           /\ \A u, v \in Workers : Works(u, e)' /\ Works(v, e)' => u = v
           /\ handled'[e] <= 1
    BY <1>6, <2>4, <2>5, <2>7 DEF EventOK
  <2>12. EventOK(e)'
    BY <2>1, <2>2, <2>3, <2>7, <2>9, <2>10, <2>11 DEF EventOK
  <2>13. OneCopy(e)'
    <3>1. SUFFICES ASSUME ~marking, e \notin disturbed'
                   PROVE  handled[e] = 0 /\ queued'[e] + dead'[e] + OwnCopy(e)' <= 1 + Letter(e)'
      BY <2>7 DEF OneCopy
    <3>2. worker[w].step = "handle" /\ e \notin disturbed
      BY <1>1, <2>4, <3>1 DEF Unmarked, EventsInv, WorkersOK
    <3>3. handled[e] = 0
      <4>1. ~(handled[e] > 0) /\ handled[e] \in Nat
        BY <1>2, <1>6, <3>1, <3>2 DEF OneCopy, EventsInv, ETypeOK
      <4> QED BY <4>1
    <3>4. \A v \in Workers : Works(v, e) => v = w
      BY <1>6, <3>2 DEF EventOK
    <3>5. OwnCopy(e)' = 0 /\ OwnCopy(e) = (IF worker[w].late THEN 0 ELSE 1)
      BY <1>6, <1>7, <3>4 DEF OwnCopy, Held
    <3>6. queued[e] + dead[e] + OwnCopy(e) <= 1 + Letter(e) /\ Letter(e)' = Letter(e)
      BY <1>6, <2>7, <3>1, <3>2, <3>3 DEF OneCopy, Letter
    <3> QED BY <1>4, <1>6, <3>3, <3>5, <3>6 DEF Letter
  <2> QED BY <2>8, <2>12, <2>13 DEF AllOK
<1>10. Moves(e)
  <2>1. handled[e] = 0 => queued'[e] > 0 \/ dead'[e] > 0 \/ Held(e)'
    BY <1>4, <1>6, <1>8 DEF EventOK
  <2>2. Held(e)' => \E v \in Workers : Works(v, e)'
    BY DEF Held
  <2>3. Where(e) \in {"handled", "kept"} /\ (Where(e) = "handled" <=> handled[e] > 0)
    BY <1>6 DEF Where
  <2>4. handled' = handled /\ handled[e] \in Nat
    BY <1>1, <1>2 DEF EventsInv, ETypeOK
  <2>5. Where(e)' \in {"handled", "kept", "parked"} /\ (Where(e)' = "handled" <=> handled[e] > 0)
    BY <2>1, <2>2, <2>4 DEF Where
  <2> QED BY <2>3, <2>5 DEF Moves
<1>11. ASSUME NEW d \in Events \ {e} PROVE AllOK(d)' /\ Where(d)' = Where(d)
  <2>1. AllOK(d) /\ d # e
    BY DEF EventsInv
  <2>2. /\ \A v \in Workers : /\ Works(v, d)' <=> Works(v, d)
                              /\ Works(v, d) => worker'[v] = worker[v]
        /\ queued'[d] = queued[d] /\ dead'[d] = dead[d]
    BY <1>2, <1>4
  <2>3. /\ d \in disturbed => d \in disturbed'
        /\ marked' = marked /\ batch' = batch /\ sent' = sent /\ known' = known /\ handled' = handled
        /\ marking' = marking
    BY <1>1
  <2> QED BY <2>1, <2>2, <2>3, Elsewhere
<1>12. \A d \in Events : AllOK(d)'
  BY <1>9, <1>11
<1> QED BY <1>2, <1>5, <1>10, <1>11, <1>12 DEF EventsInv, OneMoves

LEMMA TimeoutInv ==
  ASSUME EventsInv, NEW w \in Workers, VisibilityTimeout(w) PROVE EventsInv' /\ OneMoves
<1>0. PICK e \in Events : worker[w].event = e
  BY HasEvent DEF VisibilityTimeout
<1>1. /\ efaults < MaxEFaults /\ efaults' = efaults + 1 /\ TakeBack(e)
      /\ worker[w] # NoDelivery /\ ~worker[w].late
      /\ worker' = [worker EXCEPT ![w].late = TRUE]
      /\ disturbed' = disturbed \cup {d \in {e} : ~marking /\ Unmarked(w)}
      /\ UNCHANGED <<fifo, marking, marked, batch, sent, known, handled>>
  BY <1>0 DEF VisibilityTimeout, Fault, deployment
<1>2. worker \in [Workers -> Delivery] /\ efaults \in 0..MaxEFaults /\ disturbed \subseteq Events
  BY DEF EventsInv, ETypeOK, Delivery
<1> DEFINE x == [worker[w] EXCEPT !.late = TRUE]
<1>3. /\ x \in Delivery /\ x.event = e /\ x.step = worker[w].step /\ x.late
      /\ worker' = [worker EXCEPT ![w] = x]
  BY <1>0, <1>1, <1>2 DEF Delivery
<1> HIDE DEF x
<1>4. /\ worker' \in [Workers -> Delivery] /\ worker'[w] = x
      /\ \A v \in Workers : v # w => worker'[v] = worker[v]
  BY <1>2, <1>3
<1>5. /\ queued' \in [Events -> Nat] /\ dead' \in [Events -> Nat]
      /\ queued'[e] >= queued[e] /\ dead'[e] >= dead[e]
      /\ queued'[e] > 0 \/ dead'[e] > dead[e]
      /\ queued'[e] + dead'[e] = queued[e] + dead[e] + 1
      /\ \A d \in Events : d # e => queued'[d] = queued[d] /\ dead'[d] = dead[d]
  BY <1>1, TakenBack
<1>6. ETypeOK' /\ WorkersOK'
  <2>1. WorkersOK'
    BY <1>1, <1>3, <1>4 DEF EventsInv, WorkersOK
  <2> QED BY <1>1, <1>2, <1>4, <1>5, <2>1, EventsAssumption DEF EventsInv, ETypeOK, Delivery
<1>7. \A v \in Workers : (Works(v, e)' <=> Works(v, e)) /\ worker'[v].step = worker[v].step
  BY <1>0, <1>3, <1>4 DEF Works
<1>8. /\ EventOK(e) /\ Once(e) /\ OneCopy(e) /\ Works(w, e) /\ Works(w, e)' /\ e \in known
      /\ queued[e] \in Nat /\ dead[e] \in Nat /\ queued'[e] \in Nat /\ dead'[e] \in Nat
  BY <1>0, <1>5, <1>7 DEF EventsInv, ETypeOK, AllOK, EventOK, Works
<1>9. AllOK(e)'
  <2>1. queued'[e] > 0 \/ dead'[e] > 0
    BY <1>5, <1>8
  <2>2. sent = e => dead[e] > 0
    BY <1>8, EventsAssumption DEF EventsInv, ETypeOK, EventOK
  <2>3. sent = e => queued'[e] > 0 \/ dead'[e] > 1
    BY <1>5, <1>8, <2>2
  <2>4. e \in batch => dead'[e] > 0
    BY <1>5, <1>8 DEF EventOK
  <2>5. e \notin disturbed' => e \notin disturbed /\ (~marking => ~Unmarked(w))
    BY <1>1
  <2>6. EventOK(e)'
    BY <1>1, <1>7, <1>8, <2>1, <2>3, <2>4, <2>5 DEF EventOK
  <2>7. Once(e)'
    BY <1>1, <1>7, <1>8, <2>5 DEF Once
  <2>8. OneCopy(e)'
    <3>1. SUFFICES ASSUME ~marking, e \notin disturbed'
                   PROVE  handled[e] = 0 /\ queued'[e] + dead'[e] + OwnCopy(e)' <= 1 + Letter(e)'
      BY <1>1 DEF OneCopy
    <3>2. worker[w].step = "handle" /\ e \notin disturbed
      BY <1>1, <2>5, <3>1 DEF Unmarked, EventsInv, WorkersOK
    <3>3. handled[e] = 0
      <4>1. ~(handled[e] > 0) /\ handled[e] \in Nat
        BY <1>8, <3>1, <3>2 DEF OneCopy, EventsInv, ETypeOK
      <4> QED BY <4>1
    <3>4. \A v \in Workers : Works(v, e) => v = w
      BY <1>8, <3>2 DEF EventOK
    <3>5. OwnCopy(e)' = 0 /\ OwnCopy(e) = 1
      BY <1>1, <1>3, <1>4, <1>7, <1>8, <3>4 DEF OwnCopy, Held
    <3>6. queued[e] + dead[e] + OwnCopy(e) <= 1 + Letter(e) /\ Letter(e)' = Letter(e)
      BY <1>1, <1>8, <3>1, <3>2, <3>3 DEF OneCopy, Letter
    <3> QED BY <1>5, <1>8, <3>3, <3>5, <3>6 DEF Letter
  <2> QED BY <2>6, <2>7, <2>8 DEF AllOK
<1>10. Where(e)' = Where(e)
  BY <1>1, <1>8 DEF Where
<1>11. ASSUME NEW d \in Events \ {e} PROVE AllOK(d)' /\ Where(d)' = Where(d)
  <2>1. AllOK(d) /\ d # e
    BY DEF EventsInv
  <2>2. /\ \A v \in Workers : /\ Works(v, d)' <=> Works(v, d)
                              /\ Works(v, d) => worker'[v] = worker[v]
        /\ queued'[d] = queued[d] /\ dead'[d] = dead[d]
    BY <1>0, <1>3, <1>4, <1>5 DEF Works
  <2>3. /\ d \in disturbed => d \in disturbed'
        /\ marked' = marked /\ batch' = batch /\ sent' = sent /\ known' = known /\ handled' = handled
        /\ marking' = marking
    BY <1>1
  <2> QED BY <2>1, <2>2, <2>3, Elsewhere
<1>12. \A d \in Events : AllOK(d)'
  BY <1>9, <1>11
<1> QED BY <1>6, <1>10, <1>11, <1>12 DEF EventsInv, OneMoves, Moves

LEMMA MarkExpiresInv ==
  ASSUME EventsInv, MarkExpires PROVE EventsInv' /\ OneMoves
<1>1. PICK e \in marked : marked' = marked \ {e} /\ disturbed' = disturbed \cup {e}
  BY DEF MarkExpires
<1>2. /\ efaults < MaxEFaults /\ efaults' = efaults + 1
      /\ UNCHANGED <<fifo, marking, queued, dead, worker, batch, sent, known, handled>>
  BY DEF MarkExpires, Fault, deployment
<1>3. ETypeOK' /\ WorkersOK' /\ e \in Events
  BY <1>1, <1>2, EventsAssumption DEF EventsInv, ETypeOK, WorkersOK
<1>4. \A d \in Events : /\ \A v \in Workers : Works(v, d)' <=> Works(v, d)
                        /\ Held(d)' <=> Held(d)
                        /\ Where(d)' = Where(d)
  BY <1>2 DEF Works, Held, Where
<1>5. AllOK(e)'
  <2>1. EventOK(e)'
    BY <1>1, <1>2, <1>3, <1>4 DEF EventsInv, AllOK, EventOK
  <2>2. e \in disturbed'
    BY <1>1
  <2> QED BY <2>1, <2>2 DEF AllOK, Once, OneCopy
<1>6. ASSUME NEW d \in Events \ {e} PROVE AllOK(d)'
  <2>1. AllOK(d) /\ (d \in marked' <=> d \in marked) /\ (d \in disturbed => d \in disturbed')
    BY <1>1 DEF EventsInv
  <2> QED BY <1>2, <1>4, <2>1, Elsewhere
<1>7. \A d \in Events : AllOK(d)'
  BY <1>5, <1>6
<1> QED BY <1>3, <1>4, <1>7 DEF EventsInv, OneMoves, Moves
-----------------------------------------------------------------------------
(* The replay.                                                             *)

LEMMA ReplayStartInv ==
  ASSUME EventsInv, ReplayStart PROVE EventsInv' /\ \A d \in Events : Where(d)' = Where(d)
<1>1. /\ batch = {} /\ batch' = {e \in Events : dead[e] > 0}
      /\ UNCHANGED <<fifo, marking, queued, dead, worker, marked, sent, known, handled, disturbed, efaults>>
  BY DEF ReplayStart, deployment
<1>2. sent = Null
  BY <1>1 DEF EventsInv, ETypeOK
<1>3. ETypeOK' /\ WorkersOK'
  BY <1>1, <1>2 DEF EventsInv, ETypeOK, WorkersOK
<1>4. ASSUME NEW d \in Events PROVE AllOK(d)' /\ Where(d)' = Where(d)
  <2>1. EventOK(d) /\ Once(d) /\ OneCopy(d) /\ (Held(d)' <=> Held(d))
    BY <1>1 DEF EventsInv, AllOK, Held, Works
  <2>2. EventOK(d)' /\ Where(d)' = Where(d)
    BY <1>1, <2>1 DEF EventOK, Works, Where
  <2>3. Once(d)'
    BY <1>1, <2>1 DEF Once, Works
  <2>4. OneCopy(d)'
    BY <1>1, <2>1 DEF OneCopy, OwnCopy, Letter, Works
  <2> QED BY <2>2, <2>3, <2>4 DEF AllOK
<1> QED BY <1>3, <1>4 DEF EventsInv

\* Copies of the event are all that a replay changes.
LEMMA ReplaySendInv ==
  ASSUME EventsInv, ReplaySend PROVE EventsInv' /\ OneMoves
<1>1. PICK e \in batch :
        IF fifo
        THEN batch' = batch \ {e} /\ UNCHANGED <<queued, sent>>
        ELSE /\ queued' = [queued EXCEPT ![e] = @ + 1]
             /\ sent' = e /\ batch' = batch
  BY DEF ReplaySend
<1>2. /\ sent = Null
      /\ UNCHANGED <<fifo, marking, dead, worker, marked, known, handled, disturbed, efaults>>
  BY DEF ReplaySend, deployment
<1>3. e \in Events /\ dead[e] > 0 /\ EventOK(e) /\ Once(e) /\ OneCopy(e) /\ queued \in [Events -> Nat]
      /\ queued[e] \in Nat /\ dead[e] \in Nat
  BY DEF EventsInv, ETypeOK, AllOK, EventOK
<1>4. /\ queued' \in [Events -> Nat]
      /\ queued'[e] = queued[e] \/ (queued'[e] = queued[e] + 1 /\ sent' = e)
      /\ \A d \in Events : d # e => queued'[d] = queued[d]
      /\ sent' = Null \/ (sent' = e /\ queued'[e] > 0)
      /\ batch' \subseteq batch /\ sent' \in batch' \cup {Null}
  <2>1. CASE fifo
    <3>1. batch' = batch \ {e} /\ queued' = queued /\ sent' = Null
      BY <1>1, <1>2, <2>1
    <3> QED BY <1>3, <3>1
  <2>2. CASE ~fifo
    BY <1>1, <1>2, <1>3, <2>2
  <2> QED BY <2>1, <2>2
<1>5. ETypeOK' /\ WorkersOK'
  BY <1>2, <1>4 DEF EventsInv, ETypeOK, WorkersOK
<1>6. /\ \A v \in Workers, d \in Events : Works(v, d)' <=> Works(v, d)
      /\ \A d \in Events : Held(d)' <=> Held(d)
  BY <1>2 DEF Works, Held
<1>7. AllOK(e)' /\ Moves(e)
  <2>1. e \in known /\ queued'[e] >= queued[e] /\ queued'[e] \in Nat
    BY <1>3, <1>4 DEF EventOK
  <2>2. EventOK(e)'
    BY <1>2, <1>3, <1>4, <1>6, <2>1, EventsAssumption DEF EventOK
  <2>3. Where(e) \in {"handled", "kept", "parked"} /\ (Where(e) = "handled" <=> handled[e] > 0)
    BY <1>3 DEF Where
  <2>4. Where(e)' = Where(e) \/ (Where(e) = "parked" /\ Where(e)' = "kept")
    BY <1>2, <1>3, <1>4, <1>6, <2>1 DEF Where
  <2>5. Once(e)'
    BY <1>2, <1>3, <1>6 DEF Once
  <2>6. OneCopy(e)'
    <3>1. SUFFICES ASSUME ~marking, e \notin disturbed
                   PROVE  handled[e] = 0 /\ queued'[e] + dead[e] + OwnCopy(e)' <= 1 + Letter(e)'
      BY <1>2 DEF OneCopy
    <3>2. Letter(e) = 0 /\ OwnCopy(e)' = OwnCopy(e) /\ OwnCopy(e) \in {0, 1}
      BY <1>2, <1>3, <1>6, EventsAssumption DEF Letter, OwnCopy
    <3>3. handled[e] = 0
      <4>1. ~(handled[e] > 0) /\ handled[e] \in Nat
        BY <1>3, <3>1, <3>2 DEF OneCopy, EventsInv, ETypeOK
      <4> QED BY <4>1
    <3>4. queued[e] + dead[e] + OwnCopy(e) <= 1
      BY <1>3, <3>1, <3>2, <3>3 DEF OneCopy
    <3>5. queued'[e] = queued[e] \/ (queued'[e] = queued[e] + 1 /\ Letter(e)' = 1)
      BY <1>4 DEF Letter
    <3> QED BY <1>3, <3>2, <3>3, <3>4, <3>5 DEF Letter
  <2> QED BY <2>2, <2>4, <2>5, <2>6 DEF Moves, AllOK
<1>8. ASSUME NEW d \in Events \ {e} PROVE AllOK(d)' /\ Where(d)' = Where(d)
  <2>1. AllOK(d) /\ queued'[d] = queued[d] /\ (d \in batch' => d \in batch) /\ sent' # d /\ sent # d
    BY <1>2, <1>4, EventsAssumption DEF EventsInv
  <2> QED BY <1>2, <1>6, <2>1, Elsewhere
<1>9. \A d \in Events : AllOK(d)'
  BY <1>7, <1>8
<1> QED BY <1>3, <1>5, <1>7, <1>8, <1>9 DEF EventsInv, OneMoves

\* The letter deleted has a copy besides.
LEMMA ReplayDeleteInv ==
  ASSUME EventsInv, ReplayDelete PROVE EventsInv' /\ OneMoves
<1>0. PICK e \in batch : e = sent
  BY DEF ReplayDelete, EventsInv, ETypeOK
<1>1. /\ dead' = [dead EXCEPT ![e] = @ - 1] /\ batch' = batch \ {e} /\ sent' = Null
      /\ UNCHANGED <<fifo, marking, queued, worker, marked, known, handled, disturbed, efaults>>
  BY <1>0 DEF ReplayDelete, deployment
<1>2. /\ e \in Events /\ EventOK(e) /\ Once(e) /\ OneCopy(e)
      /\ dead \in [Events -> Nat] /\ queued[e] \in Nat /\ dead[e] > 0 /\ handled[e] \in Nat
  BY DEF EventsInv, ETypeOK, AllOK, EventOK
<1>3. /\ dead' \in [Events -> Nat] /\ dead'[e] = dead[e] - 1
      /\ \A d \in Events : d # e => dead'[d] = dead[d]
  <2>1. dead[e] - 1 \in Nat
    BY <1>2
  <2> QED BY <1>1, <1>2, <2>1
<1>4. ETypeOK' /\ WorkersOK'
  BY <1>1, <1>3 DEF EventsInv, ETypeOK, WorkersOK
<1>5. /\ \A v \in Workers, d \in Events : Works(v, d)' <=> Works(v, d)
      /\ \A d \in Events : Held(d)' <=> Held(d)
  BY <1>1 DEF Works, Held
<1>6. e \in known /\ (handled[e] = 0 => queued[e] > 0 \/ dead'[e] > 0 \/ Held(e))
  BY <1>0, <1>2, <1>3 DEF EventOK
<1>7. AllOK(e)'
  <2>1. EventOK(e)'
    BY <1>1, <1>2, <1>5, <1>6, EventsAssumption DEF EventOK
  <2>2. Once(e)'
    BY <1>1, <1>2, <1>5 DEF Once
  <2>3. OwnCopy(e)' = OwnCopy(e) /\ OwnCopy(e) \in {0, 1} /\ Letter(e) = 1 /\ Letter(e)' = 0 /\ dead[e] \in Nat
    BY <1>0, <1>1, <1>2, <1>5, EventsAssumption DEF OwnCopy, Letter
  <2>4. OneCopy(e)'
    BY <1>1, <1>2, <1>3, <1>5, <2>3 DEF OneCopy
  <2> QED BY <2>1, <2>2, <2>4 DEF AllOK
<1>8. Where(e)' = Where(e)
  <2>1. Held(e) => \E v \in Workers : Works(v, e)
    BY DEF Held
  <2> QED BY <1>1, <1>2, <1>3, <1>5, <1>6, <2>1 DEF Where
<1>9. ASSUME NEW d \in Events \ {e} PROVE AllOK(d)' /\ Where(d)' = Where(d)
  <2>1. AllOK(d) /\ dead'[d] = dead[d] /\ (d \in batch' => d \in batch) /\ sent' # d /\ sent # d
    BY <1>0, <1>1, <1>3, EventsAssumption DEF EventsInv
  <2> QED BY <1>1, <1>5, <2>1, Elsewhere
<1>10. \A d \in Events : AllOK(d)'
  BY <1>7, <1>9
<1> QED BY <1>2, <1>4, <1>8, <1>9, <1>10 DEF EventsInv, OneMoves, Moves

LEMMA ReplayFailsInv ==
  ASSUME EventsInv, ReplayFails PROVE EventsInv' /\ \A d \in Events : Where(d)' = Where(d)
<1>1. /\ efaults < MaxEFaults /\ efaults' = efaults + 1 /\ sent' = Null /\ batch' \subseteq batch
      /\ disturbed' = disturbed \cup {d \in Events : d = sent /\ ~marking}
      /\ UNCHANGED <<fifo, marking, queued, dead, worker, marked, known, handled>>
  BY DEF ReplayFails, Fault, deployment
<1>2. ETypeOK' /\ WorkersOK'
  BY <1>1, EventsAssumption DEF EventsInv, ETypeOK, WorkersOK
<1>3. ASSUME NEW d \in Events PROVE AllOK(d)' /\ Where(d)' = Where(d)
  <2>1. EventOK(d) /\ Once(d) /\ OneCopy(d) /\ (Held(d)' <=> Held(d)) /\ sent' # d
    BY <1>1, EventsAssumption DEF EventsInv, AllOK, Held, Works
  <2>2. /\ d \in batch' => d \in batch
        /\ d \in disturbed => d \in disturbed'
        /\ ~marking /\ d \notin disturbed' => sent # d
    BY <1>1
  <2>3. EventOK(d)' /\ Where(d)' = Where(d)
    BY <1>1, <2>1, <2>2 DEF EventOK, Works, Where
  <2>4. Once(d)'
    BY <1>1, <2>1, <2>2 DEF Once, Works
  <2>5. OneCopy(d)'
    BY <1>1, <2>1, <2>2 DEF OneCopy, OwnCopy, Letter, Works
  <2> QED BY <2>3, <2>4, <2>5 DEF AllOK
<1> QED BY <1>2, <1>3 DEF EventsInv
-----------------------------------------------------------------------------
\* Every step keeps the invariant, and moves one event at most.
LEMMA EventsStep ==
  ASSUME EventsInv, ENext PROVE EventsInv' /\ (OneMoves \/ \A d \in Events : Where(d)' = Where(d))
<1>1. ASSUME NEW w \in Workers,
             \/ Receive(w) \/ Check(w) \/ HandleEvent(w) \/ MarkProcessed(w) \/ Acknowledge(w)
             \/ WorkerFails(w) \/ VisibilityTimeout(w)
      PROVE  EventsInv' /\ OneMoves
  BY <1>1, ReceiveInv, CheckInv, HandleInv, MarkInv, AcknowledgeInv, WorkerFailsInv, TimeoutInv
<1>2. CASE \E e \in Events : SendEvent(e)
  BY <1>2, SendInv
<1>3. CASE MarkExpires \/ ReplayStart \/ ReplaySend \/ ReplayDelete \/ ReplayFails
  BY <1>3, MarkExpiresInv, ReplayStartInv, ReplaySendInv, ReplayDeleteInv, ReplayFailsInv
<1> QED BY <1>1, <1>2, <1>3 DEF ENext

LEMMA StutterInv == ASSUME EventsInv, UNCHANGED evars PROVE EventsInv' /\ Whereabouts' = Whereabouts
<1>1. ETypeOK' /\ WorkersOK'
  BY DEF EventsInv, evars, deployment, ETypeOK, WorkersOK
<1>2. ASSUME NEW e \in Events PROVE AllOK(e)' /\ Where(e)' = Where(e)
  BY Elsewhere DEF EventsInv, evars, deployment, Works
<1> QED BY <1>1, <1>2 DEF EventsInv, Whereabouts

LEMMA EventsHold == ESpec => []EventsInv
<1>1. EInit => EventsInv
  BY EventsBegin
<1>2. EventsInv /\ [ENext]_evars => EventsInv'
  BY EventsStep, StutterInv
<1> QED BY <1>1, <1>2, PTL DEF ESpec

\* For any consumers, events and failures, with marks or (as in this program) without: an
\* effect is only repeated when two deliveries of its event overlapped or the queue delivers
\* it once more although it was handled.
THEOREM RepeatsHaveReasons == ESpec => []RepeatedOnlyIfDisturbed
<1>1. EventsInv => RepeatedOnlyIfDisturbed
  BY DEF EventsInv, ETypeOK, AllOK, EventOK, RepeatedOnlyIfDisturbed
<1> QED BY <1>1, EventsHold, PTL

\* The queues, the consumers and the marks keep their types: no count becomes negative.
THEOREM EventsTypeCorrect == ESpec => []ETypeOK
<1>1. EventsInv => ETypeOK
  BY DEF EventsInv
<1> QED BY <1>1, EventsHold, PTL
-----------------------------------------------------------------------------
(* The refinement: initial states map to initial states, and each step to a*)
(* step of the channel or to none.                                         *)

LEMMA InitMaps == ASSUME EInit PROVE Abstract!ChannelInit
<1>1. \A e \in Events, w \in Workers : ~Works(w, e)
  BY NoDeliveryType, EventsAssumption DEF EInit, Works
<1> QED BY <1>1 DEF Abstract!ChannelInit, Whereabouts, Where, EInit

LEMMA StepMaps ==
  ASSUME EventsInv, [ENext]_evars PROVE [Abstract!ChannelNext]_Whereabouts
<1>1. CASE OneMoves
  <2>1. PICK e \in Events : Moves(e) /\ \A d \in Events \ {e} : Where(d)' = Where(d)
    BY <1>1 DEF OneMoves
  <2>2. ASSUME NEW from, NEW to, Where(e) = from, Where(e)' = to
        PROVE  Abstract!Move(e, from, to)
    BY <2>1, <2>2 DEF Abstract!Move, Whereabouts
  <2>3. CASE Where(e)' = Where(e)
    BY <2>1, <2>3 DEF Whereabouts
  <2>4. CASE Where(e)' # Where(e)
    BY <2>1, <2>2, <2>4 DEF Moves, Abstract!ChannelNext, Abstract!Send, Abstract!Handle,
         Abstract!Park, Abstract!Unpark
  <2> QED BY <2>3, <2>4
<1>2. CASE \A d \in Events : Where(d)' = Where(d)
  BY <1>2 DEF Whereabouts
<1>3. CASE UNCHANGED evars
  BY <1>3, StutterInv
<1> QED BY <1>1, <1>2, <1>3, EventsStep

\* The safety part of KeepsEveryEvent, for any consumers, events and failures: the queues
\* with their dead letters and replays are a channel that loses no event.
THEOREM QueueIsChannel ==
  ESpec => Abstract!ChannelInit /\ [][Abstract!ChannelNext]_Whereabouts
<1>1. EInit => Abstract!ChannelInit
  BY InitMaps
<1>2. EventsInv /\ [ENext]_evars => [Abstract!ChannelNext]_Whereabouts
  BY StepMaps
<1> QED BY <1>1, <1>2, EventsHold, PTL DEF ESpec

-----------------------------------------------------------------------------
(* Announcements.  A change that nobody overtakes is on its way or has been*)
(* told: of a fact the subscribers need not be wrong about, all that the   *)
(* listeners have still to tell is what is saved, and when they have       *)
(* nothing to tell, it has been told.  A notice is on its way, or it has   *)
(* arrived, or its publication failed.                                     *)

\* The type of a message tells what it is about.
OfPayment == {"payment.failed", "tenant.restricted", "tenant.locked", "payment.restored",
              "tenant.restored"}
OfPlan == {"subscription.changed", "subscription.created", "subscription.upgraded"}
OfSuspension == {"tenant.suspended", "tenant.unsuspended"}
OfDeletion == {"tenant.created", "tenant.deletion.cancelled", "tenant.deleted"}
OfNotice == {"ownership.transferred", "tenant.created", "member.invited",
             "member.joined", "usage.threshold_crossed", "usage.monthly_summary",
             "trial.expired", "trial.reminder", "subscription.cancelled",
             "subscription.downgrade_scheduled"}
OfAside == {"audit", "add the job and mail", "remove the job and mail",
            "delete the relations", "create the relation", "update the identity"}

TypesOf(about) ==
  CASE about = "payment"    -> OfPayment
    [] about = "plan"       -> OfPlan
    [] about = "suspension" -> OfSuspension
    [] about = "deletion"   -> OfDeletion
    [] about = "notice"     -> OfNotice
    [] about = "aside"      -> OfAside

ValuesOf(about) ==
  CASE about = "payment"    -> Payment
    [] about = "plan"       -> Plans
    [] about = "suspension" -> {"ACTIVE", "SUSPENDED"}
    [] about = "deletion"   -> {"NONE", "SCHEDULED", "DELETED"}
    [] about = "notice"     -> {Null}
    [] about = "aside"      -> {Null}

Themes == About \cup {"notice", "aside"}

Telling(about) ==
  [type : TypesOf(about), about : {about}, value : ValuesOf(about), stripe : Nat,
   previous : Plans \cup {Null}, at : Nat, number : Nat]

Messages == UNION {Telling(about) : about \in Themes}

Todo == {todo \in Seq(Messages) : Len(todo) \in 1..3}

Saved == [payment : Payment, plan : Plans, suspension : {"ACTIVE", "SUSPENDED"},
          deletion : {"NONE", "SCHEDULED", "DELETED"}]

AnnouncementsTyped ==
  /\ fact \in Saved /\ told \in Saved
  /\ listeners \subseteq [n : Nat, todo : Todo]
  /\ window \subseteq Messages
  /\ excused \subseteq About
  /\ changes \in 0..MaxChanges /\ lost \in 0..MaxLost

Says(todo, m) == \E i \in DOMAIN todo : todo[i] = m

\* Some listener has m still to publish.
OnTheWay(m) == \E l \in listeners : Says(l.todo, m)

\* A notice is on its way, or has got there, or is one that may be missed.
NoticesKept ==
  /\ noted \cup unnoted \subseteq raised
  /\ \A m \in Messages : m.about = "notice" /\ OnTheWay(m) => m \in raised
  /\ \A m \in window : m.about = "notice" => m \in noted
  /\ \A m \in raised : /\ m \in Messages /\ m.about = "notice"
                       /\ m \in noted \cup unnoted \/ OnTheWay(m)

\* What is on its way about a fact is what is saved; when nothing is, it has been told.
FactsKept ==
  \A a \in About \ excused :
    /\ \A m \in Messages : m.about = a /\ OnTheWay(m) => m.value = fact[a]
    /\ \/ told[a] = fact[a]
       \/ \E m \in Messages : m.about = a /\ OnTheWay(m)

AnnouncementsInv == AnnouncementsTyped /\ NoticesKept /\ FactsKept

-----------------------------------------------------------------------------
(* Messages.                                                               *)

\* What a message is about says which types and values it has.
LEMMA MessageShape ==
  ASSUME NEW m \in Messages
  PROVE  m.about \in Themes /\ m \in Telling(m.about)
BY DEF Messages, Telling

\* The saved state is read and written fact by fact.
LEMMA SavedFacts ==
  ASSUME NEW f \in Saved, NEW a \in About, NEW v \in ValuesOf(a)
  PROVE  /\ [f EXCEPT ![a] = v] \in Saved
         /\ [f EXCEPT ![a] = v][a] = v
         /\ \A b \in About \ {a} : [f EXCEPT ![a] = v][b] = f[b]
BY DEF Saved, About, ValuesOf

\* Two messages with one deduplication id are the same, those of an invitation apart.
LEMMA SameId ==
  ASSUME NEW w \in Messages, NEW m \in Messages,
         ~OfInvitation(m), DeduplicationId(w) = DeduplicationId(m)
  PROVE  w = m
<1>1. PICK a \in Themes : m \in Telling(a)
  BY DEF Messages
<1>2. PICK b \in Themes : w \in Telling(b)
  BY DEF Messages
<1>3. /\ w.type = m.type /\ w.stripe = m.stripe /\ w.value = m.value
      /\ w.number = m.number /\ w.previous = m.previous /\ w.at = m.at
  <2>1. m.type # "invitation"
    BY <1>1 DEF Telling, Themes, About, TypesOf, OfPayment, OfPlan, OfSuspension,
                OfDeletion, OfNotice, OfAside
  <2>2. QED
    BY <2>1 DEF OfInvitation, DeduplicationId
<1>4. a = b \/ (m.type = "tenant.created" /\ {a, b} = {"deletion", "notice"})
  BY <1>1, <1>2, <1>3 DEF Telling, Themes, About, TypesOf, OfPayment, OfPlan, OfSuspension,
                          OfDeletion, OfNotice, OfAside
<1>5. a = b
  <2>1. ValuesOf("deletion") = {"NONE", "SCHEDULED", "DELETED"} /\ ValuesOf("notice") = {Null}
    BY DEF ValuesOf
  <2>2. m.value \in ValuesOf(a) /\ m.value \in ValuesOf(b)
    BY <1>1, <1>2, <1>3 DEF Telling
  <2> QED BY <1>4, <2>1, <2>2, AnnouncementsAssumption
<1>6. QED
  BY <1>1, <1>2, <1>3, <1>5 DEF Telling

\* Only a notice tells of an invitation.
LEMMA InvitationsAreNotices ==
  ASSUME NEW m \in Messages, OfInvitation(m)
  PROVE  m.about = "notice"
<1>1. m \in Telling(m.about) /\ m.about \in Themes
  BY MessageShape
<1>2. QED
  BY <1>1 DEF OfInvitation, Telling, Themes, About, TypesOf, OfPayment, OfPlan, OfSuspension,
              OfDeletion, OfNotice, OfAside

\* The value of a message about a fact is one that the fact may have.
LEMMA ValueFits ==
  ASSUME NEW m \in Messages
  PROVE  m.value \in ValuesOf(m.about)
BY MessageShape DEF Telling

-----------------------------------------------------------------------------
(* The lists of the listeners.                                             *)

\* A list about the value v of the fact a: what else it holds is no message.
Tidings(todo, a, v) ==
  /\ todo \in Todo
  /\ \E m \in Messages : Says(todo, m) /\ m.about = a
  /\ \A m \in Messages : Says(todo, m) => \/ m.about = "aside"
                                          \/ m.about = a /\ m.value = v

\* A list with one notice, besides what is no message.
Heralds(todo) ==
  /\ todo \in Todo
  /\ \E n \in Messages : /\ n.about = "notice"
                         /\ \A m \in Messages : Says(todo, m) => m = n \/ m.about = "aside"

LEMMA One ==
  ASSUME NEW m \in Messages
  PROVE  <<m>> \in Todo /\ \A k : Says(<<m>>, k) <=> k = m
BY DEF Todo, Says

LEMMA Two ==
  ASSUME NEW m \in Messages, NEW n \in Messages
  PROVE  <<m, n>> \in Todo /\ \A k : Says(<<m, n>>, k) <=> k \in {m, n}
BY DEF Todo, Says

LEMMA Three ==
  ASSUME NEW m \in Messages, NEW n \in Messages, NEW o \in Messages
  PROVE  <<m, n, o>> \in Todo /\ \A k : Says(<<m, n, o>>, k) <=> k \in {m, n, o}
<1>1. <<m, n, o>> \in Seq(Messages) /\ Len(<<m, n, o>>) = 3
  OBVIOUS
<1>2. DOMAIN <<m, n, o>> = {1, 2, 3}
  OBVIOUS
<1>3. QED
  BY <1>1, <1>2 DEF Todo, Says

LEMMA TwoAndOne ==
  ASSUME NEW m \in Messages, NEW n \in Messages, NEW o \in Messages
  PROVE  <<m, n>> \o <<o>> = <<m, n, o>>
<1>1. <<m, n>> \in Seq(Messages) /\ <<o>> \in Seq(Messages) /\ <<m, n, o>> \in Seq(Messages)
  OBVIOUS
<1>2. /\ <<m, n>> \o <<o>> \in Seq(Messages)
      /\ Len(<<m, n>> \o <<o>>) = 3
      /\ \A i \in 1..3 : (<<m, n>> \o <<o>>)[i] = IF i <= 2 THEN <<m, n>>[i] ELSE <<o>>[i - 2]
  BY <1>1, ConcatProperties
<1>3. /\ Len(<<m, n>> \o <<o>>) = Len(<<m, n, o>>) /\ Len(<<m, n>> \o <<o>>) = 3
      /\ \A i \in 1..3 : (<<m, n>> \o <<o>>)[i] = <<m, n, o>>[i]
  <2>1. \A i \in 1..3 : i = 1 \/ i = 2 \/ i = 3
    OBVIOUS
  <2>2. /\ (<<m, n>> \o <<o>>)[1] = m /\ (<<m, n>> \o <<o>>)[2] = n
        /\ (<<m, n>> \o <<o>>)[3] = o
    BY <1>2
  <2>3. <<m, n, o>>[1] = m /\ <<m, n, o>>[2] = n /\ <<m, n, o>>[3] = o
        /\ Len(<<m, n, o>>) = 3
    OBVIOUS
  <2>4. QED
    BY <1>2, <2>1, <2>2, <2>3
<1>4. QED
  BY <1>1, <1>2, <1>3, SeqEqual

\* What is first on a list is said, and the rest says all else.
LEMMA HeadAndTail ==
  ASSUME NEW todo \in Todo
  PROVE  /\ Head(todo) \in Messages /\ Says(todo, Head(todo))
         /\ Len(todo) = 1 => \A m : Says(todo, m) => m = Head(todo)
         /\ Len(todo) # 1 => /\ Tail(todo) \in Todo
                             /\ \A m : Says(todo, m) <=> m = Head(todo) \/ Says(Tail(todo), m)
<1>1. todo \in Seq(Messages) /\ Len(todo) \in 1..3 /\ DOMAIN todo = 1..Len(todo)
  BY DEF Todo
<1>2. Head(todo) \in Messages /\ Says(todo, Head(todo))
  BY <1>1 DEF Says
<1>3. Len(todo) = 1 => \A m : Says(todo, m) => m = Head(todo)
  BY <1>1 DEF Says
<1>4. ASSUME Len(todo) # 1
      PROVE  /\ Tail(todo) \in Todo
             /\ \A m : Says(todo, m) <=> m = Head(todo) \/ Says(Tail(todo), m)
  <2>1. /\ Tail(todo) \in Seq(Messages) /\ Len(Tail(todo)) = Len(todo) - 1
        /\ \A i \in 1..(Len(todo) - 1) : Tail(todo)[i] = todo[i + 1]
    <3>1. todo # <<>>
      BY <1>1
    <3>2. QED
      BY <1>1, <3>1, HeadTailProperties
  <2>2. DOMAIN Tail(todo) = 1..(Len(todo) - 1) /\ Head(todo) = todo[1]
    BY <1>1, <2>1
  <2>3. Tail(todo) \in Todo
    BY <1>1, <1>4, <2>1 DEF Todo
  <2>4. ASSUME NEW m, Says(todo, m)
        PROVE  m = Head(todo) \/ Says(Tail(todo), m)
    <3>1. PICK i \in 1..Len(todo) : todo[i] = m
      BY <1>1, <2>4 DEF Says
    <3>2. CASE i = 1
      BY <2>2, <3>1, <3>2
    <3>3. CASE i # 1
      <4>1. i - 1 \in 1..(Len(todo) - 1) /\ (i - 1) + 1 = i
        BY <1>1, <3>3
      <4>2. Tail(todo)[i - 1] = m
        BY <2>1, <3>1, <4>1
      <4>3. QED
        BY <2>2, <4>1, <4>2 DEF Says
    <3>4. QED
      BY <3>2, <3>3
  <2>5. ASSUME NEW m, Says(Tail(todo), m)
        PROVE  Says(todo, m)
    <3>1. PICK i \in 1..(Len(todo) - 1) : Tail(todo)[i] = m
      BY <2>2, <2>5 DEF Says
    <3>2. i + 1 \in 1..Len(todo) /\ todo[i + 1] = m
      BY <1>1, <2>1, <3>1
    <3>3. QED
      BY <1>1, <3>2 DEF Says
  <2>6. QED
    BY <1>2, <2>3, <2>4, <2>5
<1>5. QED
  BY <1>2, <1>3, <1>4

\* A message is a message.
LEMMA Written ==
  ASSUME NEW about \in Themes, NEW type \in TypesOf(about), NEW value \in ValuesOf(about),
         NEW stripe \in Nat, NEW previous \in Plans \cup {Null}, NEW at \in Nat
  PROVE  /\ Message(type, about, value, stripe, previous, at) \in Messages
         /\ Message(type, about, value, stripe, previous, at).about = about
         /\ Message(type, about, value, stripe, previous, at).value = value
BY DEF Message, Messages, Telling

LEMMA Asides ==
  ASSUME NEW what \in OfAside
  PROVE  Aside(what) \in Messages /\ Aside(what).about = "aside"
<1>1. "aside" \in Themes /\ what \in TypesOf("aside") /\ Null \in ValuesOf("aside")
  BY DEF Themes, TypesOf, ValuesOf
<1>2. QED
  BY <1>1, Written DEF Aside

LEMMA Notices ==
  ASSUME NEW type \in OfNotice, NEW number \in Nat, NEW at \in Nat
  PROVE  Notice(type, number, at) \in Messages /\ Notice(type, number, at).about = "notice"
<1>1. "notice" \in Themes /\ type \in TypesOf("notice") /\ Null \in ValuesOf("notice")
  BY DEF Themes, TypesOf, ValuesOf
<1>2. Notice(type, number, at) =
        [type |-> type, about |-> "notice", value |-> Null, stripe |-> 0, previous |-> Null,
         at |-> at, number |-> number]
  BY DEF Notice, Message
<1>3. QED
  BY <1>1, <1>2 DEF Messages, Telling

LEMMA OneTiding ==
  ASSUME NEW a \in About, NEW v \in ValuesOf(a), NEW m \in Messages, m.about = a, m.value = v
  PROVE  Tidings(<<m>>, a, v)
BY One DEF Tidings

LEMMA TwoTidings ==
  ASSUME NEW a \in About, NEW v \in ValuesOf(a), NEW m \in Messages, NEW n \in Messages,
         m.about = "aside" \/ (m.about = a /\ m.value = v), n.about = a, n.value = v
  PROVE  Tidings(<<m, n>>, a, v)
BY Two DEF Tidings

LEMMA ThreeTidings ==
  ASSUME NEW a \in About, NEW v \in ValuesOf(a),
         NEW m \in Messages, NEW n \in Messages, NEW o \in Messages,
         m.about = "aside", n.about = a, n.value = v, o.about = "aside"
  PROVE  Tidings(<<m, n>> \o <<o>>, a, v)
<1>1. Tidings(<<m, n, o>>, a, v)
  BY Three DEF Tidings
<1>2. QED
  BY <1>1, TwoAndOne

LEMMA PlanTidings ==
  ASSUME NEW plan \in Plans, NEW previous \in Plans, NEW stripe \in Nat
  PROVE  /\ Tidings(SubscriptionChanged(plan, stripe), "plan", plan)
         /\ Tidings(SubscriptionCreated(plan, stripe), "plan", plan)
         /\ Tidings(SubscriptionUpgraded(plan, previous), "plan", plan)
<1>1. /\ "plan" \in Themes /\ "plan" \in About /\ plan \in ValuesOf("plan")
      /\ {"subscription.changed", "subscription.created", "subscription.upgraded"}
           \subseteq TypesOf("plan")
  BY DEF Themes, About, ValuesOf, TypesOf, OfPlan
<1>2. \A type \in TypesOf("plan"), k \in Nat, p \in Plans \cup {Null} :
        Tidings(<<Message(type, "plan", plan, k, p, 0)>>, "plan", plan)
  <2> SUFFICES ASSUME NEW type \in TypesOf("plan"), NEW k \in Nat, NEW p \in Plans \cup {Null}
               PROVE  Tidings(<<Message(type, "plan", plan, k, p, 0)>>, "plan", plan)
    OBVIOUS
  <2>1. /\ Message(type, "plan", plan, k, p, 0) \in Messages
        /\ Message(type, "plan", plan, k, p, 0).about = "plan"
        /\ Message(type, "plan", plan, k, p, 0).value = plan
    BY <1>1, Written
  <2>2. QED
    BY <1>1, <2>1, OneTiding
<1>3. QED
  BY <1>1, <1>2 DEF SubscriptionChanged, SubscriptionCreated, SubscriptionUpgraded

LEMMA PaymentTidings ==
  ASSUME NEW previous \in Payment, NEW next \in Payment, NEW stripe \in Nat, previous # next
  PROVE  Tidings(PaymentStatusChanged(previous, next, stripe), "payment", next)
<1> DEFINE Tell(type) == Message(type, "payment", next, stripe, Null, 0)
<1>1. "payment" \in Themes /\ "payment" \in About /\ next \in ValuesOf("payment")
  BY DEF Themes, About, ValuesOf
<1>2. \A type \in OfPayment :
        Tell(type) \in Messages /\ Tell(type).about = "payment" /\ Tell(type).value = next
  BY <1>1, Written DEF TypesOf
<1>3. \/ PaymentStatusChanged(previous, next, stripe) = <<Tell("payment.failed")>>
      \/ PaymentStatusChanged(previous, next, stripe) = <<Tell("tenant.restricted")>>
      \/ PaymentStatusChanged(previous, next, stripe) = <<Tell("tenant.locked")>>
      \/ PaymentStatusChanged(previous, next, stripe)
           = <<Tell("payment.restored"), Tell("tenant.restored")>>
  BY DEF PaymentStatusChanged, Payment
<1>4. {"payment.failed", "tenant.restricted", "tenant.locked", "payment.restored",
       "tenant.restored"} \subseteq OfPayment
  BY DEF OfPayment
<1> HIDE DEF Tell
<1>5. QED
  BY <1>1, <1>2, <1>3, <1>4, OneTiding, TwoTidings

LEMMA TenantTidings ==
  ASSUME NEW at \in Nat
  PROVE  /\ Tidings(TenantSuspended(at), "suspension", "SUSPENDED")
         /\ Tidings(TenantUnsuspended(at), "suspension", "ACTIVE")
         /\ Tidings(DeletionScheduled(at), "deletion", "SCHEDULED")
         /\ Tidings(DeletionCancelled(at), "deletion", "NONE")
         /\ Tidings(TenantDeleted(at), "deletion", "DELETED")
<1>1. /\ "suspension" \in Themes /\ "suspension" \in About
      /\ {"SUSPENDED", "ACTIVE"} \subseteq ValuesOf("suspension")
      /\ {"tenant.suspended", "tenant.unsuspended"} \subseteq TypesOf("suspension")
  BY DEF Themes, About, ValuesOf, TypesOf, OfSuspension
<1>2. /\ "deletion" \in Themes /\ "deletion" \in About
      /\ {"NONE", "SCHEDULED", "DELETED"} \subseteq ValuesOf("deletion")
      /\ {"tenant.created", "tenant.deletion.cancelled", "tenant.deleted"}
           \subseteq TypesOf("deletion")
  BY DEF Themes, About, ValuesOf, TypesOf, OfDeletion
<1>3. /\ AuditLog \in Messages /\ AuditLog.about = "aside"
      /\ \A what \in OfAside : Aside(what) \in Messages /\ Aside(what).about = "aside"
  BY Asides DEF AuditLog, OfAside
<1>4. ASSUME NEW a \in {"suspension", "deletion"}, NEW type \in TypesOf(a), NEW v \in ValuesOf(a)
      PROVE  /\ Tidings(OfTenant(type, a, v, at), a, v)
             /\ \A what \in OfAside : Tidings(OfTenant(type, a, v, at) \o <<Aside(what)>>, a, v)
  <2> DEFINE m == Message(type, a, v, 0, Null, at)
  <2>1. /\ m \in Messages /\ m.about = a /\ m.value = v
        /\ a \in About
    <3>1. a \in About /\ a \in Themes
      BY DEF About, Themes
    <3>2. type \in TypesOf(a) /\ v \in ValuesOf(a) /\ 0 \in Nat /\ Null \in Plans \cup {Null}
      BY <1>4
    <3>3. m \in Messages /\ m.about = a /\ m.value = v
      BY <3>1, <3>2, Written
    <3>4. QED
      BY <3>1, <3>3
  <2>2. OfTenant(type, a, v, at) = <<AuditLog, m>>
    BY DEF OfTenant
  <2> HIDE DEF m
  <2>3. Tidings(<<AuditLog, m>>, a, v)
    BY <1>3, <1>4, <2>1, TwoTidings
  <2>4. ASSUME NEW what \in OfAside
        PROVE  Tidings(<<AuditLog, m>> \o <<Aside(what)>>, a, v)
    BY <1>3, <1>4, <2>1, <2>4, ThreeTidings
  <2>5. QED
    BY <2>2, <2>3, <2>4
<1>5. /\ Tidings(TenantSuspended(at), "suspension", "SUSPENDED")
      /\ Tidings(TenantUnsuspended(at), "suspension", "ACTIVE")
      /\ Tidings(DeletionScheduled(at), "deletion", "SCHEDULED")
      /\ Tidings(DeletionCancelled(at), "deletion", "NONE")
      /\ Tidings(TenantDeleted(at), "deletion", "DELETED")
  BY <1>1, <1>2, <1>4 DEF TenantSuspended, TenantUnsuspended, DeletionScheduled,
                          DeletionCancelled, TenantDeleted, OfAside
<1>6. QED
  BY <1>5

\* The lists that hold notices.
LEMMA NoticeLists ==
  ASSUME NEW at \in Nat, NEW number \in Nat, NEW plan \in Plans
  PROVE  /\ Heralds(TenantUpdated(at)) /\ Heralds(OwnershipTransferred(at))
         /\ Heralds(TenantCreated) /\ Heralds(MemberInvited(number))
         /\ Heralds(MemberJoined(number)) /\ Heralds(UsageThresholdCrossed(number))
         /\ Heralds(MonthlySummary(number)) /\ Heralds(TrialNotice(number))
         /\ Heralds(SubscriptionCancelled(plan)) /\ Heralds(DowngradeScheduled(plan))
<1>1. /\ AuditLog \in Messages /\ AuditLog.about = "aside"
      /\ \A what \in OfAside : Aside(what) \in Messages /\ Aside(what).about = "aside"
  BY Asides DEF AuditLog, OfAside
<1>2. \A type \in OfNotice, k \in Nat, t \in Nat :
        Notice(type, k, t) \in Messages /\ Notice(type, k, t).about = "notice"
  BY Notices
<1>3. \A m \in Messages : m.about = "notice" => Heralds(<<m>>)
  BY One DEF Heralds
<1>4. \A m \in Messages : m.about = "notice" => Heralds(<<AuditLog, m>>)
  BY <1>1, Two DEF Heralds
<1>5. Heralds(TenantUpdated(at)) /\ Heralds(OwnershipTransferred(at)) /\ Heralds(TenantCreated)
  BY <1>2, <1>4 DEF TenantUpdated, OwnershipTransferred, TenantCreated, OfNotice
<1>6. /\ Heralds(MemberInvited(number)) /\ Heralds(UsageThresholdCrossed(number))
      /\ Heralds(MonthlySummary(number)) /\ Heralds(TrialNotice(number))
  BY <1>2, <1>3
     DEF MemberInvited, UsageThresholdCrossed, MonthlySummary, TrialNotice, OfNotice
<1>7. Heralds(MemberJoined(number))
  <2>1. /\ Aside("create the relation") \in Messages
        /\ Aside("create the relation").about = "aside"
        /\ Aside("update the identity") \in Messages
        /\ Aside("update the identity").about = "aside"
        /\ Notice("member.joined", number, 0) \in Messages
        /\ Notice("member.joined", number, 0).about = "notice"
    BY <1>1, <1>2 DEF OfAside, OfNotice
  <2>2. QED
    <3> DEFINE first == Aside("create the relation")
               joined == Notice("member.joined", number, 0)
               last == Aside("update the identity")
    <3>1. MemberJoined(number) = <<first, joined, last>>
      BY DEF MemberJoined
    <3> HIDE DEF first, joined, last
    <3>2. /\ first \in Messages /\ first.about = "aside" /\ last \in Messages
          /\ last.about = "aside" /\ joined \in Messages /\ joined.about = "notice"
      BY <2>1 DEF first, joined, last
    <3>3. QED
      BY <3>1, <3>2, Three DEF Heralds
<1>8. Heralds(SubscriptionCancelled(plan)) /\ Heralds(DowngradeScheduled(plan))
  <2>1. /\ "notice" \in Themes /\ Null \in ValuesOf("notice")
        /\ {"subscription.cancelled", "subscription.downgrade_scheduled"} \subseteq TypesOf("notice")
    BY DEF Themes, ValuesOf, TypesOf, OfNotice
  <2>2. QED
    BY <2>1, <1>3, Written DEF SubscriptionCancelled, DowngradeScheduled
<1>9. QED
  BY <1>5, <1>6, <1>7, <1>8

-----------------------------------------------------------------------------
(* The steps.                                                              *)

\* What starts is on its way besides what was.
LEMMA EmitStep ==
  ASSUME AnnouncementsTyped, NEW todos \in SUBSET Todo, NEW wrong \in SUBSET About,
         Emit(todos, wrong)
  PROVE  /\ listeners' \subseteq [n : Nat, todo : Todo]
         /\ excused' \subseteq About /\ excused \cup wrong \subseteq excused'
         /\ changes' \in 0..MaxChanges
         /\ UNCHANGED <<window, told, noted, unnoted, lost>>
         /\ \A m : OnTheWay(m)' <=> OnTheWay(m) \/ \E todo \in todos : Says(todo, m)
         /\ \A a \in About, m \in Messages, n \in Messages :
              /\ a \notin excused' /\ m.about = a /\ n.about = a /\ OnTheWay(m)
              => ~\E todo \in todos : Says(todo, n)
<1> DEFINE started == {[n |-> changes + 1, todo |-> todo] : todo \in todos}
<1>1. /\ listeners' = listeners \cup started
      /\ excused' = excused \cup wrong \cup {a \in About : /\ \E l \in started : Tells(l, a)
                                                           /\ \E l \in listeners : Tells(l, a)}
      /\ changes' = changes + 1 /\ changes < MaxChanges
      /\ UNCHANGED <<window, told, noted, unnoted, lost>>
  BY DEF Emit
<1>2. started \subseteq [n : Nat, todo : Todo]
  BY DEF AnnouncementsTyped
<1>3. \A m : (\E l \in started : Says(l.todo, m)) <=> \E todo \in todos : Says(todo, m)
  <2> DEFINE starting(todo) == [n |-> changes + 1, todo |-> todo]
  <2>1. \A todo : starting(todo).todo = todo
    OBVIOUS
  <2>2. started = {starting(todo) : todo \in todos}
    OBVIOUS
  <2> HIDE DEF starting, started
  <2>3. QED
    BY <2>1, <2>2
<1>4. \A a, m, l : m.about = a /\ Says(l.todo, m) => Tells(l, a)
  BY DEF Says, Tells
<1> HIDE DEF started
<1>5. listeners' \subseteq [n : Nat, todo : Todo]
  BY <1>1, <1>2 DEF AnnouncementsTyped
<1>6. excused' \subseteq About /\ excused \cup wrong \subseteq excused'
  BY <1>1 DEF AnnouncementsTyped
<1>7. changes' \in 0..MaxChanges
  BY <1>1, AnnouncementsAssumption DEF AnnouncementsTyped
<1>8. \A m : OnTheWay(m)' <=> OnTheWay(m) \/ \E todo \in todos : Says(todo, m)
  BY <1>1, <1>3 DEF OnTheWay
<1>9. ASSUME NEW a \in About, NEW m \in Messages, NEW n \in Messages,
             a \notin excused', m.about = a, n.about = a, OnTheWay(m)
      PROVE  ~\E todo \in todos : Says(todo, n)
  BY <1>1, <1>3, <1>4, <1>9 DEF OnTheWay
<1>10. QED
  BY <1>1, <1>5, <1>6, <1>7, <1>8, <1>9

\* A change is on its way to the subscribers.
LEMMA ChangeStep ==
  ASSUME AnnouncementsInv, NEW a \in About, NEW v \in ValuesOf(a), NEW todos \in SUBSET Todo,
         todos # {}, \A todo \in todos : Tidings(todo, a, v),
         Change(a, v, todos)
  PROVE  AnnouncementsInv'
<1>1. /\ fact' = [fact EXCEPT ![a] = v] /\ Emit(todos, {}) /\ raised' = raised
  BY DEF Change
<1>2. AnnouncementsTyped /\ NoticesKept /\ FactsKept
  BY DEF AnnouncementsInv
<1>3. /\ listeners' \subseteq [n : Nat, todo : Todo]
      /\ excused' \subseteq About /\ excused \subseteq excused'
      /\ changes' \in 0..MaxChanges
      /\ UNCHANGED <<window, told, noted, unnoted, lost>>
      /\ \A m : OnTheWay(m)' <=> OnTheWay(m) \/ \E todo \in todos : Says(todo, m)
      /\ \A b \in About, m \in Messages, n \in Messages :
           /\ b \notin excused' /\ m.about = b /\ n.about = b /\ OnTheWay(m)
           => ~\E todo \in todos : Says(todo, n)
  BY <1>1, <1>2, EmitStep
<1>4. \A m \in Messages : (\E todo \in todos : Says(todo, m))
        => m.about = "aside" \/ (m.about = a /\ m.value = v)
  <2> TAKE m \in Messages
  <2> HAVE \E todo \in todos : Says(todo, m)
  <2>1. PICK todo \in todos : Says(todo, m)
    OBVIOUS
  <2>2. Tidings(todo, a, v)
    OBVIOUS
  <2>3. QED
    BY <2>1, <2>2 DEF Tidings
<1>5. \E todo \in todos, m \in Messages : Says(todo, m) /\ m.about = a
  BY DEF Tidings
<1>6. /\ fact' \in Saved /\ fact'[a] = v
      /\ \A b \in About \ {a} : fact'[b] = fact[b]
  <2>1. fact \in Saved
    BY <1>2 DEF AnnouncementsTyped
  <2>2. /\ [fact EXCEPT ![a] = v] \in Saved
        /\ [fact EXCEPT ![a] = v][a] = v
        /\ \A b \in About \ {a} : [fact EXCEPT ![a] = v][b] = fact[b]
    BY <2>1, SavedFacts
  <2>3. QED
    BY <1>1, <2>2
<1>7. AnnouncementsTyped'
  BY <1>2, <1>3, <1>6 DEF AnnouncementsTyped
<1>8. NoticesKept'
  <2>1. a # "notice"
    BY DEF About
  <2>2. QED
    <3>1. noted' \cup unnoted' \subseteq raised'
      BY <1>1, <1>2, <1>3 DEF NoticesKept
    <3>2. \A m \in Messages : m.about = "notice" /\ OnTheWay(m)' => m \in raised'
      BY <1>1, <1>2, <1>3, <1>4, <2>1 DEF NoticesKept
    <3>3. \A m \in window' : m.about = "notice" => m \in noted'
      BY <1>2, <1>3 DEF NoticesKept
    <3>4. \A m \in raised' : /\ m \in Messages /\ m.about = "notice"
                            /\ (m \in noted' \cup unnoted' \/ OnTheWay(m)')
      BY <1>1, <1>2, <1>3 DEF NoticesKept
    <3>5. QED
      BY <3>1, <3>2, <3>3, <3>4 DEF NoticesKept
<1>9. FactsKept'
  <2> SUFFICES ASSUME NEW b \in About, b \notin excused'
               PROVE  /\ \A m \in Messages : m.about = b /\ OnTheWay(m)' => m.value = fact'[b]
                      /\ \/ told'[b] = fact'[b]
                         \/ \E m \in Messages : m.about = b /\ OnTheWay(m)'
    BY DEF FactsKept
  <2>1. CASE b = a
    <3>1. \A m \in Messages : m.about = b /\ OnTheWay(m)' => \E todo \in todos : Says(todo, m)
      BY <1>3, <1>5, <2>1
    <3>2. a # "aside"
      BY DEF About
    <3>3. \A m \in Messages : m.about = b /\ OnTheWay(m)' => m.value = fact'[b]
      BY <1>4, <1>6, <2>1, <3>1, <3>2
    <3>4. \E m \in Messages : m.about = b /\ OnTheWay(m)'
      BY <1>3, <1>5, <2>1
    <3>5. QED
      BY <3>3, <3>4
  <2>2. CASE b # a
    <3>1. b # "aside"
      BY DEF About
    <3>2. QED
      BY <1>2, <1>3, <1>4, <1>6, <2>2, <3>1 DEF FactsKept
  <2>3. QED
    BY <2>1, <2>2
<1>10. QED
  BY <1>7, <1>8, <1>9 DEF AnnouncementsInv

\* A notice is raised and is on its way.
LEMMA RaiseStep ==
  ASSUME AnnouncementsInv, NEW todo, Heralds(todo), Raise(todo)
  PROVE  AnnouncementsInv'
<1>1. AnnouncementsTyped /\ NoticesKept /\ FactsKept
  BY DEF AnnouncementsInv
<1>2. PICK m \in {todo[i] : i \in DOMAIN todo} :
        /\ m.about = "notice" /\ raised' = raised \cup {m}
        /\ Emit({todo}, {}) /\ fact' = fact
  BY DEF Raise
<1>3. todo \in Todo /\ Says(todo, m)
  BY DEF Heralds, Says
<1>4. m \in Messages
  BY <1>3 DEF Todo, Says
<1>5. /\ listeners' \subseteq [n : Nat, todo : Todo]
      /\ excused' \subseteq About /\ excused \subseteq excused'
      /\ changes' \in 0..MaxChanges
      /\ UNCHANGED <<window, told, noted, unnoted, lost>>
      /\ \A k : OnTheWay(k)' <=> OnTheWay(k) \/ Says(todo, k)
  <2>1. {todo} \in SUBSET Todo /\ {} \in SUBSET About
    BY <1>3
  <2>2. QED
    BY <1>1, <1>2, <2>1, EmitStep
<1>6. AnnouncementsTyped'
  BY <1>1, <1>2, <1>5 DEF AnnouncementsTyped
<1>7. NoticesKept'
  <2>1. noted' \cup unnoted' \subseteq raised'
    BY <1>1, <1>2, <1>5 DEF NoticesKept
  <2>2. \A k \in Messages : k.about = "notice" /\ OnTheWay(k)' => k \in raised'
    <3>1. \A k \in Messages : k.about = "notice" /\ Says(todo, k) => k = m
      BY <1>2, <1>3, <1>4 DEF Heralds
    <3>2. QED
      BY <1>1, <1>2, <1>5, <3>1 DEF NoticesKept
  <2>3. \A k \in window' : k.about = "notice" => k \in noted'
    BY <1>1, <1>5 DEF NoticesKept
  <2>4. \A k \in raised' : /\ k \in Messages /\ k.about = "notice"
                            /\ (k \in noted' \cup unnoted' \/ OnTheWay(k)')
    BY <1>1, <1>2, <1>3, <1>4, <1>5 DEF NoticesKept
  <2>5. QED
    BY <2>1, <2>2, <2>3, <2>4 DEF NoticesKept
<1>8. FactsKept'
  <2>1. \A k \in Messages, a \in About : k.about = a /\ OnTheWay(k)' => OnTheWay(k)
    BY <1>5 DEF Heralds, About
  <2>2. QED
    BY <1>1, <1>2, <1>5, <2>1 DEF FactsKept
<1>9. QED
  BY <1>6, <1>7, <1>8 DEF AnnouncementsInv

\* The deletion is announced and does not happen: the subscribers may be wrong about it.
LEMMA NotDeletedStep ==
  ASSUME AnnouncementsInv, NEW todo, Tidings(todo, "deletion", "DELETED"),
         Emit({todo}, {"deletion"}), UNCHANGED <<fact, raised>>
  PROVE  AnnouncementsInv'
<1>1. AnnouncementsTyped /\ NoticesKept /\ FactsKept
  BY DEF AnnouncementsInv
<1>2. /\ listeners' \subseteq [n : Nat, todo : Todo]
      /\ excused' \subseteq About /\ excused \cup {"deletion"} \subseteq excused'
      /\ changes' \in 0..MaxChanges
      /\ UNCHANGED <<window, told, noted, unnoted, lost>>
      /\ \A k : OnTheWay(k)' <=> OnTheWay(k) \/ Says(todo, k)
  <2>1. {todo} \in SUBSET Todo /\ {"deletion"} \in SUBSET About
    BY DEF Tidings, About
  <2>2. QED
    BY <1>1, <2>1, EmitStep
<1>3. \A k \in Messages : Says(todo, k) => k.about \in {"aside", "deletion"}
  BY DEF Tidings
<1>4. AnnouncementsTyped'
  BY <1>1, <1>2 DEF AnnouncementsTyped
<1>5. NoticesKept'
  BY <1>1, <1>2, <1>3 DEF NoticesKept
<1>6. FactsKept'
  <2>1. \A k \in Messages, a \in About \ excused' : k.about = a /\ OnTheWay(k)' => OnTheWay(k)
    BY <1>2, <1>3 DEF About
  <2>2. QED
    BY <1>1, <1>2, <2>1 DEF FactsKept
<1>7. QED
  BY <1>4, <1>5, <1>6 DEF AnnouncementsInv

\* A listener has done what is first on its list.
LEMMA LeftStep ==
  ASSUME AnnouncementsTyped, NEW l \in listeners, Left(l)
  PROVE  /\ listeners' \subseteq [n : Nat, todo : Todo]
         /\ Head(l.todo) \in Messages
         /\ OnTheWay(Head(l.todo))
         /\ \A m : OnTheWay(m)' => OnTheWay(m)
         /\ \A m : OnTheWay(m) => m = Head(l.todo) \/ OnTheWay(m)'
<1> DEFINE rest == [l EXCEPT !.todo = Tail(@)]
<1>1. l \in [n : Nat, todo : Todo]
  BY DEF AnnouncementsTyped
<1>2. l.todo \in Todo
  BY <1>1
<1>3. Head(l.todo) \in Messages /\ Says(l.todo, Head(l.todo))
  BY <1>2, HeadAndTail
<1>4. CASE Len(l.todo) = 1
  <2>1. listeners' = listeners \ {l}
    BY <1>4 DEF Left
  <2>2. \A m : Says(l.todo, m) => m = Head(l.todo)
    BY <1>2, <1>4, HeadAndTail
  <2>3. QED
    BY <1>3, <2>1, <2>2 DEF AnnouncementsTyped, OnTheWay
<1>5. CASE Len(l.todo) # 1
  <2>1. listeners' = (listeners \ {l}) \cup {rest}
    BY <1>5 DEF Left
  <2>2. /\ Tail(l.todo) \in Todo
        /\ \A m : Says(l.todo, m) <=> m = Head(l.todo) \/ Says(Tail(l.todo), m)
    BY <1>2, <1>5, HeadAndTail
  <2>3. rest.todo = Tail(l.todo) /\ rest \in [n : Nat, todo : Todo]
    BY <1>1, <2>2
  <2> HIDE DEF rest
  <2>4. QED
    BY <1>3, <2>1, <2>2, <2>3 DEF AnnouncementsTyped, OnTheWay
<1>6. QED
  BY <1>4, <1>5

\* A message is published, or dropped as one that was accepted before.
LEMMA PublishStep ==
  ASSUME AnnouncementsInv, NEW l \in listeners, Publish(l)
  PROVE  AnnouncementsInv'
<1>1. AnnouncementsTyped /\ NoticesKept /\ FactsKept
  BY DEF AnnouncementsInv
<1>2. PICK m \in Messages : m = Head(l.todo)
  BY <1>1, LeftStep DEF Publish
<1>3. /\ listeners' \subseteq [n : Nat, todo : Todo]
      /\ OnTheWay(m)
      /\ \A k : OnTheWay(k)' => OnTheWay(k)
      /\ \A k : OnTheWay(k) => k = m \/ OnTheWay(k)'
  BY <1>1, <1>2, LeftStep DEF Publish
<1>4. /\ m.about # "aside" /\ m.about \in Themes
      /\ UNCHANGED <<fact, raised, changes, lost>>
  BY <1>2, MessageShape DEF Publish
<1>5. CASE Accepted(m)
  <2>1. /\ window' = window \cup {m}
        /\ told' = IF m.about \in About THEN [told EXCEPT ![m.about] = m.value] ELSE told
        /\ noted' = IF m.about = "notice" THEN noted \cup {m} ELSE noted
        /\ UNCHANGED <<excused, unnoted>>
    BY <1>2, <1>5 DEF Publish
  <2>2. /\ told' \in Saved
        /\ m.about \in About => told'[m.about] = m.value
        /\ \A a \in About \ {m.about} : told'[a] = told[a]
    <3>1. told \in Saved /\ m.value \in ValuesOf(m.about)
      BY <1>1, ValueFits DEF AnnouncementsTyped
    <3>2. CASE m.about \in About
      <4>1. /\ [told EXCEPT ![m.about] = m.value] \in Saved
            /\ [told EXCEPT ![m.about] = m.value][m.about] = m.value
            /\ \A a \in About \ {m.about} : [told EXCEPT ![m.about] = m.value][a] = told[a]
        BY <3>1, <3>2, SavedFacts
      <4>2. QED
        BY <2>1, <3>2, <4>1
    <3>3. CASE m.about \notin About
      BY <2>1, <3>1, <3>3
    <3>4. QED
      BY <3>2, <3>3
  <2>3. AnnouncementsTyped'
    BY <1>1, <1>3, <1>4, <2>1, <2>2 DEF AnnouncementsTyped
  <2>4. NoticesKept'
    <3>1. m.about = "notice" => m \in raised
      BY <1>1, <1>3 DEF NoticesKept
    <3>2. noted' \cup unnoted' \subseteq raised'
      BY <1>1, <1>4, <2>1, <3>1 DEF NoticesKept
    <3>3. \A k \in Messages : k.about = "notice" /\ OnTheWay(k)' => k \in raised'
      BY <1>1, <1>3, <1>4 DEF NoticesKept
    <3>4. \A k \in window' : k.about = "notice" => k \in noted'
      BY <1>1, <2>1 DEF NoticesKept
    <3>5. ASSUME NEW k \in raised'
          PROVE  /\ k \in Messages /\ k.about = "notice"
                 /\ k \in noted' \cup unnoted' \/ OnTheWay(k)'
      <4>1. k \in raised
        BY <1>4
      <4>2. /\ k \in Messages /\ k.about = "notice"
            /\ k \in noted \cup unnoted \/ OnTheWay(k)
        BY <1>1, <4>1 DEF NoticesKept
      <4>3. QED
        BY <1>3, <2>1, <4>2
    <3>6. QED
      BY <3>2, <3>3, <3>4, <3>5 DEF NoticesKept
  <2>5. FactsKept'
    BY <1>1, <1>3, <1>4, <2>1, <2>2 DEF FactsKept
  <2>6. QED
    BY <2>3, <2>4, <2>5 DEF AnnouncementsInv
<1>6. CASE ~Accepted(m)
  <2>1. /\ UNCHANGED <<window, told, noted>>
        /\ excused' = excused \cup {a \in About : a = m.about /\ m \in window}
        /\ unnoted' = IF OfInvitation(m) THEN unnoted \cup {m} ELSE unnoted
    BY <1>2, <1>6 DEF Publish
  <2>2. OfInvitation(m) \/ m \in window
    BY <1>1, <1>6, SameId DEF Accepted, AnnouncementsTyped
  <2>3. OfInvitation(m) => m.about = "notice"
    BY InvitationsAreNotices
  <2>4. AnnouncementsTyped'
    BY <1>1, <1>3, <1>4, <2>1 DEF AnnouncementsTyped
  <2>5. NoticesKept'
    <3>1. m.about = "notice" => m \in raised
      BY <1>1, <1>3 DEF NoticesKept
    <3>2. m.about = "notice" => m \in noted' \cup unnoted'
      BY <1>1, <2>1, <2>2 DEF NoticesKept
    <3>3. noted' \cup unnoted' \subseteq raised'
      BY <1>1, <1>4, <2>1, <2>3, <3>1 DEF NoticesKept
    <3>4. \A k \in Messages : k.about = "notice" /\ OnTheWay(k)' => k \in raised'
      BY <1>1, <1>3, <1>4 DEF NoticesKept
    <3>5. \A k \in window' : k.about = "notice" => k \in noted'
      BY <1>1, <2>1 DEF NoticesKept
    <3>6. ASSUME NEW k \in raised'
          PROVE  /\ k \in Messages /\ k.about = "notice"
                 /\ k \in noted' \cup unnoted' \/ OnTheWay(k)'
      <4>1. k \in raised
        BY <1>4
      <4>2. /\ k \in Messages /\ k.about = "notice"
            /\ k \in noted \cup unnoted \/ OnTheWay(k)
        BY <1>1, <4>1 DEF NoticesKept
      <4>3. QED
        BY <1>3, <2>1, <3>2, <4>2
    <3>7. QED
      BY <3>3, <3>4, <3>5, <3>6 DEF NoticesKept
  <2>6. FactsKept'
    BY <1>1, <1>3, <1>4, <2>1, <2>2, <2>3 DEF FactsKept, About
  <2>7. QED
    BY <2>4, <2>5, <2>6 DEF AnnouncementsInv
<1>7. QED
  BY <1>5, <1>6

\* What a listener does besides publishing tells nobody.
LEMMA AsideStep ==
  ASSUME AnnouncementsInv, NEW l \in listeners, DoAside(l)
  PROVE  AnnouncementsInv'
<1>1. AnnouncementsTyped /\ NoticesKept /\ FactsKept
  BY DEF AnnouncementsInv
<1>2. PICK m \in Messages : m = Head(l.todo)
  BY <1>1, LeftStep DEF DoAside
<1>3. /\ listeners' \subseteq [n : Nat, todo : Todo]
      /\ \A k : OnTheWay(k)' => OnTheWay(k)
      /\ \A k : OnTheWay(k) => k = m \/ OnTheWay(k)'
  BY <1>1, <1>2, LeftStep DEF DoAside
<1>4. /\ m.about = "aside"
      /\ UNCHANGED <<fact, raised, window, told, noted, excused, unnoted, changes, lost>>
  BY <1>2 DEF DoAside
<1>5. AnnouncementsTyped'
  BY <1>1, <1>3, <1>4 DEF AnnouncementsTyped
<1>6. NoticesKept'
  BY <1>1, <1>3, <1>4 DEF NoticesKept
<1>7. FactsKept'
  BY <1>1, <1>3, <1>4 DEF FactsKept, About
<1>8. QED
  BY <1>5, <1>6, <1>7 DEF AnnouncementsInv

\* A listener that fails leaves the subscribers wrong, or without a notice.
LEMMA FailStep ==
  ASSUME AnnouncementsInv, NEW l \in listeners, ListenerFails(l)
  PROVE  AnnouncementsInv'
<1>1. AnnouncementsTyped /\ NoticesKept /\ FactsKept
  BY DEF AnnouncementsInv
<1>2. /\ lost < MaxLost /\ lost' = lost + 1
      /\ listeners' = listeners \ {l}
      /\ excused' = excused \cup {a \in About : Tells(l, a)}
      /\ unnoted' = unnoted \cup {m \in raised : \E i \in DOMAIN l.todo : l.todo[i] = m}
      /\ UNCHANGED <<fact, raised, window, told, noted, changes>>
  BY DEF ListenerFails
<1>3. /\ \A k : OnTheWay(k)' => OnTheWay(k)
      /\ \A k : OnTheWay(k) => Says(l.todo, k) \/ OnTheWay(k)'
  BY <1>2 DEF OnTheWay
<1>4. \A a \in About, k \in Messages : k.about = a /\ Says(l.todo, k) => a \in excused'
  BY <1>2 DEF Says, Tells
<1>5. AnnouncementsTyped'
  BY <1>1, <1>2, AnnouncementsAssumption DEF AnnouncementsTyped
<1>6. NoticesKept'
  <2>1. \A k \in raised : Says(l.todo, k) => k \in unnoted'
    BY <1>2 DEF Says
  <2>2. QED
    BY <1>1, <1>2, <1>3, <2>1 DEF NoticesKept
<1>7. FactsKept'
  BY <1>1, <1>2, <1>3, <1>4 DEF FactsKept
<1>8. QED
  BY <1>5, <1>6, <1>7 DEF AnnouncementsInv

LEMMA FiveMinutesStep ==
  ASSUME AnnouncementsInv, FiveMinutes
  PROVE  AnnouncementsInv'
<1>1. AnnouncementsTyped /\ NoticesKept /\ FactsKept
  BY DEF AnnouncementsInv
<1>2. /\ window' = {}
      /\ UNCHANGED <<fact, raised, listeners, told, noted, excused, unnoted, changes, lost>>
  BY DEF FiveMinutes
<1>3. \A m : OnTheWay(m)' <=> OnTheWay(m)
  BY <1>2 DEF OnTheWay
<1>4. QED
  BY <1>1, <1>2, <1>3 DEF AnnouncementsInv, AnnouncementsTyped, NoticesKept, FactsKept

\* Changes that one listener tells of.
LEMMA OneListener ==
  ASSUME AnnouncementsInv, NEW a \in About, NEW v \in ValuesOf(a), NEW todo,
         Tidings(todo, a, v), Change(a, v, {todo})
  PROVE  AnnouncementsInv'
<1>1. {todo} \in SUBSET Todo /\ {todo} # {}
  BY DEF Tidings
<1>2. QED
  BY <1>1, ChangeStep

\* The payment, as Stripe and the escalation change it.
LEMMA PaymentSteps ==
  ASSUME AnnouncementsInv, StripeReports \/ Escalate
  PROVE  AnnouncementsInv'
<1>1. fact \in Saved /\ changes \in Nat
  BY DEF AnnouncementsInv, AnnouncementsTyped
<1>2. PICK previous \in Payment, next \in Payment, stripe \in Nat :
        /\ previous = fact.payment /\ previous # next
        /\ Change("payment", next, {PaymentStatusChanged(previous, next, stripe)})
  <2>1. fact.payment \in Payment
    BY <1>1 DEF Saved
  <2>2. PICK p \in Payment : p = fact.payment
    BY <2>1
  <2>3. CASE StripeReports
    <3>1. PICK n \in Nat : n = changes + 1
      BY <1>1
    <3>2. PICK q \in {"PAST_DUE", "ACTIVE"} :
            p # q /\ Change("payment", q, {PaymentStatusChanged(p, q, n)})
      BY <2>2, <2>3, <3>1 DEF StripeReports
    <3>3. q \in Payment
      BY DEF Payment
    <3>4. QED
      BY <2>2, <3>2, <3>3
  <2>4. CASE Escalate
    <3>1. \/ Change("payment", "RESTRICTED", {PaymentStatusChanged("PAST_DUE", "RESTRICTED", 0)})
             /\ p = "PAST_DUE"
          \/ Change("payment", "LOCKED", {PaymentStatusChanged("RESTRICTED", "LOCKED", 0)})
             /\ p = "RESTRICTED"
      BY <2>2, <2>4 DEF Escalate
    <3>2. {"RESTRICTED", "LOCKED"} \subseteq Payment
      BY DEF Payment
    <3>3. QED
      BY <2>2, <3>1, <3>2
  <2>5. QED
    BY <2>3, <2>4
<1>3. Tidings(PaymentStatusChanged(previous, next, stripe), "payment", next)
  BY <1>2, PaymentTidings
<1>4. "payment" \in About /\ next \in ValuesOf("payment")
  BY DEF About, ValuesOf
<1>5. QED
  BY <1>2, <1>3, <1>4, OneListener

\* The plan, as Stripe, the tenant and the end of the trial change it.
LEMMA PlanSteps ==
  ASSUME AnnouncementsInv, StripeChangesPlan \/ Upgrade \/ TrialFallsBack
  PROVE  AnnouncementsInv'
<1>1. fact \in Saved /\ changes \in Nat
  BY DEF AnnouncementsInv, AnnouncementsTyped
<1>2. "plan" \in About /\ \A plan \in Plans : plan \in ValuesOf("plan")
  BY DEF About, ValuesOf
<1>3. CASE StripeChangesPlan
  <2>1. PICK n \in Nat, plan \in Plans, created \in BOOLEAN :
          /\ n = changes + 1
          /\ Change("plan", plan, {SubscriptionChanged(plan, n)} \cup
                                  {SubscriptionCreated(plan, n) : c \in {created} \ {FALSE}})
    <3>1. PICK n \in Nat : n = changes + 1
      BY <1>1
    <3>2. QED
      BY <1>3, <3>1 DEF StripeChangesPlan
  <2> DEFINE todos == {SubscriptionChanged(plan, n)} \cup
                      {SubscriptionCreated(plan, n) : c \in {created} \ {FALSE}}
  <2>2. /\ Tidings(SubscriptionChanged(plan, n), "plan", plan)
        /\ Tidings(SubscriptionCreated(plan, n), "plan", plan)
    BY PlanTidings
  <2>3. todos # {} /\ \A todo \in todos : Tidings(todo, "plan", plan)
    BY <2>2
  <2>4. todos \in SUBSET Todo
    BY <2>3 DEF Tidings
  <2>5. Change("plan", plan, todos)
    BY <2>1
  <2> HIDE DEF todos
  <2>6. QED
    BY <1>2, <2>3, <2>4, <2>5, ChangeStep
<1>4. CASE Upgrade
  <2>1. PICK plan \in Plans, previous \in Plans :
          Change("plan", plan, {SubscriptionUpgraded(plan, previous)})
    <3>1. PICK p \in Plans : p = fact.plan
      BY <1>1 DEF Saved
    <3>2. QED
      BY <1>4, <3>1 DEF Upgrade
  <2>2. QED
    BY <1>2, <2>1, PlanTidings, OneListener
<1>5. CASE TrialFallsBack
  BY <1>2, <1>5, PlanTidings, OneListener, AnnouncementsAssumption DEF TrialFallsBack
<1>6. QED
  BY <1>3, <1>4, <1>5

\* The suspension and the deletion.
LEMMA TenantSteps ==
  ASSUME AnnouncementsInv,
         Suspend \/ Unsuspend \/ ScheduleDeletion \/ CancelDeletion \/ ExecuteDeletion
  PROVE  AnnouncementsInv'
<1>1. PICK n \in Nat : n = changes + 1
  BY DEF AnnouncementsInv, AnnouncementsTyped
<1>2. /\ "suspension" \in About /\ {"SUSPENDED", "ACTIVE"} \subseteq ValuesOf("suspension")
      /\ "deletion" \in About /\ {"NONE", "SCHEDULED", "DELETED"} \subseteq ValuesOf("deletion")
  BY DEF About, ValuesOf
<1>3. \/ Change("suspension", "SUSPENDED", {TenantSuspended(n)})
      \/ Change("suspension", "ACTIVE", {TenantUnsuspended(n)})
      \/ Change("deletion", "SCHEDULED", {DeletionScheduled(n)})
      \/ Change("deletion", "NONE", {DeletionCancelled(n)})
      \/ Change("deletion", "DELETED", {TenantDeleted(n)})
      \/ Emit({TenantDeleted(n)}, {"deletion"}) /\ UNCHANGED <<fact, raised>>
  BY <1>1 DEF Suspend, Unsuspend, ScheduleDeletion, CancelDeletion, ExecuteDeletion
<1>4. QED
  BY <1>2, <1>3, TenantTidings, OneListener, NotDeletedStep

\* The notices.
LEMMA RaisingSteps ==
  ASSUME AnnouncementsInv,
         CrossThreshold \/ TrialReminder \/ ResetMonth \/ Requested \/ AcceptInvitation
  PROVE  AnnouncementsInv'
<1>1. PICK n \in Nat, plan \in Plans : n = changes + 1 /\ plan = fact.plan
  BY DEF AnnouncementsInv, AnnouncementsTyped, Saved
<1>2. PICK todo : Heralds(todo) /\ Raise(todo)
  <2>1. CASE CrossThreshold
    BY <1>1, <2>1, NoticeLists, AnnouncementsAssumption DEF CrossThreshold
  <2>2. CASE TrialReminder
    BY <1>1, <2>2, NoticeLists DEF TrialReminder
  <2>3. CASE ResetMonth
    BY <1>1, <2>3, NoticeLists DEF ResetMonth
  <2>4. CASE Requested
    <3>1. CASE \E target \in Plans \ {fact.plan} : Raise(DowngradeScheduled(target))
      BY <1>1, <3>1, NoticeLists
    <3>2. CASE ~\E target \in Plans \ {fact.plan} : Raise(DowngradeScheduled(target))
      <4>1. PICK todo \in {SubscriptionCancelled(plan), MemberInvited(1), TenantCreated,
                           TenantUpdated(n), OwnershipTransferred(n)} : Raise(todo)
        BY <1>1, <2>4, <3>2 DEF Requested
      <4>2. QED
        BY <1>1, <4>1, NoticeLists
    <3>3. QED
      BY <3>1, <3>2
  <2>5. CASE AcceptInvitation
    BY <1>1, <2>5, NoticeLists DEF AcceptInvitation
  <2>6. QED
    BY <2>1, <2>2, <2>3, <2>4, <2>5
<1>3. QED
  BY <1>2, RaiseStep

LEMMA AnnouncementsBegin ==
  AInit => AnnouncementsInv
<1> SUFFICES ASSUME AInit PROVE AnnouncementsInv
  OBVIOUS
<1>1. /\ listeners = {} /\ window = {} /\ raised = {} /\ noted = {} /\ unnoted = {}
      /\ excused = {} /\ changes = 0 /\ lost = 0 /\ told = fact
  BY DEF AInit
<1>2. fact \in Saved
  BY AnnouncementsAssumption DEF AInit, Saved, Payment
<1>3. AnnouncementsTyped
  BY <1>1, <1>2, AnnouncementsAssumption DEF AnnouncementsTyped
<1>4. QED
  BY <1>1, <1>3 DEF AnnouncementsInv, NoticesKept, FactsKept, OnTheWay

LEMMA AnnouncementsStep ==
  AnnouncementsInv /\ [ANext]_avars => AnnouncementsInv'
<1> SUFFICES ASSUME AnnouncementsInv, [ANext]_avars PROVE AnnouncementsInv'
  OBVIOUS
<1>1. CASE StripeReports \/ Escalate
  BY <1>1, PaymentSteps
<1>2. CASE StripeChangesPlan \/ Upgrade \/ TrialFallsBack
  BY <1>2, PlanSteps
<1>3. CASE Suspend \/ Unsuspend \/ ScheduleDeletion \/ CancelDeletion \/ ExecuteDeletion
  BY <1>3, TenantSteps
<1>4. CASE CrossThreshold \/ TrialReminder \/ ResetMonth \/ Requested \/ AcceptInvitation
  BY <1>4, RaisingSteps
<1>5. ASSUME NEW l \in listeners, Publish(l) \/ DoAside(l) \/ ListenerFails(l)
      PROVE  AnnouncementsInv'
  BY <1>5, PublishStep, AsideStep, FailStep
<1>6. CASE FiveMinutes
  BY <1>6, FiveMinutesStep
<1>7. CASE UNCHANGED avars
  <2>1. \A m : OnTheWay(m)' <=> OnTheWay(m)
    BY <1>7 DEF OnTheWay, avars
  <2>2. QED
    BY <1>7, <2>1
       DEF avars, AnnouncementsInv, AnnouncementsTyped, NoticesKept, FactsKept
<1>8. QED
  BY <1>1, <1>2, <1>3, <1>4, <1>5, <1>6, <1>7 DEF ANext

LEMMA AnnouncementsHold == ASpec => []AnnouncementsInv
<1>1. QED
  BY AnnouncementsBegin, AnnouncementsStep, PTL DEF ASpec

LEMMA AnnouncementTypes == ASSUME AnnouncementsInv PROVE ATypeOK
<1>1. /\ fact \in Saved /\ told \in Saved
      /\ excused \subseteq About
      /\ changes \in 0..MaxChanges /\ lost \in 0..MaxLost
      /\ noted \cup unnoted \subseteq raised
  BY DEF AnnouncementsInv, AnnouncementsTyped, NoticesKept
<1>2. \A l \in listeners : Len(l.todo) \in 1..3
  <2> TAKE l \in listeners
  <2>1. l.todo \in Todo
    BY DEF AnnouncementsInv, AnnouncementsTyped
  <2>2. QED
    BY <2>1 DEF Todo
<1>3. /\ fact.payment \in Payment /\ fact.plan \in Plans
      /\ fact.suspension \in {"ACTIVE", "SUSPENDED"}
      /\ told.payment \in Payment /\ told.plan \in Plans
      /\ told.suspension \in {"ACTIVE", "SUSPENDED"}
      /\ fact.deletion \in {"NONE", "SCHEDULED", "DELETED"}
  BY <1>1 DEF Saved
<1>4. QED
  BY <1>1, <1>2, <1>3 DEF ATypeOK

\* What is saved, told and on its way keeps its type, and no notice is got that was not
\* raised.
THEOREM AnnouncementsTypeCorrect == ASpec => []ATypeOK
<1>1. AnnouncementsInv => ATypeOK
  BY AnnouncementTypes
<1>2. QED
  BY <1>1, AnnouncementsHold, PTL

\* When the listeners are done, each fact has been told as it is saved, unless it is excused.
THEOREM SubscribersKnow == ASpec => []SubscribersAreRight
<1>1. AnnouncementsInv => SubscribersAreRight
  BY DEF AnnouncementsInv, FactsKept, OnTheWay, SubscribersAreRight
<1>2. QED
  BY <1>1, AnnouncementsHold, PTL

\* When the listeners are done, each notice has arrived, unless it may be missed.
THEOREM RaisedNoticesArrive == ASpec => []NoticesArrive
<1>1. AnnouncementsInv => NoticesArrive
  BY DEF AnnouncementsInv, NoticesKept, OnTheWay, NoticesArrive
<1>2. QED
  BY <1>1, AnnouncementsHold, PTL
=============================================================================
