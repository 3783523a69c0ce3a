------------------------------ MODULE MCBilling ------------------------------
(***************************************************************************)
(* Small instances of Billing for TLC.                                     *)
(***************************************************************************)
EXTENDS Billing, TLC

\* Handlers are interchangeable slots, subscriptions interchangeable ids.
Symmetry == Permutations(Handlers) \cup Permutations(Subs)

\* For a counterexample that rests on no leniency of Stripe's: it does not let
\* cancel_at_period_end be set directly while a schedule is attached, which is
\* why scheduleSubscriptionCancellation releases the schedule first.
StrictStripe ==
  \A h \in Handlers :
    pc[h] = "call" /\ pc'[h] = "save" /\ op[h] \in {"upgrade", "reactivate"}
      => stripe[row[h].sub].sched = Null

StrictSpec == Init /\ [][Next /\ StrictStripe]_vars /\ Fairness
=============================================================================
