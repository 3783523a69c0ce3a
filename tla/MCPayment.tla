------------------------------ MODULE MCPayment ------------------------------
(***************************************************************************)
(* Small instances of PaymentEnforcement for TLC.                          *)
(***************************************************************************)
EXTENDS PaymentEnforcement, TLC

CONSTANT Horizon  \* the day after which Stripe has nothing more to report

Quiet == inbox = {} /\ \A h \in Handlers : pc[h] = "idle"

\* For liveness within MaxDay: the job of a day ends on that day, no invoice is
\* reported after the Horizon, and those reported are dealt with by then.
Timely == /\ today' # today => ranOn = today /\ (today >= Horizon => Quiet)
          /\ today > Horizon => sent' = sent /\ edits' = edits

TimelySpec == /\ Init
              /\ [][Next /\ Timely]_vars
              /\ Fairness
              /\ WF_vars(NextDay /\ Timely)
=============================================================================
