------------------------- MODULE SubscriptionStatus -------------------------
(***************************************************************************)
(* What one tenant is shown of its subscription and of its use of the plan. *)
(* The figures are gathered from other services at once; one that does not *)
(* answer counts as zero.  The result is cached under the tenant that the  *)
(* request names, for five minutes.  The members are counted in the tenant *)
(* of the request's context, which may be another one.                     *)
(***************************************************************************)
EXTENDS Integers, FiniteSets, Absence

CONSTANTS
  Viewers,         \* requests in progress at the same time
  Figures,         \* what the other services count
  MemberLimit,     \* members that are counted as full use of the plan
  MaxMembers,      \* members of a tenant (bound)
  MaxDrifts,       \* changes of what is shown (bound)
  MaxSFaults       \* calls that fail (bound)

ASSUME StatusAssumption ==
  /\ MemberLimit \in Nat \ {0} /\ MaxMembers \in Nat \ {0}
  /\ MaxDrifts \in Nat /\ MaxSFaults \in Nat

VARIABLES
  figure,          \* per figure: what its service answers
  members,         \* the members of the tenant
  account,         \* the payment status and whether the row has a trial end
  statistics,      \* the cached statistics, or Null
  viewer,          \* per request: what it has gathered
  heldFigure,      \* (history) per figure and value: the periods since it was true
  heldMembers,     \* (history) per number of members: likewise
  failed,          \* (history) per figure: the periods since its service failed
  foreign,         \* (history) the periods since the statistics were gathered in
                   \* another tenant's context
  drifts, sfaults  \* budgets spent

svars == <<figure, members, account, statistics, viewer, heldFigure, heldMembers, failed, foreign,
           drifts, sfaults>>

PaymentStatus == {"active", "past_due"}

\* What services count is at least one here, so that a zero tells of a failure.
Counted == 1..2

\* A period is the time that the cache keeps an entry, five minutes.  What is Old is too
\* long ago to matter.
Old == 4

Percentage(count) == LET p == (count * 100) \div MemberLimit IN IF p > 100 THEN 100 ELSE p

NoViewer == [step |-> "idle", foreign |-> FALSE, late |-> FALSE, whole |-> FALSE,
             left |-> {}, figures |-> [f \in Figures |-> 0], percentage |-> Null,
             payment |-> "active", loaded |-> FALSE, during |-> {}]

SInit ==
  /\ figure = [f \in Figures |-> 1]
  /\ members = 1
  /\ account \in [payment : {"active"}, trial : BOOLEAN]
  /\ statistics = Null
  /\ viewer = [v \in Viewers |-> NoViewer]
  /\ heldFigure = [f \in Figures |-> [n \in Counted |-> Old]]
  /\ heldMembers = [n \in 0..MaxMembers |-> Old]
  /\ failed = [f \in Figures |-> Old]
  /\ foreign = Old
  /\ drifts = 0 /\ sfaults = 0

SFault == sfaults < MaxSFaults /\ sfaults' = sfaults + 1

-----------------------------------------------------------------------------
(* What is shown changes.                                                  *)

Drift == drifts < MaxDrifts /\ drifts' = drifts + 1

FigureChanges(f) ==
  /\ Drift
  /\ \E n \in Counted \ {figure[f]} : figure' = [figure EXCEPT ![f] = n]
  /\ heldFigure' = [heldFigure EXCEPT ![f][figure[f]] = 0]
  /\ UNCHANGED <<members, account, statistics, viewer, heldMembers, failed, foreign, sfaults>>

MembersChange ==
  /\ Drift
  /\ members' \in {members - 1, members + 1} \cap 0..MaxMembers
  /\ heldMembers' = [heldMembers EXCEPT ![members] = 0]
  /\ UNCHANGED <<figure, account, statistics, viewer, heldFigure, failed, foreign, sfaults>>

PaymentChanges ==
  /\ Drift
  /\ \E p \in PaymentStatus \ {account.payment} :
       /\ account' = [account EXCEPT !.payment = p]
       /\ viewer' = [v \in Viewers |-> IF viewer[v].whole
                                        THEN [viewer[v] EXCEPT !.during = @ \cup {p}] ELSE viewer[v]]
  /\ UNCHANGED <<figure, members, statistics, heldFigure, heldMembers, failed, foreign, sfaults>>

\* Calls time out: a request ends in the period after the one it began in.
NextPeriod ==
  LET Aged(age) == IF age = Old THEN Old ELSE age + 1 IN
  /\ \A v \in Viewers : ~viewer[v].late
  /\ viewer' = [v \in Viewers |-> [viewer[v] EXCEPT !.late = viewer[v].step # "idle"]]
  /\ statistics' = IF statistics = Null \/ statistics.life = 0 THEN Null
                   ELSE [statistics EXCEPT !.life = @ - 1]
  /\ heldFigure' = [f \in Figures |-> [n \in Counted |-> Aged(heldFigure[f][n])]]
  /\ heldMembers' = [n \in 0..MaxMembers |-> Aged(heldMembers[n])]
  /\ failed' = [f \in Figures |-> Aged(failed[f])]
  /\ foreign' = Aged(foreign)
  /\ UNCHANGED <<figure, members, account, drifts, sfaults>>

StatisticsExpire ==
  /\ statistics # Null /\ statistics.life = 0
  /\ statistics' = Null
  /\ UNCHANGED <<figure, members, account, viewer, heldFigure, heldMembers, failed,
                 foreign, drifts, sfaults>>

-----------------------------------------------------------------------------
(* Requests.                                                               *)

\* The statistics of the tenant in the path, in the context of the one in the header.
GetStats(v) ==
  /\ viewer[v].step = "idle"
  /\ \E other \in BOOLEAN :
       viewer' = [viewer EXCEPT ![v] = [NoViewer EXCEPT !.step = "stats", !.foreign = other]]
  /\ UNCHANGED <<figure, members, account, statistics, heldFigure, heldMembers, failed,
                 foreign, drifts, sfaults>>

\* The whole subscription, of the tenant of the context.
GetCurrentSubscription(v) ==
  /\ viewer[v].step = "idle"
  /\ viewer' = [viewer EXCEPT ![v] = [NoViewer EXCEPT !.step = "tenant",
                    !.whole = TRUE, !.during = {account.payment}]]
  /\ UNCHANGED <<figure, members, account, statistics, heldFigure, heldMembers, failed,
                 foreign, drifts, sfaults>>

\* Faulty variant: the status is forgotten.
ShownPayment_Active(row) == "active"

\* Of a tenant without a trial end the payment status is not looked at.
ShownPayment(row) == IF row.trial THEN row.payment ELSE "active"

\* A tenant that cannot be loaded is shown as active.
LoadTenant(v) ==
  /\ viewer[v].step = "tenant"
  /\ \/ /\ viewer' = [viewer EXCEPT ![v] =
             [@ EXCEPT !.step = "stats", !.payment = ShownPayment(account), !.loaded = TRUE]]
        /\ UNCHANGED sfaults
     \/ /\ SFault
        /\ viewer' = [viewer EXCEPT ![v].step = "stats"]
  /\ UNCHANGED <<figure, members, account, statistics, heldFigure, heldMembers, failed,
                 foreign, drifts>>

\* A subscription goes on with Stripe, whatever comes of the statistics.
AfterStats(v) == IF viewer[v].whole THEN "stripe" ELSE "answer"

TakeStatistics(v) ==
  /\ viewer[v].step = "stats" /\ statistics # Null
  /\ viewer' = [viewer EXCEPT ![v] = [@ EXCEPT !.step = AfterStats(v),
       !.figures = statistics.figures, !.percentage = statistics.percentage]]
  /\ UNCHANGED <<figure, members, account, statistics, heldFigure, heldMembers, failed,
                 foreign, drifts, sfaults>>

MissStatistics(v) ==
  /\ viewer[v].step = "stats" /\ statistics = Null
  /\ viewer' = [viewer EXCEPT ![v] = [@ EXCEPT !.step = "gather", !.left = Figures]]
  /\ UNCHANGED <<figure, members, account, statistics, heldFigure, heldMembers, failed,
                 foreign, drifts, sfaults>>

Gathered(record, f) == [record EXCEPT !.left = @ \ {f}, !.figures[f] = figure[f]]

\* The calls are all under way: their answers come in any order, or they fail.
Gather(v, f) ==
  /\ viewer[v].step = "gather" /\ f \in viewer[v].left
  /\ \/ /\ viewer' = [viewer EXCEPT ![v] = Gathered(@, f)]
        /\ UNCHANGED <<failed, sfaults>>
     \/ /\ SFault
        /\ viewer' = [viewer EXCEPT ![v].left = @ \ {f}]
        /\ failed' = [failed EXCEPT ![f] = 0]
  /\ UNCHANGED <<figure, members, account, statistics, heldFigure, heldMembers, foreign, drifts>>

CountMembers(v) ==
  /\ viewer[v].step = "gather" /\ viewer[v].left = {}
  /\ \E n \in IF viewer[v].foreign THEN 0..MaxMembers ELSE {members} :
       viewer' = [viewer EXCEPT ![v] = [@ EXCEPT !.step = "cache", !.percentage = Percentage(n)]]
  /\ foreign' = IF viewer[v].foreign THEN 0 ELSE foreign
  /\ UNCHANGED <<figure, members, account, statistics, heldFigure, heldMembers, failed,
                 drifts, sfaults>>

\* Faulty variant: the statistics are kept for too long.
Life_Long == 4

Life == 1

CacheStatistics(v) ==
  /\ viewer[v].step = "cache"
  /\ statistics' =
       [figures |-> viewer[v].figures, percentage |-> viewer[v].percentage, life |-> Life]
  /\ viewer' = [viewer EXCEPT ![v].step = AfterStats(v)]
  /\ UNCHANGED <<figure, members, account, heldFigure, heldMembers, failed, foreign,
                 drifts, sfaults>>

\* Counting or the cache fails: a subscription is shown without the percentage.
StatsFail(v) ==
  /\ viewer[v].step \in {"stats", "gather", "cache"} /\ SFault
  /\ viewer' = [viewer EXCEPT ![v] =
       IF viewer[v].whole THEN [@ EXCEPT !.step = "stripe", !.percentage = Null] ELSE NoViewer]
  /\ UNCHANGED <<figure, members, account, statistics, heldFigure, heldMembers, failed,
                 foreign, drifts>>

\* The subscription at Stripe is fetched; without an answer its fields stay empty.
FetchSubscription(v) ==
  /\ viewer[v].step = "stripe"
  /\ viewer' = [viewer EXCEPT ![v].step = "answer"]
  /\ UNCHANGED <<figure, members, account, statistics, heldFigure, heldMembers, failed,
                 foreign, drifts, sfaults>>

AnswerViewer(v) ==
  /\ viewer[v].step = "answer"
  /\ viewer' = [viewer EXCEPT ![v] = NoViewer]
  /\ UNCHANGED <<figure, members, account, statistics, heldFigure, heldMembers, failed,
                 foreign, drifts, sfaults>>

-----------------------------------------------------------------------------
SNext ==
  \/ \E f \in Figures : FigureChanges(f)
  \/ MembersChange \/ PaymentChanges
  \/ NextPeriod \/ StatisticsExpire
  \/ \E v \in Viewers :
       \/ GetStats(v) \/ GetCurrentSubscription(v) \/ LoadTenant(v)
       \/ TakeStatistics(v) \/ MissStatistics(v) \/ CountMembers(v) \/ CacheStatistics(v)
       \/ StatsFail(v) \/ FetchSubscription(v) \/ AnswerViewer(v)
       \/ \E f \in Figures : Gather(v, f)

SSpec == SInit /\ [][SNext]_svars

-----------------------------------------------------------------------------
STypeOK ==
  /\ figure \in [Figures -> Counted]
  /\ members \in 0..MaxMembers
  /\ account.payment \in PaymentStatus
  /\ statistics # Null => statistics.percentage \in 0..100
  /\ \A v \in Viewers : /\ viewer[v].figures \in [Figures -> Counted \cup {0}]
                        /\ viewer[v].left \subseteq Figures
  /\ drifts \in 0..MaxDrifts /\ sfaults \in 0..MaxSFaults

\* A request takes a period at most, the cached statistics live for one and may have
\* been gathered for one, and they may be taken at the beginning of the next.
Recently(age) == age < Old

\* What is shown was true a short time ago.  A zero tells of a service that did not
\* answer; the percentage may be another tenant's if statistics of this tenant were
\* gathered in the context of the other.
ShownIsRecent ==
  \A v \in Viewers :
    viewer[v].step = "answer" /\ viewer[v].percentage # Null =>
      /\ \A f \in Figures :
           \/ viewer[v].figures[f] = figure[f]
           \/ viewer[v].figures[f] # 0 /\ Recently(heldFigure[f][viewer[v].figures[f]])
           \/ viewer[v].figures[f] = 0 /\ Recently(failed[f])
      /\ \/ \E n \in 0..MaxMembers : /\ viewer[v].percentage = Percentage(n)
                                     /\ n = members \/ Recently(heldMembers[n])
         \/ Recently(foreign)

\* The payment status shown was the tenant's at some time during the request, unless the
\* tenant could not be loaded.  One without a trial end, that is, one created before
\* trials were, is shown as active whatever its status.
PaymentShownIsTrue ==
  \A v \in Viewers :
    viewer[v].step = "answer" /\ viewer[v].whole /\ viewer[v].loaded =>
      \/ viewer[v].payment \in viewer[v].during
      \/ ~account.trial /\ viewer[v].payment = "active"
=============================================================================
