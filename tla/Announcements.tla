---------------------------- MODULE Announcements ----------------------------
(***************************************************************************)
(* What the other services are told about one tenant.  A service saves a   *)
(* change and emits an event; the listeners run on their own, nobody waits *)
(* for them.  A listener publishes one message, or several, one after the  *)
(* other, on a FIFO topic.  For five minutes the topic drops a message     *)
(* whose deduplication id it has accepted already.                         *)
(*                                                                         *)
(* A message says what it is about and what it tells.  The type it is      *)
(* published under is another matter: an update and a scheduled deletion   *)
(* go out as tenant.created, with their own type inside.                   *)
(***************************************************************************)
EXTENDS Integers, Sequences, FiniteSets, Absence

CONSTANTS
  Plans,           \* billing plans, with Free among them
  Free,
  Thresholds,      \* percentages of a limit that are announced
  MaxChanges,      \* changes (bound)
  MaxLost          \* publications that fail (bound)

ASSUME AnnouncementsAssumption ==
  /\ Free \in Plans
  /\ Null \notin {"NONE", "SCHEDULED", "DELETED"}
  /\ Thresholds \subseteq Nat
  /\ MaxChanges \in Nat /\ MaxLost \in Nat

VARIABLES
  fact,            \* the saved state: the payment status, the plan, the suspension
                   \* and the deletion
  raised,          \* notices raised: messages that tell of an occurrence, of no fact
  listeners,       \* running listeners: what each has left to do
  window,          \* messages the topic has accepted in the last five minutes
  told,            \* what the subscribers have been told last, per fact
  noted,           \* notices the subscribers have got
  excused,         \* (history) facts the subscribers may be wrong about
  unnoted,         \* (history) notices whose publication failed, or that told of an
                   \* invitation within five minutes of another that did
  changes, lost    \* budgets spent

avars == <<fact, raised, listeners, window, told, noted, excused, unnoted, changes, lost>>

About == {"payment", "plan", "suspension", "deletion"}

Payment == {"ACTIVE", "PAST_DUE", "RESTRICTED", "LOCKED"}

\* A message: the type it is published under, what it says (about, value, number), and
\* what its deduplication id is made of.  previous: the plan in it; number: the threshold, the days left or whatever else a notice counts;
\* stripe: the number of the Stripe event behind it, or 0; at: the time of day that
\* the tenant's own announcements put in, here the number of the change, or 0.
Message(type, about, value, stripe, previous, at) ==
  [type |-> type, about |-> about, value |-> value, stripe |-> stripe,
   previous |-> previous, at |-> at, number |-> 0]

AInit ==
  /\ fact = [payment |-> "ACTIVE", plan |-> Free, suspension |-> "ACTIVE", deletion |-> "NONE"]
  /\ raised = {} /\ noted = {} /\ unnoted = {}
  /\ listeners = {}
  /\ window = {}
  /\ told = fact
  /\ excused = {}
  /\ changes = 0 /\ lost = 0

-----------------------------------------------------------------------------
(* The messages of each listener.                                          *)

SubscriptionChanged(plan, stripe) ==
  <<Message("subscription.changed", "plan", plan, stripe, Null, 0)>>

SubscriptionCreated(plan, stripe) ==
  <<Message("subscription.created", "plan", plan, stripe, Null, 0)>>

SubscriptionUpgraded(plan, previous) ==
  <<Message("subscription.upgraded", "plan", plan, 0, previous, 0)>>

PaymentStatusChanged(previous, next, stripe) ==
  LET Tell(type) == Message(type, "payment", next, stripe, Null, 0)
  IN  CASE next = "PAST_DUE"   -> <<Tell("payment.failed")>>
        [] next = "RESTRICTED" -> <<Tell("tenant.restricted")>>
        [] next = "LOCKED"     -> <<Tell("tenant.locked")>>
        [] next = "ACTIVE" /\ previous # "ACTIVE"
             -> <<Tell("payment.restored"), Tell("tenant.restored")>>
        [] OTHER -> <<>>

\* What a listener does besides publishing: an audit log entry, a mail, a job.
Aside(what) == Message(what, "aside", Null, 0, Null, 0)

AuditLog == Aside("audit")

\* What the tenant's own listener publishes; the time of day is in each of the ids.
OfTenant(type, about, value, at) == <<AuditLog, Message(type, about, value, 0, Null, at)>>

TenantSuspended(at) == OfTenant("tenant.suspended", "suspension", "SUSPENDED", at)

TenantUnsuspended(at) == OfTenant("tenant.unsuspended", "suspension", "ACTIVE", at)

\* The job and the mail come last: a publication that fails leaves neither.
DeletionScheduled(at) ==
  OfTenant("tenant.created", "deletion", "SCHEDULED", at)
    \o <<Aside("add the job and mail")>>

DeletionCancelled(at) ==
  OfTenant("tenant.deletion.cancelled", "deletion", "NONE", at)
    \o <<Aside("remove the job and mail")>>

TenantDeleted(at) ==
  OfTenant("tenant.deleted", "deletion", "DELETED", at) \o <<Aside("delete the relations")>>

\* Messages that tell of an occurrence.
Notice(type, number, at) ==
  [Message(type, "notice", Null, 0, Null, at) EXCEPT !.number = number]

TenantUpdated(at) == <<AuditLog, Notice("tenant.created", 0, at)>>

OwnershipTransferred(at) == <<AuditLog, Notice("ownership.transferred", 0, at)>>

\* The id of the tenant, the id of the invitation: each occurs once.
TenantCreated == <<AuditLog, Notice("tenant.created", 0, 0)>>

MemberInvited(invitation) == <<Notice("member.invited", invitation, 0)>>

\* The relation is created first, the identity gets its metadata at the end.
MemberJoined(invitation) ==
  <<Aside("create the relation"), Notice("member.joined", invitation, 0), Aside("update the identity")>>

UsageThresholdCrossed(threshold) == <<Notice("usage.threshold_crossed", threshold, 0)>>

MonthlySummary(month) == <<Notice("usage.monthly_summary", month, 0)>>

TrialNotice(days) == <<Notice(IF days = 0 THEN "trial.expired" ELSE "trial.reminder", days, 0)>>

\* The plan remains for now.
SubscriptionCancelled(plan) == <<Message("subscription.cancelled", "notice", Null, 0, plan, 0)>>

\* The id is cut after 128 characters.  Those of a Stripe event and of the plan before
\* are within them in every other message; here nothing is left behind the plan that
\* the tenant will have.
DowngradeScheduled(target) ==
  <<Message("subscription.downgrade_scheduled", "notice", Null, 0, target, 0)>>

-----------------------------------------------------------------------------
(* Changes: each is saved and then emitted.                                *)

Tells(l, a) == \E i \in DOMAIN l.todo : l.todo[i].about = a

\* One listener for each event emitted.  What a listener is still telling about may be
\* overtaken by it.  A tenant that was deleted changes no more.
Emit(todos, wrong) ==
  LET started == {[n |-> changes + 1, todo |-> todo] : todo \in todos} IN
  /\ changes < MaxChanges /\ fact.deletion # "DELETED"
  /\ changes' = changes + 1
  /\ listeners' = listeners \cup started
  /\ excused' = excused \cup wrong \cup {a \in About : /\ \E l \in started : Tells(l, a)
                                                       /\ \E l \in listeners : Tells(l, a)}
  /\ UNCHANGED <<window, told, noted, unnoted, lost>>

Change(about, value, todos) ==
  /\ fact' = [fact EXCEPT ![about] = value]
  /\ Emit(todos, {})
  /\ UNCHANGED raised

\* invoice.payment_failed and invoice.payment_succeeded; each comes with an event id.
StripeReports ==
  \E next \in {"PAST_DUE", "ACTIVE"} :
    /\ fact.payment # next
    /\ Change("payment", next, {PaymentStatusChanged(fact.payment, next, changes + 1)})

\* The daily escalation: days after what was announced before, and without an event
\* of Stripe's.
Escalate ==
  /\ window = {}
  /\ \/ /\ fact.payment = "PAST_DUE"
        /\ Change("payment", "RESTRICTED", {PaymentStatusChanged("PAST_DUE", "RESTRICTED", 0)})
     \/ /\ fact.payment = "RESTRICTED"
        /\ Change("payment", "LOCKED", {PaymentStatusChanged("RESTRICTED", "LOCKED", 0)})

\* A checkout is completed (two events), or Stripe reports another plan or the end.
StripeChangesPlan ==
  \E plan \in Plans, created \in BOOLEAN :
    Change("plan", plan, {SubscriptionChanged(plan, changes + 1)} \cup
                         {SubscriptionCreated(plan, changes + 1) : c \in {created} \ {FALSE}})

Upgrade ==
  \E plan \in Plans \ {Free} : Change("plan", plan, {SubscriptionUpgraded(plan, fact.plan)})

\* The end of the trial: no event of Stripe's.
TrialFallsBack == Change("plan", Free, {SubscriptionChanged(Free, 0)})

Suspend == Change("suspension", "SUSPENDED", {TenantSuspended(changes + 1)})

Unsuspend == Change("suspension", "ACTIVE", {TenantUnsuspended(changes + 1)})

ScheduleDeletion ==
  /\ fact.deletion = "NONE"
  /\ Change("deletion", "SCHEDULED", {DeletionScheduled(changes + 1)})

CancelDeletion ==
  /\ fact.deletion = "SCHEDULED"
  /\ Change("deletion", "NONE", {DeletionCancelled(changes + 1)})

\* The event is emitted before the row is deleted, and that may fail.
ExecuteDeletion ==
  /\ fact.deletion = "SCHEDULED"
  /\ \/ Change("deletion", "DELETED", {TenantDeleted(changes + 1)})
     \/ Emit({TenantDeleted(changes + 1)}, {"deletion"}) /\ UNCHANGED <<fact, raised>>

\* A notice that can be raised again carries the time, or its owner's flag prevents it.
Raise(todo) ==
  \E m \in {todo[i] : i \in DOMAIN todo} :
  /\ m.about = "notice" /\ m \notin raised
  /\ raised' = raised \cup {m}
  /\ Emit({todo}, {})
  /\ UNCHANGED fact

CrossThreshold == \E t \in Thresholds : Raise(UsageThresholdCrossed(t))

TrialReminder == \E days \in {0, 1} : Raise(TrialNotice(days))

ResetMonth == Raise(MonthlySummary(1))

\* An invitation is accepted once.
AcceptInvitation ==
  /\ \E m \in raised : m.type = "member.invited"
  /\ Raise(MemberJoined(1))

\* Requests of the tenant: cancelling the subscription or scheduling a downgrade,
\* inviting, updating, transferring the ownership; and its creation.
Requested ==
  \/ Raise(SubscriptionCancelled(fact.plan))
  \/ \E target \in Plans \ {fact.plan} : Raise(DowngradeScheduled(target))
  \/ Raise(MemberInvited(1)) \/ Raise(TenantCreated)
  \/ Raise(TenantUpdated(changes + 1)) \/ Raise(OwnershipTransferred(changes + 1))

-----------------------------------------------------------------------------
(* The listeners and the topic.                                            *)

\* Faulty variant: the Stripe event is left out.
DeduplicationId_NoEvent(m) == <<m.type, m.value, m.number, m.previous, m.at>>

\* Faulty variant: the threshold and the days that remain are left out.
DeduplicationId_NoThreshold(m) ==
  IF m.about = "notice" THEN <<m.type>> ELSE <<m.type, m.stripe, m.value, m.number, m.previous, m.at>>

\* The id of an invitation is all there is of both messages about it.
OfInvitation(m) == m.type \in {"member.invited", "member.joined"}

\* A payment status is not part of it: the type of the message tells it.
DeduplicationId(m) ==
  <<IF OfInvitation(m) THEN "invitation" ELSE m.type, m.stripe, m.value, m.number, m.previous, m.at>>

Accepted(m) == \A w \in window : DeduplicationId(w) # DeduplicationId(m)

Left(l) == listeners' = IF Len(l.todo) = 1 THEN listeners \ {l}
                        ELSE (listeners \ {l}) \cup {[l EXCEPT !.todo = Tail(@)]}

\* Publishing what was accepted before succeeds, and tells nobody.
Publish(l) ==
  LET m == Head(l.todo) IN
  /\ m.about # "aside"
  /\ Left(l)
  /\ IF Accepted(m)
     THEN /\ window' = window \cup {m}
          /\ told' = IF m.about \in About THEN [told EXCEPT ![m.about] = m.value] ELSE told
          /\ noted' = IF m.about = "notice" THEN noted \cup {m} ELSE noted
          /\ UNCHANGED <<excused, unnoted>>
     ELSE /\ UNCHANGED <<window, told, noted>>
          /\ excused' = excused \cup {a \in About : a = m.about /\ m \in window}
          /\ unnoted' = IF OfInvitation(m) THEN unnoted \cup {m} ELSE unnoted
  /\ UNCHANGED <<fact, raised, changes, lost>>

DoAside(l) ==
  /\ Head(l.todo).about = "aside"
  /\ Left(l)
  /\ UNCHANGED <<fact, raised, window, told, noted, excused, unnoted, changes, lost>>

\* A statement of the listener throws, or the process dies: the rest is not told.
ListenerFails(l) ==
  /\ lost < MaxLost /\ lost' = lost + 1
  /\ listeners' = listeners \ {l}
  /\ excused' = excused \cup {a \in About : Tells(l, a)}
  /\ unnoted' = unnoted \cup {m \in raised : \E i \in DOMAIN l.todo : l.todo[i] = m}
  /\ UNCHANGED <<fact, raised, window, told, noted, changes>>

FiveMinutes ==
  /\ window # {}
  /\ window' = {}
  /\ UNCHANGED <<fact, raised, listeners, told, noted, excused, unnoted, changes, lost>>

-----------------------------------------------------------------------------
ANext ==
  \/ StripeReports \/ Escalate
  \/ StripeChangesPlan \/ Upgrade \/ TrialFallsBack
  \/ Suspend \/ Unsuspend
  \/ ScheduleDeletion \/ CancelDeletion \/ ExecuteDeletion
  \/ CrossThreshold \/ TrialReminder \/ ResetMonth \/ Requested \/ AcceptInvitation
  \/ \E l \in listeners : Publish(l) \/ DoAside(l) \/ ListenerFails(l)
  \/ FiveMinutes

ASpec == AInit /\ [][ANext]_avars

-----------------------------------------------------------------------------
ATypeOK ==
  /\ fact.payment \in Payment /\ fact.plan \in Plans
  /\ fact.suspension \in {"ACTIVE", "SUSPENDED"}
  /\ told.payment \in Payment /\ told.plan \in Plans
  /\ told.suspension \in {"ACTIVE", "SUSPENDED"}
  /\ fact.deletion \in {"NONE", "SCHEDULED", "DELETED"}
  /\ \A l \in listeners : Len(l.todo) \in 1..3
  /\ excused \subseteq About
  /\ noted \cup unnoted \subseteq raised
  /\ changes \in 0..MaxChanges /\ lost \in 0..MaxLost

\* When no listener is running, the subscribers have been told of each fact what is
\* saved, unless a change came while an earlier one was being told, a publication
\* failed, or the very message had been accepted in the five minutes before (a plan
\* that is upgraded, left and upgraded to again).
SubscribersAreRight ==
  listeners = {} => \A a \in About \ excused : told[a] = fact[a]

\* Every threshold, reminder, summary, invitation and change of the tenant reaches the
\* subscribers unless its publication failed: no other notice of the same five minutes
\* takes its place, except that an invitation accepted at once is not told of twice.
NoticesArrive == listeners = {} => raised \subseteq noted \cup unnoted
=============================================================================
