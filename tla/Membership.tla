----------------------------- MODULE Membership -----------------------------
(***************************************************************************)
(* The members of tenants and the invitations to them: inviting, resending, *)
(* revoking, accepting and rejecting, the hourly expiry job, role changes  *)
(* and removals.                                                           *)
(*                                                                         *)
(* A handler is a request.  It loads a row, checks it and later saves all  *)
(* of it; what others saved in between is overwritten, and a member that   *)
(* was removed in between is inserted again.  An invitation is accepted    *)
(* in two statements: its own row first, the new member second.            *)
(*                                                                         *)
(* A request on a member comes from a tenant.  It counts and deletes in    *)
(* that tenant, but loads the member whatever tenant the member is of.     *)
(***************************************************************************)
EXTENDS Integers, FiniteSets, Absence

CONSTANTS
  Handlers,        \* requests in progress at the same time
  Invitations,     \* ids of invitations
  Members,         \* ids of members: at the start, all are administrators
  MTenants,        \* the tenants they are members of
  Expiry,          \* days an invitation is valid
  MaxDay,          \* days looked at (bound)
  MaxOps,          \* requests (bound)
  MaxFaults        \* exceptions and crashes (bound)

VARIABLES
  day,
  invitation,    \* per invitation: its row, or Null
  member,        \* per member: its row, or Null
  mpc, mtask,    \* per handler: next step and what it works on
  expiryJob,     \* per invitation: the row the expiry job has found and is about to
                 \* save, or Null
  settled,       \* (history) per invitation: the answer saved while no one else
                 \* held the row, or Null
  memberless,    \* (history) invitations whose acceptance failed to make a member
  overlapped,    \* (history) tenants of whose members two requests overlapped
  crossed,       \* (history) tenants of which another tenant's request demoted a member
  mops, mfaults  \* budgets spent

histories == <<settled, memberless, overlapped, crossed>>
mvars == <<day, invitation, member, mpc, mtask, expiryJob, settled, memberless,
           overlapped, crossed, mops, mfaults>>

Status == {"PENDING", "ACCEPTED", "EXPIRED", "REVOKED", "REJECTED"}

\* OWNER and ADMIN are administrators, to the checks the same.
Role == {"ADMIN", "MEMBER"}

Invitation == [status : Status, expiresAt : Nat]

Member == [tenant : MTenants, role : Role]

\* kind: the request; id: the row it is about; row: what it will save (a removal
\* saves Null: no row).  from, of: the tenant a request on a member comes from, and the
\* tenant of the member.
InvitationKinds == {"accept", "lapse", "answer", "resend"}
MemberKinds == {"role", "remove"}

Task == [kind : InvitationKinds \cup MemberKinds \cup {"none"},
         id   : Invitations \cup Members \cup {Null},
         row  : Invitation \cup Member \cup {Null},
         from : MTenants \cup {Null}, of : MTenants \cup {Null}]

ASSUME MembersAssumption ==
  /\ Null \notin Invitation \cup Member \cup Status
  /\ Expiry \in Nat /\ MaxDay \in Nat

NoTask == [kind |-> "none", id |-> Null, row |-> Null, from |-> Null, of |-> Null]

NoRows == [i \in Invitations |-> Null]

IsAdmin(row) == row # Null /\ row.role = "ADMIN"

Administrators(t) == {m \in Members : IsAdmin(member[m]) /\ member[m].tenant = t}

Init ==
  /\ day = 0
  /\ invitation = [i \in Invitations |-> Null]
  /\ member \in [Members -> [tenant : MTenants, role : {"ADMIN"}]]
  /\ \A t \in MTenants : Administrators(t) # {}
  /\ mpc = [h \in Handlers |-> "idle"]
  /\ mtask = [h \in Handlers |-> NoTask]
  /\ expiryJob = NoRows
  /\ settled = [i \in Invitations |-> Null]
  /\ memberless = {}
  /\ overlapped = {}
  /\ crossed = {}
  /\ mops = 0
  /\ mfaults = 0

NextDay ==
  /\ day < MaxDay
  /\ day' = day + 1
  /\ UNCHANGED <<invitation, member, mpc, mtask, expiryJob, histories, mops, mfaults>>

Request(h) == mpc[h] = "idle" /\ mops < MaxOps /\ mops' = mops + 1

Go(h, step, kind, id, row) ==
  /\ mpc' = [mpc EXCEPT ![h] = step]
  /\ mtask' = [mtask EXCEPT ![h] = [NoTask EXCEPT !.kind = kind, !.id = id, !.row = row]]

Return(h) ==
  /\ mpc' = [mpc EXCEPT ![h] = "idle"]
  /\ mtask' = [mtask EXCEPT ![h] = NoTask]

-----------------------------------------------------------------------------
(* Invitations.                                                            *)

Pending(i) == invitation[i] # Null /\ invitation[i].status = "PENDING"

\* expiresAt lies before now.
Overdue(row) == row.expiresAt < day

\* Faulty variant: the invitation has no end.
Offer_Unlimited == [status |-> "PENDING", expiresAt |-> Null]

Offer == [status |-> "PENDING", expiresAt |-> day + Expiry]

\* The row is saved.  The load of the tenant's name that follows, here and in a resend,
\* throws: the answer is an error and nobody is told of the invitation.
Invite(h) ==
  /\ Request(h)
  /\ \E i \in Invitations :
       /\ invitation[i] = Null
       /\ invitation' = [invitation EXCEPT ![i] = Offer]
  /\ UNCHANGED <<day, member, mpc, mtask, expiryJob, histories, mfaults>>

\* Faulty variant: the row is saved as it was.
Lapsed_Not(row) == row

Lapsed(row) == [row EXCEPT !.status = "EXPIRED"]

\* An invitation that is overdue is saved as expired and the request refused.
Accept(h) ==
  /\ Request(h)
  /\ \E i \in Invitations :
       /\ Pending(i)
       /\ IF Overdue(invitation[i])
          THEN Go(h, "save", "lapse", i, Lapsed(invitation[i]))
          ELSE Go(h, "save", "accept", i, [invitation[i] EXCEPT !.status = "ACCEPTED"])
  /\ UNCHANGED <<day, invitation, member, expiryJob, histories, mfaults>>

\* revoke and reject
Answer(h) ==
  /\ Request(h)
  /\ \E i \in Invitations, status \in {"REVOKED", "REJECTED"} :
       /\ Pending(i)
       /\ Go(h, "save", "answer", i, [invitation[i] EXCEPT !.status = status])
  /\ UNCHANGED <<day, invitation, member, expiryJob, histories, mfaults>>

\* Faulty variant: only a pending invitation is refused.
Resendable_NotPending(i) == invitation[i] # Null /\ ~Pending(i)

Resendable(i) == invitation[i] # Null /\ invitation[i].status \in {"PENDING", "EXPIRED"}

Resend(h) ==
  /\ Request(h)
  /\ \E i \in Invitations :
       /\ Resendable(i)
       /\ Go(h, "save", "resend", i, Offer)
  /\ UNCHANGED <<day, invitation, member, expiryJob, histories, mfaults>>

\* No one but request h has read row i and is about to save it.
HeldBy(h, i) ==
  /\ expiryJob[i] = Null
  /\ \A g \in Handlers \ {h} : mpc[g] = "save" => mtask[g].id # i

Answers == {"ACCEPTED", "REVOKED", "REJECTED"}

SaveInvitation(h) ==
  LET task == mtask[h] IN
  /\ mpc[h] = "save" /\ task.kind \in InvitationKinds
  /\ invitation' = [invitation EXCEPT ![task.id] = task.row]
  /\ settled' = IF task.row.status \in Answers /\ HeldBy(h, task.id)
                THEN [settled EXCEPT ![task.id] = task.row.status] ELSE settled
  /\ IF task.kind = "accept"
     THEN mpc' = [mpc EXCEPT ![h] = "join"] /\ mtask' = mtask
     ELSE Return(h)
  /\ UNCHANGED <<day, member, expiryJob, memberless, overlapped, crossed, mops, mfaults>>

\* TeamMemberService.create takes the tenant from the request's context, not from
\* the invitation, and throws without one.  No middleware sets a tenant for the
\* controller that accepts: the invitation remains accepted, and no member is made.
Join(h) ==
  /\ mpc[h] = "join"
  /\ memberless' = memberless \cup {mtask[h].id}
  /\ Return(h)
  /\ UNCHANGED <<day, invitation, member, expiryJob, settled, overlapped, crossed, mops,
                 mfaults>>

\* The expiry job finds the pending invitations that are overdue ...
ExpiryFind ==
  /\ expiryJob = NoRows
  /\ expiryJob' = [i \in Invitations |->
                     IF Pending(i) /\ Overdue(invitation[i]) THEN invitation[i] ELSE Null]
  /\ expiryJob' # NoRows
  /\ UNCHANGED <<day, invitation, member, mpc, mtask, histories, mops, mfaults>>

\* ... and saves them all as expired, in one transaction.
ExpirySave ==
  /\ expiryJob # NoRows
  /\ invitation' = [i \in Invitations |-> IF expiryJob[i] # Null
                    THEN Lapsed(expiryJob[i]) ELSE invitation[i]]
  /\ expiryJob' = NoRows
  /\ UNCHANGED <<day, member, mpc, mtask, histories, mops, mfaults>>

ExpiryFails ==
  /\ expiryJob # NoRows /\ mfaults < MaxFaults
  /\ expiryJob' = NoRows
  /\ mfaults' = mfaults + 1
  /\ UNCHANGED <<day, invitation, member, mpc, mtask, histories, mops>>

-----------------------------------------------------------------------------
(* Members.                                                                *)

MemberBusy(h) == mpc[h] \in {"count", "write"}

\* Member m is loaded by its id alone.  Only what takes an administrator away counts
\* them first.
LoadMember(h, kind, m, row) ==
  /\ Request(h)
  /\ member[m] # Null
  /\ mpc' = [mpc EXCEPT ![h] = IF IsAdmin(member[m]) /\ ~IsAdmin(row) THEN "count" ELSE "write"]
  /\ \E from \in MTenants :
       mtask' = [mtask EXCEPT ![h] = [kind |-> kind, id |-> m, row |-> row, from |-> from,
                                      of |-> member[m].tenant]]
  /\ overlapped' = overlapped \cup {t \in {member[m].tenant} :
                      \E g \in Handlers \ {h} : MemberBusy(g) /\ mtask[g].of = t}
  /\ UNCHANGED <<day, invitation, member, expiryJob, settled, memberless, crossed, mfaults>>

UpdateRole(h) ==
  \E m \in Members, role \in Role : LoadMember(h, "role", m, [member[m] EXCEPT !.role = role])

Remove(h) == \E m \in Members : LoadMember(h, "remove", m, Null)

\* Faulty variant: the last administrator may go.
Dispensable_One(t) == Cardinality(Administrators(t)) >= 1

Dispensable(t) == Cardinality(Administrators(t)) > 1

\* The administrators of the request's tenant are counted.
Count(h) ==
  /\ mpc[h] = "count"
  /\ IF Dispensable(mtask[h].from)
     THEN mpc' = [mpc EXCEPT ![h] = "write"] /\ mtask' = mtask
     ELSE Return(h)
  /\ UNCHANGED <<day, invitation, member, expiryJob, histories, mops, mfaults>>

\* save keeps the tenant of the row and inserts one that was removed meanwhile; a
\* removal deletes the member only from the tenant it comes from.
WriteMember(h) ==
  LET task == mtask[h]
      crosses == task.from # task.of IN
  /\ mpc[h] = "write"
  /\ member' = IF task.row = Null /\ crosses THEN member
               ELSE [member EXCEPT ![task.id] = task.row]
  /\ crossed' = IF task.row # Null /\ crosses /\ ~IsAdmin(task.row)
                THEN crossed \cup {task.of} ELSE crossed
  /\ Return(h)
  /\ UNCHANGED <<day, invitation, expiryJob, settled, memberless, overlapped, mops, mfaults>>

\* A statement of request h throws, or its process dies.
MemberCrash(h) ==
  /\ mpc[h] # "idle" /\ mfaults < MaxFaults
  /\ mfaults' = mfaults + 1
  /\ Return(h)
  /\ memberless' = IF mpc[h] = "join" THEN memberless \cup {mtask[h].id} ELSE memberless
  /\ UNCHANGED <<day, invitation, member, expiryJob, settled, overlapped, crossed, mops>>

-----------------------------------------------------------------------------
ExpiryJob == ExpiryFind \/ ExpirySave

Next ==
  \/ NextDay
  \/ \E h \in Handlers :
       \/ Invite(h) \/ Accept(h) \/ Answer(h) \/ Resend(h) \/ SaveInvitation(h) \/ Join(h)
       \/ UpdateRole(h) \/ Remove(h) \/ Count(h) \/ WriteMember(h) \/ MemberCrash(h)
  \/ ExpiryFind \/ ExpirySave \/ ExpiryFails

Spec == Init /\ [][Next]_mvars

\* The expiry job runs every hour.  Nothing is assumed of the requests.
FairSpec == Spec /\ WF_mvars(ExpiryJob)

-----------------------------------------------------------------------------
TypeOK ==
  /\ day \in 0..MaxDay
  /\ invitation \in [Invitations -> Invitation \cup {Null}]
  /\ member \in [Members -> Member \cup {Null}]
  /\ mpc \in [Handlers -> {"idle", "save", "join", "count", "write"}]
  /\ mtask \in [Handlers -> Task]
  /\ expiryJob \in [Invitations -> Invitation \cup {Null}]
  /\ settled \in [Invitations -> Answers \cup {Null}]
  /\ memberless \subseteq Invitations
  /\ overlapped \subseteq MTenants /\ crossed \subseteq MTenants
  /\ mops \in Nat /\ mfaults \in Nat

\* A tenant keeps an administrator, unless two requests on its members were in progress
\* at the same time (the count and the save are two statements, and two administrators
\* can step down past each other) or a request that counted another tenant's
\* administrators demoted one of its members.
LastAdminStays ==
  \A t \in MTenants \ (overlapped \cup crossed) : Administrators(t) # {}

\* An invitation that was accepted, revoked or rejected while no other request and
\* not the expiry job held its row is never pending, or answered otherwise, again.
SettledIsFinal ==
  \A i \in Invitations : settled[i] # Null => invitation[i].status = settled[i]

\* A pending invitation that is overdue does not remain so: the hourly job, which
\* skips a run after a failure and takes rows that a request overwrites, gets it.
OverdueEnds ==
  \A i \in Invitations :
    (Pending(i) /\ Overdue(invitation[i])) ~> ~(Pending(i) /\ Overdue(invitation[i]))

\* What the README promises of an accepted invitation: "Accepting creates TeamMember".
AcceptedJoins == memberless = {}
=============================================================================
