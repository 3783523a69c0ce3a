--------------------------- MODULE Access_proofs ----------------------------
(***************************************************************************)
(* Proofs about who may do what in a tenant: its members and invitations,  *)
(* its API keys, and its names and owners.                                 *)
(***************************************************************************)
EXTENDS Membership, FiniteSetTheorems, ApiKeys, TenantIdentity, TLAPS

-----------------------------------------------------------------------------
(* Proofs about Membership, for any invitations, members and requests.     *)
(*                                                                         *)
(* An invitation that is settled is held by nobody, neither a request nor  *)
(* the expiry job, and whoever would load it finds that it is not pending. *)
(* As long as no two requests on a tenant's members overlap, a request that *)
(* counted there and is about to write a member who is no administrator    *)
(* knows of another who is.  What is written into one tenant is nothing to  *)
(* the others, for a member never changes tenants.                         *)

\* What a request at a step works on.
WorksOn(step, task) ==
  /\ step = "save" =>
       /\ task.kind \in InvitationKinds /\ task.id \in Invitations /\ task.row \in Invitation
  /\ step = "join" => task.id \in Invitations
  /\ step \in {"count", "write"} =>
       /\ task.id \in Members /\ task.row \in Member \cup {Null} /\ task.of \in MTenants
       /\ task.row # Null => task.row.tenant = task.of

RequestsWork == \A h \in Handlers : WorksOn(mpc[h], mtask[h])

\* Nobody is about to save what is settled.
Settled(i) ==
  settled[i] # Null =>
    /\ invitation[i] # Null /\ invitation[i].status = settled[i]
    /\ expiryJob[i] = Null
    /\ \A h \in Handlers : mpc[h] = "save" => mtask[h].id # i

AllSettled == \A i \in Invitations : Settled(i)

\* A request on a member knows the member's tenant.
SameTenant ==
  \A h \in Handlers : MemberBusy(h) =>
    /\ member[mtask[h].id] # Null => member[mtask[h].id].tenant = mtask[h].of
    /\ \A g \in Handlers : MemberBusy(g) /\ mtask[g].id = mtask[h].id => mtask[g].of = mtask[h].of

\* Requests on a tenant's members that do not overlap: one at a time ...
WorksIn(h, t) == MemberBusy(h) /\ mtask[h].of = t

OneAtATime ==
  \A t \in MTenants \ overlapped : \A g, h \in Handlers : WorksIn(g, t) /\ WorksIn(h, t) => g = h

\* ... and when one that comes from the tenant writes, there is an administrator who stays.
Demotes(h, t) == mpc[h] = "write" /\ mtask[h].from = t /\ mtask[h].of = t /\ ~IsAdmin(mtask[h].row)

OneStays ==
  \A t \in MTenants \ (overlapped \cup crossed), h \in Handlers :
    Demotes(h, t) => Administrators(t) \ {mtask[h].id} # {}

MemberInv == SameTenant /\ OneAtATime /\ OneStays /\ LastAdminStays

MembersInv == TypeOK /\ RequestsWork /\ AllSettled /\ MemberInv

memberVars == <<member, overlapped, crossed>>
-----------------------------------------------------------------------------
LEMMA NoMemberTaskType == NoTask \in Task /\ \A t \in Task : WorksOn("idle", t)
BY DEF NoTask, Task, WorksOn

LEMMA MembersBegin == ASSUME Init PROVE MembersInv
<1>1. TypeOK
  <2>1. NoTask \in Task /\ member \in [Members -> Member \cup {Null}]
    BY NoMemberTaskType DEF Init, Member, Role
  <2>2. day \in 0..MaxDay /\ mops \in Nat /\ mfaults \in Nat
    BY MembersAssumption DEF Init
  <2> QED BY <2>1, <2>2 DEF Init, TypeOK, NoRows
<1>2. RequestsWork
  BY NoMemberTaskType DEF Init, RequestsWork
<1>3. AllSettled
  BY DEF Init, AllSettled, Settled
<1>4. SameTenant /\ OneAtATime /\ OneStays
  BY DEF Init, SameTenant, OneAtATime, OneStays, WorksIn, Demotes, MemberBusy
<1>5. LastAdminStays
  BY DEF Init, LastAdminStays
<1> QED BY <1>1, <1>2, <1>3, <1>4, <1>5 DEF MembersInv, MemberInv

\* One request goes to another step with another task.
LEMMA OneRequestMoves ==
  ASSUME MembersInv, NEW h \in Handlers, NEW step \in {"idle", "save", "join", "count", "write"},
         NEW task \in Task, WorksOn(step, task),
         mpc' = [mpc EXCEPT ![h] = step], mtask' = [mtask EXCEPT ![h] = task]
  PROVE  /\ mpc' \in [Handlers -> {"idle", "save", "join", "count", "write"}]
         /\ mtask' \in [Handlers -> Task]
         /\ RequestsWork'
         /\ mpc'[h] = step /\ mtask'[h] = task
         /\ \A g \in Handlers \ {h} : mpc'[g] = mpc[g] /\ mtask'[g] = mtask[g]
<1>1. /\ mpc' \in [Handlers -> {"idle", "save", "join", "count", "write"}]
      /\ mtask' \in [Handlers -> Task]
      /\ mpc'[h] = step /\ mtask'[h] = task
      /\ \A g \in Handlers \ {h} : mpc'[g] = mpc[g] /\ mtask'[g] = mtask[g]
  BY DEF MembersInv, TypeOK
<1>2. ASSUME NEW g \in Handlers PROVE WorksOn(mpc'[g], mtask'[g])
  BY <1>1 DEF MembersInv, RequestsWork
<1> QED BY <1>1, <1>2 DEF RequestsWork

\* What requests on invitations do is nothing to the members.
LEMMA MembersStay ==
  ASSUME MembersInv, UNCHANGED memberVars,
         \A g \in Handlers : MemberBusy(g)' => mpc'[g] = mpc[g] /\ mtask'[g] = mtask[g]
  PROVE  MemberInv'
<1>1. \A t : Administrators(t)' = Administrators(t)
  BY DEF Administrators, IsAdmin, memberVars
<1>2. ASSUME NEW g \in Handlers, MemberBusy(g)'
      PROVE  MemberBusy(g) /\ mpc'[g] = mpc[g] /\ mtask'[g] = mtask[g]
  BY <1>2 DEF MemberBusy
<1>3. SameTenant'
  BY <1>2 DEF MembersInv, MemberInv, SameTenant, memberVars
<1>4. OneAtATime'
  BY <1>2 DEF MembersInv, MemberInv, OneAtATime, WorksIn, memberVars
<1>5. OneStays'
  <2>1. SUFFICES ASSUME NEW t \in MTenants \ (overlapped \cup crossed), NEW h \in Handlers, Demotes(h, t)'
                 PROVE  Administrators(t) \ {mtask'[h].id} # {}
    BY <1>1 DEF OneStays, memberVars
  <2>2. MemberBusy(h)'
    BY <2>1 DEF Demotes, MemberBusy
  <2>3. Demotes(h, t) /\ mtask'[h] = mtask[h]
    BY <1>2, <2>1, <2>2 DEF Demotes, IsAdmin
  <2> QED BY <2>3 DEF MembersInv, MemberInv, OneStays
<1>6. LastAdminStays'
  BY <1>1 DEF MembersInv, MemberInv, LastAdminStays, memberVars
<1> QED BY <1>3, <1>4, <1>5, <1>6 DEF MemberInv
-----------------------------------------------------------------------------
(* Invitations.                                                            *)

LEMMA InviteInv ==
  ASSUME MembersInv, NEW h \in Handlers, Invite(h) PROVE MembersInv'
<1>1. PICK i \in Invitations :
        invitation[i] = Null /\ invitation' = [invitation EXCEPT ![i] = Offer]
  BY DEF Invite
<1>2. /\ mops' = mops + 1
      /\ UNCHANGED <<day, member, mpc, mtask, expiryJob, settled, memberless, overlapped, crossed,
                     mfaults>>
  BY DEF Invite, Request, histories
<1>3. Offer \in Invitation
  BY MembersAssumption DEF Offer, Invitation, Status, MembersInv, TypeOK
<1>4. TypeOK' /\ RequestsWork'
  BY <1>1, <1>2, <1>3 DEF MembersInv, TypeOK, RequestsWork
<1>5. ASSUME NEW j \in Invitations PROVE Settled(j)'
  <2>1. Settled(j) /\ (j = i => settled[j] = Null) /\ (j # i => invitation'[j] = invitation[j])
    BY <1>1 DEF MembersInv, AllSettled, Settled, TypeOK
  <2> QED BY <1>2, <2>1 DEF Settled
<1>6. MemberInv'
  BY <1>2, MembersStay DEF memberVars
<1> QED BY <1>4, <1>5, <1>6 DEF MembersInv, AllSettled

\* A request loads invitation i, which is not settled, and will save row.
LEMMA Loading ==
  ASSUME MembersInv, NEW h \in Handlers, NEW i \in Invitations,
         NEW kind \in InvitationKinds, NEW r \in Invitation,
         Request(h), invitation[i].status \notin Answers, Go(h, "save", kind, i, r),
         UNCHANGED <<day, invitation, member, expiryJob, histories, mfaults>>
  PROVE  MembersInv'
<1> DEFINE t == [NoTask EXCEPT !.kind = kind, !.id = i, !.row = r]
<1>1. t \in Task /\ t.kind = kind /\ t.id = i /\ t.row = r
  BY DEF Task, NoTask
<1>2. WorksOn("save", t)
  BY <1>1 DEF WorksOn
<1>3. mpc' = [mpc EXCEPT ![h] = "save"] /\ mtask' = [mtask EXCEPT ![h] = t]
  BY DEF Go
<1> HIDE DEF t
<1>4. /\ mpc' \in [Handlers -> {"idle", "save", "join", "count", "write"}]
      /\ mtask' \in [Handlers -> Task]
      /\ RequestsWork'
      /\ mpc'[h] = "save" /\ mtask'[h] = t
      /\ \A g \in Handlers \ {h} : mpc'[g] = mpc[g] /\ mtask'[g] = mtask[g]
  BY <1>1, <1>2, <1>3, OneRequestMoves
<1>5. TypeOK'
  BY <1>4 DEF MembersInv, TypeOK, histories, Request
<1>6. ASSUME NEW j \in Invitations PROVE Settled(j)'
  <2>1. Settled(j) /\ (settled[j] # Null => settled[j] \in Answers)
    BY DEF MembersInv, AllSettled, TypeOK
  <2>2. j = i => settled[j] = Null
    BY <2>1 DEF Settled
  <2> QED BY <1>1, <1>4, <2>1, <2>2 DEF Settled, histories
<1>7. ~MemberBusy(h)'
  BY <1>4 DEF MemberBusy
<1>8. MemberInv'
  BY <1>4, <1>7, MembersStay DEF histories, memberVars
<1> QED BY <1>4, <1>5, <1>6, <1>8 DEF MembersInv, AllSettled

LEMMA LoadingInv ==
  ASSUME MembersInv, NEW h \in Handlers, Accept(h) \/ Answer(h) \/ Resend(h) PROVE MembersInv'
<1>1. /\ Request(h)
      /\ UNCHANGED <<day, invitation, member, expiryJob, histories, mfaults>>
  BY DEF Accept, Answer, Resend
<1>2. ASSUME NEW i \in Invitations, Pending(i), NEW s \in Status
      PROVE  /\ [invitation[i] EXCEPT !.status = s] \in Invitation
             /\ invitation[i].status \notin Answers
  BY <1>2 DEF Pending, MembersInv, TypeOK, Invitation, Answers
<1>3. CASE Accept(h)
  <2>1. PICK i \in Invitations :
          /\ Pending(i)
          /\ \/ Go(h, "save", "lapse", i, [invitation[i] EXCEPT !.status = "EXPIRED"])
             \/ Go(h, "save", "accept", i, [invitation[i] EXCEPT !.status = "ACCEPTED"])
    BY <1>3 DEF Accept, Lapsed
  <2> QED BY <1>1, <1>2, <2>1, Loading DEF InvitationKinds, Status
<1>4. CASE Answer(h)
  <2>1. PICK i \in Invitations, s \in {"REVOKED", "REJECTED"} :
          Pending(i) /\ Go(h, "save", "answer", i, [invitation[i] EXCEPT !.status = s])
    BY <1>4 DEF Answer
  <2> QED BY <1>1, <1>2, <2>1, Loading DEF InvitationKinds, Status
<1>5. CASE Resend(h)
  <2>1. PICK i \in Invitations : Resendable(i) /\ Go(h, "save", "resend", i, Offer)
    BY <1>5 DEF Resend
  <2>2. Offer \in Invitation
    BY MembersAssumption DEF Offer, Invitation, Status, MembersInv, TypeOK
  <2>3. invitation[i].status \notin Answers
    BY <2>1 DEF Resendable, Answers
  <2> QED BY <1>1, <2>1, <2>2, <2>3, Loading DEF InvitationKinds
<1> QED BY <1>3, <1>4, <1>5

\* The request that saves holds the row, so what it saves is not settled yet; it is
\* afterwards only if nobody else holds the row.
LEMMA SaveInvitationInv ==
  ASSUME MembersInv, NEW h \in Handlers, SaveInvitation(h) PROVE MembersInv'
<1>1. PICK i \in Invitations, r \in Invitation : i = mtask[h].id /\ r = mtask[h].row
  BY DEF SaveInvitation, MembersInv, RequestsWork, WorksOn
<1>2. /\ mpc[h] = "save"
      /\ invitation' = [invitation EXCEPT ![i] = r]
      /\ \/ settled' = settled
         \/ r.status \in Answers /\ HeldBy(h, i) /\ settled' = [settled EXCEPT ![i] = r.status]
      /\ \/ mpc' = [mpc EXCEPT ![h] = "join"] /\ mtask' = mtask
         \/ Return(h)
      /\ UNCHANGED <<day, member, expiryJob, memberless, overlapped, crossed, mops, mfaults>>
  BY <1>1 DEF SaveInvitation
<1>3. /\ mpc' \in [Handlers -> {"idle", "save", "join", "count", "write"}]
      /\ mtask' \in [Handlers -> Task]
      /\ RequestsWork'
      /\ mpc'[h] \in {"join", "idle"}
      /\ \A g \in Handlers \ {h} : mpc'[g] = mpc[g] /\ mtask'[g] = mtask[g]
  <2>1. CASE mpc' = [mpc EXCEPT ![h] = "join"] /\ mtask' = mtask
    <3>1. mtask[h] \in Task /\ WorksOn("join", mtask[h]) /\ mtask' = [mtask EXCEPT ![h] = mtask[h]]
      BY <1>1, <2>1 DEF WorksOn, MembersInv, TypeOK
    <3> QED BY <2>1, <3>1, OneRequestMoves
  <2>2. CASE Return(h)
    BY <2>2, NoMemberTaskType, OneRequestMoves DEF Return
  <2> QED BY <1>2, <2>1, <2>2
<1>4. TypeOK'
  BY <1>2, <1>3 DEF MembersInv, TypeOK
<1>5. ASSUME NEW j \in Invitations PROVE Settled(j)'
  <2>1. Settled(j)
    BY DEF MembersInv, AllSettled
  <2>2. CASE j # i
    <3>1. invitation'[j] = invitation[j] /\ settled'[j] = settled[j]
      BY <1>2, <2>2 DEF MembersInv, TypeOK
    <3> QED BY <1>2, <1>3, <2>1, <3>1 DEF Settled
  <2>3. CASE j = i /\ settled' = settled
    <3>1. settled[i] = Null
      BY <1>1, <1>2, <2>1, <2>3 DEF Settled
    <3> QED BY <2>3, <3>1 DEF Settled
  <2>4. CASE j = i /\ r.status \in Answers /\ HeldBy(h, i) /\ settled' = [settled EXCEPT ![i] = r.status]
    <3>1. invitation'[i] = r /\ settled'[i] = r.status /\ r # Null
      BY <1>2, <2>4, MembersAssumption DEF MembersInv, TypeOK
    <3>2. expiryJob[i] = Null /\ \A g \in Handlers : mpc'[g] = "save" => mtask'[g].id # i
      BY <1>3, <2>4 DEF HeldBy
    <3> QED BY <1>2, <2>4, <3>1, <3>2 DEF Settled
  <2> QED BY <1>2, <2>2, <2>3, <2>4
<1>6. ~MemberBusy(h)'
  BY <1>3 DEF MemberBusy
<1>7. MemberInv'
  BY <1>2, <1>3, <1>6, MembersStay DEF memberVars
<1> QED BY <1>3, <1>4, <1>5, <1>7 DEF MembersInv, AllSettled

\* A request ends that is about to make a member, or that fails.
LEMMA EndInv ==
  ASSUME MembersInv, NEW h \in Handlers, Join(h) \/ MemberCrash(h) PROVE MembersInv'
<1>1. /\ mpc' = [mpc EXCEPT ![h] = "idle"] /\ mtask' = [mtask EXCEPT ![h] = NoTask]
      /\ memberless' = memberless \/ (mpc[h] = "join" /\ memberless' = memberless \cup {mtask[h].id})
      /\ mfaults' \in {mfaults, mfaults + 1}
      /\ UNCHANGED <<day, invitation, member, expiryJob, settled, overlapped, crossed, mops>>
  BY DEF Join, MemberCrash, Return
<1>2. /\ mpc' \in [Handlers -> {"idle", "save", "join", "count", "write"}]
      /\ mtask' \in [Handlers -> Task]
      /\ RequestsWork'
      /\ mpc'[h] = "idle"
      /\ \A g \in Handlers \ {h} : mpc'[g] = mpc[g] /\ mtask'[g] = mtask[g]
  BY <1>1, NoMemberTaskType, OneRequestMoves
<1>3. memberless' \subseteq Invitations
  BY <1>1 DEF MembersInv, TypeOK, RequestsWork, WorksOn
<1>4. TypeOK'
  BY <1>1, <1>2, <1>3 DEF MembersInv, TypeOK
<1>5. \A j \in Invitations : Settled(j)'
  BY <1>1, <1>2 DEF MembersInv, AllSettled, Settled
<1>6. ~MemberBusy(h)'
  BY <1>2 DEF MemberBusy
<1>7. MemberInv'
  BY <1>1, <1>2, <1>6, MembersStay DEF memberVars
<1> QED BY <1>2, <1>4, <1>5, <1>7 DEF MembersInv, AllSettled

\* The job takes pending rows, and saves those that it took.
LEMMA ExpiryInv ==
  ASSUME MembersInv, ExpiryFind \/ ExpirySave \/ ExpiryFails PROVE MembersInv'
<1>1. /\ expiryJob' \in [Invitations -> Invitation \cup {Null}]
      /\ invitation' \in [Invitations -> Invitation \cup {Null}]
      /\ \A i \in Invitations :
           \/ expiryJob'[i] = Null /\ (expiryJob[i] = Null => invitation'[i] = invitation[i])
           \/ Pending(i) /\ invitation'[i] = invitation[i]
  <2>1. CASE ExpiryFind
    BY <2>1 DEF ExpiryFind, MembersInv, TypeOK
  <2>2. CASE ExpirySave
    <3>1. \A i \in Invitations : expiryJob[i] # Null => Lapsed(expiryJob[i]) \in Invitation
      BY DEF Lapsed, Invitation, Status, MembersInv, TypeOK
    <3> QED BY <2>2, <3>1 DEF ExpirySave, NoRows, MembersInv, TypeOK
  <2>3. CASE ExpiryFails
    BY <2>3 DEF ExpiryFails, NoRows, MembersInv, TypeOK
  <2> QED BY <2>1, <2>2, <2>3
<1>2. /\ UNCHANGED <<day, member, mpc, mtask, settled, memberless, overlapped, crossed, mops>>
      /\ mfaults' \in {mfaults, mfaults + 1}
  BY DEF ExpiryFind, ExpirySave, ExpiryFails, histories
<1>3. TypeOK' /\ RequestsWork'
  BY <1>1, <1>2 DEF MembersInv, TypeOK, RequestsWork
<1>4. ASSUME NEW i \in Invitations PROVE Settled(i)'
  <2>1. Settled(i) /\ (settled[i] # Null => settled[i] \in Answers)
    BY DEF MembersInv, AllSettled, TypeOK
  <2>2. settled[i] # Null => ~Pending(i)
    BY <2>1 DEF Settled, Pending, Answers
  <2> QED BY <1>1, <1>2, <2>1, <2>2 DEF Settled
<1>5. MemberInv'
  BY <1>2, MembersStay DEF memberVars
<1> QED BY <1>3, <1>4, <1>5 DEF MembersInv, AllSettled
-----------------------------------------------------------------------------
(* Members.                                                                *)

\* Two administrators at least: besides any member there is another.
LEMMA Another ==
  ASSUME NEW t, Dispensable(t), NEW m PROVE Administrators(t) \ {m} # {}
<1>1. SUFFICES ASSUME Administrators(t) \ {m} = {} PROVE FALSE
  OBVIOUS
<1>2. Administrators(t) = {} \/ Administrators(t) = {m}
  BY <1>1
<1>3. Cardinality(Administrators(t)) \in {0, 1}
  BY <1>2, FS_EmptySet, FS_Singleton
<1> QED BY <1>3 DEF Dispensable

\* The member that is loaded is of the tenant that the request then knows.
LEMMA LoadMemberInv ==
  ASSUME MembersInv, NEW h \in Handlers, NEW kind \in MemberKinds, NEW m \in Members,
         NEW r \in Member \cup {Null}, r # Null => r.tenant = member[m].tenant,
         LoadMember(h, kind, m, r)
  PROVE  MembersInv'
<1>1. PICK of \in MTenants : of = member[m].tenant
  BY DEF LoadMember, MembersInv, TypeOK, Member
<1>2. PICK from \in MTenants :
        mtask' = [mtask EXCEPT ![h] = [kind |-> kind, id |-> m, row |-> r, from |-> from, of |-> of]]
  BY <1>1 DEF LoadMember
<1> DEFINE t == [kind |-> kind, id |-> m, row |-> r, from |-> from, of |-> of]
<1>3. t \in Task /\ t.id = m /\ t.row = r /\ t.of = of /\ t.from = from
  BY DEF Task
<1>4. WorksOn("count", t) /\ WorksOn("write", t)
  BY <1>1, <1>3 DEF WorksOn
<1>5. mtask' = [mtask EXCEPT ![h] = t]
  BY <1>2
<1> HIDE DEF t
<1>6. PICK step \in {"count", "write"} :
        /\ step = "write" => ~(IsAdmin(member[m]) /\ ~IsAdmin(r))
        /\ mpc' = [mpc EXCEPT ![h] = step]
  BY DEF LoadMember
<1>7. /\ overlapped' = overlapped \cup {u \in {of} : \E g \in Handlers \ {h} : WorksIn(g, u)}
      /\ mpc[h] = "idle" /\ mops' = mops + 1 /\ member[m] # Null
      /\ UNCHANGED <<day, invitation, member, expiryJob, settled, memberless, crossed, mfaults>>
  BY <1>1 DEF LoadMember, Request, WorksIn
<1>8. /\ mpc' \in [Handlers -> {"idle", "save", "join", "count", "write"}]
      /\ mtask' \in [Handlers -> Task]
      /\ RequestsWork'
      /\ mpc'[h] = step /\ mtask'[h] = t
      /\ \A g \in Handlers \ {h} : mpc'[g] = mpc[g] /\ mtask'[g] = mtask[g]
  <2>1. WorksOn(step, t) /\ step \in {"idle", "save", "join", "count", "write"}
    BY <1>4
  <2> QED
    BY <1>3, <1>5, <1>6, <2>1, OneRequestMoves
<1>9. overlapped' \subseteq MTenants
  BY <1>7 DEF MembersInv, TypeOK
<1>10. TypeOK'
  BY <1>7, <1>8, <1>9 DEF MembersInv, TypeOK
<1>11. \A i \in Invitations : Settled(i)'
  BY <1>7, <1>8 DEF MembersInv, AllSettled, Settled
<1>12. \A u : Administrators(u)' = Administrators(u)
  BY <1>7 DEF Administrators, IsAdmin
<1>13. \A g \in Handlers \ {h} : (MemberBusy(g)' <=> MemberBusy(g)) /\ mtask'[g] = mtask[g]
  BY <1>8 DEF MemberBusy
<1>14. SameTenant'
  <2>1. \A g \in Handlers \ {h} : MemberBusy(g) /\ mtask[g].id = m => mtask[g].of = of
    BY <1>1, <1>7 DEF MembersInv, MemberInv, SameTenant
  <2> QED BY <1>1, <1>3, <1>7, <1>8, <1>13, <2>1 DEF MembersInv, MemberInv, SameTenant
<1>15. OneAtATime'
  <2>1. SUFFICES ASSUME NEW u \in MTenants \ overlapped', NEW g \in Handlers, NEW k \in Handlers,
                        WorksIn(g, u)', WorksIn(k, u)'
                 PROVE  g = k
    BY DEF OneAtATime
  <2>2. u \notin overlapped /\ (WorksIn(h, u)' => u = of)
    BY <1>3, <1>7, <1>8 DEF WorksIn
  <2>3. \A x \in Handlers \ {h} : WorksIn(x, u)' => WorksIn(x, u)
    BY <1>13 DEF WorksIn
  <2>4. u = of => \A x \in Handlers \ {h} : ~WorksIn(x, u)
    BY <1>7
  <2> QED BY <2>1, <2>2, <2>3, <2>4 DEF MembersInv, MemberInv, OneAtATime
<1>16. OneStays'
  <2>1. SUFFICES ASSUME NEW u \in MTenants \ (overlapped' \cup crossed), NEW g \in Handlers, Demotes(g, u)'
                 PROVE  Administrators(u) \ {mtask'[g].id} # {}
    BY <1>7, <1>12 DEF OneStays
  <2>2. u \notin overlapped
    BY <1>7
  <2>3. CASE g = h
    <3>1. u = of /\ step = "write" /\ ~IsAdmin(r)
      BY <1>3, <1>8, <2>1, <2>3 DEF Demotes, IsAdmin
    <3>2. m \notin Administrators(u)
      BY <1>6, <3>1 DEF Administrators
    <3>3. Administrators(u) # {}
      BY <2>1, <2>2 DEF MembersInv, MemberInv, LastAdminStays
    <3> QED BY <1>3, <1>8, <2>3, <3>2, <3>3
  <2>4. CASE g # h
    <3>1. Demotes(g, u) /\ mtask'[g] = mtask[g]
      BY <1>8, <2>1, <2>4 DEF Demotes, IsAdmin
    <3> QED BY <2>1, <2>2, <3>1 DEF MembersInv, MemberInv, OneStays
  <2> QED BY <2>3, <2>4
<1>17. LastAdminStays'
  BY <1>7, <1>12 DEF MembersInv, MemberInv, LastAdminStays
<1> QED BY <1>8, <1>10, <1>11, <1>14, <1>15, <1>16, <1>17 DEF MembersInv, MemberInv, AllSettled

LEMMA CountInv ==
  ASSUME MembersInv, NEW h \in Handlers, Count(h) PROVE MembersInv'
<1>1. /\ mpc[h] = "count"
      /\ UNCHANGED <<day, invitation, member, expiryJob, settled, memberless, overlapped, crossed,
                     mops, mfaults>>
  BY DEF Count, histories
<1>2. CASE Dispensable(mtask[h].from) /\ mpc' = [mpc EXCEPT ![h] = "write"] /\ mtask' = mtask
  <2>1. mtask[h] \in Task /\ WorksOn("write", mtask[h]) /\ mtask' = [mtask EXCEPT ![h] = mtask[h]]
    BY <1>1, <1>2 DEF MembersInv, TypeOK, RequestsWork, WorksOn
  <2>2. /\ mpc' \in [Handlers -> {"idle", "save", "join", "count", "write"}]
        /\ RequestsWork' /\ mpc'[h] = "write"
        /\ \A g \in Handlers \ {h} : mpc'[g] = mpc[g]
    BY <1>2, <2>1, OneRequestMoves
  <2>3. TypeOK'
    BY <1>1, <1>2, <2>2 DEF MembersInv, TypeOK
  <2>4. \A i \in Invitations : Settled(i)'
    BY <1>1, <1>2, <2>2 DEF MembersInv, AllSettled, Settled
  <2>5. \A g \in Handlers : MemberBusy(g)' <=> MemberBusy(g)
    BY <1>1, <2>2 DEF MemberBusy
  <2>6. \A t : Administrators(t)' = Administrators(t)
    BY <1>1 DEF Administrators, IsAdmin
  <2>7. SameTenant' /\ OneAtATime' /\ LastAdminStays'
    BY <1>1, <1>2, <2>5, <2>6
    DEF MembersInv, MemberInv, SameTenant, OneAtATime, WorksIn, LastAdminStays
  <2>8. OneStays'
    <3>1. SUFFICES ASSUME NEW t \in MTenants \ (overlapped \cup crossed), NEW g \in Handlers, Demotes(g, t)'
                   PROVE  Administrators(t) \ {mtask[g].id} # {}
      BY <1>1, <1>2, <2>6 DEF OneStays
    <3>2. CASE g = h
      BY <1>2, <3>1, <3>2, Another DEF Demotes
    <3>3. CASE g # h
      <4>1. Demotes(g, t)
        BY <1>2, <2>2, <3>1, <3>3 DEF Demotes, IsAdmin
      <4> QED BY <3>1, <4>1 DEF MembersInv, MemberInv, OneStays
    <3> QED BY <3>2, <3>3
  <2> QED BY <2>2, <2>3, <2>4, <2>7, <2>8 DEF MembersInv, AllSettled, MemberInv
<1>3. CASE Return(h)
  <2>1. /\ mpc' \in [Handlers -> {"idle", "save", "join", "count", "write"}]
        /\ mtask' \in [Handlers -> Task]
        /\ RequestsWork'
        /\ mpc'[h] = "idle"
        /\ \A g \in Handlers \ {h} : mpc'[g] = mpc[g] /\ mtask'[g] = mtask[g]
    BY <1>3, NoMemberTaskType, OneRequestMoves DEF Return
  <2>2. TypeOK'
    BY <1>1, <2>1 DEF MembersInv, TypeOK
  <2>3. \A i \in Invitations : Settled(i)'
    BY <1>1, <2>1 DEF MembersInv, AllSettled, Settled
  <2>4. ~MemberBusy(h)'
    BY <2>1 DEF MemberBusy
  <2>5. MemberInv'
    BY <1>1, <2>1, <2>4, MembersStay DEF memberVars
  <2> QED BY <2>1, <2>2, <2>3, <2>5 DEF MembersInv, AllSettled
<1> QED BY <1>2, <1>3 DEF Count

\* In a tenant without overlap the one who writes is alone: from the tenant it leaves an
\* administrator, from another tenant it demotes (and is recorded) or does nothing.
LEMMA WriteMemberInv ==
  ASSUME MembersInv, NEW h \in Handlers, WriteMember(h) PROVE MembersInv'
<1>1. PICK m \in Members, r \in Member \cup {Null}, of \in MTenants :
        /\ m = mtask[h].id /\ r = mtask[h].row /\ of = mtask[h].of
        /\ r # Null => r.tenant = of
  BY DEF WriteMember, MembersInv, RequestsWork, WorksOn
<1>2. /\ mpc[h] = "write"
      /\ mpc' = [mpc EXCEPT ![h] = "idle"] /\ mtask' = [mtask EXCEPT ![h] = NoTask]
      /\ UNCHANGED <<day, invitation, expiryJob, settled, memberless, overlapped, mops, mfaults>>
  BY DEF WriteMember, Return
<1>3. \/ member' = member /\ crossed' = crossed
      \/ /\ member' = [member EXCEPT ![m] = r]
         /\ \/ crossed' = crossed \cup {of}
            \/ crossed' = crossed /\ (mtask[h].from = of \/ IsAdmin(r))
  <2>1. r = Null => ~IsAdmin(r)
    BY DEF IsAdmin
  <2> QED BY <1>1, <2>1 DEF WriteMember
<1>4. /\ mpc' \in [Handlers -> {"idle", "save", "join", "count", "write"}]
      /\ mtask' \in [Handlers -> Task]
      /\ RequestsWork'
      /\ mpc'[h] = "idle"
      /\ \A g \in Handlers \ {h} : mpc'[g] = mpc[g] /\ mtask'[g] = mtask[g]
  BY <1>2, NoMemberTaskType, OneRequestMoves
<1>5. crossed \subseteq crossed' /\ crossed' \subseteq MTenants
  BY <1>3 DEF MembersInv, TypeOK
<1>6. TypeOK'
  BY <1>2, <1>3, <1>4, <1>5 DEF MembersInv, TypeOK
<1>7. \A i \in Invitations : Settled(i)'
  BY <1>2, <1>4 DEF MembersInv, AllSettled, Settled
<1>8. ~MemberBusy(h)' /\ \A g \in Handlers : MemberBusy(g)' => /\ g # h /\ MemberBusy(g)
                                                               /\ mpc'[g] = mpc[g] /\ mtask'[g] = mtask[g]
  BY <1>4 DEF MemberBusy
<1>9. CASE member' = member /\ crossed' = crossed
  <2>1. MemberInv'
    BY <1>2, <1>8, <1>9, MembersStay DEF memberVars
  <2> QED BY <1>4, <1>6, <1>7, <2>1 DEF MembersInv, AllSettled
<1>10. CASE /\ member' = [member EXCEPT ![m] = r]
            /\ \/ crossed' = crossed \cup {of}
               \/ crossed' = crossed /\ (mtask[h].from = of \/ IsAdmin(r))
  <2>1. member'[m] = r /\ \A n \in Members \ {m} : member'[n] = member[n]
    BY <1>10 DEF MembersInv, TypeOK
  <2>2. WorksIn(h, of) /\ (member[m] # Null => member[m].tenant = of)
    BY <1>1, <1>2 DEF WorksIn, MemberBusy, MembersInv, MemberInv, SameTenant
  <2>3. SameTenant'
    <3>1. SUFFICES ASSUME NEW g \in Handlers, MemberBusy(g)'
                   PROVE  /\ member'[mtask[g].id] # Null => member'[mtask[g].id].tenant = mtask[g].of
                          /\ \A k \in Handlers : MemberBusy(k)' /\ mtask[k].id = mtask[g].id =>
                               mtask[k].of = mtask[g].of
      BY <1>8 DEF SameTenant
    <3>2. mtask[g].id \in Members
      BY <1>8, <3>1 DEF MembersInv, RequestsWork, WorksOn, MemberBusy
    <3>3. mtask[g].id = m => mtask[g].of = of
      BY <1>1, <1>8, <2>2, <3>1 DEF MembersInv, MemberInv, SameTenant, WorksIn
    <3>4. mtask[g].id # m => member'[mtask[g].id] = member[mtask[g].id]
      BY <2>1, <3>2
    <3> QED BY <1>1, <1>8, <2>1, <3>1, <3>2, <3>3 DEF MembersInv, MemberInv, SameTenant
  <2>4. OneAtATime'
    BY <1>2, <1>8 DEF MembersInv, MemberInv, OneAtATime, WorksIn
  <2>5. ASSUME NEW t, t # of PROVE Administrators(t)' = Administrators(t)
    <3>1. ASSUME NEW n \in Members
          PROVE  (IsAdmin(member[n]) /\ member[n].tenant = t) <=> (IsAdmin(member'[n]) /\ member'[n].tenant = t)
      <4>1. CASE n = m
        BY <1>1, <2>1, <2>2, <2>5, <4>1 DEF IsAdmin
      <4>2. CASE n # m
        BY <2>1, <4>2 DEF IsAdmin
      <4> QED BY <4>1, <4>2
    <3> QED BY <3>1 DEF Administrators, IsAdmin
  <2>6. OneStays'
    <3>1. SUFFICES ASSUME NEW t \in MTenants \ (overlapped \cup crossed), NEW g \in Handlers, Demotes(g, t)'
                   PROVE  Administrators(t)' \ {mtask'[g].id} # {}
      BY <1>2, <1>5 DEF OneStays
    <3>2. MemberBusy(g)'
      BY <3>1 DEF Demotes, MemberBusy
    <3>3. g # h /\ Demotes(g, t) /\ mtask'[g] = mtask[g] /\ WorksIn(g, t)
      BY <1>8, <3>1, <3>2 DEF Demotes, IsAdmin, WorksIn
    <3>4. t # of
      BY <2>2, <3>1, <3>3 DEF MembersInv, MemberInv, OneAtATime
    <3> QED BY <2>5, <3>1, <3>3, <3>4 DEF MembersInv, MemberInv, OneStays
  <2>7. LastAdminStays'
    <3>1. SUFFICES ASSUME NEW t \in MTenants \ (overlapped \cup crossed')
                   PROVE  Administrators(t)' # {}
      BY <1>2 DEF LastAdminStays
    <3>2. t \notin crossed /\ Administrators(t) # {}
      BY <1>5, <3>1 DEF MembersInv, MemberInv, LastAdminStays
    <3>3. CASE t # of
      BY <2>5, <3>2, <3>3
    <3>4. CASE t = of /\ IsAdmin(r)
      <4>1. m \in Members /\ IsAdmin(member'[m]) /\ member'[m].tenant = t
        BY <1>1, <2>1, <3>4 DEF IsAdmin
      <4>2. m \in Administrators(t)'
        BY <4>1 DEF Administrators, IsAdmin
      <4> QED BY <4>2
    <3>5. CASE t = of /\ ~IsAdmin(r)
      <4>1. mtask[h].from = of
        BY <1>10, <3>1, <3>5
      <4>2. Demotes(h, t)
        BY <1>1, <1>2, <3>5, <4>1 DEF Demotes
      <4>3. PICK n \in Administrators(t) : n # m
        BY <1>1, <3>1, <3>2, <4>2 DEF MembersInv, MemberInv, OneStays
      <4>4. n \in Administrators(t)'
        BY <2>1, <4>3 DEF Administrators, IsAdmin
      <4> QED BY <4>4
    <3> QED BY <3>3, <3>4, <3>5
  <2> QED BY <1>4, <1>6, <1>7, <2>3, <2>4, <2>6, <2>7 DEF MembersInv, MemberInv, AllSettled
<1> QED BY <1>3, <1>9, <1>10
-----------------------------------------------------------------------------
LEMMA MembersStep == ASSUME MembersInv, [Next]_mvars PROVE MembersInv'
<1>1. CASE NextDay
  <2>1. day' \in 0..MaxDay
    BY <1>1, MembersAssumption DEF NextDay, MembersInv, TypeOK
  <2>2. UNCHANGED <<invitation, member, mpc, mtask, expiryJob, settled, memberless, overlapped, crossed,
                    mops, mfaults>>
    BY <1>1 DEF NextDay, histories
  <2>3. MemberInv'
    BY <2>2, MembersStay DEF memberVars
  <2> QED BY <2>1, <2>2, <2>3 DEF MembersInv, TypeOK, RequestsWork, AllSettled, Settled
<1>2. ASSUME NEW h \in Handlers, UpdateRole(h) \/ Remove(h) PROVE MembersInv'
  <2>1. CASE UpdateRole(h)
    <3>1. PICK m \in Members, role \in Role : LoadMember(h, "role", m, [member[m] EXCEPT !.role = role])
      BY <2>1 DEF UpdateRole
    <3>2. member[m] \in Member
      BY <3>1 DEF LoadMember, MembersInv, TypeOK
    <3> DEFINE r == [member[m] EXCEPT !.role = role]
    <3>3. r \in Member /\ r.tenant = member[m].tenant
      BY <3>2 DEF Member
    <3>4. "role" \in MemberKinds /\ LoadMember(h, "role", m, r)
      BY <3>1 DEF MemberKinds
    <3> HIDE DEF r
    <3> QED BY <3>3, <3>4, LoadMemberInv
  <2>2. CASE Remove(h)
    BY <2>2, LoadMemberInv DEF Remove, MemberKinds
  <2> QED BY <1>2, <2>1, <2>2
<1>3. CASE \E h \in Handlers :
             \/ Invite(h) \/ Accept(h) \/ Answer(h) \/ Resend(h) \/ SaveInvitation(h) \/ Join(h)
             \/ UpdateRole(h) \/ Remove(h) \/ Count(h) \/ WriteMember(h) \/ MemberCrash(h)
  BY <1>2, <1>3, InviteInv, LoadingInv, SaveInvitationInv, EndInv, CountInv, WriteMemberInv
<1>4. CASE ExpiryFind \/ ExpirySave \/ ExpiryFails
  BY <1>4, ExpiryInv
<1>5. CASE UNCHANGED mvars
  <2>1. MemberInv'
    BY <1>5, MembersStay DEF mvars, memberVars
  <2> QED BY <1>5, <2>1 DEF mvars, MembersInv, TypeOK, RequestsWork, AllSettled, Settled
<1> QED BY <1>1, <1>3, <1>4, <1>5 DEF Next

LEMMA MembersHold == Spec => []MembersInv
<1>1. Init => MembersInv
  BY MembersBegin
<1>2. MembersInv /\ [Next]_mvars => MembersInv'
  BY MembersStep
<1> QED BY <1>1, <1>2, PTL DEF Spec

\* The rows of invitations and members and the requests in progress keep their types.
THEOREM MembersTypeCorrect == Spec => []TypeOK
<1>1. MembersInv => TypeOK
  BY DEF MembersInv
<1> QED BY <1>1, MembersHold, PTL

\* However many requests and runs of the expiry job there are: an answer that was saved
\* while no one else held the invitation's row is final.
THEOREM AnswersAreFinal == Spec => []SettledIsFinal
<1>1. MembersInv => SettledIsFinal
  BY DEF MembersInv, AllSettled, Settled, SettledIsFinal
<1> QED BY <1>1, MembersHold, PTL

\* However many members and tenants there are: a tenant's last administrator gets lost only
\* to two overlapping requests on its members, or to one that counted another tenant's.
THEOREM AdministratorStays == Spec => []LastAdminStays
<1>1. MembersInv => LastAdminStays
  BY DEF MembersInv, MemberInv
<1> QED BY <1>1, MembersHold, PTL

-----------------------------------------------------------------------------
(* Proofs about ApiKeys, for any keys, handlers and callers.               *)
(*                                                                         *)
(* A revoked key stays revoked because every copy that may still be saved  *)
(* over it is stopped, is a deletion, or is a start.  The audit log agrees *)
(* because a key it must agree about is in the hands of one handler at     *)
(* most, whose entry tells the row it saves.                               *)

\* A request that has found a key has its row.
KeysTyped ==
  /\ KTypeOK
  /\ \A c \in Callers : caller[c].step = "verify" => caller[c].id \in Keys /\ caller[c].row \in KeyRow

StatusOf(r) == IF r = Null THEN Null ELSE r.status

\* A handler is idle or works on a key; a stop and a deletion save what they are.
KeyTaskFits(pc, task) ==
  /\ pc = "idle" => task = NoKeyTask
  /\ pc # "idle" =>
       /\ task.id \in Keys
       /\ task.kind = "stopped" => StatusOf(task.row) = "stopped"
       /\ task.kind = "delete" => task.row = Null

TasksOK == \A h \in Requests : KeyTaskFits(kpc[h], ktask[h])

\* What may be saved over a revoked key.
Harmless(task) == task.kind = "active" \/ task.row = Null \/ StatusOf(task.row) = "stopped"

RevokedSaved ==
  \A h \in Requests : kpc[h] = "save" /\ ktask[h].id \in revoked => Harmless(ktask[h])

Auditing(k) == \E h \in Requests : kpc[h] = "audit" /\ ktask[h].id = k

\* What is known of a key whose changes did not overlap: one handler at most works on
\* it; the log tells its status, unless an entry is to be written, which will tell it.
TrailSays(k) ==
  /\ \A h, g \in Requests : ktask[h].id = k /\ ktask[g].id = k => h = g
  /\ ~Auditing(k) => trail[k] = StatusOf(key[k])
  /\ \A h \in Requests : kpc[h] = "audit" /\ ktask[h].id = k =>
       /\ StatusOf(ktask[h].row) = StatusOf(key[k])
       /\ ktask[h].kind = "update" => trail[k] = StatusOf(key[k])
  /\ \A h \in Requests : kpc[h] = "save" /\ ktask[h].id = k /\ ktask[h].kind = "update" =>
       StatusOf(ktask[h].row) = StatusOf(key[k])

TrailTells == \A k \in Keys \ untold : TrailSays(k)

KeysInv == KeysTyped /\ TasksOK /\ RevokedSaved /\ RevokedStaysRevoked /\ TrailTells

KeyTask == [kind   : {"create", "update", "active", "stopped", "delete", "none"},
            id     : Keys \cup {Null}, row : KeyRow \cup {Null},
            before : {"active", "stopped", Null}]
-----------------------------------------------------------------------------
LEMMA NoKeyTaskType == NoKeyTask \in KeyTask /\ NoKeyTask.id = Null
BY DEF NoKeyTask, KeyTask

LEMMA TaskType == KeysTyped => ktask \in [Requests -> KeyTask]
BY DEF KeysTyped, KTypeOK, KeyTask

LEMMA KeysBegin == ASSUME KInit PROVE KeysInv
<1>1. KeysTyped
  BY KeysAssumption DEF KInit, KeysTyped, KTypeOK, NoKeyTask, NoCaller
<1>2. TasksOK
  BY DEF KInit, TasksOK, KeyTaskFits
<1>3. RevokedSaved /\ RevokedStaysRevoked
  BY DEF KInit, RevokedSaved, RevokedStaysRevoked
<1>4. TrailTells
  BY NoKeyTaskType, KeysAssumption DEF KInit, TrailTells, TrailSays, Auditing, StatusOf
<1> QED BY <1>1, <1>2, <1>3, <1>4 DEF KeysInv

\* An idle handler has no key, and one that works has one.
LEMMA IdleHasNone ==
  ASSUME KeysInv, NEW h \in Requests, kpc[h] = "idle" PROVE ktask[h].id = Null
BY NoKeyTaskType DEF KeysInv, TasksOK, KeyTaskFits
-----------------------------------------------------------------------------
(* A handler takes a task on a key.                                        *)

\* Of a key without entries to come only the handler that takes it up knows more.
LEMMA TakenUp ==
  ASSUME KeysInv, NEW h \in Requests, NEW k \in Keys, NEW task \in KeyTask,
         kpc[h] = "idle", task.id = k, ktask' = [ktask EXCEPT ![h] = task],
         untold' = IF Overlaps(h, k) THEN untold \cup {k} ELSE untold
  PROVE  /\ \A g \in Requests : g # h => ktask'[g] = ktask[g]
         /\ ktask'[h] = task
         /\ untold \subseteq untold' /\ untold' \subseteq Keys
         /\ k \notin untold' => \A g \in Requests : ktask[g].id # k
<1>1. ktask \in [Requests -> KeyTask] /\ untold \subseteq Keys
  BY TaskType DEF KeysInv, KeysTyped, KTypeOK
<1>2. ktask[h].id # k
  BY IdleHasNone, KeysAssumption
<1> QED BY <1>1, <1>2 DEF Overlaps

LEMMA CreateInv ==
  ASSUME KeysInv, NEW h \in Requests, CreateKey(h) PROVE KeysInv'
<1> DEFINE row == [status |-> "active", expired |-> FALSE]
<1>1. PICK k \in Keys \ revoked :
        /\ key[k] = Null
        /\ key' = [key EXCEPT ![k] = row]
        /\ ktask' = [ktask EXCEPT ![h] = [kind |-> "create", id |-> k, row |-> row, before |-> Null]]
        /\ untold' = IF Overlaps(h, k) THEN untold \cup {k} ELSE untold
  BY DEF CreateKey
<1> DEFINE task == [kind |-> "create", id |-> k, row |-> row, before |-> Null]
<1>2. row \in KeyRow /\ row # Null /\ row.status = "active"
  <2>1. row \in KeyRow /\ row.status = "active"
    BY DEF KeyRow
  <2> HIDE DEF row
  <2> QED BY <2>1, KeysAssumption
<1>3. task \in KeyTask /\ task.id = k /\ task.row = row /\ task.kind = "create"
  BY <1>2 DEF KeyTask
<1>4. /\ kpc[h] = "idle" /\ kpc' = [kpc EXCEPT ![h] = "audit"]
      /\ kops < MaxKeyOps /\ kops' = kops + 1
      /\ UNCHANGED <<caller, using, revoked, trail, kfaults>>
  BY DEF CreateKey, KeyRequest
<1>5. /\ ktask' = [ktask EXCEPT ![h] = task] /\ k \in Keys
      /\ untold' = IF Overlaps(h, k) THEN untold \cup {k} ELSE untold
  BY <1>1
<1> HIDE DEF row, task
<1>6. /\ \A g \in Requests : g # h => ktask'[g] = ktask[g]
      /\ ktask'[h] = task
      /\ untold \subseteq untold' /\ untold' \subseteq Keys
      /\ k \notin untold' => \A g \in Requests : ktask[g].id # k
  BY <1>3, <1>4, <1>5, TakenUp
<1>7. /\ key \in [Keys -> KeyRow \cup {Null}] /\ kpc \in [Requests -> {"idle", "save", "audit"}]
  BY DEF KeysInv, KeysTyped, KTypeOK
<1>8. KeysTyped'
  <2>1. ktask' \in [Requests -> KeyTask]
    BY <1>3, <1>5, TaskType DEF KeysInv
  <2> QED BY <1>1, <1>2, <1>4, <1>6, <2>1, KeysAssumption DEF KeysInv, KeysTyped, KTypeOK, KeyTask
<1>9. TasksOK'
  BY <1>3, <1>4, <1>6, <1>7 DEF KeysInv, TasksOK, KeyTaskFits
<1>10. RevokedSaved'
  BY <1>4, <1>6, <1>7 DEF KeysInv, RevokedSaved
<1>11. RevokedStaysRevoked'
  BY <1>1, <1>4, <1>7 DEF KeysInv, RevokedStaysRevoked
<1>12. TrailTells'
  <2> SUFFICES ASSUME NEW j \in Keys \ untold' PROVE TrailSays(j)'
    BY DEF TrailTells
  <2>1. TrailSays(j)
    BY <1>6 DEF KeysInv, TrailTells
  <2>2. CASE j = k
    BY <1>1, <1>2, <1>3, <1>4, <1>6, <1>7, <2>2 DEF TrailSays, Auditing, StatusOf
  <2>3. CASE j # k
    <3>1. key'[j] = key[j] /\ trail'[j] = trail[j] /\ ktask'[h].id # j /\ ktask[h].id # j
      BY <1>1, <1>3, <1>4, <1>6, <1>7, <2>3, IdleHasNone, KeysAssumption
    <3> QED BY <1>4, <1>6, <1>7, <2>1, <3>1 DEF TrailSays, Auditing
  <2> QED BY <2>2, <2>3
<1> QED BY <1>8, <1>9, <1>10, <1>11, <1>12 DEF KeysInv

\* A request that has loaded a row of k, whatever it is going to save.
LEMMA KeyRowLoads ==
  ASSUME KeysInv, NEW h \in Requests, NEW k \in Keys,
         NEW kind \in {"update", "active", "stopped", "delete"}, NEW row \in KeyRow \cup {Null},
         LoadKey(h, kind, k, row),
         kind = "update" => row = key[k],
         kind = "stopped" => StatusOf(row) = "stopped",
         kind = "delete" => row = Null
  PROVE  KeysInv'
<1> DEFINE task == [kind |-> kind, id |-> k, row |-> row, before |-> key[k].status]
<1>1. /\ kpc[h] = "idle" /\ key[k] # Null /\ kpc' = [kpc EXCEPT ![h] = "save"]
      /\ ktask' = [ktask EXCEPT ![h] = task]
      /\ untold' = IF Overlaps(h, k) THEN untold \cup {k} ELSE untold
      /\ kops < MaxKeyOps /\ kops' = kops + 1
      /\ UNCHANGED <<key, caller, using, revoked, trail, kfaults>>
  BY DEF LoadKey, KeyRequest
<1>2. /\ key \in [Keys -> KeyRow \cup {Null}] /\ kpc \in [Requests -> {"idle", "save", "audit"}]
  BY DEF KeysInv, KeysTyped, KTypeOK
<1>3. task \in KeyTask /\ task.id = k /\ task.row = row /\ task.kind = kind
  BY <1>1, <1>2 DEF KeyTask, KeyRow
<1> HIDE DEF task
<1>4. /\ \A g \in Requests : g # h => ktask'[g] = ktask[g]
      /\ ktask'[h] = task
      /\ untold \subseteq untold' /\ untold' \subseteq Keys
      /\ k \notin untold' => \A g \in Requests : ktask[g].id # k
  BY <1>1, <1>3, TakenUp
<1>5. KeysTyped'
  <2>1. ktask' \in [Requests -> KeyTask]
    BY <1>1, <1>3, TaskType DEF KeysInv
  <2> QED BY <1>1, <1>4, <2>1, KeysAssumption DEF KeysInv, KeysTyped, KTypeOK, KeyTask
<1>6. TasksOK'
  BY <1>1, <1>2, <1>3, <1>4 DEF KeysInv, TasksOK, KeyTaskFits
<1>7. RevokedSaved'
  <2>1. k \in revoked => StatusOf(key[k]) = "stopped"
    BY <1>1 DEF KeysInv, RevokedStaysRevoked, StatusOf
  <2>2. k \in revoked => Harmless(task)
    BY <1>3, <2>1 DEF Harmless
  <2> QED BY <1>1, <1>2, <1>3, <1>4, <2>2 DEF KeysInv, RevokedSaved
<1>8. RevokedStaysRevoked'
  BY <1>1 DEF KeysInv, RevokedStaysRevoked
<1>9. TrailTells'
  <2> SUFFICES ASSUME NEW j \in Keys \ untold' PROVE TrailSays(j)'
    BY DEF TrailTells
  <2>1. TrailSays(j)
    BY <1>4 DEF KeysInv, TrailTells
  <2>2. CASE j = k
    BY <1>1, <1>2, <1>3, <1>4, <2>1, <2>2 DEF TrailSays, Auditing
  <2>3. CASE j # k
    <3>1. ktask'[h].id # j /\ ktask[h].id # j
      BY <1>1, <1>3, <1>4, <2>3, IdleHasNone, KeysAssumption
    <3> QED BY <1>1, <1>2, <1>4, <2>1, <3>1 DEF TrailSays, Auditing
  <2> QED BY <2>2, <2>3
<1> QED BY <1>5, <1>6, <1>7, <1>8, <1>9 DEF KeysInv

\* The three kinds of change.
LEMMA ChangesInv ==
  ASSUME KeysInv, NEW h \in Requests, UpdateKey(h) \/ UpdateStatus(h) \/ DeleteKey(h)
  PROVE  KeysInv'
<1>1. key \in [Keys -> KeyRow \cup {Null}]
  BY DEF KeysInv, KeysTyped, KTypeOK
<1>2. CASE UpdateKey(h)
  BY <1>1, <1>2, KeyRowLoads DEF UpdateKey
<1>3. CASE DeleteKey(h)
  BY <1>3, KeyRowLoads DEF DeleteKey
<1>4. CASE UpdateStatus(h)
  <2>1. PICK k \in Keys, status \in {"active", "stopped"} :
          LoadKey(h, status, k, IF key[k] = Null THEN Null ELSE [key[k] EXCEPT !.status = status])
    BY <1>4 DEF UpdateStatus
  <2> DEFINE row == [key[k] EXCEPT !.status = status]
  <2>2. key[k] # Null /\ LoadKey(h, status, k, row)
    BY <2>1 DEF LoadKey
  <2>3. row \in KeyRow /\ row.status = status
    BY <1>1, <2>2 DEF KeyRow
  <2>4. row # Null
    BY <2>3, KeysAssumption
  <2> HIDE DEF row
  <2> QED BY <2>2, <2>3, <2>4, KeyRowLoads DEF StatusOf
<1> QED BY <1>2, <1>3, <1>4
-----------------------------------------------------------------------------
(* A handler goes on.                                                      *)

LEMMA KeyRowIsSaved == ASSUME KeysInv, NEW h \in Requests, SaveKey(h) PROVE KeysInv'
<1> DEFINE task == ktask[h]
           k == task.id
<1>1. /\ kpc[h] = "save" /\ kpc' = [kpc EXCEPT ![h] = "audit"]
      /\ key' = [key EXCEPT ![k] = task.row]
      /\ UNCHANGED <<ktask, caller, using, trail, untold, kops, kfaults>>
      /\ revoked' = CASE task.kind \in {"stopped", "delete"} /\ OnlyHolder(h, k)
                           -> revoked \cup {k}
                      [] task.kind = "active" -> revoked \ {k}
                      [] OTHER -> revoked
  BY DEF SaveKey
<1>2. /\ task \in KeyTask /\ task.row \in KeyRow \cup {Null}
      /\ key \in [Keys -> KeyRow \cup {Null}] /\ kpc \in [Requests -> {"idle", "save", "audit"}]
  BY TaskType DEF KeysInv, KeysTyped, KTypeOK, KeyTask
<1>3. /\ k \in Keys
      /\ task.kind = "stopped" => StatusOf(task.row) = "stopped"
      /\ task.kind = "delete" => task.row = Null
  BY <1>1 DEF KeysInv, TasksOK, KeyTaskFits
<1>4. k \in revoked => Harmless(task)
  BY <1>1 DEF KeysInv, RevokedSaved
\* What is revoked now: k, or what was revoked before.
<1>5. \/ /\ revoked' = revoked \cup {k} /\ task.kind \in {"stopped", "delete"}
         /\ OnlyHolder(h, k)
      \/ revoked' = revoked \ {k}
      \/ revoked' = revoked /\ task.kind # "active"
  BY <1>1
<1> HIDE DEF task, k
<1>6. KeysTyped'
  <2>1. revoked' \subseteq Keys
    BY <1>3, <1>5 DEF KeysInv, KeysTyped, KTypeOK
  <2>2. key' \in [Keys -> KeyRow \cup {Null}] /\ kpc' \in [Requests -> {"idle", "save", "audit"}]
    BY <1>1, <1>2
  <2> QED BY <1>1, <2>1, <2>2 DEF KeysInv, KeysTyped, KTypeOK
<1>7. TasksOK'
  BY <1>1, <1>2 DEF KeysInv, TasksOK, KeyTaskFits
<1>8. RevokedSaved'
  <2> SUFFICES ASSUME NEW g \in Requests, kpc'[g] = "save", ktask'[g].id \in revoked'
               PROVE  Harmless(ktask'[g])
    BY DEF RevokedSaved, Harmless
  <2>1. g # h /\ kpc[g] = "save" /\ ktask'[g] = ktask[g]
    BY <1>1, <1>2
  <2>2. CASE ktask[g].id \in revoked
    BY <2>1, <2>2 DEF KeysInv, RevokedSaved
  <2>3. CASE ktask[g].id \notin revoked
    BY <1>5, <2>1, <2>3 DEF OnlyHolder
  <2> QED BY <2>2, <2>3
<1>9. RevokedStaysRevoked'
  <2> SUFFICES ASSUME NEW j \in revoked' PROVE key'[j] = Null \/ key'[j].status = "stopped"
    BY DEF RevokedStaysRevoked
  <2>1. CASE j = k
    <3>1. task.row = Null \/ task.row.status = "stopped"
      BY <1>3, <1>4, <1>5, <2>1 DEF Harmless, StatusOf
    <3> QED BY <1>1, <1>2, <1>3, <2>1, <3>1
  <2>2. CASE j # k
    <3>1. j \in revoked /\ j \in Keys
      BY <1>5, <2>2 DEF KeysInv, KeysTyped, KTypeOK
    <3> QED BY <1>1, <1>2, <2>2, <3>1 DEF KeysInv, RevokedStaysRevoked
  <2> QED BY <2>1, <2>2
<1>10. TrailTells'
  <2> SUFFICES ASSUME NEW j \in Keys \ untold' PROVE TrailSays(j)'
    BY DEF TrailTells
  <2>1. TrailSays(j)
    BY <1>1 DEF KeysInv, TrailTells
  <2>2. CASE j = k
    <3>1. \A g \in Requests : ktask[g].id = j => g = h
      BY <2>1, <2>2 DEF TrailSays, k, task
    <3>2. trail[j] = StatusOf(key[j])
      BY <1>1, <2>1, <3>1 DEF TrailSays, Auditing
    <3>3. key'[j] = task.row
      BY <1>1, <1>2, <1>3, <2>2
    <3>4. task.kind = "update" => StatusOf(task.row) = StatusOf(key[j])
      BY <1>1, <2>1, <2>2 DEF TrailSays, k, task
    <3>5. kpc'[h] = "audit" /\ ktask'[h] = task /\ ktask' = ktask /\ trail' = trail
      BY <1>1, <1>2 DEF task
    <3>6. task.id = j
      BY <2>2 DEF k
    <3> QED BY <3>1, <3>2, <3>3, <3>4, <3>5, <3>6 DEF TrailSays, Auditing, StatusOf
  <2>3. CASE j # k
    <3>1. key'[j] = key[j] /\ ktask[h].id # j
      BY <1>1, <1>2, <2>3 DEF k, task
    <3> QED BY <1>1, <1>2, <2>1, <3>1 DEF TrailSays, Auditing
  <2> QED BY <2>2, <2>3
<1> QED BY <1>6, <1>7, <1>8, <1>9, <1>10 DEF KeysInv

\* A handler that ends has no key in its hands any more.
LEMMA Ended ==
  ASSUME KeysInv, NEW h \in Requests, kpc' = [kpc EXCEPT ![h] = "idle"],
         ktask' = [ktask EXCEPT ![h] = NoKeyTask], UNCHANGED revoked
  PROVE  /\ kpc' \in [Requests -> {"idle", "save", "audit"}] /\ ktask' \in [Requests -> KeyTask]
         /\ kpc'[h] = "idle" /\ ktask'[h] = NoKeyTask
         /\ \A g \in Requests : g # h => kpc'[g] = kpc[g] /\ ktask'[g] = ktask[g]
         /\ TasksOK' /\ RevokedSaved'
<1>1. ktask \in [Requests -> KeyTask] /\ kpc \in [Requests -> {"idle", "save", "audit"}]
  BY TaskType DEF KeysInv, KeysTyped, KTypeOK
<1>2. /\ kpc' \in [Requests -> {"idle", "save", "audit"}] /\ ktask' \in [Requests -> KeyTask]
      /\ kpc'[h] = "idle" /\ ktask'[h] = NoKeyTask
      /\ \A g \in Requests : g # h => kpc'[g] = kpc[g] /\ ktask'[g] = ktask[g]
  BY <1>1, NoKeyTaskType
<1>3. TasksOK'
  BY <1>2 DEF KeysInv, TasksOK, KeyTaskFits
<1>4. RevokedSaved'
  BY <1>2 DEF KeysInv, RevokedSaved
<1> QED BY <1>2, <1>3, <1>4

LEMMA AuditInv == ASSUME KeysInv, NEW h \in Requests, Audit(h) PROVE KeysInv'
<1> DEFINE task == ktask[h]
<1>1. /\ kpc[h] = "audit"
      /\ trail' = IF task.kind = "update" THEN trail ELSE [trail EXCEPT ![task.id] = StatusOf(task.row)]
      /\ UNCHANGED <<key, caller, using, revoked, untold, kops, kfaults>>
      /\ kpc' = [kpc EXCEPT ![h] = "idle"] /\ ktask' = [ktask EXCEPT ![h] = NoKeyTask]
  BY DEF Audit, Told, StatusOf
<1>2. task \in KeyTask /\ task.id \in Keys /\ trail \in [Keys -> {"active", "stopped", Null}]
  BY <1>1, TaskType DEF KeysInv, KeysTyped, KTypeOK, TasksOK, KeyTaskFits
<1>3. /\ kpc' \in [Requests -> {"idle", "save", "audit"}] /\ ktask' \in [Requests -> KeyTask]
      /\ kpc'[h] = "idle" /\ ktask'[h] = NoKeyTask
      /\ \A g \in Requests : g # h => kpc'[g] = kpc[g] /\ ktask'[g] = ktask[g]
      /\ TasksOK' /\ RevokedSaved'
  BY <1>1, Ended
<1>4. KeysTyped'
  <2>1. StatusOf(task.row) \in {"active", "stopped", Null}
    BY <1>2 DEF StatusOf, KeyTask, KeyRow
  <2>2. trail' \in [Keys -> {"active", "stopped", Null}]
    BY <1>1, <1>2, <2>1
  <2> QED BY <1>1, <1>3, <2>2 DEF KeysInv, KeysTyped, KTypeOK, KeyTask
<1>5. RevokedStaysRevoked'
  BY <1>1 DEF KeysInv, RevokedStaysRevoked
<1>6. TrailTells'
  <2> SUFFICES ASSUME NEW j \in Keys \ untold' PROVE TrailSays(j)'
    BY DEF TrailTells
  <2>1. TrailSays(j)
    BY <1>1 DEF KeysInv, TrailTells
  <2>2. ktask'[h].id # j
    BY <1>3, NoKeyTaskType, KeysAssumption
  <2>3. CASE j = task.id
    <3>1. \A g \in Requests : ktask[g].id = j => g = h
      BY <2>1, <2>3 DEF TrailSays
    <3>2. \A g \in Requests : ktask'[g].id # j
      BY <1>3, <2>2, <3>1
    <3>3. /\ StatusOf(task.row) = StatusOf(key[j])
          /\ task.kind = "update" => trail[j] = StatusOf(key[j])
      BY <1>1, <2>1, <2>3 DEF TrailSays
    <3>4. trail'[j] = StatusOf(key[j])
      BY <1>1, <1>2, <2>3, <3>3
    <3> QED BY <1>1, <3>2, <3>4 DEF TrailSays, Auditing
  <2>4. CASE j # task.id
    <3>1. trail'[j] = trail[j] /\ ktask[h].id # j
      BY <1>1, <1>2, <2>4
    <3> QED BY <1>1, <1>3, <2>1, <2>2, <3>1 DEF TrailSays, Auditing
  <2> QED BY <2>3, <2>4
<1> QED BY <1>3, <1>4, <1>5, <1>6 DEF KeysInv

LEMMA KeyRequestFails == ASSUME KeysInv, NEW h \in Requests, KeyFails(h) PROVE KeysInv'
<1>1. /\ kpc[h] # "idle"
      /\ untold' = IF kpc[h] = "audit" THEN untold \cup {ktask[h].id} ELSE untold
      /\ kfaults < MaxKeyFaults /\ kfaults' = kfaults + 1
      /\ UNCHANGED <<key, caller, using, revoked, trail, kops>>
      /\ kpc' = [kpc EXCEPT ![h] = "idle"] /\ ktask' = [ktask EXCEPT ![h] = NoKeyTask]
  BY DEF KeyFails, KeyFault
<1>2. /\ kpc' \in [Requests -> {"idle", "save", "audit"}] /\ ktask' \in [Requests -> KeyTask]
      /\ kpc'[h] = "idle" /\ ktask'[h] = NoKeyTask
      /\ \A g \in Requests : g # h => kpc'[g] = kpc[g] /\ ktask'[g] = ktask[g]
      /\ TasksOK' /\ RevokedSaved'
  BY <1>1, Ended
<1>3. ktask[h].id \in Keys
  BY <1>1 DEF KeysInv, TasksOK, KeyTaskFits
<1>4. KeysTyped'
  BY <1>1, <1>2, <1>3, KeysAssumption DEF KeysInv, KeysTyped, KTypeOK, KeyTask
<1>5. RevokedStaysRevoked'
  BY <1>1 DEF KeysInv, RevokedStaysRevoked
<1>6. TrailTells'
  <2> SUFFICES ASSUME NEW j \in Keys \ untold' PROVE TrailSays(j)'
    BY DEF TrailTells
  <2>1. TrailSays(j) /\ ~(kpc[h] = "audit" /\ ktask[h].id = j)
    BY <1>1 DEF KeysInv, TrailTells
  <2>2. ktask'[h].id # j
    BY <1>2, NoKeyTaskType, KeysAssumption
  <2>3. Auditing(j) => \E g \in Requests : g # h /\ kpc[g] = "audit" /\ ktask[g].id = j
    BY <2>1 DEF Auditing
  <2> QED BY <1>1, <1>2, <2>1, <2>2, <2>3 DEF TrailSays, Auditing
<1> QED BY <1>2, <1>4, <1>5, <1>6 DEF KeysInv
-----------------------------------------------------------------------------
(* Callers and the clock do not touch the status of a key.                 *)

LEMMA CallersInv ==
  ASSUME KeysInv,
         \/ \E c \in Callers : FindKey(c) \/ VerifyKey(c)
         \/ \E use \in using : UpdateLastUsed(use)
  PROVE  KeysInv'
<1> DEFINE Calling == [step : {"idle", "verify"}, id : Keys \cup {Null}, row : KeyRow \cup {Null}]
           Found == [id : Keys, row : KeyRow]
           Untouched == /\ UNCHANGED <<key, kpc, ktask, revoked, trail, untold, kfaults>>
                        /\ kops' = kops \/ (kops < MaxKeyOps /\ kops' = kops + 1)
                        /\ caller' \in [Callers -> Calling] /\ using' \subseteq Found
                        /\ \A c \in Callers : caller'[c].step = "verify" =>
                             caller'[c].id \in Keys /\ caller'[c].row \in KeyRow
<1>1. /\ caller \in [Callers -> Calling] /\ using \subseteq Found
      /\ key \in [Keys -> KeyRow \cup {Null}]
      /\ NoCaller \in Calling /\ NoCaller.step = "idle"
      /\ \A c \in Callers : caller[c].step = "verify" =>
           caller[c].id \in Keys /\ caller[c].row \in KeyRow
  BY DEF KeysInv, KeysTyped, KTypeOK, NoCaller
<1>2. ASSUME NEW c \in Callers, FindKey(c) PROVE Untouched
  <2>1. PICK k \in Keys : /\ key[k] # Null
                          /\ caller' = [caller EXCEPT ![c] = [step |-> "verify", id |-> k, row |-> key[k]]]
    BY <1>2 DEF FindKey
  <2>2. [step |-> "verify", id |-> k, row |-> key[k]] \in Calling
    BY <1>1
  <2>3. caller' \in [Callers -> Calling]
    BY <1>1, <2>1, <2>2
  <2>4. \A d \in Callers : caller'[d].step = "verify" =>
          caller'[d].id \in Keys /\ caller'[d].row \in KeyRow
    BY <1>1, <2>1
  <2> QED BY <1>1, <1>2, <2>3, <2>4 DEF FindKey, KeyRequest
<1>3. ASSUME NEW c \in Callers, VerifyKey(c) PROVE Untouched
  <2>1. caller' \in [Callers -> Calling]
    BY <1>1, <1>3 DEF VerifyKey
  <2>2. caller[c].step = "verify" /\ caller[c] \in Calling
    BY <1>1, <1>3 DEF VerifyKey
  <2>3. caller[c].id \in Keys /\ caller[c].row \in KeyRow
    BY <1>3, <2>2 DEF KeysInv, KeysTyped
  <2>4. using' \subseteq Found
    BY <1>1, <1>3, <2>3 DEF VerifyKey
  <2>5. \A d \in Callers : caller'[d].step = "verify" =>
          caller'[d].id \in Keys /\ caller'[d].row \in KeyRow
    BY <1>1, <1>3 DEF VerifyKey
  <2>6. UNCHANGED <<key, kpc, ktask, revoked, trail, untold, kops, kfaults>>
    BY <1>3 DEF VerifyKey
  <2> QED BY <2>1, <2>4, <2>5, <2>6
<1>4. ASSUME NEW use \in using, UpdateLastUsed(use) PROVE Untouched
  <2>1. UNCHANGED <<key, kpc, ktask, caller, revoked, trail, untold, kops, kfaults>>
        /\ using' \subseteq using
    BY <1>4 DEF UpdateLastUsed, LastUsed
  <2> QED BY <1>1, <2>1
<1>5. Untouched
  BY <1>2, <1>3, <1>4
<1>6. KeysTyped'
  BY <1>5, KeysAssumption DEF KeysInv, KeysTyped, KTypeOK
<1>7. TasksOK' /\ RevokedSaved' /\ RevokedStaysRevoked'
  BY <1>5 DEF KeysInv, TasksOK, KeyTaskFits, RevokedSaved, RevokedStaysRevoked
<1>8. TrailTells'
  BY <1>5 DEF KeysInv, TrailTells, TrailSays, Auditing
<1> QED BY <1>6, <1>7, <1>8 DEF KeysInv

LEMMA KeyEntryExpires == ASSUME KeysInv, Expires PROVE KeysInv'
<1>1. PICK k \in Keys : key[k] # Null /\ key' = [key EXCEPT ![k].expired = TRUE]
  BY DEF Expires
<1>2. key \in [Keys -> KeyRow \cup {Null}] /\ key[k] \in KeyRow
  BY <1>1 DEF KeysInv, KeysTyped, KTypeOK
<1> DEFINE r == [key[k] EXCEPT !.expired = TRUE]
<1>3. r \in KeyRow /\ r.status = key[k].status /\ key' = [key EXCEPT ![k] = r]
  BY <1>1, <1>2 DEF KeyRow
<1> HIDE DEF r
<1>4. /\ UNCHANGED <<kpc, ktask, caller, using, revoked, trail, untold, kops, kfaults>>
      /\ key' \in [Keys -> KeyRow \cup {Null}]
      /\ \A j \in Keys : StatusOf(key'[j]) = StatusOf(key[j]) /\ (key'[j] = Null <=> key[j] = Null)
  BY <1>1, <1>2, <1>3, KeysAssumption DEF Expires, StatusOf
<1>5. KeysTyped'
  BY <1>4 DEF KeysInv, KeysTyped, KTypeOK
<1>6. TasksOK' /\ RevokedSaved'
  BY <1>4 DEF KeysInv, TasksOK, KeyTaskFits, RevokedSaved
<1>7. RevokedStaysRevoked'
  BY <1>1, <1>2, <1>3, <1>4 DEF KeysInv, RevokedStaysRevoked, KeysTyped, KTypeOK
<1>8. TrailTells'
  BY <1>4 DEF KeysInv, TrailTells, TrailSays, Auditing
<1> QED BY <1>5, <1>6, <1>7, <1>8 DEF KeysInv
-----------------------------------------------------------------------------
LEMMA KeysStep == ASSUME KeysInv, [KNext]_kvars PROVE KeysInv'
<1>1. ASSUME NEW h \in Requests,
             \/ CreateKey(h) \/ UpdateKey(h) \/ UpdateStatus(h) \/ DeleteKey(h)
             \/ SaveKey(h) \/ Audit(h) \/ KeyFails(h)
      PROVE  KeysInv'
  BY <1>1, CreateInv, ChangesInv, KeyRowIsSaved, AuditInv, KeyRequestFails
<1>2. CASE \/ \E c \in Callers : FindKey(c) \/ VerifyKey(c)
           \/ \E use \in using : UpdateLastUsed(use)
  BY <1>2, CallersInv
<1>3. CASE Expires
  BY <1>3, KeyEntryExpires
<1>4. CASE UNCHANGED kvars
  <2>1. KeysTyped' /\ TasksOK'
    BY <1>4 DEF kvars, KeysInv, KeysTyped, KTypeOK, TasksOK, KeyTaskFits
  <2>2. RevokedSaved' /\ RevokedStaysRevoked'
    BY <1>4 DEF kvars, KeysInv, RevokedSaved, RevokedStaysRevoked
  <2>3. TrailTells'
    BY <1>4 DEF kvars, KeysInv, TrailTells, TrailSays, Auditing
  <2> QED BY <2>1, <2>2, <2>3 DEF KeysInv
<1> QED BY <1>1, <1>2, <1>3, <1>4 DEF KNext

LEMMA KeysHold == KSpec => []KeysInv
<1>1. KInit => KeysInv
  BY KeysBegin
<1>2. KeysInv /\ [KNext]_kvars => KeysInv'
  BY KeysStep
<1> QED BY <1>1, <1>2, PTL DEF KSpec

\* For any keys, handlers and callers: a key that was stopped or deleted while no other
\* change of it was about to be saved stays so until it is started, whatever stale rows are
\* saved and last uses written later.
THEOREM RevocationHolds == KSpec => []RevokedStaysRevoked
<1>1. KeysInv => RevokedStaysRevoked
  BY DEF KeysInv
<1> QED BY <1>1, KeysHold, PTL

\* A key whose changes neither overlapped nor failed half way is told of correctly in the
\* audit log.
THEOREM TrailIsRight == KSpec => []TrailAgrees
<1>1. KeysInv => TrailAgrees
  BY DEF KeysInv, TrailTells, TrailSays, Auditing, StatusOf, TrailAgrees
<1> QED BY <1>1, KeysHold, PTL

\* The rows, the handlers and the log keep their types.
THEOREM KeysTypeCorrect == KSpec => []KTypeOK
<1>1. KeysInv => KTypeOK
  BY DEF KeysInv, KeysTyped
<1> QED BY <1>1, KeysHold, PTL

-----------------------------------------------------------------------------
(* Tenants.  A row says so only of a domain that was proven, wherever the  *)
(* row is: in the table, as it was loaded, or about to be saved.  Requests *)
(* of one tenant leave the subdomains of the others alone; what one of them*)
(* is about to save is reserved for nobody else.                           *)

IdentitySteps == {"idle", "count", "reserved", "reserve", "save", "lookup", "settings",
                  "member", "billing", "disown", "own"}

Saving == {"count", "reserved", "reserve", "save"}

RowIsProven(row) ==
  /\ row.verification = "VERIFIED" /\ row.domain # Null => <<row.domain, row.token>> \in proven
  /\ row.domain # Null => row.token \in 1..tokens

RowsAreProven == \A t \in ITenants : tenant[t] # Null => RowIsProven(tenant[t])

RequestFits(h) ==
  /\ ipc[h] # "idle" => itask[h].id \in ITenants
  /\ ipc[h] \in Saving => itask[h].new \in Row
  /\ ipc[h] \in Saving \cup {"lookup"} /\ itask[h].kind # "create" =>
       itask[h].old \in Row /\ tenant[itask[h].id] # Null
  /\ ipc[h] = "reserve" => itask[h].kind # "create"
  /\ ipc[h] = "lookup" => itask[h].kind = "verify" /\ itask[h].old.domain # Null
  /\ ipc[h] \in {"disown", "own"} => itask[h].from \in Users /\ itask[h].user \in Users
  /\ ipc[h] \in {"member", "billing"} => "settings" \in parts[itask[h].id]
  /\ ipc[h] = "billing" => "member" \in parts[itask[h].id]
  /\ itask[h].old # Null => RowIsProven(itask[h].old)
  /\ itask[h].new # Null => RowIsProven(itask[h].new)

SlugsDiffer ==
  \A a, b \in ITenants :
    a # b /\ tenant[a] # Null /\ tenant[b] # Null => tenant[a].slug # tenant[b].slug

FreeFor(s, t) == Reserved(s) => kept[s].by = t

OneTenant == \A g, h \in IHandlers : ipc[g] # "idle" /\ ipc[h] # "idle" => itask[g].id = itask[h].id

Alone(h) ==
  /\ ipc[h] \in Saving \cup {"lookup"} /\ itask[h].kind # "create" =>
       \A t \in ITenants \ {itask[h].id} : tenant[t] # Null => tenant[t].slug # itask[h].old.slug
  /\ ipc[h] \in {"reserve", "save"} => FreeFor(itask[h].new.slug, itask[h].id)
  /\ ipc[h] = "lookup" => FreeFor(itask[h].old.slug, itask[h].id)

UnlessRaced == ~raced => OneTenant /\ \A h \in IHandlers : Alone(h)

IdentityInv ==
  /\ ITypeOK
  /\ RowsAreProven
  /\ \A h \in IHandlers : RequestFits(h)
  /\ SlugsDiffer
  /\ UnlessRaced
  /\ ReservationKept
  /\ HalfDoneIsInterrupted

LEMMA NoRequestType == INoTask \in ITask /\ INoTask.old = Null /\ INoTask.new = Null
  BY DEF INoTask, ITask

\* The rows a tenant may have at first.
LEMMA FirstRows ==
  ASSUME NEW s \in Slugs
  PROVE  /\ NewRow(s) \in Row /\ NewRow(s).domain = Null /\ NewRow(s).verification = "NONE"
            /\ NewRow(s).slug = s
         /\ \A d \in Domains : /\ PendingRow(s, d) \in Row /\ PendingRow(s, d).token = 1
                               /\ PendingRow(s, d).verification = "PENDING"
  BY DEF NewRow, PendingRow, Row

LEMMA IdentityInit == ASSUME IInit PROVE IdentityInv
  <1>1. ASSUME NEW t \in ITenants, tenant[t] # Null
        PROVE  tenant[t] \in Row /\ RowIsProven(tenant[t])
    <2>1. \/ \E s \in Slugs : tenant[t] = NewRow(s)
          \/ \E s \in Slugs, d \in Domains : tenant[t] = PendingRow(s, d)
      BY <1>1 DEF IInit
    <2>2. CASE \E s \in Slugs : tenant[t] = NewRow(s)
      BY <2>2, FirstRows DEF RowIsProven
    <2>3. CASE \E s \in Slugs, d \in Domains : tenant[t] = PendingRow(s, d)
      <3>1. tokens = 1
        BY DEF IInit
      <3> QED
        BY <2>3, <3>1, FirstRows DEF RowIsProven
    <2> QED
      BY <2>1, <2>2, <2>3
  <1>2. ITypeOK
    <2>1. tenant \in [ITenants -> Row \cup {Null}]
      <3>1. tenant = [t \in ITenants |-> tenant[t]]
        BY DEF IInit
      <3>2. \A t \in ITenants : tenant[t] \in Row \cup {Null}
        BY <1>1
      <3> HIDE DEF Row
      <3> QED
        BY <3>1, <3>2
    <2>2. kept \in [Slugs -> [until : Nat, by : ITenants] \cup {Null}]
      BY DEF IInit
    <2>3. txt \subseteq Domains \X (1..tokens) /\ proven \subseteq txt
      BY DEF IInit
    <2>4. parts \in [ITenants -> SUBSET Parts] /\ owners \in [ITenants -> SUBSET Users]
      BY DEF IInit
    <2>5. ipc \in [IHandlers -> IdentitySteps] /\ itask \in [IHandlers -> ITask]
      BY NoRequestType DEF IInit, IdentitySteps
    <2>6. 0 \in 0..MaxIDay
      <3>1. MaxIDay \in Nat
        BY IdentityAssumption
      <3> QED
        BY <3>1
    <2>7. /\ iday \in 0..MaxIDay /\ transferred \subseteq ITenants /\ interrupted \subseteq ITenants
          /\ raced \in BOOLEAN /\ tokens \in Nat /\ iops \in Nat /\ ifaults \in Nat
      BY <2>6 DEF IInit
    <2> QED
      BY <2>1, <2>2, <2>3, <2>4, <2>5, <2>7 DEF ITypeOK, IdentitySteps
  <1>3. RowsAreProven
    BY <1>1 DEF RowsAreProven
  <1>4. \A h \in IHandlers : ipc[h] = "idle" /\ itask[h] = INoTask
    BY DEF IInit
  <1>5. \A h \in IHandlers : RequestFits(h) /\ Alone(h)
    BY <1>4, NoRequestType DEF RequestFits, Alone, Saving
  <1>6. SlugsDiffer
    BY DEF IInit, SlugsDiffer
  <1>7. OneTenant
    BY <1>4 DEF OneTenant
  <1>8. ReservationKept /\ HalfDoneIsInterrupted
    BY DEF IInit, ReservationKept, HalfDoneIsInterrupted
  <1> QED
    BY <1>2, <1>3, <1>5, <1>6, <1>7, <1>8 DEF IdentityInv, UnlessRaced

-----------------------------------------------------------------------------
(* Steps of one request that leave the tables, the reservations and the    *)
(* relations alone.                                                        *)

LEMMA RequestMoves ==
  ASSUME IdentityInv, NEW h \in IHandlers,
         ipc' \in [IHandlers -> IdentitySteps], itask' \in [IHandlers -> ITask],
         \A g \in IHandlers \ {h} : ipc'[g] = ipc[g] /\ itask'[g] = itask[g],
         UNCHANGED <<iday, tenant, kept, txt, parts, owners, transferred>>,
         tokens' \in Nat, tokens <= tokens', proven \subseteq proven', proven' \subseteq txt,
         interrupted \subseteq interrupted', interrupted' \subseteq ITenants,
         raced' \in BOOLEAN, iops' \in Nat, ifaults' \in Nat,
         ipc[h] \in {"settings", "member", "billing", "own"} => itask[h].id \in interrupted',
         RequestFits(h)', ~raced' => ~raced /\ OneTenant' /\ Alone(h)'
  PROVE  IdentityInv'
  <1> USE DEF IdentityInv
  <1>1. txt \subseteq Domains \X (1..tokens) /\ tokens \in Nat
    BY DEF ITypeOK
  <1>2. \A row \in Row : RowIsProven(row) => RowIsProven(row)'
    <2>1. \A n \in 1..tokens : n \in 1..tokens'
      BY <1>1
    <2> QED
      BY <2>1 DEF RowIsProven
  <1>3. ITypeOK'
    <2>1. 1..tokens \subseteq 1..tokens'
      BY <1>1
    <2>2. txt' \subseteq Domains \X (1..tokens')
      BY <1>1, <2>1
    <2> QED
      BY <2>2 DEF ITypeOK, IdentitySteps
  <1>4. RowsAreProven'
    BY <1>2 DEF RowsAreProven, ITypeOK
  <1>5. ASSUME NEW g \in IHandlers PROVE RequestFits(g)'
    <2>1. CASE g = h
      BY <2>1
    <2>2. CASE g # h
      <3>1. ipc'[g] = ipc[g] /\ itask'[g] = itask[g] /\ RequestFits(g)
        BY <2>2
      <3>2. /\ itask[g].old # Null => RowIsProven(itask[g].old)'
            /\ itask[g].new # Null => RowIsProven(itask[g].new)'
        BY <1>2, <3>1 DEF RequestFits, ITypeOK, ITask
      <3> QED
        BY <3>1, <3>2 DEF RequestFits
    <2> QED
      BY <2>1, <2>2
  <1>6. SlugsDiffer' /\ ReservationKept'
    <2>1. ~raced' => ~raced
      OBVIOUS
    <2> QED
      BY <2>1 DEF SlugsDiffer, ReservationKept
  <1>7. UnlessRaced'
    <2>1. ASSUME ~raced', NEW g \in IHandlers PROVE Alone(g)'
      <3>1. CASE g = h
        BY <2>1, <3>1
      <3>2. CASE g # h
        <4>1. ipc'[g] = ipc[g] /\ itask'[g] = itask[g] /\ Alone(g)
          BY <2>1, <3>2 DEF UnlessRaced
        <4>2. \A s, t : FreeFor(s, t)' <=> FreeFor(s, t)
          BY DEF FreeFor, Reserved
        <4> QED
          BY <4>1, <4>2 DEF Alone
      <3> QED
        BY <3>1, <3>2
    <2> QED
      BY <2>1 DEF UnlessRaced
  <1>8. HalfDoneIsInterrupted'
    <2>1. ASSUME NEW steps \in {{"settings", "member", "billing"}, {"own"}},
                 NEW t \in ITenants \ interrupted', At(steps, t)
          PROVE  At(steps, t)'
      BY <2>1 DEF At
    <2> QED
      BY <2>1 DEF HalfDoneIsInterrupted
  <1> QED
    BY <1>3, <1>4, <1>5, <1>6, <1>7, <1>8

\* A request begins: it fits, and unless it overlaps with one of another tenant it
\* leaves the others' subdomains alone.
LEMMA RequestBegins ==
  ASSUME IdentityInv, NEW h \in IHandlers, NEW step \in IdentitySteps, NEW task \in ITask,
         step \in {"count", "save", "lookup", "disown"},
         task.id \in ITenants, IBegin(h, step, task),
         UNCHANGED <<iday, tenant, kept, txt, parts, owners, proven, transferred, interrupted, ifaults>>,
         tokens' \in Nat, tokens <= tokens',
         step \in Saving => task.new \in Row,
         step \in Saving \cup {"lookup"} /\ task.kind # "create" =>
           task.old = tenant[task.id] /\ task.old \in Row,
         step = "lookup" => task.kind = "verify" /\ task.old.domain # Null,
         step = "disown" => task.from \in Users /\ task.user \in Users,
         task.old # Null => RowIsProven(task.old)',
         task.new # Null => RowIsProven(task.new)',
         step = "save" => task.kind # "create" /\ task.new.slug = task.old.slug
  PROVE  IdentityInv'
  <1>1. /\ ipc \in [IHandlers -> IdentitySteps] /\ itask \in [IHandlers -> ITask] /\ iops \in Nat
        /\ ifaults \in Nat /\ proven \subseteq txt /\ interrupted \subseteq ITenants /\ raced \in BOOLEAN
    BY DEF IdentityInv, ITypeOK, IdentitySteps
  <1>2. /\ ipc[h] = "idle" /\ iops' = iops + 1 /\ ipc' = [ipc EXCEPT ![h] = step]
        /\ itask' = [itask EXCEPT ![h] = task]
        /\ raced' = (raced \/ (\E g \in IHandlers : ipc[g] # "idle" /\ itask[g].id # task.id))
    BY DEF IBegin
  <1>3. /\ ipc' \in [IHandlers -> IdentitySteps] /\ itask' \in [IHandlers -> ITask]
        /\ ipc'[h] = step /\ itask'[h] = task
        /\ \A g \in IHandlers \ {h} : ipc'[g] = ipc[g] /\ itask'[g] = itask[g]
    BY <1>1, <1>2
  <1>4. RequestFits(h)'
    <2>1. task.old \in Row => task.old # Null
      BY IdentityAssumption
    <2> QED
      BY <1>3, <2>1 DEF RequestFits, Saving
  <1>5. ASSUME ~raced' PROVE ~raced /\ OneTenant' /\ Alone(h)'
    <2>1. ~raced /\ \A g \in IHandlers : ipc[g] # "idle" => itask[g].id = task.id
      BY <1>2, <1>5
    <2>2. OneTenant'
      BY <1>3, <2>1 DEF OneTenant
    <2>3. ASSUME step \in Saving \cup {"lookup"}, task.kind # "create"
          PROVE  /\ \A t \in ITenants \ {task.id} : tenant[t] # Null => tenant[t].slug # task.old.slug
                 /\ FreeFor(task.old.slug, task.id)
      <3>1. task.old = tenant[task.id] /\ tenant[task.id] # Null /\ task.old \in Row
        BY <2>3, IdentityAssumption
      <3>2. task.old.slug \in Slugs
        BY <3>1 DEF Row
      <3> QED
        BY <2>1, <3>1, <3>2 DEF IdentityInv, SlugsDiffer, ReservationKept, FreeFor, Reserved
    <2>4. Alone(h)'
      <3>1. /\ step \in Saving \cup {"lookup"} /\ task.kind # "create" =>
                 \A t \in ITenants \ {task.id} : tenant[t] # Null => tenant[t].slug # task.old.slug
            /\ step = "save" => FreeFor(task.new.slug, task.id)
            /\ step = "lookup" => FreeFor(task.old.slug, task.id)
        BY <2>3 DEF Saving
      <3>2. \A s, t : FreeFor(s, t)' = FreeFor(s, t)
        BY DEF FreeFor, Reserved
      <3> HIDE DEF FreeFor
      <3> QED
        BY <1>3, <3>1, <3>2 DEF Alone
    <2> QED
      BY <2>1, <2>2, <2>4
  <1>6. raced' \in BOOLEAN /\ iops' \in Nat /\ ifaults' \in Nat
    BY <1>1, <1>2
  <1> QED
    BY <1>1, <1>2, <1>3, <1>4, <1>5, <1>6, RequestMoves

LEMMA BeginningSteps ==
  ASSUME IdentityInv, NEW h \in IHandlers,
         CreateTenant(h) \/ UpdateTenant(h) \/ VerifyDomain(h) \/ TransferOwnership(h)
  PROVE  IdentityInv'
  <1>1. /\ tenant \in [ITenants -> Row \cup {Null}] /\ tokens \in Nat
        /\ \A t \in ITenants : tenant[t] # Null => tenant[t] \in Row /\ RowIsProven(tenant[t])
    BY DEF IdentityInv, ITypeOK, RowsAreProven
  <1>2. CASE CreateTenant(h)
    <2>1. PICK t \in ITenants, s \in Slugs, u \in Users :
            IBegin(h, "count", [INoTask EXCEPT !.kind = "create", !.id = t, !.new = NewRow(s), !.user = u])
      BY <1>2 DEF CreateTenant
    <2> DEFINE task == [INoTask EXCEPT !.kind = "create", !.id = t, !.new = NewRow(s), !.user = u]
    <2>2. /\ UNCHANGED <<iday, tenant, kept, txt, parts, owners, tokens, proven, transferred,
                         interrupted, ifaults>>
      BY <1>2 DEF CreateTenant
    <2>3. /\ NewRow(s) \in Row /\ RowIsProven(NewRow(s))'
      BY FirstRows DEF RowIsProven
    <2>4. /\ task \in ITask /\ task.id = t /\ task.new = NewRow(s) /\ task.old = Null
          /\ task.kind = "create"
      BY <2>3 DEF INoTask, ITask
    <2>5. "count" \in IdentitySteps
      BY DEF IdentitySteps, Saving
    <2>6. IBegin(h, "count", task)
      BY <2>1
    <2> HIDE DEF task
    <2> QED
      BY <1>1, <2>2, <2>3, <2>4, <2>5, <2>6, RequestBegins
  <1>3. CASE UpdateTenant(h)
    <2>1. PICK t \in ITenants, s \in Slugs, d \in Domains \cup {Null} :
            /\ tenant[t] # Null
            /\ LET new == [WithDomain(tenant[t], d) EXCEPT !.slug = s] IN
               /\ IBegin(h, IF s = tenant[t].slug THEN "save" ELSE "count",
                         [INoTask EXCEPT !.kind = "update", !.id = t, !.old = tenant[t], !.new = new])
               /\ tokens' = IF new.token = tokens + 1 THEN tokens + 1 ELSE tokens
      BY <1>3 DEF UpdateTenant
    <2>2. UNCHANGED <<iday, tenant, kept, txt, parts, owners, proven, transferred, interrupted, ifaults>>
      BY <1>3 DEF UpdateTenant
    <2>3. PICK row \in Row : row = tenant[t] /\ RowIsProven(row)
      BY <1>1, <2>1
    <2>4. [WithDomain(row, d) EXCEPT !.slug = s] \in Row
      <3>1. ASSUME NEW token \in Nat, NEW verification \in {"NONE", "PENDING", "VERIFIED", "FAILED"}
            PROVE  [row EXCEPT !.domain = d, !.token = token, !.verification = verification] \in Row
        BY DEF Row
      <3>2. [row EXCEPT !.domain = d] \in Row
        BY DEF Row
      <3>3. tokens + 1 \in Nat
        BY <1>1
      <3>4. WithDomain(row, d) \in Row
        BY <3>1, <3>2, <3>3 DEF WithDomain
      <3> QED
        BY <3>4 DEF Row
    <2>5. PICK new \in Row : new = [WithDomain(row, d) EXCEPT !.slug = s]
      BY <2>4
    <2>6. tokens' = IF new.token = tokens + 1 THEN tokens + 1 ELSE tokens
      BY <2>1, <2>3, <2>5
    <2>7. tokens' \in Nat /\ tokens <= tokens' /\ RowIsProven(row)'
      <3>1. tokens' \in Nat /\ tokens <= tokens'
        BY <1>1, <2>6
      <3>2. 1..tokens \subseteq 1..tokens'
        BY <1>1, <3>1
      <3> QED
        BY <2>2, <2>3, <3>1, <3>2 DEF RowIsProven
    <2>8. RowIsProven(new)'
      <3>1. CASE d # Null /\ d # row.domain
        <4>1. new.verification = "PENDING" /\ new.token = tokens + 1
          BY <2>5, <3>1 DEF WithDomain, Row
        <4>2. tokens' = tokens + 1 /\ tokens + 1 \in 1..tokens'
          BY <1>1, <2>6, <4>1
        <4> QED
          BY <4>1, <4>2 DEF RowIsProven
      <3>2. CASE ~(d # Null /\ d # row.domain)
        <4>1. /\ new.verification = row.verification /\ new.token = row.token
              /\ new.domain = d /\ (d = Null \/ d = row.domain)
          BY <2>5, <3>2 DEF WithDomain, Row
        <4> QED
          BY <2>7, <4>1 DEF RowIsProven
      <3> QED
        BY <3>1, <3>2
    <2>9. new.slug = s
      BY <2>5 DEF WithDomain, Row
    <2> DEFINE task == [INoTask EXCEPT !.kind = "update", !.id = t, !.old = row, !.new = new]
               step == IF s = row.slug THEN "save" ELSE "count"
    <2>10. /\ task \in ITask /\ task.id = t /\ task.new = new /\ task.old = row
           /\ task.kind = "update"
      BY DEF INoTask, ITask
    <2>11. step \in IdentitySteps /\ step \in {"count", "save"} /\ (step = "save" => s = row.slug)
      BY DEF IdentitySteps, Saving
    <2>12. IBegin(h, step, task)
      BY <2>1, <2>3, <2>5
    <2> HIDE DEF task, step
    <2> QED
      BY <2>2, <2>3, <2>7, <2>8, <2>9, <2>10, <2>11, <2>12, RequestBegins
  <1>4. CASE VerifyDomain(h)
    <2>1. PICK t \in ITenants :
            /\ tenant[t] # Null /\ tenant[t].domain # Null
            /\ IBegin(h, "lookup", [INoTask EXCEPT !.kind = "verify", !.id = t, !.old = tenant[t]])
      BY <1>4 DEF VerifyDomain
    <2>2. /\ UNCHANGED <<iday, tenant, kept, txt, parts, owners, tokens, proven, transferred,
                         interrupted, ifaults>>
      BY <1>4 DEF VerifyDomain
    <2>3. PICK row \in Row : row = tenant[t] /\ RowIsProven(row)
      BY <1>1, <2>1
    <2> DEFINE task == [INoTask EXCEPT !.kind = "verify", !.id = t, !.old = row]
    <2>4. /\ task \in ITask /\ task.id = t /\ task.old = row /\ task.new = Null
          /\ task.kind = "verify"
      BY DEF INoTask, ITask
    <2>5. "lookup" \in IdentitySteps /\ "lookup" \notin Saving
      BY DEF IdentitySteps, Saving
    <2>6. IBegin(h, "lookup", task) /\ row.domain # Null
      BY <2>1, <2>3
    <2>7. RowIsProven(row)' /\ tokens' \in Nat /\ tokens <= tokens'
      BY <1>1, <2>2, <2>3 DEF RowIsProven
    <2> HIDE DEF task
    <2> QED
      BY <2>2, <2>3, <2>4, <2>5, <2>6, <2>7, RequestBegins
  <1>5. CASE TransferOwnership(h)
    <2>1. PICK t \in ITenants, from, to \in Users :
            IBegin(h, "disown", [INoTask EXCEPT !.kind = "transfer", !.id = t, !.from = from, !.user = to])
      BY <1>5 DEF TransferOwnership
    <2> DEFINE task == [INoTask EXCEPT !.kind = "transfer", !.id = t, !.from = from, !.user = to]
    <2>2. /\ UNCHANGED <<iday, tenant, kept, txt, parts, owners, tokens, proven, transferred,
                         interrupted, ifaults>>
      BY <1>5 DEF TransferOwnership
    <2>3. /\ task \in ITask /\ task.id = t /\ task.old = Null /\ task.new = Null
          /\ task.from = from /\ task.user = to
      BY DEF INoTask, ITask
    <2>4. "disown" \in IdentitySteps /\ "disown" \notin Saving
      BY DEF IdentitySteps, Saving
    <2>5. IBegin(h, "disown", task)
      BY <2>1
    <2> HIDE DEF task
    <2> QED
      BY <1>1, <2>2, <2>3, <2>4, <2>5, RequestBegins
  <1> QED
    BY <1>2, <1>3, <1>4, <1>5

\* What the lemma RequestMoves asks of the steps below.
LEMMA RequestTypes ==
  ASSUME IdentityInv, NEW h \in IHandlers
  PROVE  /\ ipc \in [IHandlers -> IdentitySteps] /\ itask \in [IHandlers -> ITask]
         /\ itask[h] \in ITask /\ RequestFits(h) /\ (~raced => OneTenant /\ Alone(h))
         /\ proven \subseteq txt /\ transferred \subseteq ITenants /\ interrupted \subseteq ITenants
         /\ raced \in BOOLEAN /\ tokens \in Nat /\ tokens <= tokens /\ iops \in Nat /\ ifaults \in Nat
  BY DEF IdentityInv, ITypeOK, IdentitySteps, UnlessRaced

LEMMA RequestEnds ==
  ASSUME IdentityInv, NEW h \in IHandlers, ipc[h] \in Saving \cup {"lookup"}, IReturn(h),
         UNCHANGED <<iday, tenant, kept, txt, parts, owners, tokens, ihistories, iops, ifaults>>
  PROVE  IdentityInv'
  <1> USE RequestTypes DEF ihistories
  <1>1. /\ ipc' \in [IHandlers -> IdentitySteps] /\ itask' \in [IHandlers -> ITask]
        /\ ipc'[h] = "idle" /\ itask'[h] = INoTask
        /\ \A g \in IHandlers \ {h} : ipc'[g] = ipc[g] /\ itask'[g] = itask[g]
    BY NoRequestType DEF IReturn, IdentitySteps
  <1>2. RequestFits(h)' /\ Alone(h)'
    BY <1>1, NoRequestType DEF RequestFits, Alone, Saving
  <1>3. ~raced => OneTenant'
    BY <1>1 DEF OneTenant
  <1>4. ipc[h] \notin {"settings", "member", "billing", "own"}
    BY DEF Saving
  <1> QED
    BY <1>1, <1>2, <1>3, <1>4, RequestMoves

LEMMA CountingSteps ==
  ASSUME IdentityInv, NEW h \in IHandlers, CountTenants(h) \/ CountReserved(h) \/ IdentityCrash(h)
  PROVE  IdentityInv'
  <1> USE RequestTypes
  <1>1. UNCHANGED <<iday, tenant, kept, txt, parts, owners, tokens, proven, transferred, raced, iops>>
        /\ ipc[h] # "idle"
    BY DEF CountTenants, CountReserved, IdentityCrash, ihistories
  <1>2. CASE IReturn(h) /\ (IdentityCrash(h) \/ (UNCHANGED <<interrupted, ifaults>> /\ ipc[h] \in Saving))
    <2>1. /\ ipc' \in [IHandlers -> IdentitySteps] /\ itask' \in [IHandlers -> ITask]
          /\ ipc'[h] = "idle" /\ itask'[h] = INoTask
          /\ \A g \in IHandlers \ {h} : ipc'[g] = ipc[g] /\ itask'[g] = itask[g]
      BY <1>2, NoRequestType DEF IReturn, IdentitySteps
    <2>2. RequestFits(h)' /\ Alone(h)'
      BY <2>1, NoRequestType DEF RequestFits, Alone, Saving
    <2>3. ~raced => OneTenant'
      BY <2>1 DEF OneTenant
    <2>4. /\ interrupted \subseteq interrupted' /\ interrupted' \subseteq ITenants /\ ifaults' \in Nat
          /\ ipc[h] \in {"settings", "member", "billing", "own"} => itask[h].id \in interrupted'
      <3>1. CASE IdentityCrash(h)
        BY <1>1, <3>1 DEF IdentityCrash, RequestFits
      <3>2. CASE UNCHANGED <<interrupted, ifaults>> /\ ipc[h] \in Saving
        BY <3>2 DEF Saving
      <3> QED
        BY <1>2, <3>1, <3>2
    <2> QED
      BY <1>1, <2>1, <2>2, <2>3, <2>4, RequestMoves
  <1>3. CASE CountTenants(h) /\ IGo(h, "reserved")
    <2>1. /\ ipc[h] = "count" /\ itask' = itask /\ UNCHANGED <<interrupted, ifaults>>
          /\ ipc' \in [IHandlers -> IdentitySteps] /\ ipc'[h] = "reserved"
          /\ \A g \in IHandlers \ {h} : ipc'[g] = ipc[g]
      BY <1>3 DEF CountTenants, IGo, IdentitySteps, ihistories
    <2>2. RequestFits(h)'
      BY <1>1, <2>1 DEF RequestFits, Saving, RowIsProven
    <2>3. ~raced => OneTenant' /\ Alone(h)'
      BY <1>1, <2>1 DEF OneTenant, Alone, Saving
    <2> QED
      BY <1>1, <2>1, <2>2, <2>3, RequestMoves
  <1>4. CASE /\ CountReserved(h) /\ ~Reserved(itask[h].new.slug)
             /\ IGo(h, IF itask[h].kind = "create" THEN "save" ELSE "reserve")
    <2>1. /\ ipc[h] = "reserved" /\ itask' = itask /\ UNCHANGED <<interrupted, ifaults>>
          /\ ipc' \in [IHandlers -> IdentitySteps] /\ ipc'[h] \in {"save", "reserve"}
          /\ (ipc'[h] = "reserve" => itask[h].kind # "create")
          /\ \A g \in IHandlers \ {h} : ipc'[g] = ipc[g]
      BY <1>4 DEF CountReserved, IGo, IdentitySteps, ihistories
    <2>2. RequestFits(h)'
      BY <1>1, <2>1 DEF RequestFits, Saving, RowIsProven
    <2>3. ~raced => OneTenant'
      BY <1>1, <2>1 DEF OneTenant
    <2>4. FreeFor(itask[h].new.slug, itask[h].id)'
      BY <1>1, <1>4, <2>1 DEF FreeFor, Reserved
    <2>5. ~raced => Alone(h)'
      BY <1>1, <2>1, <2>4 DEF Alone, Saving
    <2> QED
      BY <1>1, <2>1, <2>2, <2>3, <2>5, RequestMoves
  <1>5. CASE CountTenants(h)
    <2>1. ipc[h] \in Saving /\ UNCHANGED <<interrupted, ifaults>>
      BY <1>5 DEF CountTenants, Saving, ihistories
    <2> QED
      BY <1>2, <1>3, <1>5, <2>1 DEF CountTenants
  <1>6. CASE CountReserved(h)
    <2>1. ipc[h] \in Saving /\ UNCHANGED <<interrupted, ifaults>>
      BY <1>6 DEF CountReserved, Saving, ihistories
    <2> QED
      BY <1>2, <1>4, <1>6, <2>1 DEF CountReserved
  <1>7. CASE IdentityCrash(h)
    <2>1. IReturn(h)
      BY <1>7 DEF IdentityCrash
    <2> QED
      BY <1>2, <1>7, <2>1
  <1> QED
    BY <1>5, <1>6, <1>7

\* What the DNS confirms is proven before the row is saved.
LEMMA LookUpStep == ASSUME IdentityInv, NEW h \in IHandlers, LookUpTxt(h) PROVE IdentityInv'
  <1> USE RequestTypes
  <1>1. /\ UNCHANGED <<iday, tenant, kept, txt, parts, owners, tokens, transferred, interrupted, raced,
                       iops, ifaults>>
        /\ ipc[h] = "lookup"
    BY DEF LookUpTxt
  <1>2. PICK row \in Row : row = itask[h].old /\ row.domain # Null /\ RowIsProven(row)
    BY <1>1, IdentityAssumption DEF RequestFits
  <1> DEFINE sought == <<row.domain, row.token>>
  <1>3. CASE IReturn(h) /\ proven' = proven
    BY <1>1, <1>3, RequestEnds DEF ihistories
  <1>4. CASE /\ proven' = proven \cup ({sought} \cap txt)
             /\ itask' = [itask EXCEPT ![h].new =
                  [row EXCEPT !.verification = IF sought \in txt THEN "VERIFIED" ELSE "FAILED"]]
             /\ ipc' = [ipc EXCEPT ![h] = "save"]
    <2> DEFINE v == IF sought \in txt THEN "VERIFIED" ELSE "FAILED"
    <2>1. v \in {"VERIFIED", "FAILED"} /\ (v = "VERIFIED" => sought \in txt)
      OBVIOUS
    <2>2. itask' = [itask EXCEPT ![h].new = [row EXCEPT !.verification = v]]
      BY <1>4
    <2> HIDE DEF v
    <2>3. PICK new \in Row : new = [row EXCEPT !.verification = v]
      BY <2>1 DEF Row
    <2>4. /\ new.domain = row.domain /\ new.token = row.token /\ new.slug = row.slug
          /\ new.verification = v
      BY <2>3 DEF Row
    <2>5. /\ itask' \in [IHandlers -> ITask] /\ ipc' \in [IHandlers -> IdentitySteps]
          /\ \A g \in IHandlers \ {h} : ipc'[g] = ipc[g] /\ itask'[g] = itask[g]
      <3>1. [itask[h] EXCEPT !.new = new] \in ITask
        BY DEF ITask
      <3>2. itask' = [itask EXCEPT ![h] = [itask[h] EXCEPT !.new = new]]
        BY <2>2, <2>3
      <3>3. /\ itask' \in [IHandlers -> ITask]
            /\ \A g \in IHandlers \ {h} : itask'[g] = itask[g]
        BY <3>1, <3>2
      <3>4. /\ ipc' \in [IHandlers -> IdentitySteps]
            /\ \A g \in IHandlers \ {h} : ipc'[g] = ipc[g]
        BY <1>4 DEF IdentitySteps
      <3> QED
        BY <3>3, <3>4
    <2>6. /\ itask'[h].new = new /\ itask'[h].old = itask[h].old /\ itask'[h].id = itask[h].id
          /\ itask'[h].kind = itask[h].kind /\ ipc'[h] = "save"
      BY <1>4, <2>2, <2>3 DEF ITask
    <2>7. RowIsProven(new)' /\ RowIsProven(row)'
      <3>1. new.verification = "VERIFIED" => sought \in proven'
        BY <1>4, <2>1, <2>4
      <3>2. RowIsProven(row)'
        BY <1>1, <1>2, <1>4 DEF RowIsProven
      <3> QED
        BY <1>1, <1>2, <2>4, <3>1, <3>2 DEF RowIsProven
    <2>8. RequestFits(h)'
      BY <1>1, <1>2, <2>3, <2>6, <2>7 DEF RequestFits, Saving
    <2>9. ~raced => OneTenant' /\ Alone(h)'
      <3>1. ~raced => OneTenant'
        <4>1. ASSUME NEW g \in IHandlers
              PROVE  itask'[g].id = itask[g].id /\ (ipc'[g] # "idle" => ipc[g] # "idle")
          <5>1. CASE g = h
            BY <1>1, <2>6, <5>1
          <5>2. CASE g # h
            BY <2>5, <5>2
          <5> QED
            BY <5>1, <5>2
        <4>2. CASE ~raced
          <5>1. OneTenant
            BY <4>2
          <5> QED
            BY <4>1, <5>1 DEF OneTenant
        <4> QED
          BY <4>2
      <3>2. ASSUME ~raced PROVE Alone(h)'
        <4>1. \A s, t : FreeFor(s, t) => FreeFor(s, t)'
          BY <1>1 DEF FreeFor, Reserved
        <4>2. Alone(h)
          BY <3>2
        <4>3. FreeFor(itask[h].old.slug, itask[h].id)
          BY <1>1, <4>2 DEF Alone
        <4>4. FreeFor(itask[h].new.slug, itask[h].id)'
          BY <1>2, <2>4, <2>6, <4>1, <4>3
        <4> QED
          BY <1>1, <2>6, <4>2, <4>4 DEF Alone, Saving
      <3> QED
        BY <3>1, <3>2
    <2>10. proven \subseteq proven' /\ proven' \subseteq txt
      BY <1>4
    <2> QED
      BY <1>1, <2>5, <2>8, <2>9, <2>10, RequestMoves
  <1> QED
    BY <1>1, <1>2, <1>3, <1>4 DEF LookUpTxt

-----------------------------------------------------------------------------
(* Steps that change the tables, the reservations or the relations.        *)

LEMMA ReserveStep == ASSUME IdentityInv, NEW h \in IHandlers, ReserveSubdomain(h) PROVE IdentityInv'
  <1>1. /\ ipc \in [IHandlers -> IdentitySteps] /\ itask \in [IHandlers -> ITask]
        /\ kept \in [Slugs -> [until : Nat, by : ITenants] \cup {Null}] /\ iday \in 0..MaxIDay
        /\ RequestFits(h) /\ ipc[h] = "reserve"
    BY RequestTypes DEF IdentityInv, ITypeOK, ReserveSubdomain
  <1>2. /\ itask[h].id \in ITenants /\ itask[h].old \in Row /\ itask[h].old.slug \in Slugs
        /\ itask[h].kind # "create"
    BY <1>1 DEF RequestFits, Saving, Row
  <1> DEFINE id == itask[h].id
             given == itask[h].old.slug
             reservation == [until |-> iday + ReserveDays, by |-> id]
  <1>3. /\ kept' = [kept EXCEPT ![given] = reservation]
        /\ ipc' = [ipc EXCEPT ![h] = "save"] /\ itask' = itask
        /\ UNCHANGED <<iday, tenant, txt, parts, owners, tokens, proven, transferred, interrupted, raced,
                       iops, ifaults>>
    BY DEF ReserveSubdomain, IGo, ihistories
  <1>4. reservation \in [until : Nat, by : ITenants] /\ reservation.by = id
    <2>1. iday + ReserveDays \in Nat
      <3>1. ReserveDays \in Nat /\ MaxIDay \in Nat
        BY IdentityAssumption
      <3> QED
        BY <1>1, <3>1
    <2> QED
      BY <1>2, <2>1
  <1> HIDE DEF reservation
  <1>5. /\ kept' \in [Slugs -> [until : Nat, by : ITenants] \cup {Null}]
        /\ kept'[given].by = id /\ \A s \in Slugs \ {given} : kept'[s] = kept[s]
    BY <1>1, <1>2, <1>3, <1>4
  <1>6. /\ ipc' \in [IHandlers -> IdentitySteps] /\ ipc'[h] = "save"
        /\ \A g \in IHandlers \ {h} : ipc'[g] = ipc[g]
    BY <1>1, <1>3 DEF IdentitySteps
  <1>7. ITypeOK'
    BY <1>3, <1>5, <1>6 DEF IdentityInv, ITypeOK, IdentitySteps
  <1>8. RowsAreProven' /\ SlugsDiffer'
    BY <1>3 DEF IdentityInv, RowsAreProven, RowIsProven, SlugsDiffer
  <1>9. ASSUME NEW g \in IHandlers PROVE RequestFits(g)'
    <2>1. RequestFits(g)
      BY DEF IdentityInv
    <2>2. \A row : RowIsProven(row)' = RowIsProven(row)
      BY <1>3 DEF RowIsProven
    <2>3. CASE g # h
      BY <1>3, <1>6, <2>1, <2>2, <2>3 DEF RequestFits
    <2>4. CASE g = h
      BY <1>1, <1>3, <1>6, <2>1, <2>2, <2>4 DEF RequestFits, Saving
    <2> QED
      BY <2>3, <2>4
  <1>10. \A t \in ITenants \ {id} : ~raced /\ tenant[t] # Null => tenant[t].slug # given
    BY <1>1, <1>2 DEF IdentityInv, UnlessRaced, Alone, Saving
  <1>11. ReservationKept'
    <2> SUFFICES ASSUME NEW s \in Slugs, NEW t \in ITenants, kept'[s] # Null, kept'[s].until > iday,
                        tenant[t] # Null, tenant[t].slug = s, ~raced
                 PROVE  kept'[s].by = t
      BY <1>3 DEF ReservationKept
    <2> QED
      BY <1>5, <1>10 DEF IdentityInv, ReservationKept
  <1>12. UnlessRaced'
    <2> SUFFICES ASSUME ~raced PROVE OneTenant' /\ \A g \in IHandlers : Alone(g)'
      BY <1>3 DEF UnlessRaced
    <2>1. OneTenant /\ \A g \in IHandlers : Alone(g)
      BY DEF IdentityInv, UnlessRaced
    <2>2. OneTenant'
      BY <1>1, <1>3, <1>6, <2>1 DEF OneTenant
    <2>3. ASSUME NEW g \in IHandlers, NEW s \in Slugs, ipc[g] # "idle", FreeFor(s, itask[g].id)
          PROVE  FreeFor(s, itask[g].id)'
      <3>1. itask[g].id = id
        BY <1>1, <2>1, <2>3 DEF OneTenant
      <3> QED
        BY <1>3, <1>5, <2>3, <3>1 DEF FreeFor, Reserved
    <2>4. ASSUME NEW g \in IHandlers PROVE Alone(g)'
      <3>1. RequestFits(g) /\ Alone(g)
        BY <2>1 DEF IdentityInv
      <3>2. CASE g = h
        <4>1. PICK s \in Slugs : s = itask[h].new.slug /\ FreeFor(s, itask[h].id)
          BY <1>1, <3>1, <3>2 DEF RequestFits, Saving, Row, Alone
        <4>2. FreeFor(s, itask[h].id)'
          BY <1>1, <2>3, <4>1
        <4>3. FreeFor(itask[h].new.slug, id)'
          BY <1>3, <4>1, <4>2
        <4> QED
          BY <1>1, <1>3, <1>6, <3>1, <3>2, <4>3 DEF Alone, Saving
      <3>3. CASE g # h
        <4>1. /\ ipc[g] = "save" => itask[g].new.slug \in Slugs
              /\ ipc[g] = "lookup" => itask[g].old.slug \in Slugs
              /\ ipc[g] = "reserve" => itask[g].new.slug \in Slugs
          BY <3>1 DEF RequestFits, Saving, Row
        <4> QED
          BY <1>3, <1>6, <2>3, <3>1, <3>3, <4>1 DEF Alone
      <3> QED
        BY <3>2, <3>3
    <2> QED
      BY <2>2, <2>4
  <1>13. HalfDoneIsInterrupted'
    <2>1. ASSUME NEW steps \in {{"settings", "member", "billing"}, {"own"}}, NEW t \in ITenants,
                 At(steps, t)
          PROVE  At(steps, t)'
      BY <1>1, <1>3, <1>6, <2>1 DEF At
    <2> QED
      BY <1>3, <2>1 DEF IdentityInv, HalfDoneIsInterrupted
  <1> QED
    BY <1>7, <1>8, <1>9, <1>11, <1>12, <1>13 DEF IdentityInv

\* A part is granted: settings, membership and billing in this order.
LEMMA PartStep ==
  ASSUME IdentityInv, NEW h \in IHandlers, NEW step, NEW part, NEW next, AddPart(h, step, part, next),
         \/ step = "settings" /\ part = "settings" /\ next = "member"
         \/ step = "member" /\ part = "member" /\ next = "billing"
         \/ step = "billing" /\ part = "manage_billing" /\ next = "idle"
  PROVE  IdentityInv'
  <1>0. PICK id \in ITenants : id = itask[h].id
    <2>1. step # "idle" /\ ipc[h] = step /\ RequestFits(h)
      BY RequestTypes DEF AddPart
    <2> QED
      BY <2>1 DEF RequestFits
  <1>1. /\ ipc \in [IHandlers -> IdentitySteps] /\ itask \in [IHandlers -> ITask]
        /\ RequestFits(h) /\ ipc[h] = step /\ parts \in [ITenants -> SUBSET Parts]
    BY RequestTypes DEF IdentityInv, ITypeOK, AddPart
  <1>2. /\ parts' = [parts EXCEPT ![id] = @ \cup {part}]
        /\ UNCHANGED <<iday, tenant, kept, txt, owners, tokens, proven, transferred, interrupted, raced,
                       iops, ifaults>>
    BY <1>0 DEF AddPart, ihistories
  <1>3. /\ ipc' \in [IHandlers -> IdentitySteps] /\ ipc'[h] = next
        /\ itask' \in [IHandlers -> ITask] /\ (next # "idle" => itask' = itask)
        /\ (next = "idle" => itask'[h] = INoTask)
        /\ \A g \in IHandlers \ {h} : ipc'[g] = ipc[g] /\ itask'[g] = itask[g]
    <2>1. next \in IdentitySteps
      BY DEF IdentitySteps
    <2>2. CASE next = "idle"
      BY <1>0, <1>1, <2>1, <2>2, NoRequestType DEF AddPart, IReturn
    <2>3. CASE next # "idle"
      BY <1>0, <1>1, <2>1, <2>3 DEF AddPart, IGo
    <2> QED
      BY <2>2, <2>3
  <1>4. /\ parts' \in [ITenants -> SUBSET Parts] /\ part \in parts'[id]
        /\ \A t \in ITenants : parts[t] \subseteq parts'[t] /\ (t # id => parts'[t] = parts[t])
    <2>1. part \in Parts
      BY DEF Parts
    <2> QED
      BY <1>0, <1>1, <1>2, <2>1
  <1>5. ITypeOK' /\ RowsAreProven' /\ SlugsDiffer' /\ ReservationKept'
    <2>1. ITypeOK'
      BY <1>0, <1>2, <1>3, <1>4 DEF IdentityInv, ITypeOK, IdentitySteps
    <2> QED
      BY <1>0, <1>2, <2>1 DEF IdentityInv, RowsAreProven, RowIsProven, SlugsDiffer, ReservationKept
  <1>6. ASSUME NEW g \in IHandlers PROVE RequestFits(g)' /\ (~raced => Alone(g)')
    <2>1. RequestFits(g) /\ (~raced => Alone(g))
      BY DEF IdentityInv, UnlessRaced
    <2>2. \A row : RowIsProven(row)' = RowIsProven(row)
      BY <1>0, <1>2 DEF RowIsProven
    <2>3. \A s, t : FreeFor(s, t)' = FreeFor(s, t)
      BY <1>0, <1>2 DEF FreeFor, Reserved
    <2>4. CASE g # h
      <3>1. RequestFits(g)'
        BY <1>0, <1>2, <1>3, <1>4, <2>1, <2>2, <2>4 DEF RequestFits
      <3>2. ~raced => Alone(g)'
        BY <1>0, <1>2, <1>3, <2>1, <2>3, <2>4 DEF Alone
      <3> QED
        BY <3>1, <3>2
    <2>5. CASE g = h
      <3>1. CASE next = "idle"
        BY <1>0, <1>3, <2>5, <3>1, NoRequestType DEF RequestFits, Alone, Saving
      <3>2. CASE next # "idle"
        <4>1. itask'[h] = itask[h] /\ ipc'[h] \in {"member", "billing"}
          BY <1>0, <1>3, <3>2
        <4>2. RequestFits(h)'
          BY <1>0, <1>1, <1>2, <1>3, <1>4, <2>2, <4>1 DEF RequestFits, Saving
        <4> QED
          BY <2>5, <4>1, <4>2 DEF Alone, Saving
      <3> QED
        BY <3>1, <3>2
    <2> QED
      BY <2>4, <2>5
  <1>7. UnlessRaced'
    <2>1. ~raced => OneTenant'
      BY <1>0, <1>1, <1>3 DEF IdentityInv, UnlessRaced, OneTenant
    <2> QED
      BY <1>0, <1>2, <1>6, <2>1 DEF UnlessRaced
  <1>8. HalfDoneIsInterrupted'
    <2>1. ASSUME NEW t \in ITenants, At({"own"}, t) PROVE At({"own"}, t)'
      BY <1>0, <1>1, <1>3, <2>1 DEF At
    <2>2. ASSUME NEW t \in ITenants, t # id, At({"settings", "member", "billing"}, t)
          PROVE  At({"settings", "member", "billing"}, t)'
      BY <1>0, <1>3, <2>2 DEF At
    <2>3. At({"settings", "member", "billing"}, id)' \/ parts'[id] = Parts
      <3>1. CASE next # "idle"
        BY <1>0, <1>3, <3>1 DEF At
      <3>2. CASE next = "idle"
        <4>1. "settings" \in parts[id] /\ "member" \in parts[id] /\ part = "manage_billing"
          BY <1>0, <1>1, <3>2 DEF RequestFits
        <4>2. parts'[id] \subseteq Parts
          BY <1>0, <1>1, <1>4
        <4> QED
          BY <1>0, <1>1, <1>4, <4>1, <4>2 DEF Parts
      <3> QED
        BY <3>1, <3>2
    <2>4. ASSUME NEW t \in ITenants \ interrupted
          PROVE  /\ tenant[t] # Null /\ parts'[t] # Parts => At({"settings", "member", "billing"}, t)'
                 /\ t \in transferred /\ owners[t] = {} => At({"own"}, t)'
      <3>1. /\ tenant[t] # Null /\ parts[t] # Parts => At({"settings", "member", "billing"}, t)
            /\ t \in transferred /\ owners[t] = {} => At({"own"}, t)
        BY DEF IdentityInv, HalfDoneIsInterrupted
      <3>2. CASE t = id
        BY <2>1, <2>3, <3>1, <3>2
      <3>3. CASE t # id
        BY <1>4, <2>1, <2>2, <3>1, <3>3
      <3> QED
        BY <3>2, <3>3
    <2> QED
      BY <1>0, <1>2, <2>4 DEF HalfDoneIsInterrupted
  <1> QED
    BY <1>5, <1>6, <1>7, <1>8 DEF IdentityInv

\* The ownership changes hands: without a failure between, someone has it in the end.
LEMMA OwnerStep == ASSUME IdentityInv, NEW h \in IHandlers, ChangeOwner(h) PROVE IdentityInv'
  <1>0. PICK id \in ITenants : id = itask[h].id
    <2>1. ipc[h] # "idle" /\ RequestFits(h)
      BY RequestTypes DEF ChangeOwner
    <2> QED
      BY <2>1 DEF RequestFits
  <1>1. /\ ipc \in [IHandlers -> IdentitySteps] /\ itask \in [IHandlers -> ITask]
        /\ RequestFits(h) /\ ipc[h] \in {"disown", "own"}
        /\ itask[h].from \in Users /\ itask[h].user \in Users
        /\ owners \in [ITenants -> SUBSET Users]
    BY RequestTypes DEF IdentityInv, ITypeOK, ChangeOwner, RequestFits
  <1>2. /\ transferred' = transferred \cup {id}
        /\ UNCHANGED <<iday, tenant, kept, txt, parts, tokens, proven, interrupted, raced, iops, ifaults>>
    BY <1>0 DEF ChangeOwner
  <1>3. /\ ipc' \in [IHandlers -> IdentitySteps] /\ itask' \in [IHandlers -> ITask]
        /\ ipc[h] = "disown" => ipc'[h] = "own" /\ itask' = itask
        /\ ipc[h] = "own" => ipc'[h] = "idle" /\ itask'[h] = INoTask
        /\ \A g \in IHandlers \ {h} : ipc'[g] = ipc[g] /\ itask'[g] = itask[g]
    <2>1. CASE ipc[h] = "disown"
      BY <1>0, <1>1, <2>1 DEF ChangeOwner, IGo, IdentitySteps
    <2>2. CASE ipc[h] = "own"
      BY <1>0, <1>1, <2>2, NoRequestType DEF ChangeOwner, IReturn, IdentitySteps
    <2> QED
      BY <1>0, <1>1, <2>1, <2>2
  <1>4. /\ owners' \in [ITenants -> SUBSET Users]
        /\ \A t \in ITenants \ {id} : owners'[t] = owners[t]
        /\ ipc[h] = "own" => itask[h].user \in owners'[id]
    <2>1. CASE ipc[h] = "disown"
      BY <1>0, <1>1, <2>1 DEF ChangeOwner, Relate
    <2>2. CASE ipc[h] = "own"
      BY <1>0, <1>1, <2>2 DEF ChangeOwner, Relate
    <2> QED
      BY <1>0, <1>1, <2>1, <2>2
  <1>5. ITypeOK' /\ RowsAreProven' /\ SlugsDiffer' /\ ReservationKept'
    <2>1. ITypeOK'
      BY <1>0, <1>1, <1>2, <1>3, <1>4 DEF IdentityInv, ITypeOK, IdentitySteps
    <2> QED
      BY <1>0, <1>2, <2>1 DEF IdentityInv, RowsAreProven, RowIsProven, SlugsDiffer, ReservationKept
  <1>6. ASSUME NEW g \in IHandlers PROVE RequestFits(g)' /\ (~raced => Alone(g)')
    <2>1. RequestFits(g) /\ (~raced => Alone(g))
      BY DEF IdentityInv, UnlessRaced
    <2>2. \A row : RowIsProven(row)' = RowIsProven(row)
      BY <1>0, <1>2 DEF RowIsProven
    <2>3. \A s, t : FreeFor(s, t)' = FreeFor(s, t)
      BY <1>0, <1>2 DEF FreeFor, Reserved
    <2>4. CASE g # h
      <3>1. RequestFits(g)'
        BY <1>0, <1>2, <1>3, <2>1, <2>2, <2>4 DEF RequestFits
      <3>2. ~raced => Alone(g)'
        BY <1>0, <1>2, <1>3, <2>1, <2>3, <2>4 DEF Alone
      <3> QED
        BY <3>1, <3>2
    <2>5. CASE g = h
      <3>1. RequestFits(h)'
        BY <1>0, <1>1, <1>2, <1>3, <2>2, NoRequestType DEF RequestFits, Saving
      <3> QED
        BY <1>0, <1>1, <1>3, <2>5, <3>1 DEF Alone, Saving
    <2> QED
      BY <2>4, <2>5
  <1>7. UnlessRaced'
    <2>1. ~raced => OneTenant'
      BY <1>0, <1>1, <1>3 DEF IdentityInv, UnlessRaced, OneTenant
    <2> QED
      BY <1>0, <1>2, <1>6, <2>1 DEF UnlessRaced
  <1>8. HalfDoneIsInterrupted'
    <2>1. ASSUME NEW t \in ITenants, At({"settings", "member", "billing"}, t)
          PROVE  At({"settings", "member", "billing"}, t)'
      BY <1>0, <1>1, <1>3, <2>1 DEF At
    <2>2. ASSUME NEW t \in ITenants \ {id}, At({"own"}, t) PROVE At({"own"}, t)'
      BY <1>0, <1>3, <2>2 DEF At
    <2>3. owners'[id] = {} => At({"own"}, id)'
      BY <1>0, <1>1, <1>3, <1>4 DEF At
    <2>4. ASSUME NEW t \in ITenants \ interrupted
          PROVE  /\ tenant[t] # Null /\ parts[t] # Parts => At({"settings", "member", "billing"}, t)'
                 /\ t \in transferred' /\ owners'[t] = {} => At({"own"}, t)'
      <3>1. /\ tenant[t] # Null /\ parts[t] # Parts => At({"settings", "member", "billing"}, t)
            /\ t \in transferred /\ owners[t] = {} => At({"own"}, t)
        BY DEF IdentityInv, HalfDoneIsInterrupted
      <3>2. CASE t = id
        BY <2>1, <2>3, <3>1, <3>2
      <3>3. CASE t # id
        BY <1>0, <1>2, <1>4, <2>1, <2>2, <3>1, <3>3
      <3> QED
        BY <3>2, <3>3
    <2> QED
      BY <1>0, <1>2, <2>4 DEF HalfDoneIsInterrupted
  <1> QED
    BY <1>5, <1>6, <1>7, <1>8 DEF IdentityInv

\* A row is saved, unless another tenant has its subdomain or its domain.
LEMMA SaveStep == ASSUME IdentityInv, NEW h \in IHandlers, SaveTenant(h) PROVE IdentityInv'
  <1> DEFINE id == itask[h].id
  <1>1. /\ ipc \in [IHandlers -> IdentitySteps] /\ itask \in [IHandlers -> ITask]
        /\ RequestFits(h) /\ ipc[h] = "save" /\ id \in ITenants
        /\ tenant \in [ITenants -> Row \cup {Null}]
    BY RequestTypes DEF IdentityInv, ITypeOK, SaveTenant, RequestFits
  <1>2. UNCHANGED <<iday, kept, txt, parts, owners, tokens, proven, transferred, interrupted, raced, iops,
                    ifaults>>
    BY DEF SaveTenant, ihistories
  <1>3. CASE ~Unique(id, itask[h].new)
    <2>1. IReturn(h) /\ tenant' = tenant
      BY <1>3 DEF SaveTenant
    <2>2. ipc[h] \in Saving
      BY <1>1 DEF Saving
    <2> QED
      BY <1>2, <2>1, <2>2, RequestEnds DEF ihistories
  <1>4. CASE Unique(id, itask[h].new)
    <2>1. PICK new \in Row : new = itask[h].new /\ RowIsProven(new) /\ new # Null
      BY <1>1, IdentityAssumption DEF RequestFits, Saving
    <2>2. /\ tenant' = [tenant EXCEPT ![id] = new]
          /\ IF itask[h].kind = "create" THEN IGo(h, "settings") ELSE IReturn(h)
      BY <1>4, <2>1 DEF SaveTenant
    <2>3. /\ ipc' \in [IHandlers -> IdentitySteps] /\ itask' \in [IHandlers -> ITask]
          /\ itask[h].kind = "create" => ipc'[h] = "settings" /\ itask' = itask
          /\ itask[h].kind # "create" => ipc'[h] = "idle" /\ itask'[h] = INoTask
          /\ \A g \in IHandlers \ {h} : ipc'[g] = ipc[g] /\ itask'[g] = itask[g]
      <3>1. CASE itask[h].kind = "create"
        BY <1>1, <2>2, <3>1 DEF IGo, IdentitySteps
      <3>2. CASE itask[h].kind # "create"
        BY <1>1, <2>2, <3>2, NoRequestType DEF IReturn, IdentitySteps
      <3> QED
        BY <3>1, <3>2
    <2>4. /\ tenant' \in [ITenants -> Row \cup {Null}] /\ tenant'[id] = new
          /\ \A t \in ITenants \ {id} : tenant'[t] = tenant[t]
      BY <1>1, <2>1, <2>2
    <2>5. \A u \in ITenants \ {id} : tenant[u] # Null => tenant[u].slug # new.slug
      BY <1>4, <2>1 DEF Unique
    <2>6. ITypeOK'
      BY <1>2, <2>3, <2>4 DEF IdentityInv, ITypeOK, IdentitySteps
    <2>7. \A row : RowIsProven(row)' = RowIsProven(row)
      BY <1>2 DEF RowIsProven
    <2>8. RowsAreProven'
      BY <2>1, <2>4, <2>7 DEF IdentityInv, RowsAreProven
    <2>9. SlugsDiffer'
      BY <2>4, <2>5 DEF IdentityInv, SlugsDiffer
    <2>10. ASSUME NEW g \in IHandlers PROVE RequestFits(g)'
      <3>1. RequestFits(g)
        BY DEF IdentityInv
      <3>2. CASE g # h
        <4>1. \A t \in ITenants : tenant[t] # Null => tenant'[t] # Null
          BY <2>1, <2>4
        <4>2. ipc'[g] = ipc[g] /\ itask'[g] = itask[g] /\ (ipc[g] # "idle" => itask[g].id \in ITenants)
          BY <2>3, <3>1, <3>2 DEF RequestFits
        <4>3. ipc[g] \in Saving \cup {"lookup"} => ipc[g] # "idle"
          BY DEF Saving
        <4> QED
          BY <1>2, <2>7, <3>1, <4>1, <4>2, <4>3 DEF RequestFits
      <3>3. CASE g = h
        BY <1>1, <2>3, <2>7, <3>1, <3>3, NoRequestType DEF RequestFits, Saving
      <3> QED
        BY <3>2, <3>3
    <2>11. ReservationKept'
      <3> SUFFICES ASSUME NEW s \in Slugs, NEW t \in ITenants, kept[s] # Null, kept[s].until > iday,
                          tenant'[t] # Null, tenant'[t].slug = s, ~raced
                   PROVE  kept[s].by = t
        BY <1>2 DEF ReservationKept
      <3>1. CASE t # id
        BY <2>4, <3>1 DEF IdentityInv, ReservationKept
      <3>2. CASE t = id
        <4>1. FreeFor(new.slug, id)
          BY <1>1, <2>1 DEF IdentityInv, UnlessRaced, Alone
        <4> QED
          BY <2>4, <3>2, <4>1 DEF FreeFor, Reserved
      <3> QED
        BY <3>1, <3>2
    <2>12. UnlessRaced'
      <3> SUFFICES ASSUME ~raced PROVE OneTenant' /\ \A g \in IHandlers : Alone(g)'
        BY <1>2 DEF UnlessRaced
      <3>1. OneTenant /\ \A g \in IHandlers : Alone(g)
        BY DEF IdentityInv, UnlessRaced
      <3>2. OneTenant'
        BY <1>1, <2>3, <3>1 DEF OneTenant
      <3>3. \A s, t : FreeFor(s, t)' = FreeFor(s, t)
        BY <1>2 DEF FreeFor, Reserved
      <3>4. ASSUME NEW g \in IHandlers PROVE Alone(g)'
        <4>1. Alone(g) /\ (ipc[g] # "idle" => itask[g].id = id)
          BY <1>1, <3>1 DEF OneTenant
        <4>2. CASE g = h
          BY <2>3, <4>2 DEF Alone, Saving
        <4>3. CASE g # h
          <5>1. ipc'[g] = ipc[g] /\ itask'[g] = itask[g]
            BY <2>3, <4>3
          <5>2. ipc[g] \in Saving \cup {"lookup"} => itask[g].id = id
            BY <4>1 DEF Saving
          <5> QED
            BY <2>4, <3>3, <4>1, <5>1, <5>2 DEF Alone
        <4> QED
          BY <4>2, <4>3
      <3> QED
        BY <3>2, <3>4
    <2>13. HalfDoneIsInterrupted'
      <3>1. ASSUME NEW steps \in {{"settings", "member", "billing"}, {"own"}}, NEW t \in ITenants,
                   At(steps, t)
            PROVE  At(steps, t)'
        BY <1>1, <2>3, <3>1 DEF At
      <3>2. ASSUME NEW t \in ITenants \ interrupted
            PROVE  /\ tenant'[t] # Null /\ parts[t] # Parts => At({"settings", "member", "billing"}, t)'
                   /\ t \in transferred /\ owners[t] = {} => At({"own"}, t)'
        <4>1. /\ tenant[t] # Null /\ parts[t] # Parts => At({"settings", "member", "billing"}, t)
              /\ t \in transferred /\ owners[t] = {} => At({"own"}, t)
          BY DEF IdentityInv, HalfDoneIsInterrupted
        <4>2. t = id /\ itask[h].kind = "create" => At({"settings", "member", "billing"}, t)'
          BY <2>3 DEF At
        <4>3. t = id /\ itask[h].kind # "create" => tenant[t] # Null
          BY <1>1 DEF RequestFits, Saving
        <4> QED
          BY <2>4, <3>1, <4>1, <4>2, <4>3
      <3> QED
        BY <1>2, <3>2 DEF HalfDoneIsInterrupted
    <2> QED
      BY <2>6, <2>8, <2>9, <2>10, <2>11, <2>12, <2>13 DEF IdentityInv
  <1> QED
    BY <1>3, <1>4

-----------------------------------------------------------------------------
LEMMA WorldSteps == ASSUME IdentityInv, INextDay \/ PublishTxt \/ UNCHANGED ivars PROVE IdentityInv'
  <1>1. /\ UNCHANGED <<tenant, kept, parts, owners, ipc, itask, tokens, proven, transferred, interrupted,
                       raced, iops, ifaults>>
    BY DEF INextDay, PublishTxt, ivars, ihistories
  <1>2. /\ iday' \in 0..MaxIDay /\ iday <= iday' /\ iday \in Nat /\ iday' \in Nat
    <2>1. MaxIDay \in Nat /\ iday \in 0..MaxIDay
      BY IdentityAssumption DEF IdentityInv, ITypeOK
    <2>2. iday' = iday \/ (iday < MaxIDay /\ iday' = iday + 1)
      BY DEF INextDay, PublishTxt, ivars
    <2> QED
      BY <2>1, <2>2
  <1>3. txt \subseteq txt' /\ txt' \subseteq Domains \X (1..tokens)
    <2>1. txt \subseteq Domains \X (1..tokens)
      BY DEF IdentityInv, ITypeOK
    <2>2. CASE PublishTxt
      <3>1. PICK t \in ITenants : /\ tenant[t] # Null /\ tenant[t].domain # Null
                                  /\ txt' = txt \cup {<<tenant[t].domain, tenant[t].token>>}
        BY <2>2 DEF PublishTxt
      <3>2. tenant[t] \in Row /\ tenant[t].token \in 1..tokens
        BY <3>1 DEF IdentityInv, ITypeOK, RowsAreProven, RowIsProven
      <3>3. tenant[t].domain \in Domains
        BY <3>1, <3>2 DEF Row
      <3> QED
        BY <2>1, <3>1, <3>2, <3>3
    <2>3. CASE INextDay \/ UNCHANGED ivars
      BY <2>1, <2>3 DEF INextDay, ivars
    <2> QED
      BY <2>2, <2>3
  <1>4. ITypeOK'
    BY <1>1, <1>2, <1>3 DEF IdentityInv, ITypeOK
  <1>5. RowsAreProven' /\ SlugsDiffer'
    BY <1>1 DEF IdentityInv, RowsAreProven, RowIsProven, SlugsDiffer
  <1>6. \A h \in IHandlers : RequestFits(h)'
    BY <1>1 DEF IdentityInv, RequestFits, RowIsProven
  <1>7. \A s \in Slugs : kept[s] # Null /\ kept[s].until > iday' => kept[s].until > iday
    BY <1>2 DEF IdentityInv, ITypeOK
  <1>8. ReservationKept'
    BY <1>1, <1>7 DEF IdentityInv, ReservationKept
  <1>9. UnlessRaced'
    <2>1. \A s \in Slugs : \A t : FreeFor(s, t) => FreeFor(s, t)'
      BY <1>1, <1>7 DEF FreeFor, Reserved
    <2>2. ASSUME NEW h \in IHandlers, Alone(h) PROVE Alone(h)'
      <3>1. /\ ipc[h] \in {"reserve", "save"} => itask[h].new.slug \in Slugs
            /\ ipc[h] = "lookup" => itask[h].old.slug \in Slugs
        BY DEF IdentityInv, RequestFits, Saving, Row
      <3> QED
        BY <1>1, <2>1, <2>2, <3>1 DEF Alone
    <2> QED
      BY <1>1, <2>2 DEF IdentityInv, UnlessRaced, OneTenant
  <1>10. HalfDoneIsInterrupted'
    BY <1>1 DEF IdentityInv, HalfDoneIsInterrupted, At
  <1> QED
    BY <1>4, <1>5, <1>6, <1>8, <1>9, <1>10 DEF IdentityInv

LEMMA IdentityStep == ASSUME IdentityInv, [INext]_ivars PROVE IdentityInv'
  <1>1. ASSUME NEW h \in IHandlers, CreateSettings(h) \/ GrantMember(h) \/ GrantBilling(h)
        PROVE  IdentityInv'
    BY <1>1, PartStep DEF CreateSettings, GrantMember, GrantBilling
  <1> QED
    BY <1>1, WorldSteps, BeginningSteps, CountingSteps, LookUpStep, ReserveStep, SaveStep, OwnerStep
    DEF INext

LEMMA IdentityHolds == ISpec => []IdentityInv
  <1>1. IInit => IdentityInv
    BY IdentityInit
  <1>2. IdentityInv /\ [INext]_ivars => IdentityInv'
    BY IdentityStep
  <1> QED
    BY <1>1, <1>2, PTL DEF ISpec

\* Rows, reservations, records, relations and requests have their types.
THEOREM IdentityTypeCorrect == ISpec => []ITypeOK
  <1>1. IdentityInv => ITypeOK
    BY DEF IdentityInv
  <1> QED
    BY <1>1, IdentityHolds, PTL

\* A custom domain that is marked as verified was confirmed by the DNS with the token
\* of the same row: for any tenants and any requests that overlap.
THEOREM VerifiedDomainsAreProven == ISpec => []VerifiedIsProven
  <1>1. IdentityInv => VerifiedIsProven
    BY DEF IdentityInv, RowsAreProven, RowIsProven, VerifiedIsProven
  <1> QED
    BY <1>1, IdentityHolds, PTL

\* A subdomain that was given up is kept for its tenant as long as the reservation
\* lasts, unless requests of two tenants overlapped.
THEOREM ReservationsHold == ISpec => []ReservationKept
  <1>1. IdentityInv => ReservationKept
    BY DEF IdentityInv
  <1> QED
    BY <1>1, IdentityHolds, PTL

\* Only a failure leaves a tenant without its settings, its creator without a right,
\* or a transferred tenant without an owner.
THEOREM OnlyFailuresLeaveHalf == ISpec => []HalfDoneIsInterrupted
  <1>1. IdentityInv => HalfDoneIsInterrupted
    BY DEF IdentityInv
  <1> QED
    BY <1>1, IdentityHolds, PTL
=============================================================================
