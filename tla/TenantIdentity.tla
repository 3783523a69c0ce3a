--------------------------- MODULE TenantIdentity ---------------------------
(***************************************************************************)
(* What a tenant is known by: its subdomain, its custom domain and the     *)
(* relations that say who may do what.  Creating a tenant, updating it,    *)
(* verifying its domain and transferring its ownership are requests made   *)
(* of several statements: a subdomain is looked up in two tables before it *)
(* is taken, the row of a tenant is saved as it was loaded except for what *)
(* the request changes, and relations are written one by one.              *)
(*                                                                         *)
(* Updating, verifying and transferring load the row through               *)
(* TenantAwareRepository, by a tenantId property that TenantEntity does    *)
(* not have: in this program the load throws and the request ends there.   *)
(* With TenantLoads both outcomes are looked at.                           *)
(***************************************************************************)
EXTENDS Integers, FiniteSets, Absence

CONSTANTS
  IHandlers,     \* requests in progress at the same time
  ITenants,      \* ids of tenants
  Slugs,         \* subdomains that are well-formed and not reserved for the platform
  Domains,       \* custom domains
  Users,
  TenantLoads,   \* may a load through TenantAwareRepository find its tenant?  {FALSE} in
                 \* this code; a request whose load throws changes nothing
  ReserveDays,   \* days a subdomain that was given up is kept for its tenant
  MaxIDay, MaxIOps, MaxIFaults   \* days, requests, and failures or crashes (bounds)

VARIABLES
  iday,
  tenant,        \* per tenant: its row, or Null
  kept,          \* per subdomain: the reservation, or Null
  txt,           \* TXT records in the DNS: domain and token
  parts,         \* per tenant: what it got besides its row: settings, and the relations of
                 \* the user who created it
  owners,        \* per tenant: users related as its owner
  ipc, itask,    \* per handler: next step and what it works on
  tokens,        \* verification tokens made so far
  proven,        \* (history) domain and token pairs the DNS has confirmed
  transferred,   \* (history) tenants whose ownership was ever transferred
  interrupted,   \* (history) tenants a creation or transfer died for
  raced,         \* (history) have requests of two tenants overlapped?
  iops, ifaults  \* budgets spent

ihistories == <<proven, transferred, interrupted, raced>>
ivars == <<iday, tenant, kept, txt, parts, owners, ipc, itask, tokens, proven,
           transferred, interrupted, raced, iops, ifaults>>

Row == [slug : Slugs, domain : Domains \cup {Null}, token : Nat,
        verification : {"NONE", "PENDING", "VERIFIED", "FAILED"}]

NewRow(slug) == [slug |-> slug, domain |-> Null, token |-> 0, verification |-> "NONE"]

PendingRow(slug, d) == [slug |-> slug, domain |-> d, token |-> 1, verification |-> "PENDING"]

Parts == {"settings", "member", "manage_billing"}

\* old: the row as it was loaded; new: the row to save; user: whose relation is written.
ITask == [kind : {"none", "create", "update", "verify", "transfer"}, id : ITenants \cup {Null},
          old : Row \cup {Null}, new : Row \cup {Null},
          from : Users \cup {Null}, user : Users \cup {Null}]

INoTask == [kind |-> "none", id |-> Null, old |-> Null, new |-> Null,
            from |-> Null, user |-> Null]

ASSUME IdentityAssumption ==
  /\ Null \notin ITenants \cup Domains /\ Null \notin Row
  /\ {MaxIDay, MaxIOps, MaxIFaults, ReserveDays} \subseteq Nat
  /\ TenantLoads \subseteq BOOLEAN

\* Every tenant can be there already, each with a subdomain of its own, and one of
\* them with a domain that is still to be verified.
IInit ==
  /\ iday = 0
  /\ tenant \in {t \in [ITenants -> {Null} \cup {NewRow(s) : s \in Slugs}
                                        \cup {PendingRow(s, d) : s \in Slugs, d \in Domains}] :
                   \A a, b \in ITenants : a # b /\ t[a] # Null /\ t[b] # Null =>
                     t[a].slug # t[b].slug /\ (t[a].token = 0 \/ t[b].token = 0)}
  /\ kept = [s \in Slugs |-> Null]
  /\ txt = {}
  /\ parts = [t \in ITenants |-> IF tenant[t] = Null THEN {} ELSE Parts]
  /\ owners = [t \in ITenants |-> {}]
  /\ ipc = [h \in IHandlers |-> "idle"]
  /\ itask = [h \in IHandlers |-> INoTask]
  /\ tokens = 1
  /\ proven = {}
  /\ transferred = {}
  /\ interrupted = {}
  /\ raced = FALSE
  /\ iops = 0
  /\ ifaults = 0

IBegin(h, step, task) ==
  /\ ipc[h] = "idle" /\ iops < MaxIOps
  /\ iops' = iops + 1
  /\ ipc' = [ipc EXCEPT ![h] = step]
  /\ itask' = [itask EXCEPT ![h] = task]
  /\ raced' = (raced \/ (\E g \in IHandlers : ipc[g] # "idle" /\ itask[g].id # task.id))

IGo(h, step) == ipc' = [ipc EXCEPT ![h] = step] /\ itask' = itask

IReturn(h) ==
  /\ ipc' = [ipc EXCEPT ![h] = "idle"]
  /\ itask' = [itask EXCEPT ![h] = INoTask]

INextDay ==
  /\ iday < MaxIDay
  /\ iday' = iday + 1
  /\ UNCHANGED <<tenant, kept, txt, parts, owners, ipc, itask, tokens, ihistories, iops,
                 ifaults>>

\* The tenant publishes the token it was given.
PublishTxt ==
  /\ \E t \in ITenants :
       /\ tenant[t] # Null /\ tenant[t].domain # Null
       /\ <<tenant[t].domain, tenant[t].token>> \notin txt
       /\ txt' = txt \cup {<<tenant[t].domain, tenant[t].token>>}
  /\ UNCHANGED <<iday, tenant, kept, parts, owners, ipc, itask, tokens, ihistories, iops,
                 ifaults>>

-----------------------------------------------------------------------------
(* Requests are received: the row is loaded.                               *)

CreateTenant(h) ==
  /\ \E t \in ITenants, s \in Slugs, u \in Users :
       /\ tenant[t] = Null
       /\ \A g \in IHandlers : itask[g].id # t
       /\ IBegin(h, "count", [INoTask EXCEPT !.kind = "create", !.id = t, !.new = NewRow(s),
                                             !.user = u])
  /\ UNCHANGED <<iday, tenant, kept, txt, parts, owners, tokens, proven, transferred,
                 interrupted, ifaults>>

\* Faulty variant: a new domain is as verified as the old one was.
WithDomain_Kept(row, d) ==
  IF d # Null /\ d # row.domain
  THEN [row EXCEPT !.domain = d, !.token = tokens + 1] ELSE [row EXCEPT !.domain = d]

\* A domain other than the present one needs a new token and a new verification; a
\* domain that is taken away leaves both as they are.
WithDomain(row, d) ==
  IF d # Null /\ d # row.domain
  THEN [row EXCEPT !.domain = d, !.token = tokens + 1, !.verification = "PENDING"]
  ELSE [row EXCEPT !.domain = d]

\* The request may change the subdomain, the domain, both, or other columns only.
UpdateTenant(h) ==
  /\ TRUE \in TenantLoads
  /\ \E t \in ITenants, s \in Slugs, d \in Domains \cup {Null} :
       /\ tenant[t] # Null
       /\ LET new == [WithDomain(tenant[t], d) EXCEPT !.slug = s] IN
          /\ IBegin(h, IF s = tenant[t].slug THEN "save" ELSE "count",
                    [INoTask EXCEPT !.kind = "update", !.id = t, !.old = tenant[t], !.new = new])
          /\ tokens' = IF new.token = tokens + 1 THEN tokens + 1 ELSE tokens
  /\ UNCHANGED <<iday, tenant, kept, txt, parts, owners, proven, transferred, interrupted,
                 ifaults>>

VerifyDomain(h) ==
  /\ TRUE \in TenantLoads
  /\ \E t \in ITenants :
       /\ tenant[t] # Null /\ tenant[t].domain # Null /\ tenant[t].token # 0
       /\ IBegin(h, "lookup", [INoTask EXCEPT !.kind = "verify", !.id = t, !.old = tenant[t]])
  /\ UNCHANGED <<iday, tenant, kept, txt, parts, owners, tokens, proven, transferred,
                 interrupted, ifaults>>

TransferOwnership(h) ==
  /\ TRUE \in TenantLoads
  /\ \E t \in ITenants, from, to \in Users :
       /\ tenant[t] # Null
       /\ IBegin(h, "disown", [INoTask EXCEPT !.kind = "transfer", !.id = t, !.from = from,
                                              !.user = to])
  /\ UNCHANGED <<iday, tenant, kept, txt, parts, owners, tokens, proven, transferred,
                 interrupted, ifaults>>

-----------------------------------------------------------------------------
(* Subdomains.                                                             *)

HeldBySome(s) == \E t \in ITenants : tenant[t] # Null /\ tenant[t].slug = s

CountTenants(h) ==
  /\ ipc[h] = "count"
  /\ IF HeldBySome(itask[h].new.slug) THEN IReturn(h) ELSE IGo(h, "reserved")
  /\ UNCHANGED <<iday, tenant, kept, txt, parts, owners, tokens, ihistories, iops, ifaults>>

\* Faulty variant: reservations are not looked up.
Reserved_No(s) == FALSE

\* The reservation has not expired.
Reserved(s) == kept[s] # Null /\ kept[s].until > iday

CountReserved(h) ==
  /\ ipc[h] = "reserved"
  /\ IF Reserved(itask[h].new.slug) THEN IReturn(h)
     ELSE IGo(h, IF itask[h].kind = "create" THEN "save" ELSE "reserve")
  /\ UNCHANGED <<iday, tenant, kept, txt, parts, owners, tokens, ihistories, iops, ifaults>>

\* The subdomain the tenant gives up is kept for it; the reservation replaces an
\* earlier one.
ReserveSubdomain(h) ==
  /\ ipc[h] = "reserve"
  /\ kept' = [kept EXCEPT ![itask[h].old.slug] =
                [until |-> iday + ReserveDays, by |-> itask[h].id]]
  /\ IGo(h, "save")
  /\ UNCHANGED <<iday, tenant, txt, parts, owners, tokens, ihistories, iops, ifaults>>

\* The unique indexes on the subdomain and on the custom domain.
Unique(t, row) ==
  \A u \in ITenants \ {t} : tenant[u] # Null =>
    tenant[u].slug # row.slug /\ (row.domain = Null \/ tenant[u].domain # row.domain)

\* The row is saved, or refused by an index, which ends the request.
SaveTenant(h) ==
  LET task == itask[h] IN
  /\ ipc[h] = "save"
  /\ IF Unique(task.id, task.new)
     THEN /\ tenant' = [tenant EXCEPT ![task.id] = task.new]
          /\ IF task.kind = "create" THEN IGo(h, "settings") ELSE IReturn(h)
     ELSE tenant' = tenant /\ IReturn(h)
  /\ UNCHANGED <<iday, kept, txt, parts, owners, tokens, ihistories, iops, ifaults>>

-----------------------------------------------------------------------------
(* Domains and relations.                                                  *)

\* The record is looked up for the domain and the token of the row that was loaded.
\* For a domain without any record the lookup throws, and the row stays as it is.
LookUpTxt(h) ==
  LET row == itask[h].old
      sought == <<row.domain, row.token>> IN
  /\ ipc[h] = "lookup"
  /\ IF \A record \in txt : record[1] # row.domain
     THEN IReturn(h) /\ proven' = proven
     ELSE /\ proven' = proven \cup ({sought} \cap txt)
          /\ itask' = [itask EXCEPT ![h].new =
               [row EXCEPT !.verification = IF sought \in txt THEN "VERIFIED" ELSE "FAILED"]]
          /\ ipc' = [ipc EXCEPT ![h] = "save"]
  /\ UNCHANGED <<iday, tenant, kept, txt, parts, owners, tokens, transferred, interrupted,
                 raced, iops, ifaults>>

\* A new tenant gets its settings, and its creator becomes a member and then gets to
\* manage its bills.
AddPart(h, step, part, next) ==
  /\ ipc[h] = step
  /\ parts' = [parts EXCEPT ![itask[h].id] = @ \cup {part}]
  /\ IF next = "idle" THEN IReturn(h) ELSE IGo(h, next)
  /\ UNCHANGED <<iday, tenant, kept, txt, owners, tokens, ihistories, iops, ifaults>>

CreateSettings(h) == AddPart(h, "settings", "settings", "member")

GrantMember(h) == AddPart(h, "member", "member", "billing")

GrantBilling(h) == AddPart(h, "billing", "manage_billing", "idle")

\* Faulty variant: the new owner is added first, the old one removed last.
Relate_GrantFirst(h) ==
  LET task == itask[h] IN
  IF ipc[h] = "disown"
  THEN owners' = [owners EXCEPT ![task.id] = @ \cup {task.user}]
  ELSE owners' = [owners EXCEPT ![task.id] = @ \ {task.from}]

\* The user who asks loses the ownership, the new owner gets it.
Relate(h) ==
  LET task == itask[h] IN
  IF ipc[h] = "disown"
  THEN owners' = [owners EXCEPT ![task.id] = @ \ {task.from}]
  ELSE owners' = [owners EXCEPT ![task.id] = @ \cup {task.user}]

ChangeOwner(h) ==
  /\ ipc[h] \in {"disown", "own"}
  /\ Relate(h)
  /\ transferred' = transferred \cup {itask[h].id}
  /\ IF ipc[h] = "disown" THEN IGo(h, "own") ELSE IReturn(h)
  /\ UNCHANGED <<iday, tenant, kept, txt, parts, tokens, proven, interrupted, raced, iops,
                 ifaults>>

\* A statement throws or the process dies.
IdentityCrash(h) ==
  /\ ipc[h] # "idle" /\ ifaults < MaxIFaults
  /\ ifaults' = ifaults + 1
  /\ interrupted' = IF ipc[h] \in {"settings", "member", "billing", "own"}
                    THEN interrupted \cup {itask[h].id} ELSE interrupted
  /\ IReturn(h)
  /\ UNCHANGED <<iday, tenant, kept, txt, parts, owners, tokens, proven, transferred, raced,
                 iops>>

-----------------------------------------------------------------------------
INext ==
  \/ INextDay
  \/ PublishTxt
  \/ \E h \in IHandlers :
       \/ CreateTenant(h) \/ UpdateTenant(h) \/ VerifyDomain(h) \/ TransferOwnership(h)
       \/ CountTenants(h) \/ CountReserved(h) \/ ReserveSubdomain(h) \/ SaveTenant(h)
       \/ LookUpTxt(h) \/ CreateSettings(h) \/ GrantMember(h) \/ GrantBilling(h)
       \/ ChangeOwner(h) \/ IdentityCrash(h)

ISpec == IInit /\ [][INext]_ivars

-----------------------------------------------------------------------------
ITypeOK ==
  /\ iday \in 0..MaxIDay
  /\ tenant \in [ITenants -> Row \cup {Null}]
  /\ kept \in [Slugs -> [until : Nat, by : ITenants] \cup {Null}]
  /\ txt \subseteq Domains \X (1..tokens)
  /\ parts \in [ITenants -> SUBSET Parts]
  /\ owners \in [ITenants -> SUBSET Users]
  /\ ipc \in [IHandlers -> {"idle", "count", "reserved", "reserve", "save", "lookup", "settings",
                           "member", "billing", "disown", "own"}]
  /\ itask \in [IHandlers -> ITask]
  /\ proven \subseteq txt
  /\ transferred \subseteq ITenants /\ interrupted \subseteq ITenants
  /\ raced \in BOOLEAN
  /\ tokens \in Nat /\ iops \in Nat /\ ifaults \in Nat

\* A domain is verified only when the DNS has confirmed this domain with this token,
\* whatever updates and verifications overlapped: rows are saved whole, so a late
\* save brings back an old domain together with its own token and verification.
VerifiedIsProven ==
  \A t \in ITenants :
    tenant[t] # Null /\ tenant[t].verification = "VERIFIED" /\ tenant[t].domain # Null
    => <<tenant[t].domain, tenant[t].token>> \in proven

\* A subdomain that was given up is not another tenant's until its reservation ends,
\* unless requests of two tenants overlapped: it is looked up and taken in separate
\* statements.
ReservationKept ==
  \A s \in Slugs, t \in ITenants :
    kept[s] # Null /\ kept[s].until > iday /\ tenant[t] # Null /\ tenant[t].slug = s
    => kept[s].by = t \/ raced

At(steps, t) == \E h \in IHandlers : ipc[h] \in steps /\ itask[h].id = t

\* A tenant that lacks its settings or its creator a right, or that was transferred and has no owner, is
\* being created or transferred, or a failure came between: no order of complete
\* requests leaves it so.
HalfDoneIsInterrupted ==
  \A t \in ITenants \ interrupted :
    /\ tenant[t] # Null /\ parts[t] # Parts => At({"settings", "member", "billing"}, t)
    /\ t \in transferred /\ owners[t] = {} => At({"own"}, t)
=============================================================================
