------------------------------- MODULE ApiKeys -------------------------------
(***************************************************************************)
(* The API keys of one tenant: created, renamed, stopped, started and      *)
(* deleted by the dashboard, and checked when a request comes with one.    *)
(*                                                                         *)
(* A change loads the row and saves all of it; a row that was deleted in   *)
(* between is inserted again.  A listener then writes an entry of the audit *)
(* log.  The time of the last use is written by a statement of its own     *)
(* that nobody waits for.                                                  *)
(***************************************************************************)
EXTENDS Integers, FiniteSets, Absence

CONSTANTS
  Requests,        \* requests of the dashboard in progress at the same time
  Callers,         \* requests with a key in progress at the same time
  Keys,            \* ids of keys
  MaxKeyOps,       \* requests (bound)
  MaxKeyFaults     \* failures (bound)

VARIABLES
  key,             \* per key: its row, or Null
  kpc, ktask,      \* per handler: next step; the key and the row it will save
  caller,          \* per caller: next step, the key it came with, the row found
  using,           \* keys a last use of which is still to be written: the row found
  revoked,         \* (history) keys stopped or deleted while nobody held their row,
                   \* and not started since
  trail,           \* per key: the status its newest entry in the audit log tells, or
                   \* Null when it tells a deletion, or there is none
  untold,          \* (history) keys whose changes overlapped, or left no entry
  kops, kfaults    \* budgets spent

kvars == <<key, kpc, ktask, caller, using, revoked, trail, untold, kops, kfaults>>

\* expired: expiresAt lies in the past.
KeyRow == [status : {"active", "stopped"}, expired : BOOLEAN]

ASSUME KeysAssumption ==
  Null \notin Keys \cup KeyRow /\ MaxKeyOps \in Nat /\ MaxKeyFaults \in Nat

\* kind: what is done; before: the status in the row that was loaded.
NoKeyTask == [kind |-> "none", id |-> Null, row |-> Null, before |-> Null]

NoCaller == [step |-> "idle", id |-> Null, row |-> Null]

KInit ==
  /\ key = [k \in Keys |-> Null]
  /\ kpc = [h \in Requests |-> "idle"]
  /\ ktask = [h \in Requests |-> NoKeyTask]
  /\ caller = [c \in Callers |-> NoCaller]
  /\ using = {}
  /\ revoked = {}
  /\ trail = [k \in Keys |-> Null]
  /\ untold = {}
  /\ kops = 0 /\ kfaults = 0

KeyRequest == kops < MaxKeyOps /\ kops' = kops + 1

KeyFault == kfaults < MaxKeyFaults /\ kfaults' = kfaults + 1

\* Does another handler than h work on the key?
Overlaps(h, k) == \E g \in Requests \ {h} : ktask[g].id = k

-----------------------------------------------------------------------------
(* The dashboard.                                                          *)

\* An id is used once.
CreateKey(h) ==
  /\ KeyRequest
  /\ kpc[h] = "idle"
  /\ \E k \in Keys \ revoked :
       /\ key[k] = Null
       /\ LET row == [status |-> "active", expired |-> FALSE]
          IN  /\ key' = [key EXCEPT ![k] = row]
              /\ ktask' = [ktask EXCEPT ![h] = [kind |-> "create", id |-> k, row |-> row, before |-> Null]]
       /\ untold' = IF Overlaps(h, k) THEN untold \cup {k} ELSE untold
  /\ kpc' = [kpc EXCEPT ![h] = "audit"]
  /\ UNCHANGED <<caller, using, revoked, trail, kfaults>>

LoadKey(h, kind, k, row) ==
  /\ KeyRequest
  /\ kpc[h] = "idle" /\ key[k] # Null
  /\ kpc' = [kpc EXCEPT ![h] = "save"]
  /\ ktask' = [ktask EXCEPT ![h] = [kind |-> kind, id |-> k, row |-> row, before |-> key[k].status]]
  /\ untold' = IF Overlaps(h, k) THEN untold \cup {k} ELSE untold
  /\ UNCHANGED <<key, caller, using, revoked, trail, kfaults>>

\* The name and the scopes, which no property is about.
UpdateKey(h) == \E k \in Keys : LoadKey(h, "update", k, key[k])

UpdateStatus(h) ==
  \E k \in Keys, status \in {"active", "stopped"} :
    LoadKey(h, status, k, IF key[k] = Null THEN Null ELSE [key[k] EXCEPT !.status = status])

DeleteKey(h) == \E k \in Keys : LoadKey(h, "delete", k, Null)

\* Nobody but h has read the row and is about to save it.
OnlyHolder(h, k) == \A g \in Requests \ {h} : kpc[g] = "save" => ktask[g].id # k

SaveKey(h) ==
  LET task == ktask[h] IN
  /\ kpc[h] = "save"
  /\ key' = [key EXCEPT ![task.id] = task.row]
  /\ kpc' = [kpc EXCEPT ![h] = "audit"]
  /\ revoked' = CASE task.kind \in {"stopped", "delete"} /\ OnlyHolder(h, task.id)
                       -> revoked \cup {task.id}
                  [] task.kind = "active" -> revoked \ {task.id}
                  [] OTHER -> revoked
  /\ UNCHANGED <<ktask, caller, using, trail, untold, kops, kfaults>>

\* Faulty variant: the entry tells the status there was.
Told_Before(task) == IF task.kind \in {"active", "stopped"} THEN task.before
                     ELSE IF task.row = Null THEN Null ELSE task.row.status

\* What the entry tells of the key.
Told(task) == IF task.row = Null THEN Null ELSE task.row.status

\* The request waits for the listener.  A change of the name or the scopes tells
\* nothing of the status.
Audit(h) ==
  LET task == ktask[h] IN
  /\ kpc[h] = "audit"
  /\ trail' = IF task.kind = "update" THEN trail ELSE [trail EXCEPT ![task.id] = Told(task)]
  /\ kpc' = [kpc EXCEPT ![h] = "idle"]
  /\ ktask' = [ktask EXCEPT ![h] = NoKeyTask]
  /\ UNCHANGED <<key, caller, using, revoked, untold, kops, kfaults>>

\* A statement throws, or the process dies: before the row is saved, or before the
\* entry is written.
KeyFails(h) ==
  /\ kpc[h] # "idle" /\ KeyFault
  /\ untold' = IF kpc[h] = "audit" THEN untold \cup {ktask[h].id} ELSE untold
  /\ kpc' = [kpc EXCEPT ![h] = "idle"]
  /\ ktask' = [ktask EXCEPT ![h] = NoKeyTask]
  /\ UNCHANGED <<key, caller, using, revoked, trail, kops>>

-----------------------------------------------------------------------------
(* A request that comes with a key.                                        *)

FindKey(c) ==
  /\ KeyRequest
  /\ caller[c] = NoCaller
  /\ \E k \in Keys :
       /\ key[k] # Null /\ key[k].status = "active"
       /\ caller' = [caller EXCEPT ![c] = [step |-> "verify", id |-> k, row |-> key[k]]]
  /\ UNCHANGED <<key, kpc, ktask, using, revoked, trail, untold, kfaults>>

\* The hash is right (a wrong one ends the request) and the key has not expired.
VerifyKey(c) ==
  /\ caller[c].step = "verify"
  /\ caller' = [caller EXCEPT ![c] = NoCaller]
  /\ using' = IF caller[c].row.expired THEN using
              ELSE using \cup {[id |-> caller[c].id, row |-> caller[c].row]}
  /\ UNCHANGED <<key, kpc, ktask, revoked, trail, untold, kops, kfaults>>

\* Faulty variant: the row that was found is saved, with the time in it.
LastUsed_Saved(use) == [key EXCEPT ![use.id] = use.row]

\* One column of the row with this id, if there is one: no property is about it.
LastUsed(use) == key

UpdateLastUsed(use) ==
  /\ key' = LastUsed(use)
  /\ using' = using \ {use}
  /\ UNCHANGED <<kpc, ktask, caller, revoked, trail, untold, kops, kfaults>>

Expires ==
  /\ \E k \in Keys :
       /\ key[k] # Null /\ ~key[k].expired
       /\ key' = [key EXCEPT ![k].expired = TRUE]
  /\ UNCHANGED <<kpc, ktask, caller, using, revoked, trail, untold, kops, kfaults>>

-----------------------------------------------------------------------------
KNext ==
  \/ \E h \in Requests :
       \/ CreateKey(h) \/ UpdateKey(h) \/ UpdateStatus(h) \/ DeleteKey(h)
       \/ SaveKey(h) \/ Audit(h) \/ KeyFails(h)
  \/ \E c \in Callers : FindKey(c) \/ VerifyKey(c)
  \/ \E use \in using : UpdateLastUsed(use)
  \/ Expires

KSpec == KInit /\ [][KNext]_kvars

-----------------------------------------------------------------------------
KTypeOK ==
  /\ key \in [Keys -> KeyRow \cup {Null}]
  /\ kpc \in [Requests -> {"idle", "save", "audit"}]
  /\ ktask \in [Requests -> [kind   : {"create", "update", "active", "stopped", "delete", "none"},
                             id     : Keys \cup {Null}, row : KeyRow \cup {Null},
                             before : {"active", "stopped", Null}]]
  /\ trail \in [Keys -> {"active", "stopped", Null}] /\ untold \subseteq Keys
  /\ kfaults \in 0..MaxKeyFaults
  /\ caller \in [Callers -> [step : {"idle", "verify"}, id : Keys \cup {Null},
                             row  : KeyRow \cup {Null}]]
  /\ using \subseteq [id : Keys, row : KeyRow]
  /\ revoked \subseteq Keys
  /\ kops \in 0..MaxKeyOps

\* A key that was stopped or deleted while no other change of it was in progress
\* opens nothing until it is started: not by a request that used it before, and not by
\* a change that was loaded later.
RevokedStaysRevoked ==
  \A k \in revoked : key[k] = Null \/ key[k].status = "stopped"

\* When no change of a key is in progress, its newest entry in the audit log tells the
\* status it has, or that it is deleted, unless two changes of it overlapped (the later
\* one to save may be the earlier one to be logged, or undo what was logged), or a
\* change failed before its entry was written.
TrailAgrees ==
  \A k \in Keys \ untold : (\A h \in Requests : kpc[h] = "audit" => ktask[h].id # k)
    => trail[k] = IF key[k] = Null THEN Null ELSE key[k].status
=============================================================================
