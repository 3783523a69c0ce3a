---------------------------- MODULE FeatureFlags ----------------------------
(***************************************************************************)
(* One feature flag: a default, and overrides for single tenants that are  *)
(* saved as one column.  The answer for a tenant is cached for five        *)
(* minutes; an administrator who changes a tenant's override saves the row *)
(* that was loaded, and then deletes the cached answer of that tenant.     *)
(***************************************************************************)
EXTENDS Integers, FiniteSets, Absence

CONSTANTS
  Owners,          \* tenants that may have an override
  Readers,         \* requests for a protected route, in progress at the same time
  Editors,         \* administrators' requests in progress at the same time
  MaxToggles,      \* changes of overrides (bound)
  MaxGFaults       \* failures (bound)

VARIABLES
  flag,            \* the row: the default and, per tenant, the override or Null;
                   \* Null if the flag is not defined
  answer,          \* per tenant: the cached answer, or Null
  asking,          \* per reader: next step, tenant and what it has found
  editor,          \* per administrator: next step, tenant and the row to save
  override,        \* (history) per tenant: the override that was last saved for it
  clobbered,       \* (history) tenants whose override was saved over by a request
                   \* that had loaded the row before
  outdated,        \* (history) tenants whose cached answer need not be right
  toggles, gfaults \* budgets spent

gvars == <<flag, answer, asking, editor, override, clobbered, outdated, toggles, gfaults>>

Flag == [default : BOOLEAN, overrides : [Owners -> BOOLEAN \cup {Null}]]

ASSUME FlagsAssumption ==
  Null \notin Flag \cup BOOLEAN /\ MaxToggles \in Nat /\ MaxGFaults \in Nat

NoReader == [step |-> "idle", tenant |-> Null, found |-> Null, overtaken |-> FALSE]

\* since: (history) the tenants whose override others have saved since the row was loaded.
NoEditor == [step |-> "idle", tenant |-> Null, row |-> Null, since |-> {}]

GInit ==
  /\ flag \in [default : BOOLEAN, overrides : {[t \in Owners |-> Null]}] \cup {Null}
  /\ answer = [t \in Owners |-> Null]
  /\ asking = [r \in Readers |-> NoReader]
  /\ editor = [e \in Editors |-> NoEditor]
  /\ override = [t \in Owners |-> Null]
  /\ clobbered = {} /\ outdated = {}
  /\ toggles = 0 /\ gfaults = 0

GFault == gfaults < MaxGFaults /\ gfaults' = gfaults + 1

\* A flag that is not defined is off.
Enabled(row, t) == IF row = Null THEN FALSE
                   ELSE IF row.overrides[t] = Null THEN row.default ELSE row.overrides[t]

-----------------------------------------------------------------------------
(* The guard of a route.                                                   *)

\* A cached answer ends the request; here only what is missing is followed.
FindFlag(r, t) ==
  /\ asking[r].step = "idle" /\ answer[t] = Null
  /\ asking' = [asking EXCEPT ![r] = [NoReader EXCEPT !.step = "fill", !.tenant = t,
                  !.found = Enabled(flag, t)]]
  /\ UNCHANGED <<flag, answer, editor, override, clobbered, outdated, toggles, gfaults>>

FillAnswer(r) ==
  LET t == asking[r].tenant IN
  /\ asking[r].step = "fill"
  /\ answer' = [answer EXCEPT ![t] = asking[r].found]
  /\ outdated' = IF asking[r].overtaken THEN outdated \cup {t} ELSE outdated \ {t}
  /\ asking' = [asking EXCEPT ![r] = NoReader]
  /\ UNCHANGED <<flag, editor, override, clobbered, toggles, gfaults>>

\* The cache fails: so does the request.
FillFails(r) ==
  /\ asking[r].step = "fill" /\ GFault
  /\ asking' = [asking EXCEPT ![r] = NoReader]
  /\ UNCHANGED <<flag, answer, editor, override, clobbered, outdated, toggles>>

AnswerExpires(t) ==
  /\ answer[t] # Null
  /\ answer' = [answer EXCEPT ![t] = Null]
  /\ outdated' = outdated \ {t}
  /\ UNCHANGED <<flag, asking, editor, override, clobbered, toggles, gfaults>>

-----------------------------------------------------------------------------
(* The administrators.                                                     *)

\* Faulty variant: the other overrides are left out.
WithOverride_Alone(row, t, value) ==
  [row EXCEPT !.overrides = [s \in Owners |-> IF s = t THEN value ELSE Null]]

WithOverride(row, t, value) ==
  [row EXCEPT !.overrides = [@ EXCEPT ![t] = value]]

\* An override of a flag that is not defined is refused, or there is none to remove.
LoadFlag(e, t, value) ==
  /\ editor[e].step = "idle" /\ flag # Null
  /\ toggles < MaxToggles /\ toggles' = toggles + 1
  /\ editor' = [editor EXCEPT ![e] =
       [NoEditor EXCEPT !.step = "save", !.tenant = t, !.row = WithOverride(flag, t, value)]]
  /\ UNCHANGED <<flag, answer, asking, override, clobbered, outdated, gfaults>>

SetOverride(e, t) == \E on \in BOOLEAN : LoadFlag(e, t, on)

RemoveOverride(e, t) == LoadFlag(e, t, Null)

\* Faulty variant: the cached answer stays.
AfterFlag_Done == "idle"

AfterFlag == "forget"

\* What another request has saved since the row was loaded is overwritten.
SaveFlag(e) ==
  LET t == editor[e].tenant
      changed == {t} \cup editor[e].since
  IN
  /\ editor[e].step = "save"
  /\ flag' = editor[e].row
  /\ override' = [override EXCEPT ![t] = editor[e].row.overrides[t]]
  /\ clobbered' = (clobbered \cup editor[e].since) \ {t}
  /\ outdated' = outdated \cup editor[e].since
  /\ asking' = [r \in Readers |-> IF asking[r].tenant \in changed
                                   THEN [asking[r] EXCEPT !.overtaken = TRUE] ELSE asking[r]]
  /\ editor' = [d \in Editors |->
       IF d = e THEN IF AfterFlag = "idle" THEN NoEditor ELSE [editor[e] EXCEPT !.step = AfterFlag]
       ELSE [editor[d] EXCEPT !.since = IF editor[d].step = "save" THEN @ \cup changed ELSE @]]
  /\ UNCHANGED <<answer, toggles, gfaults>>

\* A failure leaves the answer to its time to live.
ForgetAnswer(e) ==
  LET t == editor[e].tenant IN
  /\ editor[e].step = "forget"
  /\ \/ /\ answer' = [answer EXCEPT ![t] = Null]
        /\ outdated' = outdated \ {t}
        /\ UNCHANGED gfaults
     \/ /\ GFault
        /\ outdated' = outdated \cup {t}
        /\ UNCHANGED answer
  /\ editor' = [editor EXCEPT ![e] = NoEditor]
  /\ UNCHANGED <<flag, asking, override, clobbered, toggles>>

-----------------------------------------------------------------------------
GNext ==
  \/ \E r \in Readers : \/ FillAnswer(r) \/ FillFails(r)
                         \/ \E t \in Owners : FindFlag(r, t)
  \/ \E t \in Owners : \/ AnswerExpires(t)
                        \/ \E e \in Editors : SetOverride(e, t) \/ RemoveOverride(e, t)
  \/ \E e \in Editors : SaveFlag(e) \/ ForgetAnswer(e)

GSpec == GInit /\ [][GNext]_gvars

-----------------------------------------------------------------------------
GTypeOK ==
  /\ flag \in Flag \cup {Null}
  /\ answer \in [Owners -> BOOLEAN \cup {Null}]
  /\ \A r \in Readers : asking[r].step \in {"idle", "fill"}
  /\ \A e \in Editors : editor[e].step \in {"idle", "save", "forget"}
  /\ clobbered \cup outdated \subseteq Owners
  /\ toggles \in 0..MaxToggles /\ gfaults \in 0..MaxGFaults

\* The override that an administrator has saved for a tenant stays, whatever is saved
\* for other tenants, unless two requests overlap.
OverrideKept ==
  flag # Null => \A t \in Owners \ clobbered : flag.overrides[t] = override[t]

\* A cached answer is the flag's, unless its deletion is under way or has failed, it was
\* found before a change and cached after it, or a change was overwritten.
FlagAgrees ==
  \A t \in Owners \ outdated :
    answer[t] # Null /\ (\A e \in Editors : editor[e].step = "forget" => editor[e].tenant # t)
      => answer[t] = Enabled(flag, t)
=============================================================================
