----------------------------- MODULE Preferences -----------------------------
(***************************************************************************)
(* The notification preferences of one user in one tenant.  The first      *)
(* request makes the row; an update is merged into the row as it was       *)
(* loaded and saved whole.  The event that tells of it has no listener in  *)
(* this program: no module provides TenantSettingListener.                 *)
(***************************************************************************)
EXTENDS Integers, FiniteSets, Absence

CONSTANTS
  Channels,        \* email, SMS, push
  Sessions,        \* requests in progress at the same time
  MaxUpdates,      \* requests (bound)
  MaxRFaults       \* failures (bound)

VARIABLES
  row,             \* does the row exist?
  overrides,       \* per channel: the preference in the row, or Null
  session,         \* per request: next step, its change and the overrides to save
  wanted,          \* (history) per channel: what was asked for by the update saved last
  overwritten,     \* (history) channels saved over by a request that had loaded before
  updates, rfaults \* budgets spent

rvars == <<row, overrides, session, wanted, overwritten, updates, rfaults>>

PreferenceChange == [channel : Channels, on : BOOLEAN]

ASSUME PreferencesAssumption ==
  /\ Null \notin PreferenceChange
  /\ MaxUpdates \in Nat /\ MaxRFaults \in Nat

Unset == [c \in Channels |-> Null]

\* since: (history) the channels that others have saved since the row was loaded.
NoSession == [step |-> "idle", change |-> Null, save |-> Unset, since |-> {}]

RInit ==
  /\ row = FALSE /\ overrides = Unset
  /\ session = [s \in Sessions |-> NoSession]
  /\ wanted = Unset /\ overwritten = {}
  /\ updates = 0 /\ rfaults = 0

RFault == rfaults < MaxRFaults /\ rfaults' = rfaults + 1

RBegin(s, change) ==
  /\ session[s].step = "idle"
  /\ updates < MaxUpdates /\ updates' = updates + 1
  /\ session' = [session EXCEPT ![s] = [NoSession EXCEPT !.step = "find", !.change = change]]
  /\ UNCHANGED <<row, overrides, wanted, overwritten, rfaults>>

GetMyPreferences(s) == RBegin(s, Null)

UpdateMyPreferences(s) == \E change \in PreferenceChange : RBegin(s, change)

\* Faulty variant: the other preferences are left out.
Merged_Alone(loaded, change) == [Unset EXCEPT ![change.channel] = change.on]

Merged(loaded, change) == [loaded EXCEPT ![change.channel] = change.on]

\* The row is there: a request that only reads ends.
Loaded(s, loaded) ==
  IF session[s].change = Null THEN NoSession
  ELSE [session[s] EXCEPT !.step = "save", !.save = Merged(loaded, session[s].change), !.since = {}]

FindRow(s) ==
  /\ session[s].step = "find"
  /\ session' = [session EXCEPT ![s] =
       IF row THEN Loaded(s, overrides) ELSE [@ EXCEPT !.step = "insert"]]
  /\ UNCHANGED <<row, overrides, wanted, overwritten, updates, rfaults>>

\* There is one row for a user and a tenant: a second insertion fails, and its request.
InsertRow(s) ==
  /\ session[s].step = "insert"
  /\ row' = TRUE
  /\ session' = [session EXCEPT ![s] = IF row THEN NoSession ELSE Loaded(s, Unset)]
  /\ UNCHANGED <<overrides, wanted, overwritten, updates, rfaults>>

SaveRow(s) ==
  LET c == session[s].change.channel IN
  /\ session[s].step = "save"
  /\ overrides' = session[s].save
  /\ wanted' = [wanted EXCEPT ![c] = session[s].change.on]
  /\ overwritten' = (overwritten \cup session[s].since) \ {c}
  /\ session' = [r \in Sessions |->
       IF r = s THEN NoSession
       ELSE [session[r] EXCEPT !.since = IF session[r].step = "save" THEN @ \cup {c} \cup session[s].since ELSE @]]
  /\ UNCHANGED <<row, updates, rfaults>>

RequestFails(s) ==
  /\ session[s].step # "idle" /\ RFault
  /\ session' = [session EXCEPT ![s] = NoSession]
  /\ UNCHANGED <<row, overrides, wanted, overwritten, updates>>

RNext ==
  \E s \in Sessions :
    \/ GetMyPreferences(s) \/ UpdateMyPreferences(s)
    \/ FindRow(s) \/ InsertRow(s) \/ SaveRow(s) \/ RequestFails(s)

RSpec == RInit /\ [][RNext]_rvars

-----------------------------------------------------------------------------
RTypeOK ==
  /\ row \in BOOLEAN
  /\ overrides \in [Channels -> BOOLEAN \cup {Null}]
  /\ \A s \in Sessions : session[s].step \in {"idle", "find", "insert", "save"}
  /\ updates \in 0..MaxUpdates /\ rfaults \in 0..MaxRFaults

\* What a user has asked for on one channel stays, whatever is changed on another,
\* unless two requests overlap.
PreferenceKept ==
  \A c \in Channels \ overwritten : overrides[c] = wanted[c]
=============================================================================
