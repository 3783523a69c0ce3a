----------------------------- MODULE PlanCatalog -----------------------------
(***************************************************************************)
(* The billing plans, their cached list and their sync with Stripe.        *)
(* Administrators change a plan and then delete the cached list.  A reader *)
(* takes the cached list, or fills the cache with what it has found in the *)
(* database.  The sync goes through Stripe's prices one by one, and then   *)
(* through the plans whose price it has not seen.                          *)
(***************************************************************************)
EXTENDS Integers, FiniteSets, Absence

CONSTANTS
  Catalog,         \* ids of plans; a plan made by the sync has the price's
  Priced,          \* the ids among them that are prices of Stripe's
  PageSize,        \* prices on a page
  Admins,          \* requests of administrators in progress at the same time
  MaxEdits,        \* changes in the database and at Stripe (bound)
  MaxPFaults       \* failures (bound)

VARIABLES
  plan,            \* per id: its row, or Null
  sold,            \* prices that are active at Stripe and carry limits
  cache,           \* the cached list: a set of rows by id, or Null
  reader,          \* what the reader has found and is about to put into the cache
  admin,           \* per administrator: next step, the plan and the row to save
  sync,            \* the sync: next step, prices and plans left, prices seen
  overtaken,       \* (history) was the list changed after the reader had found it?
  stale,           \* (history) does the cache hold what it need not have held?
  interfered,       \* (history) has something else happened during the sync?
  mismatch,        \* (history) plans an undisturbed sync has left wrong
  edits, pfaults   \* budgets spent

pvars == <<plan, sold, cache, reader, admin, sync, overtaken, stale, interfered,
           mismatch, edits, pfaults>>

\* own: made for one tenant and not on the public list.
PlanRow == [active : BOOLEAN, own : BOOLEAN]

ASSUME CatalogAssumption ==
  /\ Priced \subseteq Catalog
  /\ Null \notin Catalog \cup PlanRow
  /\ MaxEdits \in Nat /\ MaxPFaults \in Nat

NoAdmin == [step |-> "idle", id |-> Null, row |-> Null]

\* listed: prices on the pages Stripe has sent; plans, seen: see SyncExisting, SyncSave.
NoSync == [step |-> "idle", listed |-> {}, prices |-> {}, plans |-> {}, seen |-> {}, at |-> Null,
           row |-> Null]

Nothing == [step |-> "idle", list |-> {}]

PInit ==
  /\ plan = [p \in Catalog |-> Null]
  /\ sold \in SUBSET Priced
  /\ cache = Null
  /\ reader = Nothing
  /\ admin = [a \in Admins |-> NoAdmin]
  /\ sync = NoSync
  /\ overtaken = FALSE /\ stale = FALSE /\ interfered = FALSE
  /\ mismatch = {}
  /\ edits = 0 /\ pfaults = 0

Public(rows) == {p \in Catalog : rows[p] # Null /\ rows[p].active /\ ~rows[p].own}

PFault == pfaults < MaxPFaults /\ pfaults' = pfaults + 1

\* A row is saved.  What a reader has found before is out of date.
SavePlan(p, row) ==
  /\ plan' = [plan EXCEPT ![p] = row]
  /\ overtaken' = (overtaken \/ (reader.step = "fill" /\ Public(plan') # Public(plan)))

-----------------------------------------------------------------------------
(* Administrators.                                                         *)

\* create, update, softDelete: the row they will save, which may be any.
LoadPlan(a) ==
  /\ admin[a] = NoAdmin
  /\ edits < MaxEdits /\ edits' = edits + 1
  /\ \E p \in Catalog, row \in PlanRow :
       admin' = [admin EXCEPT ![a] = [step |-> "save", id |-> p, row |-> row]]
  /\ UNCHANGED <<plan, sold, cache, reader, sync, overtaken, stale, interfered, mismatch, pfaults>>

\* Faulty variant: the cached list stays.
AfterSave_Done == "idle"

AfterSave == "invalidate"

SaveAdmin(a) ==
  /\ admin[a].step = "save"
  /\ SavePlan(admin[a].id, admin[a].row)
  /\ admin' = [admin EXCEPT ![a] = IF AfterSave = "idle" THEN NoAdmin ELSE [@ EXCEPT !.step = AfterSave]]
  /\ interfered' = (sync # NoSync)
  /\ UNCHANGED <<sold, cache, reader, sync, stale, mismatch, edits, pfaults>>

\* The list is deleted, or that fails, which is only logged.
Invalidate ==
  \/ /\ cache' = Null /\ stale' = FALSE
     /\ UNCHANGED pfaults
  \/ /\ PFault
     /\ stale' = (cache # Null) /\ UNCHANGED cache

InvalidateAdmin(a) ==
  /\ admin[a].step = "invalidate"
  /\ Invalidate
  /\ admin' = [admin EXCEPT ![a] = NoAdmin]
  /\ UNCHANGED <<plan, sold, reader, sync, overtaken, interfered, mismatch, edits>>

-----------------------------------------------------------------------------
(* The public list.                                                        *)

FindPublic ==
  /\ cache = Null /\ reader = Nothing
  /\ reader' = [step |-> "fill", list |-> Public(plan)]
  /\ UNCHANGED <<plan, sold, cache, admin, sync, overtaken, stale, interfered, mismatch, edits, pfaults>>

FillCache ==
  /\ reader.step = "fill"
  /\ cache' = [list |-> reader.list]
  /\ stale' = overtaken /\ overtaken' = FALSE
  /\ reader' = Nothing
  /\ UNCHANGED <<plan, sold, admin, sync, interfered, mismatch, edits, pfaults>>

\* The list is kept for an hour.
CacheExpires ==
  /\ cache # Null
  /\ cache' = Null /\ stale' = FALSE
  /\ UNCHANGED <<plan, sold, reader, admin, sync, overtaken, interfered, mismatch, edits, pfaults>>

-----------------------------------------------------------------------------
(* The sync.                                                               *)

\* A price is added, gets limits, loses them, or ends.
StripeEdits ==
  /\ edits < MaxEdits /\ edits' = edits + 1
  /\ \E p \in Priced : sold' = IF p \in sold THEN sold \ {p} ELSE sold \cup {p}
  /\ interfered' = (sync # NoSync)
  /\ UNCHANGED <<plan, cache, reader, admin, sync, overtaken, stale, mismatch, pfaults>>

SyncList ==
  /\ sync = NoSync
  /\ sync' = [NoSync EXCEPT !.step = "list"]
  /\ UNCHANGED <<plan, sold, cache, reader, admin, overtaken, stale, interfered, mismatch, edits, pfaults>>

\* Faulty variant: the first page is taken for all of them.
MorePages_Never(listed) == FALSE

MorePages(listed) == ~(sold \subseteq listed)

\* One page of Stripe's active prices; a price that ends later is still on it.  Prices
\* without limits are skipped: they are not seen.
SyncPage ==
  /\ sync.step = "list"
  /\ \E page \in SUBSET (sold \ sync.listed) :
       /\ IF Cardinality(sold \ sync.listed) > PageSize THEN Cardinality(page) = PageSize
          ELSE page = sold \ sync.listed
       /\ LET listed == sync.listed \cup page
          IN  sync' = IF MorePages(listed) THEN [sync EXCEPT !.listed = listed]
                      ELSE [sync EXCEPT !.step = "prices", !.listed = {}, !.prices = listed]
  /\ UNCHANGED <<plan, sold, cache, reader, admin, overtaken, stale, interfered, mismatch, edits, pfaults>>

SyncFind ==
  /\ sync.step = "prices" /\ sync.at = Null
  /\ \E p \in sync.prices :
       sync' = [sync EXCEPT !.prices = @ \ {p}, !.at = p, !.row = plan[p]]
  /\ UNCHANGED <<plan, sold, cache, reader, admin, overtaken, stale, interfered, mismatch, edits, pfaults>>

SyncedRow(row) == IF row = Null THEN [active |-> TRUE, own |-> FALSE]
                                ELSE [row EXCEPT !.active = TRUE]

SyncSave ==
  /\ sync.at # Null
  /\ SavePlan(sync.at, SyncedRow(sync.row))
  /\ sync' = [sync EXCEPT !.at = Null, !.row = Null, !.seen = @ \cup {sync.at}]
  /\ UNCHANGED <<sold, cache, reader, admin, stale, interfered, mismatch, edits, pfaults>>

\* What goes wrong with one price is logged, and its plan counts as not seen.
SyncPriceFails ==
  /\ sync.at # Null /\ PFault
  /\ sync' = [sync EXCEPT !.at = Null, !.row = Null]
  /\ interfered' = TRUE
  /\ UNCHANGED <<plan, sold, cache, reader, admin, overtaken, stale, mismatch, edits>>

\* All plans are loaded, unless no price was seen: that is taken for a mistake.
SyncExisting ==
  /\ sync.step = "prices" /\ sync.prices = {} /\ sync.at = Null
  /\ sync' = [sync EXCEPT !.step = "plans", !.plans =
       IF sync.seen = {} THEN {}
       ELSE {[id |-> p, row |-> plan[p]] : p \in {q \in Priced \ sync.seen : plan[q] # Null}}]
  /\ UNCHANGED <<plan, sold, cache, reader, admin, overtaken, stale, interfered, mismatch, edits, pfaults>>

Deactivated(row) == [row EXCEPT !.active = FALSE]

SyncDeactivate ==
  /\ sync.step = "plans"
  /\ \E entry \in sync.plans :
       /\ SavePlan(entry.id, Deactivated(entry.row))
       /\ sync' = [sync EXCEPT !.plans = @ \ {entry}]
  /\ UNCHANGED <<sold, cache, reader, admin, stale, interfered, mismatch, edits, pfaults>>

Mismatched == {p \in Priced : plan[p] # Null /\ (plan[p].active # (p \in sold))}

SyncFinish ==
  /\ sync.step = "plans" /\ sync.plans = {}
  /\ Invalidate
  /\ sync' = NoSync
  /\ mismatch' = IF interfered \/ sync.seen = {} THEN {} ELSE Mismatched
  /\ interfered' = FALSE
  /\ UNCHANGED <<plan, sold, reader, admin, overtaken, edits>>

\* Loading or saving a plan fails, or the process dies: the rest and the deletion of
\* the cached list are left to the next sync.
SyncFails ==
  /\ sync # NoSync /\ PFault
  /\ sync' = NoSync
  /\ stale' = (stale \/ cache # Null)
  /\ interfered' = FALSE
  /\ UNCHANGED <<plan, sold, cache, reader, admin, overtaken, mismatch, edits>>

-----------------------------------------------------------------------------
PNext ==
  \/ \E a \in Admins : LoadPlan(a) \/ SaveAdmin(a) \/ InvalidateAdmin(a)
  \/ FindPublic \/ FillCache \/ CacheExpires
  \/ StripeEdits
  \/ SyncList \/ SyncPage \/ SyncFind \/ SyncSave \/ SyncPriceFails \/ SyncExisting
  \/ SyncDeactivate \/ SyncFinish \/ SyncFails

PSpec == PInit /\ [][PNext]_pvars

-----------------------------------------------------------------------------
PTypeOK ==
  /\ plan \in [Catalog -> PlanRow \cup {Null}]
  /\ sold \subseteq Priced
  /\ cache = Null \/ cache.list \subseteq Catalog
  /\ reader.step \in {"idle", "fill"} /\ reader.list \subseteq Catalog
  /\ \A a \in Admins : admin[a].step \in {"idle", "save", "invalidate"}
  /\ sync.step \in {"idle", "list", "prices", "plans"}
  /\ sync.listed \cup sync.prices \cup sync.seen \subseteq Priced
  /\ edits \in 0..MaxEdits /\ pfaults \in 0..MaxPFaults

\* Someone is still going to delete the cached list.
Invalidating == sync # NoSync \/ \E a \in Admins : admin[a].step = "invalidate"

\* The cached list is the list of the database, unless a deletion of it is under way
\* or has failed, or a reader put into it what was changed after it had been found.
CacheAgrees == cache # Null /\ ~stale /\ ~Invalidating => cache.list = Public(plan)

\* A sync during which nothing was changed and nothing failed leaves active the plans
\* whose prices are sold, and no other plan with a price: also when a plan was deleted
\* here, and also the plans made for one tenant.
SyncedAgrees == mismatch = {}
=============================================================================
