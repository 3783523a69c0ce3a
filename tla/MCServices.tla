----------------------------- MODULE MCServices -----------------------------
(***************************************************************************)
(* The services that share no state with each other, checked in one run:   *)
(* in each behaviour one of them runs, and the others stay as they are.    *)
(***************************************************************************)
EXTENDS Membership, EventDelivery, ApiKeys, PaymentMethods, FeatureFlags, TenantIdentity,
        Announcements, SubscriptionStatus, Preferences

VARIABLE running

Services == {"membership", "events", "identity", "announcements", "keys", "subscription",
              "cards", "flags", "preferences"}

\* What does not run starts in one of its initial states only.  Of the initial states
\* of the tenants, those are left out that differ from others by a renaming, and those
\* that the first request leads to; one tenant has two members, the other one.
ServicesInit ==
  /\ running \in Services
  /\ Init /\ EInit /\ IInit /\ AInit /\ KInit /\ SInit /\ CInit /\ GInit
  /\ RInit
  /\ running # "events" => ~fifo /\ ~marking
  /\ tenant["t1"] # Null /\ tenant["t1"].slug = "a" /\ tenant["t1"].domain # Null
  /\ running # "identity" => tenant["t2"] = Null
  /\ running # "subscription" => account.trial
  /\ running # "flags" => flag = Null
  /\ {m \in Members : member[m].tenant = "t1"} = {"m1", "m2"}

\* No type of message tells of a fact and of an occurrence, and a message is dropped for
\* one other: a behaviour is about the facts, or about two notices.
FactsOrNotices ==
  /\ raised # {} => fact' = fact
  /\ raised' # raised => changes = Cardinality(raised) /\ Cardinality(raised') <= 2

Runs(service) == running = service /\ UNCHANGED running

ServicesNext ==
  \/ Runs("membership") /\ Next
       /\ UNCHANGED <<evars, ivars, avars, kvars, svars, cvars, gvars, rvars>>
  \/ Runs("events") /\ ENext
       /\ UNCHANGED <<mvars, ivars, avars, kvars, svars, cvars, gvars, rvars>>
  \/ Runs("identity") /\ INext
       /\ UNCHANGED <<mvars, evars, avars, kvars, svars, cvars, gvars, rvars>>
  \/ Runs("announcements") /\ ANext /\ FactsOrNotices
       /\ UNCHANGED <<mvars, evars, ivars, kvars, svars, cvars, gvars, rvars>>
  \/ Runs("keys") /\ KNext
       /\ UNCHANGED <<mvars, evars, ivars, avars, svars, cvars, gvars, rvars>>
  \/ Runs("subscription") /\ SNext
       /\ UNCHANGED <<mvars, evars, ivars, avars, kvars, cvars, gvars, rvars>>
  \/ Runs("cards") /\ CNext
       /\ UNCHANGED <<mvars, evars, ivars, avars, kvars, svars, gvars, rvars>>
  \/ Runs("flags") /\ GNext
       /\ UNCHANGED <<mvars, evars, ivars, avars, kvars, svars, cvars, rvars>>
  \/ Runs("preferences") /\ RNext
       /\ UNCHANGED <<mvars, evars, ivars, avars, kvars, svars, cvars, gvars>>

vars == <<running, mvars, evars, ivars, avars, kvars, svars, cvars, gvars, rvars>>

\* The fairness of Membership's FairSpec and of EventDelivery's EFairSpec.
ServicesSpec ==
  /\ ServicesInit /\ [][ServicesNext]_vars
  /\ WF_mvars(Runs("membership") /\ ExpiryJob)
  /\ \A w \in Workers : WF_evars(Runs("events") /\ WorkerStep(w))

\* The type invariant of each service.
ServicesTypeOK ==
  CASE running = "membership"    -> TypeOK
    [] running = "events"        -> ETypeOK
    [] running = "identity"      -> ITypeOK
    [] running = "announcements" -> ATypeOK
    [] running = "keys"          -> KTypeOK
    [] running = "subscription"  -> STypeOK
    [] running = "cards"         -> CTypeOK
    [] running = "flags"         -> GTypeOK
    [] running = "preferences"   -> RTypeOK
=============================================================================
