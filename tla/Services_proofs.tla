--------------------------- MODULE Services_proofs ---------------------------
(***************************************************************************)
(* Proofs about the services that MCServices composes.  A behaviour of the *)
(* composition is a behaviour of each service, so that what was proved of  *)
(* each holds of the specification that the run checks.                    *)
(***************************************************************************)
EXTENDS MCServices, Access_proofs, Messaging_proofs, Account_proofs, TLAPS

\* A step of the composition is, for each service, one of its own or none.
LEMMA StepOfEach ==
  ASSUME [ServicesNext]_vars
  PROVE  /\ UNCHANGED running
         /\ [Next]_mvars /\ [KNext]_kvars /\ [INext]_ivars
         /\ [ENext]_evars /\ [ANext]_avars
         /\ [CNext]_cvars /\ [SNext]_svars /\ [GNext]_gvars /\ [RNext]_rvars
<1>1. CASE ServicesNext
  BY <1>1 DEF ServicesNext, Runs
<1>2. CASE UNCHANGED vars
  BY <1>2 DEF vars
<1>3. QED
  BY <1>1, <1>2

\* The composition adds nothing to what a service can do: whichever of the nine runs in a
\* behaviour, each of them sees one of its own.
THEOREM ServicesImplementEach ==
  ServicesSpec => /\ Spec /\ KSpec /\ ISpec
                  /\ ESpec /\ ASpec
                  /\ CSpec /\ SSpec /\ GSpec /\ RSpec
<1>1. ServicesInit => Init /\ KInit /\ IInit /\ EInit /\ AInit /\ CInit /\ SInit /\ GInit /\ RInit
  BY DEF ServicesInit
<1>2. [ServicesNext]_vars => /\ [Next]_mvars /\ [KNext]_kvars /\ [INext]_ivars
                             /\ [ENext]_evars /\ [ANext]_avars
                             /\ [CNext]_cvars /\ [SNext]_svars /\ [GNext]_gvars /\ [RNext]_rvars
  BY StepOfEach
<1>3. QED
  BY <1>1, <1>2, PTL DEF ServicesSpec, Spec, KSpec, ISpec, ESpec, ASpec, CSpec, SSpec, GSpec, RSpec

\* Every safety invariant that the run of the services checks holds of the specification
\* it checks, for all values of the constants of the nine services.
THEOREM ServicesAreSafe ==
  ServicesSpec =>
    [](/\ LastAdminStays /\ SettledIsFinal
       /\ RepeatedOnlyIfDisturbed
       /\ VerifiedIsProven /\ ReservationKept /\ HalfDoneIsInterrupted
       /\ SubscribersAreRight /\ NoticesArrive
       /\ RevokedStaysRevoked /\ TrailAgrees
       /\ ShownIsRecent /\ PaymentShownIsTrue
       /\ OwnCardsOnly
       /\ OverrideKept /\ FlagAgrees
       /\ PreferenceKept)
<1>1. ServicesSpec => [](LastAdminStays /\ SettledIsFinal)
  BY ServicesImplementEach, AdministratorStays, AnswersAreFinal, PTL
<1>2. ServicesSpec => [](RevokedStaysRevoked /\ TrailAgrees)
  BY ServicesImplementEach, RevocationHolds, TrailIsRight, PTL
<1>3. ServicesSpec => [](VerifiedIsProven /\ ReservationKept /\ HalfDoneIsInterrupted)
  BY ServicesImplementEach, VerifiedDomainsAreProven, ReservationsHold, OnlyFailuresLeaveHalf, PTL
<1>4. ServicesSpec => [](RepeatedOnlyIfDisturbed /\ SubscribersAreRight /\ NoticesArrive)
  BY ServicesImplementEach, RepeatsHaveReasons, SubscribersKnow, RaisedNoticesArrive, PTL
<1>5. ServicesSpec => [](OwnCardsOnly /\ ShownIsRecent /\ PaymentShownIsTrue)
  BY ServicesImplementEach, CardsAreOwn, ShownWasTrueRecently, PaymentShownWasTrue, PTL
<1>6. ServicesSpec => [](OverrideKept /\ FlagAgrees /\ PreferenceKept)
  BY ServicesImplementEach, OverridesStay, AnswersAreRight, PreferencesStay, PTL
<1>7. QED
  BY <1>1, <1>2, <1>3, <1>4, <1>5, <1>6, PTL

\* The safety part of KeepsEveryEvent, of the specification that the run checks.
THEOREM ServicesKeepEveryEvent ==
  ServicesSpec => Abstract!ChannelInit /\ [][Abstract!ChannelNext]_Whereabouts
  BY ServicesImplementEach, QueueIsChannel, PTL

\* The type invariant that the run of the services checks: that of the service that runs.
THEOREM ServicesTypeCorrect == ServicesSpec => []ServicesTypeOK
<1>1. ServicesInit => running \in Services
  BY DEF ServicesInit
<1>2. running \in Services /\ [ServicesNext]_vars => (running \in Services)'
  BY StepOfEach
<1>3. /\ running \in Services
      /\ TypeOK /\ KTypeOK /\ ITypeOK /\ ETypeOK /\ ATypeOK /\ CTypeOK /\ STypeOK /\ GTypeOK /\ RTypeOK
      => ServicesTypeOK
  BY DEF ServicesTypeOK, Services
<1>4. ServicesSpec => [](TypeOK /\ KTypeOK /\ ITypeOK /\ ETypeOK /\ ATypeOK)
  BY ServicesImplementEach, MembersTypeCorrect, KeysTypeCorrect, IdentityTypeCorrect,
     EventsTypeCorrect, AnnouncementsTypeCorrect, PTL
<1>5. ServicesSpec => [](CTypeOK /\ STypeOK /\ GTypeOK /\ RTypeOK)
  BY ServicesImplementEach, CardsTypeCorrect, StatusTypeCorrect, FlagsTypeCorrect,
     PreferencesTypeCorrect, PTL
<1>6. QED
  BY <1>1, <1>2, <1>3, <1>4, <1>5, PTL DEF ServicesSpec
=============================================================================
