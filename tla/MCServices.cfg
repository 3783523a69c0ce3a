SPECIFICATION ServicesSpec
CONSTANTS
  Null = Null
  Handlers = {h1, h2}
  IHandlers = {h1, h2}
  Invitations = {i1}
  Members = {"m1", "m2", "m3"}
  MTenants = {"t1", "t2"}
  Workers = {w1, w2}
  Events = {e1, e2}
  Domains = {d}
  Users = {u1}
  Plans = {free, p1}
  Free = free
  Keys = {k1}
  Callers = {c1}
  Viewers = {v1}
  Figures = {f}
  Customers = {s1, s2, s3}
  Cards = {c}
  Askers = {r1, r2}
  Owners = {o1, o2}
  Readers = {g1}
  Editors = {b1, b2}
  Channels = {email, sms}
  Sessions = {q1, q2}
  Requests = {h1, h2}
  Tenants = {"t1", "t2"}
  ITenants = {"t1", "t2"}
  TenantLoads = {FALSE, TRUE}
  Slugs = {"a", "b"}
  Expiry = 1
  MaxDay = 3
  MaxOps = 3
  MaxFaults = 1
  MaxEFaults = 2
  MaxKeyOps = 5
  MaxKeyFaults = 1
  MaxAsked = 4
  MaxToggles = 2
  MaxGFaults = 1
  ReserveDays = 1
  MaxIDay = 1
  MaxIOps = 3
  MaxIFaults = 1
  Thresholds = {80, 100}
  MaxChanges = 3
  MaxLost = 1
  MemberLimit = 2
  MaxMembers = 3
  MaxDrifts = 1
  MaxSFaults = 1
  MaxUpdates = 2
  MaxRFaults = 1
INVARIANTS
  ServicesTypeOK
  LastAdminStays SettledIsFinal
  RepeatedOnlyIfDisturbed
  VerifiedIsProven ReservationKept HalfDoneIsInterrupted
  SubscribersAreRight NoticesArrive
  RevokedStaysRevoked TrailAgrees
  ShownIsRecent PaymentShownIsTrue
  OwnCardsOnly
  OverrideKept FlagAgrees
  PreferenceKept
PROPERTIES
  OverdueEnds KeepsEveryEvent
CHECK_DEADLOCK FALSE
