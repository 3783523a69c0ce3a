SPECIFICATION PlansSpec
CONSTANTS
  Null = Null
  NoPlan = NoPlan
  Catalog = {p1, p2}
  Admins = {a1}
  Priced = {p1, p2}
  PageSize = 1
  MaxEdits = 2
  MaxPFaults = 1
  Handlers = {h1, h2}
  Events = {e1}
  Deltas = {1}
  Accounts <- InTrial
  Plans <- SomePlans
  RedisLimits = {1}
  ConsumerContexts = {FALSE}
  Thresholds = {100}
  MaxAmount = 2
  MonthDays = 1
  MaxDay = 1
  MaxReceives = 2
  MaxAttempts = 2
  MaxOps = 2
  MaxFaults = 1
CHECK_DEADLOCK FALSE
INVARIANT PlansTypeOK
INVARIANT NegativeIsClamped
INVARIANT OvershootBounded
INVARIANT ClearedIsSummarised
INVARIANT WarnedOnce
INVARIANT CacheAgrees
INVARIANT SyncedAgrees
PROPERTY MonthIsSummarised
