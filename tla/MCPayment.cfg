SPECIFICATION TimelySpec
CONSTANTS
  Null = Null
  Tenants = {t1}
  Handlers = {h1, h2}
  RestrictAfter = 1
  LockAfter = 2
  MaxAttempts = 2
  MaxDay = 4
  MaxInvoices = 2
  MaxEdits = 1
  MaxFaults = 1
  Horizon = 1
CHECK_DEADLOCK FALSE
INVARIANT TypeOK
INVARIANT GraceRespected
PROPERTY UnpaidIsLocked
