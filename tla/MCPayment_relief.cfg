SPECIFICATION TimelySpec
CONSTANTS
  Null = Null
  Tenants = {t1}
  Handlers = {h1}
  RestrictAfter = 1
  LockAfter = 2
  MaxAttempts = 2
  MaxDay = 4
  MaxInvoices = 2
  MaxEdits = 0
  MaxFaults = 0
  Horizon = 4
CHECK_DEADLOCK FALSE
PROPERTY OnlyPaymentRelieves
