SPECIFICATION FairSpec
CONSTANTS
  Null = Null
  Undef = Undef
  Handlers = {h1}
  Grace = 1
  MaxAttempts = 2
  TenantLoads = {FALSE}
  MaxDay = 2
  MaxOps = 1
  MaxFaults = 0
CHECK_DEADLOCK FALSE
PROPERTY RequestedDeletionHappens
