SPECIFICATION JobsSpec
CONSTANTS
  Null = Null
  Undef = Undef
  Handlers = {h1, h2}
  Grace = 1
  MaxAttempts = 2
  TenantLoads = {FALSE, TRUE}
  MaxDay = 2
  MaxOps = 3
  MaxFaults = 1
CHECK_DEADLOCK FALSE
INVARIANT TypeOK
INVARIANT DeletedAfterGrace
INVARIANT OneWorkerPerJob
PROPERTY DueJobsEnd
