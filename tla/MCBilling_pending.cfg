SPECIFICATION StrictSpec
CONSTANTS
  Null = Null
  TopPlan = 1
  Subs = {s1}
  Handlers = {h1}
  MaxInvoices = 1
  MaxOps = 4
  MaxFaults = 0
CHECK_DEADLOCK FALSE
PROPERTY PendingDowngradeClears
