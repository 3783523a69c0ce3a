SPECIFICATION FairSpec
CONSTANTS
  Null = Null
  TopPlan = 1
  Subs = {s1}
  Handlers = {h1, h2}
  MaxInvoices = 2
  MaxOps = 2
  MaxFaults = 1
CHECK_DEADLOCK FALSE
INVARIANT TypeOK
INVARIANT RowCoherent
INVARIANT EntitledToPlan
INVARIANT CheckoutNeverLost
PROPERTY PlanConverges
