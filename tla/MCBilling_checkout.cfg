SPECIFICATION Spec
CONSTANTS
  Null = Null
  TopPlan = 1
  Subs = {s1, s2}
  Handlers = {h1}
  MaxInvoices = 1
  MaxOps = 2
  MaxFaults = 1
SYMMETRY Symmetry
CHECK_DEADLOCK FALSE
INVARIANT CheckoutTakesEffect
