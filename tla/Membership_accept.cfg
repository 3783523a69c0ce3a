SPECIFICATION Spec
CONSTANTS
  Null = Null
  Handlers = {h1, h2}
  Invitations = {i1}
  Members = {m1}
  MTenants = {t1}
  Expiry = 1
  MaxDay = 3
  MaxOps = 3
  MaxFaults = 0
INVARIANT AcceptedJoins
CHECK_DEADLOCK FALSE
