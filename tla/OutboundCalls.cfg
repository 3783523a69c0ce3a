SPECIFICATION OSpec
CONSTANTS
  Null = Null
  Calls = {c1, c2}
  Services = {campaigns}
  Broker = broker
  MaxOFaults = 0
PROPERTY InternalCallIsSent
CHECK_DEADLOCK FALSE
