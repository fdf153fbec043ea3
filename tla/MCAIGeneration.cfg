SPECIFICATION Spec
CONSTANTS
  w1 = w1
  w2 = w2
  w3 = w3
  None = None
  Workers <- MCWorkers
  MaxFaults = 4
CHECK_DEADLOCK FALSE
INVARIANTS
  SettledAsPaid
  ProviderCalledOnce
PROPERTIES
  TerminalStays
  Settles
