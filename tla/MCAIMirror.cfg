SPECIFICATION Spec
CONSTANTS
  Workers = {"w1", "w2", "w3"}
  MaxFaults = 3
PROPERTY ServedOrRepaid
CHECK_DEADLOCK FALSE
