SPECIFICATION Spec
CONSTANTS
  Domains = {d1}
  MaxRetries = 1
INVARIANTS
  InvalidIsDropped
CHECK_DEADLOCK FALSE
