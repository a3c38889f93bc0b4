SPECIFICATION Spec
CONSTANTS
  l1 = l1
  l2 = l2
  m1 = m1
  NoCert = NoCert
  Pipeline <- AlbPipeline
  MaxRetries = 1
  Ops = {o1, o2}
  Legacy = {l1}
  Imports = {}
  Manual = {}
  FirstExpiry <- OneRow
  Arnless = {}
  Nameless = {}
  MaxDay = 2
  Environments <- OnlyOverlappingAndLosing
  RunBackports = FALSE
INVARIANTS
  Served
CHECK_DEADLOCK FALSE
