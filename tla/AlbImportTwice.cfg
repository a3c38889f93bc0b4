SPECIFICATION Spec
CONSTANTS
  l1 = l1
  l2 = l2
  m1 = m1
  NoCert = NoCert
  Pipeline <- AlbPipeline
  MaxRetries = 1
  Ops = {o1, o2}
  Legacy = {l1}
  Imports = {i1}
  Manual = {}
  FirstExpiry <- OneRow
  Arnless = {}
  Nameless = {}
  MaxDay = 2
  Environments <- OnlyOneByOne
  RunBackports = TRUE
INVARIANTS
  NoDuplicateRows
CHECK_DEADLOCK FALSE
