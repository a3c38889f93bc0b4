SPECIFICATION Spec
CONSTANTS
  l1 = l1
  l2 = l2
  m1 = m1
  NoCert = NoCert
  Pipeline <- AlbPipeline
  MaxRetries = 1
  Ops = {o1, o2}
  Legacy = {l1, l2}
  Imports = {}
  Manual = {}
  FirstExpiry <- TwoRows
  Arnless = {l2}
  Nameless = {l2}
  MaxDay = 2
  Environments <- OnlyOneByOne
  RunBackports = FALSE
PROPERTIES
  SuccessRenews
CHECK_DEADLOCK FALSE
