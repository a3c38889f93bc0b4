SPECIFICATION Spec
CONSTANTS
  l1 = l1
  l2 = l2
  m1 = m1
  NoCert = NoCert
  Pipeline <- AlbPipeline
  MaxRetries = 1
  Ops = {o1, o2, o3}
  Legacy = {l1}
  Imports = {}
  Manual = {}
  FirstExpiry <- OneRow
  Arnless = {}
  Nameless = {}
  MaxDay = 3
  Environments <- AloneOrOverlapping
  RunBackports = FALSE
SYMMETRY OpSymmetry
INVARIANTS
  TypeOK
  Served
  NoDangling
  LinkedRowsHaveCerts
  PreviousExists
PROPERTIES
  SuccessRenews
  SuccessRetires
  SuccessServesFresh
  ImplementsLifecycle
CHECK_DEADLOCK FALSE
