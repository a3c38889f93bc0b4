SPECIFICATION Spec
CONSTANTS
  l1 = l1
  NoCert = NoCert
  Pipeline <- CdnPipeline
  MaxRetries = 1
  MaxEdits = 1
  Ops = {o1, o2}
  Legacy = {l1}
  Imports = {}
  Manual = {}
  FirstExpiry <- OneRow
  Arnless = {l1}
  Nameless = {l1}
  MaxDay = 3
  Environments <- AloneOrOverlapping
SYMMETRY OpSymmetry
INVARIANTS
  TypeOK
  Served
PROPERTIES
  EditsAreKept
  SuccessRenews
  SuccessRetires
  SuccessServesFresh
CHECK_DEADLOCK FALSE
