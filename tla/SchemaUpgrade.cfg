SPECIFICATION Spec
CONSTANTS
  Builds = {b1, b2, b3}
  MaxAtOnce = 2
  Downgrades = {d1}
  Versions = {5, 7}
  FirstRevisions = {0}
  Certificates = {c1}
  Nobody = Nobody
SYMMETRY BuildSymmetry
INVARIANTS
  TypeOK
  WorkerFits
  SchemaFollowsRevision
  SuccessUpgradesBoth
  OldRowsAreCopied
CHECK_DEADLOCK FALSE
