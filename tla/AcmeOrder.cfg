SPECIFICATION Spec
CONSTANTS
  Domains = {d1, d2}
  MaxRetries = 2
SYMMETRY DomainSymmetry
INVARIANTS
  FinishedWithMatchingKey
  IssuedOnce
  AskedWithFile
  AnsweredIsKnown
  Consistent
PROPERTIES
  ImplementsIssueStage
CHECK_DEADLOCK FALSE
