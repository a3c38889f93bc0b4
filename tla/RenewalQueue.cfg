SPECIFICATION FairSpec
CONSTANTS
  Ops = {1, 2, 3}
  Workers = {w1, w2}
  NumStages = 3
  RetriesOf <- MCRetriesOf
  Idle = Idle
  NoOp = NoOp
INVARIANTS
  OneTaskPerOp
  FailedAfterEveryRetry
  NothingForgotten
  InStep
PROPERTIES
  FailedIsFinal
  ImplementsLifecycle
  EveryOperationEnds
  EveryFailureIsAlerted
