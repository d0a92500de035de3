SPECIFICATION Spec
CONSTANTS
  Width = 4
  ReduceMaxChunks = 5
  Pools <- SomePools
  Calls <- SomeCalls
INVARIANTS RunsOnce ReductionRight ScanInOrder
