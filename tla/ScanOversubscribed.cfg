SPECIFICATION Spec
CONSTANTS
  Width = 4
  ReduceMaxChunks = 5
  Pools <- OversubscribedPools
  Calls <- ScanCalls
INVARIANT ScanInOrder
