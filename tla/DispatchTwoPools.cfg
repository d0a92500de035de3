CONSTANTS
  p1 = p1
  p2 = p2
  None = None
  Workers <- OneWorker
  Producers <- OneProducer
  Calls <- AllCalls
  CallsOf <- ReduceCallsOf
  Elsewhere <- ReduceCallsOf
  LowLatency <- Throughput
  MaxCalls = 3
SPECIFICATION Spec
INVARIANT CachedIsCurrent
