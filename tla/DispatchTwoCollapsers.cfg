CONSTANTS
  p1 = p1
  p2 = p2
  None = None
  Workers <- OneWorker
  Producers <- TwoProducers
  Calls <- AllCalls
  CallsOf <- ForCallsOf
  Elsewhere <- Nowhere
  LowLatency <- Throughput
  MaxCalls = 3
SPECIFICATION Spec
PROPERTY StampNotLost
