CONSTANTS
  p1 = p1
  p2 = p2
  None = None
  Workers <- TwoWorkers
  Producers <- TwoProducers
  Calls <- AllCalls
  CallsOf <- SomeCallsOf
  Elsewhere <- SomeElsewhere
  LowLatency <- AnyLatency
  MaxCalls = 3
SPECIFICATION ProgramSpec
INVARIANTS TypeOK DescNotTorn
PROPERTIES ParallelRegion MailboxForward CallsReturn ShutdownCompletes
