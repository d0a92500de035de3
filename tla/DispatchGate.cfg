SPECIFICATION FairSpec
CONSTANTS
  Threads = {"lat", "thr", "thr2", "bck"}
  Lane <- EachLane
  Scoped = {"lat"}
  OneProducer = TRUE
  MaxCalls = 1
INVARIANTS TypeOK OneDispatch NoneStranded LaneOrder
PROPERTIES GateOpens
