CONSTANTS
  c1 = c1
  c2 = c2
  Nobody = Nobody
  NoPool = NoPool
  Callers <- TwoCallers
  Maker = c1
  Waiters <- TwoCallers
  Drivers <- TwoDrivers
  Roles <- AllRoles
  PoolDriver = "dp"
  PinThreads <- AllThreads
  Pools <- BothPools
  GuardMasks = {"slot"}
  Cpus = 4
  Trips = 2
  FailsAt = {"create"}
  MaxTasks = 2
  MaxAwaits = 2
  MaxWaits = 1
  MaxOthers = 2
SPECIFICATION Spec
INVARIANTS ConstructedOrUndone MaskReturned NoUseAfterDestruction FrameOutlivesResume
PROPERTIES BothEndsReturn SyncWaitReturns
