SPECIFICATION FairSpec
CONSTANTS
  Workers = {1, 2}
  Threads <- TwoThreads
  Owner = t1
  Nobody = Nobody
  t1 = t1
  t2 = t2
  KindsOf <- ForRed
  MaxCalls = 2
  MaxScopes = 1
  Far = 0
INVARIANTS TypeOK LeftBehindIsOwed ScopeKeepsAwake
PROPERTIES NobodyInTheFrame CallsReturn ScopeOpens ShutdownCompletes
