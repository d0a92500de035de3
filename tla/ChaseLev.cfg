CONSTANTS
  Thieves = {h1, h2}
  InitCap = 2
  Reserves = {6}
  MaxPush = 4
SPECIFICATION Spec
INVARIANTS TypeOK ArraysLive
PROPERTIES ImplementsTaskDeque MissesNothing
