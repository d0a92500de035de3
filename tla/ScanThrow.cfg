CONSTANTS
  NoCall = NoCall
  Slots <- ThreeSlots
  Pools <- ThrowingPools
  MaxThrows = 1
  WrapAt = 3
SPECIFICATION Spec
PROPERTY ImplementsStagedRegion
CHECK_DEADLOCK FALSE
