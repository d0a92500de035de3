CONSTANTS
  NoCall = NoCall
  Slots <- ThreeSlots
  Pools <- AllPools
  MaxThrows = 2
  WrapAt = 3
SPECIFICATION Spec
INVARIANTS TypeOK ScanIsRight LookbackIsRight
PROPERTIES ImplementsStagedRegion CallsReturn
