SPECIFICATION FairSpec
CONSTANTS
  BlockCounts <- MCBlockCounts
  Zeroed = Zeroed
  Torn = Torn
INVARIANTS
  SlotsInFlight
  DeliveredInOrder
  NoSharedSlot
PROPERTIES
  EventuallyEnds
  TransferSpec
CHECK_DEADLOCK FALSE
