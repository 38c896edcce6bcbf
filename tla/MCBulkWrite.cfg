SPECIFICATION FairSpec
CONSTANTS
  BlockCounts <- MCBlockCounts
  StartAddresses <- MCStartAddresses
  PageSize = 2
  AddressSpace = 8
  PacketSizes <- MCPacketSizes
  Zeroed = Zeroed
INVARIANTS
  PagesCarryTheirBlock
  PagesInCommandedRange
  NoSharedSlot
PROPERTIES
  EventuallyEnds
  TransferSpec
CHECK_DEADLOCK FALSE
