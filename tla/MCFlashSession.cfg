SPECIFICATION FairSpec
CONSTANTS
  Erases <- MCErases
  EraseWindow <- MCEraseWindow
  HeadStart = 1
  Settle = 1
  BlockCounts <- MCTwoBlocks
  Frequencies <- MCFrequencies
  EraseTime = 2
  ProgramTime = 2
  WipLag = 1
  StaleLag = 1
  PoliteHost = FALSE
INVARIANTS
  ChipSelect
  WindowHonoured
  SignalMatchesOp
  ProgramsLand
PROPERTIES
  BusReturned
  QueueSpec
  ClockStable
  ConsumedOpRuns
  PendingOpRuns
  FlashReturned
