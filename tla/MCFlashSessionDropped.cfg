SPECIFICATION FairSpec
CONSTANTS
  Erases <- MCErases
  EraseWindow <- MCEraseWindow
  HeadStart = 1
  Settle = 1
  BlockCounts <- MCDataBlocks
  Frequencies <- MCFrequencies
  EraseTime = 3
  ProgramTime = 2
  WipLag = 1
  StaleLag = 1
  PoliteHost = TRUE
PROPERTIES
  TransactionIsDone
