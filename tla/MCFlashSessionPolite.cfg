SPECIFICATION Spec
CONSTANTS
  Erases <- MCErases
  EraseWindow <- MCEraseWindow
  HeadStart = 1
  Settle = 2
  BlockCounts <- MCBlockCounts
  Frequencies <- MCFrequencies
  EraseTime = 3
  ProgramTime = 2
  WipLag = 1
  StaleLag = 2
  PoliteHost = TRUE
INVARIANTS
  ProgramsLand
  ReadsAreFresh
