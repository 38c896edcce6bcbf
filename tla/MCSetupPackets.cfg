SPECIFICATION Spec
CONSTANTS
  Base = 3
  BlockCounts <- MCBlockCounts
  ExplicitCycles <- MCCycles
  VendorFast = 27
INVARIANTS
  ReadsAsAsked
  PagesAsAsked
