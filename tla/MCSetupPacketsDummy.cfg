SPECIFICATION Spec
CONSTANTS
  Base = 2
  BlockCounts <- MCOneBlock
  ExplicitCycles <- MCTooManyCycles
  VendorFast = 27
INVARIANTS
  CommandFits
