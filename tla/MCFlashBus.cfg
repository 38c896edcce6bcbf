SPECIFICATION Spec
CONSTANTS
  MaxBytes = 16
INVARIANTS
  NoSpuriousSelect
  FramesAreCommands
  NeverFights
