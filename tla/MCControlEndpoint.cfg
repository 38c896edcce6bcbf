SPECIFICATION Spec
CONSTANTS
  DataLens <- MCDataLens
  ReplyLens <- MCReplyLens
  MaxOuts = 3
INVARIANTS
  SettingsHold
PROPERTIES
  ReplyIsOfLastOut
