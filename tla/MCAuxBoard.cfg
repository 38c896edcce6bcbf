SPECIFICATION Spec
CONSTANTS
  OtherBits <- MCOtherBits
  Masks <- MCMasks
  Durations <- MCDurations
  MaxId = 2
  MaxSent = 2
INVARIANTS
  ViewIsCurrent
  NoneUnanswered
PROPERTIES
  AnswersMatch
