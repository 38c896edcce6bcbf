SPECIFICATION GpioSpec
CONSTANTS
  OtherBits <- MCOtherBits
  Durations <- MCDurations
PROPERTIES
  OverlaySpec
