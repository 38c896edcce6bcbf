SPECIFICATION FairSpec
CONSTANTS
  QueueSize = 2
  PayloadLen = 2
  FlushDelay = 1
  Durations <- MCDurations
  Bauds <- MCBauds
  MinBaud = 300
  MaxBaud = 3000000
  DefaultBaud = 115200
  Settable <- MCSettable
  WriteLens <- MCWriteLens
  MaxRequests = 2
  MaxBytes = 4
INVARIANTS
  TypeOK
  BatchArmed
  UartStream
  AcceptedBytesSent
  LastBaudWins
PROPERTIES
  PulseEnds
  BytesLeave
