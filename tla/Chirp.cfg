CONSTANTS
  Frequencies = {0, 2, 3}
  Durations = {0, 1, 4, 5}
  MicrosPerSecond = 12
  MillisPerSecond = 6
  ClockRange = 26
  MaxLate = 5
  MaxRequests = 2
SPECIFICATION Spec
INVARIANTS TypeOK SilentWhenDone NotTooFast
PROPERTIES LastsWholeTone EndsSilent
