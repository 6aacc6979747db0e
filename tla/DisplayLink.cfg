CONSTANTS
  CrcUpdate <- Crc16Update
  Noise = {2, 165}
  Interval = 1
  Timeout = 3
  ServiceBytes = 32
  ClockRange = 5
  MaxLate = 1
  MaxFaults = 1
SPECIFICATION Spec
INVARIANTS TypeOK OkMeansAlive LostMeansFault
PROPERTIES SilenceIsNoticed Recovers
