CONSTANTS
  TaskCount = 2
  HookLevels = 0
  Priority <- SlowPriority
  Period <- SlowPeriod
  Enabled <- SlowEnabled
  PreemptiveEnabled = FALSE
  Ceiling = 0
  LowestPriority = 1
  Half = 5
  MaxPass = 2
  MaxLate = 2
SPECIFICATION TimingSpec
PROPERTY MinimumPeriod
