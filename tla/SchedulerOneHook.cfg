CONSTANTS
  TaskCount = 3
  HookLevels = 1
  Priority <- OneHookPriority
  Period <- OneHookPeriod
  Enabled <- OneHookEnabled
  PreemptiveEnabled = TRUE
  Ceiling = 0
  LowestPriority = 2
  Half = 4
  MaxPass = 1
  MaxLate = 2
SPECIFICATION FairSpec
INVARIANTS StillDue
PROPERTIES EveryTaskRuns
