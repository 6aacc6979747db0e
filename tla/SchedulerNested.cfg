CONSTANTS
  TaskCount = 3
  HookLevels = 2
  Priority <- NestedPriority
  Period <- NestedPeriod
  Enabled <- NestedEnabled
  PreemptiveEnabled = TRUE
  Ceiling = 1
  LowestPriority = 2
  Half = 3
  MaxPass = 1
  MaxLate = 1
SPECIFICATION Spec
INVARIANTS TypeOK StrictPreemption NoReentry ActiveMatchesInterrupted ServedInPriorityOrder
