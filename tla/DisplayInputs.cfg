CONSTANTS
  Users = {"turning", "pressing", "touching"}
  Positions = 4
  HistoryLen = 4
  IdleTimeout = 3
  Ticks = 6
SPECIFICATION Spec
INVARIANTS TypeOK EncoderFollowsKnob PressIsDebounced
PROPERTIES DarkOnlyWhenIdle IdleGoesDark
