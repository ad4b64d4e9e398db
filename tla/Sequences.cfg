SPECIFICATION FairSpec
CONSTANTS
  Names <- MCNames
  EventNames <- MCEventNames
  Pattern <- MCPattern
  PIN_SEQ_MAX_SEQUENCES = 2
  CLK_PIT_MAX_EVENTS = 1
  PIN_EVT_MAX_EVENTS = 1
  Prompt = TRUE
  Timeouts = TRUE
  MaxPush = 3
  MaxFlush = 1
CHECK_DEADLOCK FALSE
INVARIANTS
  OneWaitEach
  NoStrayWait
  InPatternOrder
PROPERTIES
  Carried
