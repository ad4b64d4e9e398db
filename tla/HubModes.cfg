SPECIFICATION FairSpec
CONSTANTS
  Tasks = {"deploy", "execute", "console", "fallback"}
  Stimuli = {"buttonBlink", "orderFallback", "orderBootup"}
  MaxStimuli = 2
  MaxBoots = 1
  MaxDrops = 1
  Backlog = 0
CHECK_DEADLOCK FALSE
INVARIANTS
  RunsOnlyConfirmed
  ModeEngaged
  ModeSaved
PROPERTIES
  Settles
