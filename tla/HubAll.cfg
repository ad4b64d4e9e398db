SPECIFICATION Spec
CONSTANTS
  Tasks = {"deploy", "execute", "console", "fallback"}
  Stimuli = {"buttonFixed", "buttonBlink", "orderFallback", "orderBootup", "updateMessage", "setLayout", "eraseLayout"}
  MaxStimuli = 3
  MaxBoots = 1
  MaxDrops = 0
  Backlog = 0
CHECK_DEADLOCK FALSE
INVARIANTS
  OneDriver
  MachinesLeftAlone
  
PROPERTIES
  ErrorRoutes
