SPECIFICATION YieldSpec
CONSTANTS
  Topics = {"validation"}
  Messages = {"answer", "forward"}
  Handlers = 2
  Channels <- OneChannel
  MaxTroubles = 1
CHECK_DEADLOCK FALSE
INVARIANTS
  
  OneHandlerEach
PROPERTIES
  LossTold
  LossNoticed
