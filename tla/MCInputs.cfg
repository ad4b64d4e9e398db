SPECIFICATION InputsSpec
CONSTANTS
  XIO_MAX_MSGS = 2
  Pushers = {p1, p2}
  Reader = monitoring
  Free = free
  MaxPushed = 4
  MaxOff = 1
  MAX_INPUT_TIMESTAMP = 3
  Pins = {pinA, pinB}
  MaxSets = 4
  MaxFails = 1
  Ports = {port}
  Waiters = 1
  Shared = FALSE
CHECK_DEADLOCK FALSE
PROPERTIES
  Fresh
  
  Detected
