SPECIFICATION FairSpec
CONSTANTS
  Machines = {m1}
  MaxTriggers = 2
  MaxOrders = 1
  MaxToggles = 1
  Timeouts = TRUE
CHECK_DEADLOCK FALSE

  
PROPERTIES
  
  Told
