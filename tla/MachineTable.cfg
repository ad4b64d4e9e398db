SPECIFICATION Spec
CONSTANTS
  MaxMachines = 2
  Resources = {"zero", "r1"}
  Zero = "zero"
  Null = Null
  MaxOrders = 3
  MaxChanges = 1
  MaxBoots = 1
  MaxUpdates = 1
  MaxFaults = 1
INVARIANTS
  Mirror
  Recoverable
  
CHECK_DEADLOCK FALSE
