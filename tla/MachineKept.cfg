SPECIFICATION Spec
CONSTANTS
  MaxMachines = 2
  Resources = {"zero", "r1"}
  Zero = "zero"
  Null = Null
  MaxOrders = 3
  MaxChanges = 0
  MaxBoots = 0
  MaxUpdates = 0
  MaxFaults = 0
INVARIANTS
  ReadyToBeFixed
CHECK_DEADLOCK FALSE
