SPECIFICATION FairSpec
CONSTANTS
  Keys = {"ecckey", "ecccrt"}
  None = None
  Absent = Absent
  MaxRotations = 3
  MaxFaults = 2
  MaxBoots = 2
CHECK_DEADLOCK FALSE

  
PROPERTIES
  FirstRestart
  TrialEnds
