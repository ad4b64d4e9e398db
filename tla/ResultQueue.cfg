SPECIFICATION FairSpec
CONSTANTS
  MAX_EXECUTION_MSGS = 4
  MaxQueued = 11
CHECK_DEADLOCK FALSE
INVARIANTS
  DueWhenOwed
  LastWord
PROPERTIES
  InTurn
  AllPosted
