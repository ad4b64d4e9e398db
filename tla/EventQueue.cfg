SPECIFICATION FairSpec
CONSTANTS
  MAXFSMEVTS = 3
  Events = {flashOk, crtld, trgfb}
  flashOk = flashOk
  MaxSent = 7
CHECK_DEADLOCK FALSE
INVARIANTS
  HearsUnlessOverwritten
PROPERTIES
  InOrder
  Delivered
  ImplementsMailbox
