SPECIFICATION FairSpec
CONSTANTS
  None = None
  StaleAfter = 1
  OldAfter = 0
  MaxNow = 2
  MaxBreaks = 1
  MaxWire = 2
CHECK_DEADLOCK FALSE
INVARIANTS
  PageIsCurrent
PROPERTIES
  
  CatchesUp
  OutageNoticed
