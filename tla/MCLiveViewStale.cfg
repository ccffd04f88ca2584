SPECIFICATION FairSpec
CONSTANTS
  None = None
  StaleAfter = 1
  OldAfter = 0
  MaxNow = 2
  MaxBreaks = 0
  MaxWire = 2
CHECK_DEADLOCK FALSE
PROPERTY StaleReachesPage
