SPECIFICATION FairSpec
CONSTANTS
  Main = Main
  Setup = Setup
  None = None
  r1 = r1
  r2 = r2
  s1 = s1
  s2 = s2
  Requests <- OneRequest
  Settings <- TwoSettings
  Stored <- EitherStart
  EarlyRequests = FALSE
  StoreFaults = TRUE
  StopTimeouts = TRUE
  SlowJobs = TRUE
  StuckWorkers = TRUE
CHECK_DEADLOCK FALSE
INVARIANTS
  SettingsInForce
  OneCollector
  ClosedWhenQuiet
PROPERTIES
  CallsEnd
