SPECIFICATION Spec
CONSTANTS
  Main = Main
  Setup = Setup
  None = None
  r1 = r1
  r2 = r2
  s1 = s1
  s2 = s2
  Requests <- TwoRequests
  Settings <- TwoSettings
  Stored <- Configured
  EarlyRequests = FALSE
  StoreFaults = TRUE
  StopTimeouts = TRUE
  SlowJobs = FALSE
  StuckWorkers = FALSE
SYMMETRY RequestSymmetry
CHECK_DEADLOCK FALSE
PROPERTIES
  ServiceResumes
