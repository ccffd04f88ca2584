SPECIFICATION FairSpec
CONSTANTS
  None = None
  normal = normal
  waiting = waiting
  PollInterval = 1
  StaleAfter = 1
  RetryMin = 1
  RetryMax = 3
  MinuteLength = 2
  StoreFaults = TRUE
  MaxNow = 3
  MaxRuns = 2
  Statuses <- TwoStatuses
  Faults <- NoAlarm
  RestartKinds <- BothRestarts
CHECK_DEADLOCK FALSE
INVARIANTS
  StateTruthful
  NoSilentLoss
  BackoffExponential
  MonitorInformed
PROPERTIES
  OwnExpiryNoticed
  CancelStops
