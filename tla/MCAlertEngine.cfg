SPECIFICATION Spec
CONSTANTS
  StaleAfter = 2
  ZeroGenerationFor = 2
  VoltageFor = 2
  FrequencyFor = 1
  UnderproductionDays = 2
  RecoveryDays = 1
  DayLength = 1
  MaxNow = 4
  Reports <- SeveralReports
  Causes <- Both
CHECK_DEADLOCK FALSE
INVARIANTS
  StatesSound
  NothingOverdue
PROPERTIES
  ResolvedByTelemetry
