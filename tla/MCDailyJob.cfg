SPECIFICATION FairSpec
CONSTANTS
  DayLength = 4
  ScheduleOffset = 1
  RetryDelay = 1
  StoreFaults = TRUE
  MaxNow = 10
  MaxRuns = 2
  SlowSteps <- AllSlow
CHECK_DEADLOCK FALSE
INVARIANTS
  JobsSound
PROPERTIES
  RunnerProgresses
