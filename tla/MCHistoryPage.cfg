SPECIFICATION PageSpec
CONSTANTS
  MinuteGap = 1
  CloudGap = 4
  Months = 60
  Zones <- SomeZones
  Instants <- TwoInstants
  Searches <- Links
  Shapes = {"none", "holes"}
  MaxEntries = 2
  PageEvents = 2
CHECK_DEADLOCK FALSE
INVARIANTS
  PageSound
  ViewExact
PROPERTIES
  PeriodIsLocal
  EntryKeepsPeriod
