SPECIFICATION FairSpec
CONSTANTS
  d1 = d1
  d2 = d2
  None = None
  Devices <- TwoDevices
  Readings <- TwoReadings
  DeviceLimit = 1
  Window = 1
  MaxNow = 1
  MaxFaults = 1
  MaxCrashes = 1
  MaxHandlers = 2
CHECK_DEADLOCK FALSE
INVARIANTS
  RelaySound
  NoLostUpdate
  AckedIsDurable
PROPERTIES
  RegisterSpec
  WakeupServed
