SPECIFICATION Spec
CONSTANTS
  Collectors = {"loadrd"}
  SysFiles = 2
  Keep = 1
  PollMax = 1
  RetryMax = 1
  MaxHour = 2
  LocalHour <- WholeHourZone
  Straddle = {}
  Faults = {"remove"}
  Torn = Torn
INVARIANT Load5sFiledByHour
INVARIANT HourLockReleased
