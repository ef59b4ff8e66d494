SPECIFICATION Spec
CONSTANTS
  Collectors = {"snapsys"}
  SysFiles = 2
  Keep = 1
  PollMax = 1
  RetryMax = 1
  MaxHour = 3
  LocalHour <- HalfHourZone
  Straddle = {}
  Faults = {}
  Torn = Torn
INVARIANT FiledByHour
