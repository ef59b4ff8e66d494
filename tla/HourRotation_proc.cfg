SPECIFICATION Spec
CONSTANTS
  Collectors = {"sresar", "cmdinfo"}
  SysFiles = 2
  Keep = 1
  PollMax = 1
  RetryMax = 1
  MaxHour = 2
  LocalHour <- WholeHourZone
  Straddle = {}
  Faults = {}
  Torn = Torn
INVARIANT TypeOK
INVARIANT FiledByHour
INVARIANT DirectoryThere
INVARIANT RotatedWhenIdle
INVARIANT RotationFindsNewHour
PROPERTY OldestFirst
