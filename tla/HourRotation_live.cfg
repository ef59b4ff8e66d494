SPECIFICATION FairSpec
CONSTANTS
  Collectors = {"snapsys"}
  SysFiles = 2
  Keep = 1
  PollMax = 1
  RetryMax = 1
  MaxHour = 2
  LocalHour <- WholeHourZone
  Straddle = {}
  Faults = {"flap", "remove"}
  Torn = Torn
PROPERTY CollectionEnds
PROPERTY RotationCatchesUp
