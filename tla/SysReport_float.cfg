SPECIFICATION ReaderSpec
CONSTANTS
  MinutesPerHour = 2
  Seconds = {0, 1}
  Intervals = {1}
  MaxMinute = 2
  NoFile = NoFile
  Step = 4
  Offsets = {0, 1}
  SysFiles <- TwoFiles
  FloatFiles = {"b"}
  Slots = 3
  RebootTimes = {2, 4, 5, 8, 10}
  MaxReboots = 2
  Rounds = 5
  Starts = {1, 13}
  Lag = 1
  HourParts = 2
  ZoneShift = 0
  MaxTime = 5
INVARIANT OwnReading
CHECK_DEADLOCK FALSE
