SPECIFICATION FairSpec
CONSTANTS
  Enabled = {"loadrd", "snapsys", "rotate"}
  WriteMayFail = TRUE
INVARIANT TypeOK
INVARIANT NobodyMissesStop
INVARIANT ReleasedAlone
INVARIANT DeathNoticed
PROPERTY KeepsProtocol
PROPERTY StopEnds
PROPERTY DeathEnds
PROPERTY RestartEnds
PROPERTY KeepsFairProtocol
CHECK_DEADLOCK FALSE
