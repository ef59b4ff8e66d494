SPECIFICATION FairSpec
CONSTANTS
  RingSize = 3
  Level = 3
  Baselines <- TwoProcessors
  Period = 1
  Actives = {0, 40}
  FirstLoads = {8000}
  Garbage <- AnyGarbage
  GarbageZooms <- SomeZoomed
  PartitionMayFill = TRUE
  Prompt = FALSE
  MaxSec = 4
INVARIANT TypeOK
INVARIANT Load5sIsActive
INVARIANT SustainedZoom
INVARIANT ZoomsSpaced
INVARIANT ZoomPending
PROPERTY ZoomAnswered
CHECK_DEADLOCK FALSE
