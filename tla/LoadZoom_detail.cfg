SPECIFICATION Spec
CONSTANTS
  RingSize = 3
  Level = 3
  Baselines <- TwoProcessors
  Period = 5
  Actives = {0, 40}
  FirstLoads = {0}
  Garbage <- AnyGarbage
  GarbageZooms <- SomeZoomed
  PartitionMayFill = FALSE
  Prompt = TRUE
  MaxSec = 25
INVARIANT ZoomHasDetail
CHECK_DEADLOCK FALSE
