\* What must happen in the end, with a restart.
SPECIFICATION FairSpec
CONSTANTS
  SubHals = {s1}
  WakelockTimeout = 1
  WakeQueueSize = 1
  QueueSize = 1
  MaxPending = 2
  Batches <- SingleBatches
  MaxPosts = 2
  MaxInits = 2
PROPERTIES
  InitializeReturns
  WakeLockReleased
  PendingDrained
\* A proxy with nothing to do and a framework that stays silent just stop.
CHECK_DEADLOCK FALSE
