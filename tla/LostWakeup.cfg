\* initialize on a running proxy: do the threads start again?
SPECIFICATION FairSpec
CONSTANTS
  SubHals = {s1}
  WakelockTimeout = 1
  WakeQueueSize = 1
  QueueSize = 1
  MaxPending = 1
  Batches <- TornBatches
  MaxPosts = 0
  MaxInits = 2
PROPERTIES
  ThreadsStartAgain
\* A proxy with nothing to do and a framework that stays silent just stop.
CHECK_DEADLOCK FALSE
