\* The event path alone: batches larger than the FMQ, more posts.
SPECIFICATION Spec
CONSTANTS
  SubHals = {s1, s2}
  WakelockTimeout = 1
  WakeQueueSize = 1
  QueueSize = 2
  MaxPending = 6
  Batches <- PlainBatches
  MaxPosts = 3
  MaxInits = 1
INVARIANTS
  InOrder
PROPERTIES
  ImplementsLossyFifo
\* A proxy with nothing to do and a framework that stays silent just stop.
CHECK_DEADLOCK FALSE
