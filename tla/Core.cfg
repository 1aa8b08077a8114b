\* Two posting threads, WAKE_UP and other events, one life of the proxy.
SPECIFICATION Spec
CONSTANTS
  SubHals = {s1, s2}
  WakelockTimeout = 1
  WakeQueueSize = 1
  QueueSize = 1
  MaxPending = 3
  Batches <- MixedBatches
  MaxPosts = 2
  MaxInits = 1
SYMMETRY SubHalSymmetry
INVARIANTS
  TypeOK
  HeldIffCounted
  SingleFmqWriter
  SizeAccounting
  CountCoversOutstanding
\* A proxy with nothing to do and a framework that stays silent just stop.
CHECK_DEADLOCK FALSE
