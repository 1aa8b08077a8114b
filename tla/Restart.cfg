\* A framework that restarts: initialize on a proxy in full swing.
SPECIFICATION Spec
CONSTANTS
  SubHals = {s1, s2}
  WakelockTimeout = 1
  WakeQueueSize = 1
  QueueSize = 1
  MaxPending = 2
  Batches <- TornBatches
  MaxPosts = 2
  MaxInits = 2
SYMMETRY SubHalSymmetry
INVARIANTS
  AssertionsHold
  ClearedSafely
\* A proxy with nothing to do and a framework that stays silent just stop.
CHECK_DEADLOCK FALSE
