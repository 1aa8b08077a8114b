\* Three libraries that may fail to load, a top byte whose lower half just numbers them.
SPECIFICATION Spec
CONSTANTS
  Locals = {l1, l2}
  IndexValues = 6
  Libraries = 3
  Reports <- SensorReports
INVARIANTS
  TypeOK
  HandlesLeadHome
  DirectChannelOfOne
  DirectReportsGoHome
  CallsGoHome
\* A framework that asks for nothing more just stops.
CHECK_DEADLOCK FALSE
