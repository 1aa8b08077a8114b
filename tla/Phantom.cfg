\* Does mSensors hold non-dynamic sensors only?
SPECIFICATION Spec
CONSTANTS
  l1 = l1
  l2 = l2
  l3 = l3
  Locals <- AllLocals
  IndexValues = 4
  SubHalCount = 2
  StaticSensors <- Static
  Reportables <- Reported
  MaxReports = 1
  MaxInits = 2
INVARIANTS
  OnlyStaticSensors
\* With all reports made and a framework that does nothing the system just stops.
CHECK_DEADLOCK FALSE
