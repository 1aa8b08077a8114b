\* Two sub-HALs' reports against each other and against a second initialize.
SPECIFICATION FairSpec
CONSTANTS
  l1 = l1
  l2 = l2
  l3 = l3
  Locals <- AllLocals
  IndexValues = 4
  SubHalCount = 2
  StaticSensors <- Static
  Reportables <- Reported
  MaxReports = 3
  MaxInits = 3
INVARIANTS
  TypeOK
  FrameworkInformed
  DisconnectsKnown
  InactiveWhenCleared
PROPERTIES
  EverybodyGetsOn
  ImplementsNotices
\* With all reports made and a framework that does nothing the system just stops.
CHECK_DEADLOCK FALSE
