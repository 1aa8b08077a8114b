CONSTANTS
  Configs = {"adb", "mtp", "mtp,adb", "ptp", "ptp,adb", "rndis", "rndis,adb", "mass_storage", "mass_storage,adb", "bicr", "bicr,adb"}
  AcmRequests = {"acm_gs0", "acm_gs1", "acm_gs2", "acm_gs3", "acm_gs0gs1", "acm_gs0gs3", "acm_gs1gs3"}
  Aliases = {"mass_storage,adb,acm", "acm_third", "gs3", "mtp,gs3", "mtp,gs0gs1", "gs0gs1", "rndis,gs0gs1", "rndis,adb,gs0gs1", "gs3,dual_acm", "mtp,gs3,dual_acm", "mtp,gs0gs3", "gs0gs3", "rndis,gs0gs3", "rndis,adb,gs0gs3", "gs1gs3", "mtp,gs1gs3", "rndis,gs1gs3"}
  PortIndexes = {"0", "1", "2", "3", "4", "1,4"}
  Requests = {"charging_yes", "charging_no"}
  MaxRequests = 3
  Hasty <- MCHasty
SPECIFICATION Spec
INVARIANT TypeOK
INVARIANT AsAsked
INVARIANT AnnouncedWhenBound
INVARIANT NeverMixed
PROPERTY Settles
\* Once nobody asks for anything any more, nothing happens.
CHECK_DEADLOCK FALSE
