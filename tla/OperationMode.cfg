\* Three sub-HALs that may refuse every call.
SPECIFICATION Spec
CONSTANTS
  SubHalCount = 3
INVARIANTS
  TypeOK
  ModesAgree
PROPERTIES
  NoDataInNormalMode
