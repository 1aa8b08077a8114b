CONSTANTS
  Files <- MCFiles
  Strcoll <- MCStrcoll
SPECIFICATION Spec
INVARIANT TypeOK
INVARIANT OrderSettles
PROPERTY PinsStay
PROPERTY UpdateHashes
