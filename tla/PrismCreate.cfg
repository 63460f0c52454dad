SPECIFICATION Spec
CONSTANTS
  Calls = {c1, c2, c3}
  Services = {s1, s2}
  Explicit = {2, 4}
  Default = Default
  Backups <- MCBackups
  Overlap = TRUE
  MaxFaults = 1
INVARIANTS
  ReturnedDIDHasKeys
  RestoredKeysAreNotReused
  CutShortIsTakenUpAgain
CHECK_DEADLOCK FALSE
