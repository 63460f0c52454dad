SPECIFICATION Spec
CONSTANTS
  Calls = {c1, c2, c3}
  Services = {s1}
  Explicit = {}
  Default = Default
  Backups = {{}}
  Overlap = FALSE
  MaxFaults = 0
INVARIANT EachDIDHasItsOwnIndex
CHECK_DEADLOCK FALSE
