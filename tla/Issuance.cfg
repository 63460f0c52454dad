SPECIFICATION Spec
CONSTANTS
  Calls = {c1, c2, c3}
  Threads = {t1, t2}
  AnonCreds = {t1}
  Uuids = {1, 2}
  Copies = 2
  MaxFaults = 1
  None = None
  Earlier = Earlier
INVARIANTS
  RequestIsBacked
  IssuedIsProcessable
  CredentialsArePresentable
  RevocationIsThorough
SYMMETRY CallSymmetry
CHECK_DEADLOCK FALSE
