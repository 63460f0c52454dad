SPECIFICATION BackupSpec
CONSTANTS
  p1 = p1
  p2 = p2
  p3 = p3
  q1 = q1
  k1 = k1
  k2 = k2
  k3 = k3
  k4 = k4
  Unlinked = Unlinked
  PrismDIDs = {q1}
  Keys = {k1, k2, k3, k4}
  Aliases = {"OOBConn"}
  MaxFaults = 1
  PeerDIDs = {p1, p2, p3}
  Calls = {c1, c2, c3}
  Alone = {c3}
  Ops <- AllOps
  PeerReaders = {r1}
  PrismReaders = {r2}
  KeyReaders = {r3}
INVARIANTS
  LinksAreGrounded
  MediatorsReadable
  StoringAgainIsNoError
  ReadIsComplete
  BackupIsComplete
CONSTRAINTS ReadersMeetCreations BackupMeetsCalls
CHECK_DEADLOCK FALSE
