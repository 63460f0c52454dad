SPECIFICATION FairSpec
CONSTANTS
  h = h
  c1 = c1
  k1 = k1
  k2 = k2
  m1 = m1
  Attempts = {r1, r2}
  Backup <- Wallet
  PeerDIDs = {h}
  PrismDIDs = {}
  Aliases = {"OOBConn", "Issuer"}
  Unlinked = Unlinked
  LinkSecret = LinkSecret
  MaxFaults = 1
INVARIANTS
  RestoredIsComplete
  AwaitedRestoreSucceedsOnce
PROPERTIES
  PlutoSpec
  RestoreSettles
CHECK_DEADLOCK FALSE
