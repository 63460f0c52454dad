SPECIFICATION FairSpec
INVARIANTS NothingPassesUndecryptable
PROPERTIES InboxSpec AnnouncedInOrder QueuedIsFetched
CONSTANTS
  Loops = {l1}
  Pushes = {p1}
  Limit = 2
  MaxMessages = 5
  MaxFaults = 1
  Undecryptable = {4}
