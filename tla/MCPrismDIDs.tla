------------------------------ MODULE MCPrismDIDs ------------------------------
(* What backups restore: nothing; DIDs whose keys an application derived, with  *)
(* the index given; DIDs of createPrismDID, whose keys record 0; some of each.  *)
EXTENDS PrismDIDs

Restored(path, recorded) == [path |-> path, recorded |-> recorded]

MCBackups ==
  {{},
   {Restored(1, 1), Restored(3, 3)},
   {Restored(0, 0), Restored(1, 0)},
   {Restored(2, 2), Restored(1, 0)}}
================================================================================
