------------------------------- MODULE PrismDIDs -------------------------------
(***************************************************************************)
(* createPrismDID: the next key path index is computed from the prism DIDs *)
(* in Pluto, the master and issuing keys are derived at that index, and    *)
(* the DID they determine is stored with them, one insert at a time.       *)
(* Creations can overlap, fail and be cut short; Pluto may hold DIDs that  *)
(* a backup restored, whose keys record the index that the backup gives:   *)
(* that of their path, when an application derived them with the index,    *)
(* but 0 when createPrismDID did.                                          *)
(*                                                                         *)
(* A key is the index of its path and its usage; the long-form DID is      *)
(* determined by its keys and services.  The row of a key, which a reader  *)
(* only sees once it is linked, is left to PlutoStore.                     *)
(***************************************************************************)
EXTENDS Naturals, FiniteSets, FiniteSetsExt

CONSTANTS
  Calls,       \* calls of createPrismDID
  Services,    \* the services they may pass
  Explicit,    \* the values of keyPathIndex they may pass
  Default,     \* keyPathIndex left out
  Backups,     \* what a backup may have restored: its DIDs' key paths, and what the keys record
  Overlap,     \* whether a call may begin before the previous one settles
  MaxFaults    \* bound: failed inserts and crashes

ASSUME IndexAssumption ==
  /\ Explicit \subseteq Nat /\ Default \notin Nat
  /\ \A b \in Backups : b \subseteq [path : Nat, recorded : Nat] /\ IsFiniteSet(b)
  /\ MaxFaults \in Nat /\ Overlap \in BOOLEAN

VARIABLES
  restored,  \* the backup this store was restored from: never changes
  dids,      \* the prism DIDs stored
  links,     \* the keys linked to them
  args,      \* of each call
  index,     \* the key path index each call goes by
  step,      \* the await each call is at
  faults

vars == <<restored, dids, links, args, index, step, faults>>

Usages == {"MASTER_KEY", "ISSUING_KEY"}
Key(i, usage) == [path |-> i, usage |-> usage]
DID(i, s) == [path |-> i, services |-> s]

\* A link, and the index that the specification of its key records.
Link(d, usage, recorded) ==
  [did |-> d, key |-> Key(d.path, usage), recorded |-> recorded]

Steps == {"idle", "index", "lookup", "did", "MASTER_KEY", "ISSUING_KEY",
          "returned", "threw", "lost"}
Running == Steps \ {"idle", "returned", "threw", "lost"}

DIDs == [path : Nat, services : Services]
Links == [did : DIDs, key : [path : Nat, usage : Usages], recorded : Nat]

TypeOK ==
  /\ restored \in Backups
  /\ dids \in SUBSET DIDs
  /\ links \in SUBSET Links
  /\ args \in [Calls -> [services : Services, keyPathIndex : Explicit \cup {Default}]]
  /\ index \in [Calls -> Nat]
  /\ step \in [Calls -> Steps]
  /\ faults \in 0..MaxFaults

RestoredDIDs == {DID(k.path, s) : k \in restored, s \in Services}

\* backup() writes the index that the specification of a key records, and
\* restore() sets it again.
RestoredLinks ==
  {Link(DID(k.path, s), u, k.recorded) : k \in restored, s \in Services, u \in Usages}

Init ==
  /\ restored \in Backups
  /\ dids = RestoredDIDs
  /\ links = RestoredLinks
  /\ args \in [Calls -> [services : Services, keyPathIndex : Explicit \cup {Default}]]
  /\ index = [c \in Calls |-> 0]
  /\ step = [c \in Calls |-> "idle"]
  /\ faults = 0

\* One step of call c: control moves on.
Go(c, from, to) == step[c] = from /\ step' = [step EXCEPT ![c] = to]

Begin(c) ==
  /\ Overlap \/ \A b \in Calls : step[b] \notin Running
  /\ Go(c, "idle", "index")
  /\ UNCHANGED <<dids, links, args, index, faults>>

\* Mutant of KeyPathIndex: the latest index itself.
KeyPathIndexLatest(explicit) == Max({l.recorded : l \in links} \cup {0})

\* Mutant of KeyPathIndex: the DIDs stored, rather than their linked keys, decide.
KeyPathIndexOfDIDs(explicit) ==
  IF dids = {} THEN 0 ELSE Max({d.path : d \in dids}) + 1

\* PrismKeyPathIndexTask.  getAllPrismDIDs returns an entry for every link, so
\* a DID that has no key linked is not there; and a first DID is at 0.
KeyPathIndex(explicit) ==
  LET last == Max({l.recorded : l \in links} \cup {0})
  IN  IF links = {} THEN 0
      ELSE IF explicit # Default /\ explicit > last THEN explicit ELSE last + 1

\* The answer of getAllPrismDIDs is in: the index is fixed.
ReadIndex(c) ==
  /\ Go(c, "index", "lookup")
  /\ index' = [index EXCEPT ![c] = KeyPathIndex(args[c].keyPathIndex)]
  /\ UNCHANGED <<dids, links, args, faults>>

NewDID(c) == DID(index[c], args[c].services)

\* storeDID, first looks the DID up ...
LookUpDID(c) ==
  /\ Go(c, "lookup", IF NewDID(c) \in dids THEN "MASTER_KEY" ELSE "did")
  /\ UNCHANGED <<dids, links, args, index, faults>>

\* ... then inserts it, unless another call has since ...
InsertDID(c) ==
  /\ NewDID(c) \notin dids
  /\ Go(c, "did", "MASTER_KEY")
  /\ dids' = dids \cup {NewDID(c)}
  /\ UNCHANGED <<links, args, index, faults>>

InsertConflicts(c) ==
  /\ NewDID(c) \in dids
  /\ Go(c, "did", "threw")
  /\ UNCHANGED <<dids, links, args, index, faults>>

\* createPrivateKey is given the path and no index, which it takes for 0: the
\* specification of the derived key records 0, whatever its path.
RecordedIndex(c) == 0

\* ... and saves and links each key.
LinkKey(c, usage, next) ==
  /\ Go(c, usage, next)
  /\ links' = links \cup {Link(NewDID(c), usage, RecordedIndex(c))}
  /\ UNCHANGED <<dids, args, index, faults>>

LinkMaster(c) == LinkKey(c, "MASTER_KEY", "ISSUING_KEY")

\* Mutant of LinkIssuing: it is the master key that is linked again.
LinkMasterTwice(c) ==
  /\ Go(c, "ISSUING_KEY", "returned")
  /\ links' = links \cup {Link(NewDID(c), "MASTER_KEY", RecordedIndex(c))}
  /\ UNCHANGED <<dids, args, index, faults>>

LinkIssuing(c) == LinkKey(c, "ISSUING_KEY", "returned")

Fault == faults < MaxFaults /\ faults' = faults + 1

\* A query or an insert fails.
Fail(c) ==
  /\ Fault
  /\ step[c] \in Running
  /\ step' = [step EXCEPT ![c] = "threw"]
  /\ UNCHANGED <<dids, links, args, index>>

Crash ==
  /\ Fault
  /\ step' = [c \in Calls |-> IF step[c] \in Running THEN "lost" ELSE step[c]]
  /\ UNCHANGED <<dids, links, args, index>>

Step ==
  \/ Crash
  \/ \E c \in Calls :
       \/ Begin(c) \/ ReadIndex(c) \/ LookUpDID(c) \/ InsertDID(c) \/ InsertConflicts(c)
       \/ LinkMaster(c) \/ LinkIssuing(c) \/ Fail(c)

Next == Step /\ UNCHANGED restored

Spec == Init /\ [][Next]_vars

-----------------------------------------------------------------------------

\* A DID is returned with both its keys linked, also when it was found half
\* stored, or when another call was storing it at the same time.
ReturnedDIDHasKeys ==
  \A c \in Calls : step[c] = "returned" =>
    \A u \in Usages : \E l \in links : l.did = NewDID(c) /\ l.key = Key(index[c], u)

\* A restored key that records the index it was derived at is never derived again
\* for a new DID, whatever else was restored and whatever index is asked for.
RestoredKeysAreNotReused ==
  \A c \in Calls, k \in restored :
    step[c] \in (Running \ {"index"}) \cup {"returned"} /\ k.recorded = k.path
    => index[c] # k.path

\* A creation cut short between the DID and its first key is taken up again by
\* a retry: the same call goes by the same index, and so completes the DID it
\* left, unless another DID has been given that index meanwhile.
CutShortIsTakenUpAgain ==
  \A c \in Calls :
    step[c] \in {"threw", "lost"} /\ NewDID(c) \in dids =>
      \/ \E l \in links : l.did.path = index[c]
      \/ KeyPathIndex(args[c].keyPathIndex) = index[c]

-----------------------------------------------------------------------------
(* What the repository says and the code does not do                       *)

\* CreatePrismDID: "Calculate and use the latest Prism DID KeyPathIndex".  Two
\* creations, one after the other, should not derive the same keys: they do
\* from the second on, because the index read back is always 0.
EachDIDHasItsOwnIndex ==
  \A b, c \in Calls :
    b # c /\ step[b] = "returned" /\ step[c] = "returned" => index[b] # index[c]
==============================================================================
