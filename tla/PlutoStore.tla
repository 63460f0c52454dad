------------------------------ MODULE PlutoStore ------------------------------
(***************************************************************************)
(* Pluto's tables of DIDs, keys and the links between them, under calls    *)
(* that overlap.  The store is asynchronous and has no transactions: a     *)
(* call that stores a DID, a pair or a mediator is a sequence of inserts,  *)
(* and a call that lists DIDs with their keys is a sequence of reads; any  *)
(* of them can be cut short by an error or by the end of the process.      *)
(*                                                                         *)
(* A row is identified by its uuid (for a DID, the DID itself; for a key,  *)
(* a credential or a message, one per object), which the store keeps       *)
(* unique.  A link has a uuid made for it, here the call that inserts it.  *)
(***************************************************************************)
EXTENDS Naturals, Sequences, FiniteSets

CONSTANTS
  Calls,          \* the calls that store something
  Ops,            \* what they may store
  PeerDIDs, PrismDIDs, Aliases,
  Keys,           \* key objects, and other objects with a uuid of their own
  PeerReaders,    \* calls of getAllPeerDIDs
  PrismReaders,   \* calls of getAllPrismDIDs
  KeyReaders,     \* calls of getDIDPrivateKeysByDID
  Alone,          \* the calls made while no other runs, and awaited
  MaxFaults       \* bound: failed inserts and crashes

DIDs == PeerDIDs \cup PrismDIDs
Readers == PeerReaders \cup PrismReaders \cup KeyReaders

\* storeDID(did, keys), storeDIDPair(host, target, alias),
\* storeMediator({ hostDID, mediatorDID, routingDID }), and the storing of one
\* object: storePrivateKey, storeLinkSecret, storeCredential, storeMessage, ...
DIDOps == [kind : {"did"}, did : DIDs, keys : Seq(Keys)]
PairOps == [kind : {"pair"}, host : DIDs, target : DIDs, alias : Aliases]
MediatorOps == [kind : {"mediator"}, host : DIDs, mediator : DIDs, routing : DIDs]
ObjectTables == {"keys", "credentials", "credential-metadata", "messages"}
ObjectOps == [kind : {"object"}, table : ObjectTables, key : Keys]

ASSUME OpsAssumption == Ops \subseteq DIDOps \cup PairOps \cup MediatorOps \cup ObjectOps
ASSUME FaultsAssumption == MaxFaults \in Nat
ASSUME AloneAssumption == Alone \subseteq Calls
ASSUME ReadersAssumption ==
  /\ PrismDIDs \cap PeerDIDs = {}
  /\ PeerReaders \cap PrismReaders = {}
  /\ KeyReaders \cap (PeerReaders \cup PrismReaders) = {}

VARIABLES
  store,    \* the rows
  op,       \* what each call stores
  pos,      \* the row it is at
  absent,   \* whether DIDRepository.save has looked that row up and not found it
  status,   \* of each call: idle, running, returned, threw, or lost with the process
  reads,    \* the state of each reader
  faults    \* failed inserts and crashes so far

callVars == <<store, op, pos, absent, status>>
vars == <<store, op, pos, absent, status, reads, faults>>

-----------------------------------------------------------------------------
(* Rows                                                                    *)

DIDRow(d) == [table |-> "dids", did |-> d]
KeyRow(k) == [table |-> "keys", key |-> k]
KeyLink(d, k, c) == [table |-> "didkey-link", did |-> d, key |-> k, by |-> c]
DIDLink(role, h, t, a, c) ==
  [table |-> "did-link", role |-> role, host |-> h, target |-> t, alias |-> a, by |-> c]

Roles == {"pair", "mediator", "routing"}
NoAlias == "none"

KeyLinks == [table : {"didkey-link"}, did : DIDs, key : Keys, by : Calls]
DIDLinks ==
  [table : {"did-link"}, role : Roles, host : DIDs, target : DIDs,
   alias : Aliases \cup {NoAlias}, by : Calls]
Row ==
  [table : {"dids"}, did : DIDs] \cup [table : ObjectTables, key : Keys]
    \cup KeyLinks \cup DIDLinks

\* The rows a row refers to.
Refs(row) ==
  IF row.table = "didkey-link" THEN {DIDRow(row.did), KeyRow(row.key)}
  ELSE IF row.table = "did-link" THEN {DIDRow(row.host), DIDRow(row.target)}
  ELSE {}

\* Mutant of DIDRows: the last key is left out.
DIDRowsButLast(o, c) ==
  [i \in 1 .. 2 * Len(o.keys) - 1 |->
     IF i = 1 THEN DIDRow(o.did)
     ELSE IF i % 2 = 0 THEN KeyRow(o.keys[i \div 2])
     ELSE KeyLink(o.did, o.keys[i \div 2], c)]

\* The inserts of a call, in order: the DID, then each key and its link.
DIDRows(o, c) ==
  [i \in 1 .. 1 + 2 * Len(o.keys) |->
     IF i = 1 THEN DIDRow(o.did)
     ELSE IF i % 2 = 0 THEN KeyRow(o.keys[i \div 2])
     ELSE KeyLink(o.did, o.keys[i \div 2], c)]

\* Mutant of PairRows: the link is inserted before its DIDs are saved.
PairRowsLinkFirst(o, c) ==
  <<DIDLink("pair", o.host, o.target, o.alias, c), DIDRow(o.host), DIDRow(o.target)>>

PairRows(o, c) ==
  <<DIDRow(o.host), DIDRow(o.target), DIDLink("pair", o.host, o.target, o.alias, c)>>

\* Mutant of MediatorRows: the routing link is forgotten.
MediatorRowsNoRouting(o, c) ==
  <<DIDRow(o.host), DIDRow(o.mediator), DIDRow(o.routing),
    DIDLink("mediator", o.host, o.mediator, NoAlias, c)>>

MediatorRows(o, c) ==
  <<DIDRow(o.host), DIDRow(o.mediator), DIDRow(o.routing),
    DIDLink("mediator", o.host, o.mediator, NoAlias, c),
    DIDLink("routing", o.host, o.routing, NoAlias, c)>>

ObjectRows(o) == <<[table |-> o.table, key |-> o.key]>>

RowsOf(o, c) ==
  IF o.kind = "did" THEN DIDRows(o, c)
  ELSE IF o.kind = "pair" THEN PairRows(o, c)
  ELSE IF o.kind = "mediator" THEN MediatorRows(o, c)
  ELSE ObjectRows(o)

Rows(c) == RowsOf(op[c], c)
At(c) == Rows(c)[pos[c]]

-----------------------------------------------------------------------------

Statuses == {"idle", "running", "returned", "threw", "lost"}
ReadSteps == {"idle", "links", "keys", "done", "broken"}
Read ==
  [at : ReadSteps, scope : SUBSET DIDs, left : SUBSET DIDs, links : SUBSET KeyLinks,
   result : SUBSET (DIDs \X Keys), since : SUBSET Calls]
NoRead ==
  [at |-> "idle", scope |-> {}, left |-> {}, links |-> {}, result |-> {}, since |-> {}]
NoOp == [kind |-> "none"]

TypeOK ==
  /\ store \in SUBSET Row
  /\ op \in [Calls -> Ops \cup {NoOp}]
  /\ pos \in [Calls -> Nat \ {0}]
  /\ absent \in [Calls -> BOOLEAN]
  /\ status \in [Calls -> Statuses]
  /\ reads \in [Readers -> Read]
  /\ faults \in 0..MaxFaults

Init ==
  /\ store = {}
  /\ op = [c \in Calls |-> NoOp] /\ pos = [c \in Calls |-> 1]
  /\ absent = [c \in Calls |-> FALSE] /\ status = [c \in Calls |-> "idle"]
  /\ reads = [r \in Readers |-> NoRead]
  /\ faults = 0

-----------------------------------------------------------------------------
(* Calls that store                                                        *)

Begin(c) ==
  /\ status[c] = "idle"
  /\ \A b \in Calls : status[b] = "running" => {b, c} \cap Alone = {}
  /\ \E o \in Ops : op' = [op EXCEPT ![c] = o]
  /\ status' = [status EXCEPT ![c] = "running"]
  /\ UNCHANGED <<store, pos, absent, reads, faults>>

\* The call has a row left to deal with.
Busy(c) == status[c] = "running" /\ pos[c] <= Len(Rows(c))

Advance(c) ==
  /\ pos' = [pos EXCEPT ![c] = @ + 1]
  /\ absent' = [absent EXCEPT ![c] = FALSE]

Throw(c) ==
  /\ status' = [status EXCEPT ![c] = "threw"]
  /\ absent' = [absent EXCEPT ![c] = FALSE]
  /\ UNCHANGED <<store, op, pos>>

\* Mutant of LookUp: the DID is inserted whatever the lookup finds.
LookUpIgnored(c) ==
  /\ Busy(c) /\ At(c).table = "dids" /\ ~absent[c]
  /\ absent' = [absent EXCEPT ![c] = TRUE]
  /\ UNCHANGED <<store, op, pos, status, reads, faults>>

\* DIDRepository.save looks the DID up and has nothing to do when it is there.
LookUp(c) ==
  /\ Busy(c) /\ At(c).table = "dids" /\ ~absent[c]
  /\ IF At(c) \in store
     THEN Advance(c)
     ELSE absent' = [absent EXCEPT ![c] = TRUE] /\ pos' = pos
  /\ UNCHANGED <<store, op, status, reads, faults>>

\* The insert of a row that needs no lookup, or whose lookup found nothing.
Inserting(c) == Busy(c) /\ (At(c).table = "dids" => absent[c])

Insert(c) ==
  /\ Inserting(c)
  /\ At(c) \notin store
  /\ store' = store \cup {At(c)}
  /\ Advance(c)
  /\ UNCHANGED <<op, status, reads, faults>>

\* Its uuid has been taken: by a call that has saved the same DID since the
\* lookup, or by a key object saved before.
InsertConflicts(c) ==
  /\ Inserting(c)
  /\ At(c) \in store
  /\ Throw(c)
  /\ UNCHANGED <<reads, faults>>

Fault == faults < MaxFaults /\ faults' = faults + 1

InsertFails(c) ==
  /\ Fault
  /\ Inserting(c)
  /\ Throw(c)
  /\ UNCHANGED reads

Return(c) ==
  /\ status[c] = "running" /\ pos[c] > Len(Rows(c))
  /\ status' = [status EXCEPT ![c] = "returned"]
  /\ UNCHANGED <<store, op, pos, absent, reads, faults>>

\* The process ends between two inserts; the rows stay.
Crash ==
  /\ Fault
  /\ status' = [c \in Calls |-> IF status[c] = "running" THEN "lost" ELSE status[c]]
  /\ absent' = [c \in Calls |-> FALSE]
  /\ reads' = [r \in Readers |-> NoRead]
  /\ UNCHANGED <<store, op, pos>>

-----------------------------------------------------------------------------
(* Calls that read                                                         *)

Continue(r, at, left, links, result) ==
  reads' = [reads EXCEPT ![r] =
    [at |-> at, scope |-> @.scope, left |-> left, links |-> links, result |-> result,
     since |-> @.since]]

\* The DIDs a reader may be after.
Scopes(r) ==
  IF r \in PeerReaders THEN {PeerDIDs}
  ELSE IF r \in PrismReaders THEN {PrismDIDs}
  ELSE {{d} : d \in DIDs}

\* The first query, of the DIDs of a method; getDIDPrivateKeysByDID is given
\* its DID and does without.
BeginRead(r) ==
  /\ reads[r].at \in {"idle", "done", "broken"}
  /\ \E scope \in Scopes(r) :
       LET found == IF r \in KeyReaders THEN scope ELSE {d \in scope : DIDRow(d) \in store}
       IN  reads' = [reads EXCEPT ![r] =
             [at |-> IF r \in PrismReaders /\ found = {} THEN "done" ELSE "links",
              scope |-> scope, left |-> found, links |-> {}, result |-> {},
              since |-> {c \in Calls : status[c] = "returned"}]]
  /\ UNCHANGED <<callVars, faults>>

LinksOf(ds) == {l \in store : l.table = "didkey-link" /\ l.did \in ds}

\* getAllPeerDIDs and getDIDPrivateKeysByDID: every link in one query.
ReadLinks(r) ==
  /\ r \notin PrismReaders
  /\ reads[r].at = "links"
  /\ Continue(r, "keys", {}, LinksOf(reads[r].left), {})
  /\ UNCHANGED <<callVars, faults>>

Resolved(l) == {DIDRow(l.did), KeyRow(l.key)} \subseteq store

\* Then every key of those links; a link whose key is not found is passed over.
ReadKeys(r) ==
  /\ r \notin PrismReaders
  /\ reads[r].at = "keys"
  /\ Continue(r, "done", {}, {},
              {<<l.did, l.key>> : l \in {x \in reads[r].links : KeyRow(x.key) \in store}})
  /\ UNCHANGED <<callVars, faults>>

\* getAllPrismDIDs: the links of one DID at a time ...
ReadPrismLinks(r) ==
  /\ r \in PrismReaders
  /\ reads[r].at = "links"
  /\ \E d \in reads[r].left :
       Continue(r, "keys", reads[r].left \ {d}, LinksOf({d}), reads[r].result)
  /\ UNCHANGED <<callVars, faults>>

\* ... then the DID and the key of each ("PrismDID not found" without).
ReadPrismKeys(r) ==
  /\ r \in PrismReaders
  /\ reads[r].at = "keys"
  /\ IF \A l \in reads[r].links : Resolved(l)
     THEN Continue(r, IF reads[r].left = {} THEN "done" ELSE "links", reads[r].left, {},
                   reads[r].result \cup {<<l.did, l.key>> : l \in reads[r].links})
     ELSE Continue(r, "broken", {}, {}, {})
  /\ UNCHANGED <<callVars, faults>>

\* A query fails.
ReadFails(r) ==
  /\ Fault
  /\ reads[r].at \in {"links", "keys"}
  /\ reads' = [reads EXCEPT ![r] = NoRead]
  /\ UNCHANGED callVars

Next ==
  \/ Crash
  \/ \E c \in Calls :
       \/ Begin(c) \/ LookUp(c) \/ Insert(c) \/ InsertConflicts(c) \/ InsertFails(c)
       \/ Return(c)
  \/ \E r \in Readers :
       \/ BeginRead(r) \/ ReadLinks(r) \/ ReadKeys(r) \/ ReadPrismLinks(r)
       \/ ReadPrismKeys(r) \/ ReadFails(r)

Spec == Init /\ [][Next]_vars

-----------------------------------------------------------------------------
(* What is in the store, whatever overlaps, fails or is cut short          *)

\* A link never precedes what it links: the DIDs and keys it names are stored.
LinksAreGrounded == \A row \in store : Refs(row) \subseteq store

\* So getAllPrismDIDs, which throws on a link whose key it cannot find, never
\* throws because of a creation under way or one that was cut short.
PrismReadsNeverBreak == \A r \in PrismReaders : reads[r].at # "broken"

\* A call that returned before a read began is read in full: the DID has every
\* key it was stored with, whatever else is being stored meanwhile.
ReadIsComplete ==
  \A r \in Readers : reads[r].at = "done" =>
    \A c \in reads[r].since :
      op[c].kind = "did" /\ op[c].did \in reads[r].scope =>
        \A i \in DOMAIN op[c].keys : <<op[c].did, op[c].keys[i]>> \in reads[r].result

\* getAllMediators throws on a host with one of the two links: only while some
\* storeMediator of that host has yet to return, or never will.
LinkRoles(h) == {l.role : l \in {x \in store : x.table = "did-link" /\ x.host = h}}
HalfRecord(h) == LinkRoles(h) \cap {"mediator", "routing"} \notin {{}, {"mediator", "routing"}}

MediatorsReadable ==
  \A h \in DIDs : HalfRecord(h) =>
    \E c \in Calls :
      op[c].kind = "mediator" /\ op[c].host = h /\ status[c] # "returned"

\* An object that c saves has been saved under the same uuid, or is by c itself.
SavedBefore(c) ==
  \E b \in {x \in Calls : status[x] # "idle"}, i \in DOMAIN Rows(c) :
    /\ Rows(c)[i].table \in ObjectTables
    /\ \E j \in DOMAIN Rows(b) : <<b, j>> # <<c, i>> /\ Rows(b)[j] = Rows(c)[i]

\* Storing a DID again is no error (DIDs are shared by pairs and mediators, and
\* stored again by a retry): a call that no other overlaps throws only when an
\* insert fails, or when it saves an object that has been saved.
StoringAgainIsNoError ==
  faults = 0 => \A c \in Alone : status[c] = "threw" => SavedBefore(c)
==============================================================================
