--------------------------- MODULE PlutoStoreProofs ---------------------------
(***************************************************************************)
(* The rows of a call refer only to rows that the same call deals with     *)
(* earlier, and rows are never deleted: so links are grounded, whatever    *)
(* overlaps or is cut short, and readers find what had been stored.        *)
(***************************************************************************)
EXTENDS Backup, SequenceTheorems, TLAPS

-----------------------------------------------------------------------------
(* The rows of a call                                                      *)

\* What the rows of each table refer to.
LEMMA RefsOf ==
  /\ \A d : Refs(DIDRow(d)) = {}
  /\ \A k : Refs(KeyRow(k)) = {}
  /\ \A d, k, c : Refs(KeyLink(d, k, c)) = {DIDRow(d), KeyRow(k)}
  /\ \A r, h, t, a, c : Refs(DIDLink(r, h, t, a, c)) = {DIDRow(h), DIDRow(t)}
BY DEF Refs, DIDRow, KeyRow, KeyLink, DIDLink

\* The rows of the i-th key are at 2 * i and 2 * i + 1.
LEMMA Halves ==
  \A i \in Nat : /\ (2 * i) % 2 = 0 /\ (2 * i) \div 2 = i
                 /\ (2 * i + 1) % 2 # 0 /\ (2 * i + 1) \div 2 = i
OBVIOUS

\* storeDID deals with the DID first, and with each key right before its link.
LEMMA DIDRowsShape ==
  ASSUME NEW o \in DIDOps, NEW c \in Calls
  PROVE  /\ DIDRows(o, c) \in Seq(Row)
         /\ Len(DIDRows(o, c)) = 1 + 2 * Len(o.keys)
         /\ DIDRows(o, c)[1] = DIDRow(o.did)
         /\ \A i \in DOMAIN o.keys :
              /\ 2 * i \in 2..Len(DIDRows(o, c)) /\ 2 * i + 1 \in 1..Len(DIDRows(o, c))
              /\ DIDRows(o, c)[2 * i] = KeyRow(o.keys[i])
              /\ DIDRows(o, c)[2 * i + 1] = KeyLink(o.did, o.keys[i], c)
         /\ \A n \in 1..Len(DIDRows(o, c)) :
              n = 1 \/ \E i \in DOMAIN o.keys : n = 2 * i \/ n = 2 * i + 1
<1> DEFINE n == 1 + 2 * Len(o.keys)
           S == DIDRows(o, c)
<1>1. /\ o.keys \in Seq(Keys) /\ o.did \in DIDs
      /\ Len(o.keys) \in Nat /\ DOMAIN o.keys = 1..Len(o.keys)
      /\ \A i \in 1..Len(o.keys) : o.keys[i] \in Keys
  BY DEF DIDOps
<1>2. \A i \in 1..n :
        S[i] = IF i = 1 THEN DIDRow(o.did)
               ELSE IF i % 2 = 0 THEN KeyRow(o.keys[i \div 2])
               ELSE KeyLink(o.did, o.keys[i \div 2], c)
  BY <1>1 DEF DIDRows
<1>3. \A i \in 1..n : i = 1 \/ i \div 2 \in 1..Len(o.keys)
  BY <1>1
<1>4. ASSUME NEW i \in 1..n
      PROVE  S[i] \in Row
  <2>1. DIDRow(o.did) \in Row
    BY <1>1 DEF DIDRow, Row
  <2>2. ASSUME NEW k \in 1..Len(o.keys)
        PROVE  KeyRow(o.keys[k]) \in Row /\ KeyLink(o.did, o.keys[k], c) \in Row
    BY <1>1 DEF KeyRow, KeyLink, KeyLinks, Row, ObjectTables
  <2> HIDE DEF S, n
  <2> QED
    BY <1>2, <1>3, <2>1, <2>2
<1>5. S \in [1..n -> Row] /\ n \in Nat
  <2>1. S = [i \in 1..n |-> S[i]] /\ n \in Nat
    BY <1>1 DEF DIDRows
  <2> HIDE DEF S, n
  <2> QED
    BY <1>4, <2>1
<1>6. S \in Seq(Row) /\ Len(S) = n
  BY <1>5
<1>7. ASSUME NEW i \in DOMAIN o.keys
      PROVE  /\ i \in Nat
             /\ 2 * i \in 1..n /\ 2 * i \in 2..n /\ 2 * i # 1
             /\ 2 * i + 1 \in 1..n /\ 2 * i + 1 # 1
  BY <1>1
<1>8. ASSUME NEW i \in DOMAIN o.keys
      PROVE  S[2 * i] = KeyRow(o.keys[i]) /\ S[2 * i + 1] = KeyLink(o.did, o.keys[i], c)
  <2>1. /\ 2 * i \in 1..n /\ 2 * i # 1 /\ (2 * i) % 2 = 0 /\ (2 * i) \div 2 = i
        /\ 2 * i + 1 \in 1..n /\ 2 * i + 1 # 1 /\ (2 * i + 1) % 2 # 0 /\ (2 * i + 1) \div 2 = i
    <3> HIDE DEF n
    <3> QED
      BY <1>7, Halves
  <2> HIDE DEF S, n
  <2> QED
    BY <1>2, <2>1
<1>9. ASSUME NEW m \in 1..n, m # 1
      PROVE  \E i \in DOMAIN o.keys : m = 2 * i \/ m = 2 * i + 1
  <2>1. m \div 2 \in DOMAIN o.keys
    BY <1>1, <1>3, <1>9
  <2>2. m = 2 * (m \div 2) \/ m = 2 * (m \div 2) + 1
    BY <1>1
  <2> QED
    BY <2>1, <2>2
<1> QED
  BY <1>1, <1>2, <1>6, <1>7, <1>8, <1>9

\* The rows of storeDIDPair.
LEMMA PairRowsShape ==
  ASSUME NEW o \in PairOps, NEW c \in Calls
  PROVE  /\ PairRows(o, c) \in Seq(Row)
         /\ Len(PairRows(o, c)) = 3
         /\ PairRows(o, c)[1] = DIDRow(o.host)
         /\ PairRows(o, c)[2] = DIDRow(o.target)
         /\ PairRows(o, c)[3] = DIDLink("pair", o.host, o.target, o.alias, c)
BY DEF PairOps, PairRows, DIDRow, DIDLink, Row, DIDLinks, Roles

\* The rows of storeMediator.
LEMMA MediatorRowsShape ==
  ASSUME NEW o \in MediatorOps, NEW c \in Calls
  PROVE  /\ MediatorRows(o, c) \in Seq(Row)
         /\ Len(MediatorRows(o, c)) = 5
         /\ MediatorRows(o, c)[1] = DIDRow(o.host)
         /\ MediatorRows(o, c)[2] = DIDRow(o.mediator)
         /\ MediatorRows(o, c)[3] = DIDRow(o.routing)
         /\ MediatorRows(o, c)[4] = DIDLink("mediator", o.host, o.mediator, NoAlias, c)
         /\ MediatorRows(o, c)[5] = DIDLink("routing", o.host, o.routing, NoAlias, c)
BY DEF MediatorOps, MediatorRows, DIDRow, DIDLink, Row, DIDLinks, Roles

\* The row of an object.
LEMMA ObjectRowsShape ==
  ASSUME NEW o \in ObjectOps
  PROVE  /\ ObjectRows(o) \in Seq(Row)
         /\ Len(ObjectRows(o)) = 1
         /\ ObjectRows(o)[1].table \in ObjectTables
         /\ Refs(ObjectRows(o)[1]) = {}
BY DEF ObjectOps, ObjectRows, Row, ObjectTables, Refs

\* Each kind of call has its rows.
LEMMA RowsOfKind ==
  ASSUME NEW o \in Ops, NEW c \in Calls
  PROVE  \/ o \in DIDOps /\ o.kind = "did" /\ RowsOf(o, c) = DIDRows(o, c)
         \/ o \in PairOps /\ o.kind = "pair" /\ RowsOf(o, c) = PairRows(o, c)
         \/ o \in MediatorOps /\ o.kind = "mediator" /\ RowsOf(o, c) = MediatorRows(o, c)
         \/ o \in ObjectOps /\ o.kind = "object" /\ RowsOf(o, c) = ObjectRows(o)
BY OpsAssumption DEF DIDOps, PairOps, MediatorOps, ObjectOps, RowsOf

\* A row refers only to rows before it in the same call.
LEMMA RefsComeFirst ==
  ASSUME NEW o \in Ops, NEW c \in Calls
  PROVE  /\ RowsOf(o, c) \in Seq(Row) /\ Len(RowsOf(o, c)) \in Nat
         /\ \A i \in 1..Len(RowsOf(o, c)) :
              Refs(RowsOf(o, c)[i]) \subseteq {RowsOf(o, c)[j] : j \in 1 .. i - 1}
<1>1. CASE o \in DIDOps /\ RowsOf(o, c) = DIDRows(o, c)
  <2> DEFINE S == RowsOf(o, c)
  <2>1. S[1] = DIDRow(o.did) /\ Refs(S[1]) = {}
    BY <1>1, DIDRowsShape, RefsOf
  <2>2. ASSUME NEW k \in DOMAIN o.keys
        PROVE  /\ Refs(S[2 * k]) = {}
               /\ Refs(S[2 * k + 1]) = {S[1], S[2 * k]}
               /\ k \in Nat \ {0}
    <3>1. k \in Nat \ {0}
      BY <1>1 DEF DIDOps
    <3>2. S[2 * k] = KeyRow(o.keys[k]) /\ S[2 * k + 1] = KeyLink(o.did, o.keys[k], c)
      BY <1>1, DIDRowsShape
    <3> HIDE DEF S
    <3> QED
      BY <2>1, <3>1, <3>2, RefsOf
  <2>3. ASSUME NEW i \in 1..Len(S)
        PROVE  Refs(S[i]) \subseteq {S[j] : j \in 1 .. i - 1}
    <3>1. i = 1 \/ \E k \in DOMAIN o.keys : i = 2 * k \/ i = 2 * k + 1
      BY <1>1, DIDRowsShape
    <3>2. ASSUME NEW k \in DOMAIN o.keys, i = 2 * k + 1
          PROVE  1 \in 1 .. i - 1 /\ 2 * k \in 1 .. i - 1
      BY <2>2, <3>2
    <3> HIDE DEF S
    <3> QED
      BY <2>1, <2>2, <3>1, <3>2
  <2>4. S \in Seq(Row) /\ Len(S) \in Nat
    BY <1>1, DIDRowsShape
  <2> QED
    BY <2>3, <2>4
<1>2. CASE o \in PairOps /\ RowsOf(o, c) = PairRows(o, c)
  <2> DEFINE S == RowsOf(o, c)
  <2>1. S \in Seq(Row) /\ Len(S) = 3
    BY <1>2, PairRowsShape
  <2>2. Refs(S[1]) = {} /\ Refs(S[2]) = {} /\ Refs(S[3]) = {S[1], S[2]}
    BY <1>2, PairRowsShape, RefsOf
  <2> HIDE DEF S
  <2>3. ASSUME NEW i \in 1..3
        PROVE  Refs(S[i]) \subseteq {S[j] : j \in 1 .. i - 1}
    <3>1. i = 1 \/ i = 2 \/ i = 3
      OBVIOUS
    <3> QED
      BY <2>2, <3>1
  <2> QED
    BY <2>1, <2>3 DEF S
<1>3. CASE o \in MediatorOps /\ RowsOf(o, c) = MediatorRows(o, c)
  <2> DEFINE S == RowsOf(o, c)
  <2>1. S \in Seq(Row) /\ Len(S) = 5
    BY <1>3, MediatorRowsShape
  <2>2. /\ Refs(S[1]) = {} /\ Refs(S[2]) = {} /\ Refs(S[3]) = {}
        /\ Refs(S[4]) = {S[1], S[2]} /\ Refs(S[5]) = {S[1], S[3]}
    BY <1>3, MediatorRowsShape, RefsOf
  <2> HIDE DEF S
  <2>3. ASSUME NEW i \in 1..5
        PROVE  Refs(S[i]) \subseteq {S[j] : j \in 1 .. i - 1}
    <3>1. i = 1 \/ i = 2 \/ i = 3 \/ i = 4 \/ i = 5
      OBVIOUS
    <3> QED
      BY <2>2, <3>1
  <2> QED
    BY <2>1, <2>3 DEF S
<1>4. CASE o \in ObjectOps /\ RowsOf(o, c) = ObjectRows(o)
  <2> DEFINE S == RowsOf(o, c)
  <2>1. S \in Seq(Row) /\ Len(S) = 1 /\ Refs(S[1]) = {}
    BY <1>4, ObjectRowsShape
  <2> HIDE DEF S
  <2>2. \A i \in 1..Len(S) : i = 1
    BY <2>1
  <2>3. ASSUME NEW i \in 1..Len(S)
        PROVE  Refs(S[i]) \subseteq {S[j] : j \in 1 .. i - 1}
    <3>1. i = 1
      BY <2>2
    <3> QED
      BY <2>1, <3>1
  <2>4. S \in Seq(Row) /\ Len(S) \in Nat
    BY <2>1
  <2> QED
    BY <2>3, <2>4 DEF S
<1> QED
  BY <1>1, <1>2, <1>3, <1>4, RowsOfKind

-----------------------------------------------------------------------------
(* The store                                                               *)

\* What a call has dealt with is in the store; and links are grounded.
CallInv ==
  /\ \A c \in Calls : status[c] # "idle" => op[c] \in Ops
  /\ \A c \in Calls : status[c] = "idle" => pos[c] = 1
  /\ \A c \in Calls : status[c] # "idle" =>
       \A i \in 1..Len(Rows(c)) : i < pos[c] => Rows(c)[i] \in store
  /\ \A c \in Calls : status[c] = "returned" => pos[c] > Len(Rows(c))
  /\ LinksAreGrounded

\* The row a busy call is at is one of its rows.
LEMMA RowAt ==
  ASSUME TypeOK, CallInv, NEW c \in Calls, Busy(c)
  PROVE  /\ op[c] \in Ops /\ Rows(c) \in Seq(Row)
         /\ pos[c] \in 1..Len(Rows(c)) /\ At(c) \in Row
         /\ Refs(At(c)) \subseteq store
<1>1. op[c] \in Ops /\ status[c] # "idle"
  BY DEF Busy, CallInv
<1>2. /\ Rows(c) \in Seq(Row) /\ Len(Rows(c)) \in Nat
      /\ \A i \in 1..Len(Rows(c)) : Refs(Rows(c)[i]) \subseteq {Rows(c)[j] : j \in 1 .. i - 1}
  BY <1>1, RefsComeFirst DEF Rows
<1>3. pos[c] \in 1..Len(Rows(c))
  BY <1>2 DEF Busy, TypeOK
<1>4. \A j \in 1 .. pos[c] - 1 : Rows(c)[j] \in store
  BY <1>1, <1>2, <1>3 DEF CallInv
<1>5. At(c) \in Row
  BY <1>2, <1>3 DEF At
<1>6. Refs(At(c)) \subseteq {Rows(c)[j] : j \in 1 .. pos[c] - 1}
  BY <1>2, <1>3 DEF At
<1> QED
  BY <1>1, <1>2, <1>3, <1>4, <1>5, <1>6

\* Rows are never deleted, a call never changes what it stores, and one that
\* has returned has.
LEMMA Grows ==
  ASSUME TypeOK, Next
  PROVE  /\ store \subseteq store'
         /\ \A c \in Calls : status[c] # "idle" => op'[c] = op[c] /\ status'[c] # "idle"
         /\ \A c \in Calls : status[c] = "returned" => status'[c] = "returned"
BY DEF TypeOK, Next, Crash, Begin, LookUp, Insert, InsertConflicts, InsertFails, Return,
       BeginRead, ReadLinks, ReadKeys, ReadPrismLinks, ReadPrismKeys, ReadFails, Throw,
       Advance, Busy, Inserting, callVars, Fault

\* A key link is one that links a key to a DID.
LEMMA RowIsKeyLink ==
  ASSUME NEW row \in Row, row.table = "didkey-link"
  PROVE  row \in KeyLinks
BY DEF Row, KeyLinks, DIDLinks, ObjectTables

\* Reads keep the type of what they return.
LEMMA ReadsTyped ==
  ASSUME TypeOK, NEW r \in Readers,
         BeginRead(r) \/ ReadLinks(r) \/ ReadKeys(r) \/ ReadPrismLinks(r) \/ ReadPrismKeys(r)
  PROVE  reads' \in [Readers -> Read]
<1>1. reads \in [Readers -> Read] /\ reads[r] \in Read
  BY DEF TypeOK
<1>2. \A ds \in SUBSET DIDs : LinksOf(ds) \in SUBSET KeyLinks
  BY RowIsKeyLink DEF TypeOK, LinksOf
<1>3. \A ls \in SUBSET KeyLinks : {<<l.did, l.key>> : l \in ls} \in SUBSET (DIDs \X Keys)
  BY DEF KeyLinks
<1>4. ASSUME NEW at \in ReadSteps, NEW left \in SUBSET DIDs, NEW links \in SUBSET KeyLinks,
             NEW result \in SUBSET (DIDs \X Keys), Continue(r, at, left, links, result)
      PROVE  reads' \in [Readers -> Read]
  <2> DEFINE new == [at |-> at, scope |-> reads[r].scope, left |-> left, links |-> links,
                     result |-> result, since |-> reads[r].since]
  <2>1. new \in Read
    BY <1>1 DEF Read
  <2>2. reads' = [reads EXCEPT ![r] = new]
    BY <1>4 DEF Continue
  <2> QED
    BY <1>1, <2>1, <2>2
<1>5. CASE BeginRead(r)
  <2>1. \A scope \in Scopes(r) : scope \in SUBSET DIDs
    BY DEF Scopes, DIDs
  <2>2. PICK scope \in SUBSET DIDs, left \in SUBSET DIDs, at \in ReadSteps, since \in SUBSET Calls :
          reads' = [reads EXCEPT ![r] =
            [at |-> at, scope |-> scope, left |-> left, links |-> {}, result |-> {},
             since |-> since]]
    BY <1>5, <2>1 DEF BeginRead, ReadSteps
  <2> QED
    BY <1>1, <2>2 DEF Read
<1>6. CASE ReadLinks(r)
  <2>1. LinksOf(reads[r].left) \in SUBSET KeyLinks
    BY <1>1, <1>2 DEF Read
  <2>2. Continue(r, "keys", {}, LinksOf(reads[r].left), {})
    BY <1>6 DEF ReadLinks
  <2>3. "keys" \in ReadSteps
    BY DEF ReadSteps
  <2> QED
    BY <1>4, <2>1, <2>2, <2>3
<1>7. CASE ReadKeys(r)
  <2>1. {x \in reads[r].links : KeyRow(x.key) \in store} \in SUBSET KeyLinks
    BY <1>1 DEF Read
  <2> QED
    BY <1>3, <1>4, <1>7, <2>1 DEF ReadKeys, ReadSteps
<1>8. CASE ReadPrismLinks(r)
  <2>1. PICK d \in reads[r].left :
          Continue(r, "keys", reads[r].left \ {d}, LinksOf({d}), reads[r].result)
    BY <1>8 DEF ReadPrismLinks
  <2>2. /\ reads[r].left \ {d} \in SUBSET DIDs /\ {d} \in SUBSET DIDs
        /\ reads[r].result \in SUBSET (DIDs \X Keys)
    BY <1>1 DEF Read
  <2> QED
    BY <1>2, <1>4, <2>1, <2>2 DEF ReadSteps
<1>9. CASE ReadPrismKeys(r)
  <2>1. reads[r].result \cup {<<l.did, l.key>> : l \in reads[r].links} \in SUBSET (DIDs \X Keys)
    <3>1. reads[r].links \in SUBSET KeyLinks /\ reads[r].result \in SUBSET (DIDs \X Keys)
      BY <1>1 DEF Read
    <3> QED
      BY <1>3, <3>1
  <2>2. reads[r].left \in SUBSET DIDs
    BY <1>1 DEF Read
  <2>3. (IF reads[r].left = {} THEN "done" ELSE "links") \in ReadSteps
    BY DEF ReadSteps
  <2>4. \/ Continue(r, IF reads[r].left = {} THEN "done" ELSE "links", reads[r].left, {},
                    reads[r].result \cup {<<l.did, l.key>> : l \in reads[r].links})
        \/ Continue(r, "broken", {}, {}, {})
    BY <1>9 DEF ReadPrismKeys
  <2>5. "broken" \in ReadSteps
    BY DEF ReadSteps
  <2> QED
    BY <1>4, <2>1, <2>2, <2>3, <2>4, <2>5
<1> QED
  BY <1>5, <1>6, <1>7, <1>8, <1>9

\* The types are inductive together with CallInv.
LEMMA TypeStep ==
  ASSUME TypeOK, CallInv, [Next]_vars
  PROVE  TypeOK'
<1>1. NoRead \in Read
  BY DEF NoRead, Read, ReadSteps
<1>2. ASSUME NEW c \in Calls, Begin(c) \/ LookUp(c) \/ InsertConflicts(c) \/ InsertFails(c) \/ Return(c)
      PROVE  TypeOK'
  <2>1. CASE Begin(c)
    BY <2>1 DEF TypeOK, Begin, Statuses
  <2>2. CASE LookUp(c)
    <3>1. /\ Advance(c) \/ (absent' = [absent EXCEPT ![c] = TRUE] /\ pos' = pos)
          /\ UNCHANGED <<store, op, status, reads, faults>>
      BY <2>2 DEF LookUp
    <3>2. pos' \in [Calls -> Nat \ {0}]
      BY <3>1 DEF TypeOK, Advance
    <3>3. absent' \in [Calls -> BOOLEAN]
      BY <3>1, Zenon DEF TypeOK, Advance
    <3> QED
      BY <3>1, <3>2, <3>3 DEF TypeOK
  <2>3. CASE InsertConflicts(c)
    BY <2>3 DEF TypeOK, InsertConflicts, Throw, Statuses
  <2>4. CASE InsertFails(c)
    BY <2>4, FaultsAssumption DEF TypeOK, InsertFails, Throw, Fault, Statuses
  <2>5. CASE Return(c)
    BY <2>5 DEF TypeOK, Return, Statuses
  <2> QED
    BY <1>2, <2>1, <2>2, <2>3, <2>4, <2>5
<1>3. ASSUME NEW c \in Calls, Insert(c)
      PROVE  TypeOK'
  <2>1. At(c) \in Row
    BY <1>3, RowAt DEF Insert, Inserting
  <2> QED
    BY <1>3, <2>1 DEF TypeOK, Insert, Advance
<1>4. ASSUME NEW r \in Readers,
             BeginRead(r) \/ ReadLinks(r) \/ ReadKeys(r) \/ ReadPrismLinks(r) \/ ReadPrismKeys(r)
      PROVE  TypeOK'
  <2>1. UNCHANGED <<callVars, faults>>
    BY <1>4 DEF BeginRead, ReadLinks, ReadKeys, ReadPrismLinks, ReadPrismKeys
  <2>2. reads' \in [Readers -> Read]
    BY <1>4, ReadsTyped
  <2> QED
    BY <2>1, <2>2 DEF TypeOK, callVars
<1>5. ASSUME NEW r \in Readers, ReadFails(r)
      PROVE  TypeOK'
  BY <1>1, <1>5, FaultsAssumption DEF TypeOK, ReadFails, Fault, callVars
<1>6. CASE Crash
  BY <1>1, <1>6, FaultsAssumption DEF TypeOK, Crash, Fault, Statuses
<1>7. CASE UNCHANGED vars
  BY <1>7 DEF TypeOK, vars
<1> QED
  BY <1>2, <1>3, <1>4, <1>5, <1>6, <1>7 DEF Next

\* CallInv is inductive.
LEMMA CallStep ==
  ASSUME TypeOK, CallInv, [Next]_vars
  PROVE  CallInv'
<1> DEFINE Dealt(c) == \A i \in 1..Len(Rows(c)) : i < pos[c] => Rows(c)[i] \in store
<1>1. ASSUME NEW c \in Calls, Begin(c)
      PROVE  CallInv'
  <2>1. /\ pos[c] = 1 /\ pos' = pos /\ store' = store
        /\ \A b \in Calls : b # c => op'[b] = op[b] /\ status'[b] = status[b]
        /\ op'[c] \in Ops /\ status'[c] = "running"
    BY <1>1 DEF Begin, CallInv, TypeOK
  <2>2. \A b \in Calls : b # c => Rows(b)' = Rows(b)
    BY <2>1 DEF Rows
  <2>3. Len(Rows(c)') \in Nat
    BY <2>1, RefsComeFirst DEF Rows
  <2>4. LinksAreGrounded'
    BY <2>1 DEF CallInv, LinksAreGrounded
  <2> HIDE DEF Dealt
  <2>5. ASSUME NEW b \in Calls, status'[b] # "idle"
        PROVE  Dealt(b)'
    <3>1. CASE b = c
      BY <2>1, <2>3, <3>1 DEF Dealt
    <3>2. CASE b # c
      BY <2>1, <2>2, <2>5, <3>2 DEF Dealt, CallInv
    <3> QED
      BY <3>1, <3>2
  <2> QED
    BY <2>1, <2>2, <2>4, <2>5 DEF CallInv, Dealt
<1>2. ASSUME NEW c \in Calls, LookUp(c) \/ Insert(c)
      PROVE  CallInv'
  <2>1. /\ op[c] \in Ops /\ Rows(c) \in Seq(Row)
        /\ pos[c] \in 1..Len(Rows(c)) /\ Refs(At(c)) \subseteq store /\ status[c] = "running"
    BY <1>2, RowAt DEF LookUp, Insert, Inserting, Busy
  <2>2. /\ op' = op /\ status' = status
        /\ store' = store \/ store' = store \cup {At(c)}
        /\ \A b \in Calls : b # c => pos'[b] = pos[b]
        /\ pos'[c] = pos[c] \/ (pos'[c] = pos[c] + 1 /\ At(c) \in store')
    BY <1>2 DEF LookUp, Insert, Inserting, Advance, TypeOK
  <2>3. \A b \in Calls : Rows(b)' = Rows(b)
    BY <2>2 DEF Rows
  <2>4. LinksAreGrounded'
    BY <2>1, <2>2 DEF CallInv, LinksAreGrounded
  <2>5. ASSUME NEW b \in Calls, status'[b] # "idle"
        PROVE  Dealt(b)'
    <3>1. CASE b = c
      <4>1. ASSUME NEW i \in 1..Len(Rows(c)), i < pos'[c]
            PROVE  Rows(c)[i] \in store'
        <5>1. i < pos[c] \/ (i = pos[c] /\ At(c) \in store')
          BY <2>1, <2>2, <4>1
        <5> QED
          BY <2>1, <2>2, <5>1 DEF CallInv, At
      <4> QED
        BY <2>3, <3>1, <4>1
    <3>2. CASE b # c
      BY <2>2, <2>3, <2>5, <3>2 DEF CallInv
    <3> QED
      BY <3>1, <3>2
  <2> QED
    BY <2>1, <2>2, <2>3, <2>4, <2>5 DEF CallInv
<1>3. ASSUME NEW c \in Calls, InsertConflicts(c) \/ InsertFails(c) \/ Return(c)
      PROVE  CallInv'
  <2>1. /\ op' = op /\ store' = store /\ pos' = pos
        /\ status[c] = "running" /\ status'[c] \in {"threw", "returned"}
        /\ status'[c] = "returned" => pos[c] > Len(Rows(c))
        /\ \A b \in Calls : b # c => status'[b] = status[b]
    BY <1>3 DEF InsertConflicts, InsertFails, Return, Throw, Inserting, Busy, TypeOK
  <2>2. \A b \in Calls : Rows(b)' = Rows(b)
    BY <2>1 DEF Rows
  <2> QED
    BY <2>1, <2>2 DEF CallInv, LinksAreGrounded
<1>4. CASE Crash
  <2>1. /\ op' = op /\ store' = store /\ pos' = pos
        /\ \A b \in Calls : /\ status'[b] = "idle" <=> status[b] = "idle"
                            /\ status'[b] = "returned" <=> status[b] = "returned"
    BY <1>4 DEF Crash, TypeOK, Statuses
  <2>2. \A b \in Calls : Rows(b)' = Rows(b)
    BY <2>1 DEF Rows
  <2> QED
    BY <2>1, <2>2 DEF CallInv, LinksAreGrounded
<1>5. ASSUME UNCHANGED callVars
      PROVE  CallInv'
  <2>1. \A b \in Calls : Rows(b)' = Rows(b)
    BY <1>5 DEF callVars, Rows
  <2> QED
    BY <1>5, <2>1 DEF callVars, CallInv, LinksAreGrounded
<1>6. ASSUME NEW r \in Readers,
             \/ BeginRead(r) \/ ReadLinks(r) \/ ReadKeys(r) \/ ReadPrismLinks(r)
             \/ ReadPrismKeys(r) \/ ReadFails(r)
      PROVE  CallInv'
  BY <1>5, <1>6 DEF BeginRead, ReadLinks, ReadKeys, ReadPrismLinks, ReadPrismKeys, ReadFails
<1>7. CASE UNCHANGED vars
  BY <1>5, <1>7 DEF vars, callVars
<1> QED
  BY <1>1, <1>2, <1>3, <1>4, <1>6, <1>7 DEF Next

\* At the start the store is empty and nothing has been called.
LEMMA StoreInit ==
  ASSUME Init
  PROVE  TypeOK /\ CallInv
<1>1. TypeOK
  BY FaultsAssumption DEF Init, TypeOK, NoRead, Read, ReadSteps, Statuses
<1>2. CallInv
  BY DEF Init, CallInv, LinksAreGrounded
<1> QED
  BY <1>1, <1>2

\* Every variable of the store, its calls and its readers keeps its type.
THEOREM TypeCorrect == Spec => []TypeOK
<1>1. Init => TypeOK /\ CallInv
  BY StoreInit
<1>2. TypeOK /\ CallInv /\ [Next]_vars => (TypeOK /\ CallInv)'
  BY TypeStep, CallStep
<1> QED
  BY <1>1, <1>2, PTL DEF Spec

\* Whatever overlaps, fails or is cut short, no link is in the store without
\* the DIDs and keys it names.
THEOREM GroundedCorrect == Spec => []LinksAreGrounded
<1>1. Init => TypeOK /\ CallInv
  BY StoreInit
<1>2. TypeOK /\ CallInv /\ [Next]_vars => (TypeOK /\ CallInv)'
  BY TypeStep, CallStep
<1>3. CallInv => LinksAreGrounded
  BY DEF CallInv
<1> QED
  BY <1>1, <1>2, <1>3, PTL DEF Spec

-----------------------------------------------------------------------------
(* Readers                                                                 *)

HasKeys(c, result) == \A i \in DOMAIN op[c].keys : <<op[c].did, op[c].keys[i]>> \in result
Linked(c, links) == \A i \in DOMAIN op[c].keys : KeyLink(op[c].did, op[c].keys[i], c) \in links

\* Where reader R stands with the DID of call c: its links are still to be
\* read, or have been, or its keys are in the result.
Covered(c, R) ==
  \/ R.at # "done" /\ op[c].did \in R.left
  \/ HasKeys(c, R.result)
  \/ R.at = "keys" /\ Linked(c, R.links)

Reading == {"links", "keys", "done"}

ReadInv(r) ==
  /\ r \in PrismReaders => reads[r].at # "broken"
  /\ r \notin PrismReaders /\ reads[r].at \in {"links", "keys"} => reads[r].result = {}
  /\ r \notin PrismReaders /\ reads[r].at = "keys" => reads[r].left = {}
  /\ reads[r].at = "keys" => reads[r].links \subseteq store
  /\ reads[r].at \in Reading =>
       \A c \in reads[r].since :
         /\ status[c] = "returned"
         /\ op[c].kind = "did" /\ op[c].did \in reads[r].scope => Covered(c, reads[r])

\* A creation that has returned is all in the store.
LEMMA ReturnedIsStored ==
  ASSUME TypeOK, CallInv, NEW c \in Calls, status[c] = "returned", op[c].kind = "did"
  PROVE  /\ DIDRow(op[c].did) \in store
         /\ \A i \in DOMAIN op[c].keys :
              /\ KeyRow(op[c].keys[i]) \in store
              /\ KeyLink(op[c].did, op[c].keys[i], c) \in store
<1>1. op[c] \in DIDOps /\ Rows(c) = DIDRows(op[c], c)
  BY RowsOfKind DEF CallInv, Rows
<1>2. \A i \in 1..Len(Rows(c)) : Rows(c)[i] \in store
  <2>1. Len(Rows(c)) \in Nat /\ pos[c] \in Nat /\ pos[c] > Len(Rows(c))
    BY <1>1, DIDRowsShape DEF TypeOK, CallInv
  <2> QED
    BY <2>1 DEF CallInv
<1>3. 1 \in 1..Len(Rows(c))
  BY <1>1, DIDRowsShape DEF DIDOps
<1>4. \A i \in DOMAIN op[c].keys : 2 * i \in 1..Len(Rows(c)) /\ 2 * i + 1 \in 1..Len(Rows(c))
  BY <1>1, DIDRowsShape
<1>5. /\ Rows(c)[1] = DIDRow(op[c].did)
      /\ \A i \in DOMAIN op[c].keys :
           /\ Rows(c)[2 * i] = KeyRow(op[c].keys[i])
           /\ Rows(c)[2 * i + 1] = KeyLink(op[c].did, op[c].keys[i], c)
  BY <1>1, DIDRowsShape
<1>6. \A i \in DOMAIN op[c].keys : Rows(c)[2 * i] \in store /\ Rows(c)[2 * i + 1] \in store
  BY <1>2, <1>4
<1>7. Rows(c)[1] \in store
  BY <1>2, <1>3
<1> QED
  BY <1>5, <1>6, <1>7

\* What the calls that store do, readers survive.
LEMMA ReaderUndisturbed ==
  ASSUME TypeOK, Next, NEW r \in Readers, ReadInv(r), reads'[r] = reads[r]
  PROVE  ReadInv(r)'
<1>1. /\ store \subseteq store'
      /\ \A c \in Calls : status[c] = "returned" => op'[c] = op[c] /\ status'[c] = "returned"
  BY Grows
<1>2. reads[r].since \subseteq Calls
  BY DEF TypeOK, Read
<1>3. ASSUME reads[r].at \in Reading, NEW c \in reads[r].since
      PROVE  /\ status'[c] = "returned"
             /\ op'[c] = op[c]
  BY <1>1, <1>2, <1>3 DEF ReadInv
<1> QED
  BY <1>1, <1>2, <1>3 DEF ReadInv, Covered, HasKeys, Linked

\* A link that has been read leads to its DID and its key.
LEMMA LinksResolve ==
  ASSUME TypeOK, CallInv, NEW r \in Readers, ReadInv(r), reads[r].at = "keys"
  PROVE  \A l \in reads[r].links : Resolved(l)
<1>1. reads[r].links \subseteq KeyLinks /\ reads[r].links \subseteq store
  BY DEF TypeOK, Read, ReadInv
<1>2. \A l \in reads[r].links : Refs(l) = {DIDRow(l.did), KeyRow(l.key)}
  BY <1>1 DEF Refs, KeyLinks
<1> QED
  BY <1>1, <1>2 DEF Resolved, CallInv, LinksAreGrounded

\* Every step of a reader keeps ReadInv.
LEMMA ReaderStep ==
  ASSUME TypeOK, CallInv, NEW r \in Readers, ReadInv(r),
         BeginRead(r) \/ ReadLinks(r) \/ ReadKeys(r) \/ ReadPrismLinks(r) \/ ReadPrismKeys(r)
  PROVE  ReadInv(r)'
<1> DEFINE R == reads[r]
<1>1. /\ R \in Read /\ R.since \subseteq Calls /\ R.links \subseteq KeyLinks
      /\ reads \in [Readers -> Read]
  BY DEF TypeOK, Read
<1>2. UNCHANGED callVars
  BY DEF BeginRead, ReadLinks, ReadKeys, ReadPrismLinks, ReadPrismKeys
<1>3. CASE BeginRead(r)
  <2>1. PICK scope \in Scopes(r) :
          LET found == IF r \in KeyReaders THEN scope ELSE {d \in scope : DIDRow(d) \in store}
          IN  reads' = [reads EXCEPT ![r] =
                [at |-> IF r \in PrismReaders /\ found = {} THEN "done" ELSE "links",
                 scope |-> scope, left |-> found, links |-> {}, result |-> {},
                 since |-> {c \in Calls : status[c] = "returned"}]]
    BY <1>3 DEF BeginRead
  <2> DEFINE left == IF r \in KeyReaders THEN scope ELSE {d \in scope : DIDRow(d) \in store}
  <2>4. reads'[r] =
          [at |-> IF r \in PrismReaders /\ left = {} THEN "done" ELSE "links",
           scope |-> scope, left |-> left, links |-> {}, result |-> {},
           since |-> {c \in Calls : status[c] = "returned"}]
    BY <1>1, <2>1
  <2>2. ASSUME NEW c \in Calls, status[c] = "returned", op[c].kind = "did", op[c].did \in scope
        PROVE  op[c].did \in left
    BY <2>2, ReturnedIsStored
  <2> HIDE DEF left
  <2>3. \A c \in reads'[r].since :
          /\ status[c] = "returned"
          /\ op[c].kind = "did" /\ op[c].did \in reads'[r].scope =>
               reads'[r].at # "done" /\ op[c].did \in reads'[r].left
    BY <2>2, <2>4
  <2>5. reads'[r].at \in {"done", "links"} /\ reads'[r].result = {}
    BY <2>4
  <2> QED
    BY <1>2, <2>3, <2>5 DEF ReadInv, Covered, callVars
<1>4. CASE ReadLinks(r)
  <2>1. /\ r \notin PrismReaders /\ R.at = "links"
        /\ reads'[r] = [at |-> "keys", scope |-> R.scope, left |-> {}, links |-> LinksOf(R.left),
                        result |-> {}, since |-> R.since]
    BY <1>1, <1>4 DEF ReadLinks, Continue
  <2>2. R.result = {}
    BY <2>1 DEF ReadInv
  <2>3. ASSUME NEW c \in R.since, op[c].kind = "did", op[c].did \in R.scope
        PROVE  status[c] = "returned" /\ Covered(c, reads'[r])
    <3>1. status[c] = "returned" /\ Covered(c, R) /\ c \in Calls
      BY <1>1, <2>1, <2>3 DEF ReadInv, Reading
    <3>2. CASE op[c].did \in R.left
      <4>1. Linked(c, LinksOf(R.left))
        BY <2>3, <3>1, <3>2, ReturnedIsStored DEF Linked, LinksOf, KeyLink
      <4> QED
        BY <2>1, <3>1, <4>1 DEF Covered
    <3>3. CASE HasKeys(c, R.result)
      BY <2>1, <2>2, <3>1, <3>3 DEF Covered
    <3> QED
      BY <2>1, <3>1, <3>2, <3>3 DEF Covered
  <2>4. LinksOf(R.left) \subseteq store
    BY DEF LinksOf
  <2>5. \A c \in R.since : status[c] = "returned"
    BY <2>1 DEF ReadInv, Reading
  <2> QED
    BY <1>2, <2>1, <2>3, <2>4, <2>5 DEF ReadInv, Covered, HasKeys, Linked, callVars
<1>5. CASE ReadKeys(r)
  <2> DEFINE result == {<<l.did, l.key>> : l \in {x \in R.links : KeyRow(x.key) \in store}}
  <2>1. /\ r \notin PrismReaders /\ R.at = "keys"
        /\ reads'[r] = [at |-> "done", scope |-> R.scope, left |-> {}, links |-> {},
                        result |-> result, since |-> R.since]
    BY <1>1, <1>5 DEF ReadKeys, Continue
  <2>2. R.result = {} /\ R.left = {}
    BY <2>1 DEF ReadInv
  <2>3. ASSUME NEW c \in R.since, op[c].kind = "did", op[c].did \in R.scope
        PROVE  HasKeys(c, result)
    <3>1. status[c] = "returned" /\ Covered(c, R) /\ c \in Calls
      BY <1>1, <2>1, <2>3 DEF ReadInv, Reading
    <3>2. CASE HasKeys(c, R.result)
      BY <2>2, <3>2 DEF HasKeys
    <3>3. CASE Linked(c, R.links)
      <4>1. ASSUME NEW i \in DOMAIN op[c].keys
            PROVE  <<op[c].did, op[c].keys[i]>> \in result
        <5> DEFINE l == KeyLink(op[c].did, op[c].keys[i], c)
        <5>1. l \in R.links /\ l.did = op[c].did /\ l.key = op[c].keys[i]
          BY <3>3 DEF Linked, KeyLink
        <5>2. KeyRow(op[c].keys[i]) \in store
          BY <2>3, <3>1, ReturnedIsStored
        <5> HIDE DEF l
        <5> QED
          BY <5>1, <5>2
      <4> QED
        BY <4>1 DEF HasKeys
    <3> HIDE DEF result
    <3> QED
      BY <2>2, <3>1, <3>2, <3>3 DEF Covered
  <2>4. \A c \in R.since : status[c] = "returned"
    BY <2>1 DEF ReadInv, Reading
  <2> HIDE DEF result
  <2> QED
    BY <1>2, <2>1, <2>3, <2>4 DEF ReadInv, Covered, HasKeys, callVars
<1>6. CASE ReadPrismLinks(r)
  <2>1. PICK d \in R.left :
          /\ R.at = "links"
          /\ reads'[r] = [at |-> "keys", scope |-> R.scope, left |-> R.left \ {d},
                          links |-> LinksOf({d}), result |-> R.result, since |-> R.since]
    BY <1>1, <1>6 DEF ReadPrismLinks, Continue
  <2>2. ASSUME NEW c \in R.since, op[c].kind = "did", op[c].did \in R.scope
        PROVE  Covered(c, reads'[r])
    <3>1. status[c] = "returned" /\ Covered(c, R) /\ c \in Calls
      BY <1>1, <2>1, <2>2 DEF ReadInv, Reading
    <3>2. CASE op[c].did = d
      <4>1. Linked(c, LinksOf({d}))
        BY <2>2, <3>1, <3>2, ReturnedIsStored DEF Linked, LinksOf, KeyLink
      <4> QED
        BY <2>1, <4>1 DEF Covered
    <3> QED
      BY <2>1, <3>1, <3>2 DEF Covered
  <2>3. LinksOf({d}) \subseteq store
    BY DEF LinksOf
  <2>4. \A c \in R.since : status[c] = "returned"
    BY <2>1 DEF ReadInv, Reading
  <2>5. r \in PrismReaders
    BY <1>6 DEF ReadPrismLinks
  <2>6. /\ reads'[r].at = "keys" /\ reads'[r].links \subseteq store
        /\ reads'[r].scope = R.scope /\ reads'[r].since = R.since
    BY <2>1, <2>3
  <2> QED
    BY <1>2, <2>2, <2>4, <2>5, <2>6 DEF ReadInv, Covered, HasKeys, Linked, callVars
<1>7. CASE ReadPrismKeys(r)
  <2> DEFINE result == R.result \cup {<<l.did, l.key>> : l \in R.links}
             at == IF R.left = {} THEN "done" ELSE "links"
  <2>1. R.at = "keys" /\ r \in PrismReaders
    BY <1>7 DEF ReadPrismKeys
  <2>2. Continue(r, at, R.left, {}, result)
    BY <1>7, <2>1, LinksResolve DEF ReadPrismKeys
  <2>3. reads'[r] = [at |-> at, scope |-> R.scope, left |-> R.left, links |-> {},
                     result |-> result, since |-> R.since]
    BY <1>1, <2>2 DEF Continue
  <2>4. ASSUME NEW c \in R.since, op[c].kind = "did", op[c].did \in R.scope
        PROVE  (at # "done" /\ op[c].did \in R.left) \/ HasKeys(c, result)
    <3>1. Covered(c, R)
      BY <2>1, <2>4 DEF ReadInv, Reading
    <3>2. CASE Linked(c, R.links)
      <4>1. ASSUME NEW i \in DOMAIN op[c].keys
            PROVE  <<op[c].did, op[c].keys[i]>> \in result
        <5> DEFINE l == KeyLink(op[c].did, op[c].keys[i], c)
        <5>1. l \in R.links /\ l.did = op[c].did /\ l.key = op[c].keys[i]
          BY <3>2 DEF Linked, KeyLink
        <5> HIDE DEF l
        <5> QED
          BY <5>1
      <4> QED
        BY <4>1 DEF HasKeys
    <3>3. CASE HasKeys(c, R.result)
      BY <3>3 DEF HasKeys
    <3>4. CASE op[c].did \in R.left
      BY <3>4
    <3> HIDE DEF result, at
    <3> QED
      BY <3>1, <3>2, <3>3, <3>4 DEF Covered
  <2>5. \A c \in R.since : status[c] = "returned"
    BY <2>1 DEF ReadInv, Reading
  <2>6. at \in {"done", "links"}
    OBVIOUS
  <2> HIDE DEF result, at
  <2> QED
    BY <1>2, <2>1, <2>3, <2>4, <2>5, <2>6 DEF ReadInv, Covered, HasKeys, callVars
<1> QED
  BY <1>3, <1>4, <1>5, <1>6, <1>7

\* The invariants of the store and of its readers, together.
FullInv == TypeOK /\ CallInv /\ \A r \in Readers : ReadInv(r)

LEMMA FullInit ==
  ASSUME Init
  PROVE  FullInv
BY StoreInit DEF FullInv, Init, NoRead, ReadInv, Reading

LEMMA FullStep ==
  ASSUME FullInv, [Next]_vars
  PROVE  FullInv'
<1>1. TypeOK' /\ CallInv'
  BY TypeStep, CallStep DEF FullInv
<1>2. ASSUME NEW r \in Readers
      PROVE  ReadInv(r)'
  <2>1. TypeOK /\ CallInv /\ ReadInv(r)
    BY DEF FullInv
  <2>2. CASE Next /\ reads'[r] = reads[r]
    BY <2>1, <2>2, ReaderUndisturbed
  <2>3. CASE UNCHANGED vars
    BY <2>1, <2>3 DEF vars, ReadInv, Covered, HasKeys, Linked
  <2>4. CASE \/ BeginRead(r) \/ ReadLinks(r) \/ ReadKeys(r) \/ ReadPrismLinks(r) \/ ReadPrismKeys(r)
    BY <2>1, <2>4, ReaderStep
  <2>5. CASE reads'[r] = NoRead
    BY <2>5 DEF NoRead, ReadInv, Reading
  <2>6. \/ reads'[r] = reads[r]
        \/ BeginRead(r) \/ ReadLinks(r) \/ ReadKeys(r) \/ ReadPrismLinks(r) \/ ReadPrismKeys(r)
        \/ reads'[r] = NoRead
    <3>1. reads \in [Readers -> Read]
      BY <2>1 DEF TypeOK
    <3>2. CASE UNCHANGED vars
      BY <3>2 DEF vars
    <3>3. CASE Crash
      BY <3>3 DEF Crash
    <3>4. ASSUME NEW c \in Calls,
                 Begin(c) \/ LookUp(c) \/ Insert(c) \/ InsertConflicts(c) \/ InsertFails(c) \/ Return(c)
          PROVE  reads' = reads
      BY <3>4 DEF Begin, LookUp, Insert, InsertConflicts, InsertFails, Return
    <3>5. ASSUME NEW s \in Readers, s # r,
                 BeginRead(s) \/ ReadLinks(s) \/ ReadKeys(s) \/ ReadPrismLinks(s) \/ ReadPrismKeys(s)
          PROVE  reads'[r] = reads[r]
      BY <3>1, <3>5 DEF BeginRead, ReadLinks, ReadKeys, ReadPrismLinks, ReadPrismKeys, Continue
    <3>6. ASSUME NEW s \in Readers, ReadFails(s)
          PROVE  reads'[r] = reads[r] \/ reads'[r] = NoRead
      BY <3>1, <3>6 DEF ReadFails
    <3> QED
      BY <3>2, <3>3, <3>4, <3>5, <3>6 DEF Next
  <2> QED
    BY <2>2, <2>3, <2>4, <2>5, <2>6
<1> QED
  BY <1>1, <1>2 DEF FullInv

\* getAllPrismDIDs never meets a link without its key or its DID.
THEOREM PrismReadsCorrect == Spec => []PrismReadsNeverBreak
<1>1. FullInv => PrismReadsNeverBreak
  BY DEF FullInv, ReadInv, PrismReadsNeverBreak, Readers
<1> QED
  BY <1>1, FullInit, FullStep, PTL DEF Spec

\* A reader finds every DID whose storing had returned before it began, with
\* every key it was stored with.
THEOREM ReadsCorrect == Spec => []ReadIsComplete
<1>1. FullInv => ReadIsComplete
  BY DEF FullInv, ReadInv, ReadIsComplete, Reading, Covered, HasKeys
<1> QED
  BY <1>1, FullInit, FullStep, PTL DEF Spec

-----------------------------------------------------------------------------
(* Where the rows come from                                                *)

\* Every row was dealt with by some call.
Origin ==
  \A row \in store : \E c \in Calls :
    status[c] # "idle" /\ \E i \in 1..Len(Rows(c)) : i < pos[c] /\ Rows(c)[i] = row

LEMMA OriginStep ==
  ASSUME TypeOK, CallInv, Origin, [Next]_vars
  PROVE  Origin'
<1>1. ASSUME \A c \in Calls : status[c] # "idle" =>
               op'[c] = op[c] /\ status'[c] # "idle" /\ pos[c] <= pos'[c],
             store' = store
      PROVE  Origin'
  <2>1. \A c \in Calls : status[c] # "idle" =>
          Rows(c)' = Rows(c) /\ status'[c] # "idle" /\ pos[c] <= pos'[c]
    BY <1>1 DEF Rows
  <2>2. \A c \in Calls : (pos[c] \in Nat /\ Len(Rows(c)) \in Nat) \/ status[c] = "idle"
    BY RefsComeFirst DEF TypeOK, CallInv, Rows
  <2>3. pos' \in [Calls -> Nat \ {0}]
    BY TypeStep DEF TypeOK
  <2> QED
    BY <1>1, <2>1, <2>2, <2>3 DEF Origin, TypeOK
<1>2. ASSUME NEW c \in Calls, Insert(c)
      PROVE  Origin'
  <2>1. /\ op[c] \in Ops /\ pos[c] \in 1..Len(Rows(c)) /\ status[c] = "running"
    BY <1>2, RowAt DEF Insert, Inserting, Busy
  <2>2. /\ op' = op /\ status' = status /\ store' = store \cup {At(c)}
        /\ \A b \in Calls : b # c => pos'[b] = pos[b]
        /\ pos'[c] = pos[c] + 1
    BY <1>2 DEF Insert, Advance, TypeOK
  <2>3. \A b \in Calls : Rows(b)' = Rows(b)
    BY <2>2 DEF Rows
  <2>4. \A i \in 1..Len(Rows(c)) : i < pos[c] => i < pos'[c]
    BY <2>1, <2>2
  <2>5. pos[c] < pos'[c] /\ Rows(c)[pos[c]] = At(c)
    BY <2>1, <2>2 DEF At
  <2>6. ASSUME NEW row \in store
        PROVE  \E b \in Calls : status'[b] # "idle" /\
                 \E i \in 1..Len(Rows(b)) : i < pos'[b] /\ Rows(b)[i] = row
    <3>1. PICK b \in Calls :
            status[b] # "idle" /\ \E i \in 1..Len(Rows(b)) : i < pos[b] /\ Rows(b)[i] = row
      BY DEF Origin
    <3>2. PICK i \in 1..Len(Rows(b)) : i < pos[b] /\ Rows(b)[i] = row
      BY <3>1
    <3>3. i < pos'[b]
      BY <2>2, <2>4, <3>2
    <3> QED
      BY <2>2, <3>1, <3>2, <3>3
  <2> QED
    BY <2>1, <2>2, <2>3, <2>5, <2>6 DEF Origin
<1>3. ASSUME NEW c \in Calls, LookUp(c)
      PROVE  Origin'
  <2>1. /\ op' = op /\ status' = status /\ store' = store
        /\ \A b \in Calls : pos'[b] = pos[b] \/ pos'[b] = pos[b] + 1
    BY <1>3 DEF LookUp, Advance, TypeOK
  <2>2. \A b \in Calls : pos[b] <= pos'[b]
    BY <2>1 DEF TypeOK
  <2> QED
    BY <1>1, <2>1, <2>2
<1>4. ASSUME NEW c \in Calls, Begin(c) \/ InsertConflicts(c) \/ InsertFails(c) \/ Return(c)
      PROVE  Origin'
  <2>1. /\ store' = store /\ pos' = pos
        /\ \A b \in Calls : status[b] # "idle" => op'[b] = op[b] /\ status'[b] # "idle"
    BY <1>4 DEF Begin, InsertConflicts, InsertFails, Return, Throw, TypeOK
  <2>2. \A b \in Calls : pos[b] <= pos'[b]
    BY <2>1 DEF TypeOK
  <2> QED
    BY <1>1, <2>1, <2>2
<1>5. CASE Crash \/ (\E r \in Readers : \/ BeginRead(r) \/ ReadLinks(r) \/ ReadKeys(r)
                                       \/ ReadPrismLinks(r) \/ ReadPrismKeys(r) \/ ReadFails(r))
           \/ UNCHANGED vars
  <2>1. /\ store' = store /\ pos' = pos /\ op' = op
        /\ \A b \in Calls : status[b] # "idle" => status'[b] # "idle"
    BY <1>5 DEF Crash, BeginRead, ReadLinks, ReadKeys, ReadPrismLinks, ReadPrismKeys, ReadFails,
                callVars, vars
  <2>2. \A b \in Calls : pos[b] <= pos'[b]
    BY <2>1 DEF TypeOK
  <2> QED
    BY <1>1, <2>1, <2>2
<1> QED
  BY <1>2, <1>3, <1>4, <1>5 DEF Next

\* The tables of the rows, and what a link says.
LEMMA Tables ==
  /\ \A d : DIDRow(d).table = "dids"
  /\ \A k : KeyRow(k).table = "keys"
  /\ \A d, k, c : KeyLink(d, k, c).table = "didkey-link"
  /\ \A role, h, t, a, c :
       /\ DIDLink(role, h, t, a, c).table = "did-link" /\ DIDLink(role, h, t, a, c).by = c
       /\ DIDLink(role, h, t, a, c).role = role /\ DIDLink(role, h, t, a, c).host = h
BY DEF DIDRow, KeyRow, KeyLink, DIDLink

\* A mediator or routing link is one of a storeMediator of its host.
LEMMA MediatorLinkOf ==
  ASSUME NEW o \in Ops, NEW c \in Calls, NEW i \in 1..Len(RowsOf(o, c)),
         RowsOf(o, c)[i].table = "did-link", RowsOf(o, c)[i].role \in {"mediator", "routing"}
  PROVE  o \in MediatorOps /\ o.kind = "mediator" /\ o.host = RowsOf(o, c)[i].host
<1> DEFINE row == RowsOf(o, c)[i]
<1>1. CASE o \in DIDOps /\ RowsOf(o, c) = DIDRows(o, c)
  <2>1. i = 1 \/ \E k \in DOMAIN o.keys : i = 2 * k \/ i = 2 * k + 1
    BY <1>1, DIDRowsShape
  <2>2. CASE i = 1
    <3>1. row = DIDRow(o.did)
      BY <1>1, <2>2, DIDRowsShape
    <3> QED
      BY <3>1, Tables
  <2>3. ASSUME NEW k \in DOMAIN o.keys, i = 2 * k \/ i = 2 * k + 1
        PROVE  FALSE
    <3>1. row = KeyRow(o.keys[k]) \/ row = KeyLink(o.did, o.keys[k], c)
      BY <1>1, <2>3, DIDRowsShape
    <3> QED
      BY <3>1, Tables
  <2> QED
    BY <2>1, <2>2, <2>3
<1>2. CASE o \in PairOps /\ RowsOf(o, c) = PairRows(o, c)
  <2>1. i = 1 \/ i = 2 \/ i = 3
    BY <1>2, PairRowsShape
  <2>2. \/ row = DIDRow(o.host) \/ row = DIDRow(o.target)
        \/ row = DIDLink("pair", o.host, o.target, o.alias, c)
    BY <1>2, <2>1, PairRowsShape
  <2> QED
    BY <2>2, Tables
<1>3. CASE o \in MediatorOps /\ o.kind = "mediator" /\ RowsOf(o, c) = MediatorRows(o, c)
  <2>1. i = 1 \/ i = 2 \/ i = 3 \/ i = 4 \/ i = 5
    BY <1>3, MediatorRowsShape
  <2>2. \/ \E d : row = DIDRow(d)
        \/ row = DIDLink("mediator", o.host, o.mediator, NoAlias, c)
        \/ row = DIDLink("routing", o.host, o.routing, NoAlias, c)
    BY <1>3, <2>1, MediatorRowsShape
  <2> QED
    BY <1>3, <2>2, Tables
<1>4. CASE o \in ObjectOps /\ RowsOf(o, c) = ObjectRows(o)
  BY <1>4, ObjectRowsShape DEF ObjectTables
<1> QED
  BY <1>1, <1>2, <1>3, <1>4, RowsOfKind

\* A storeMediator that has returned has stored both links.
LEMMA ReturnedMediator ==
  ASSUME TypeOK, CallInv, NEW c \in Calls, status[c] = "returned",
         op[c] \in MediatorOps, op[c].kind = "mediator"
  PROVE  {"mediator", "routing"} \subseteq LinkRoles(op[c].host)
<1>1. Rows(c) = MediatorRows(op[c], c) /\ Len(Rows(c)) = 5
  BY MediatorRowsShape DEF Rows, RowsOf
<1>2. Rows(c)[4] \in store /\ Rows(c)[5] \in store
  <2>1. /\ pos[c] > Len(Rows(c))
        /\ \A i \in 1..Len(Rows(c)) : i < pos[c] => Rows(c)[i] \in store
    BY DEF CallInv
  <2> QED
    BY <1>1, <2>1 DEF TypeOK
<1>3. /\ Rows(c)[4] = DIDLink("mediator", op[c].host, op[c].mediator, NoAlias, c)
      /\ Rows(c)[5] = DIDLink("routing", op[c].host, op[c].routing, NoAlias, c)
  BY <1>1, MediatorRowsShape
<1> DEFINE l4 == Rows(c)[4]
           l5 == Rows(c)[5]
<1>4. /\ l4.table = "did-link" /\ l4.host = op[c].host /\ l4.role = "mediator"
      /\ l5.table = "did-link" /\ l5.host = op[c].host /\ l5.role = "routing"
  BY <1>3 DEF DIDLink
<1> QED
  BY <1>2, <1>4 DEF LinkRoles

\* Half a mediator record, on which getAllMediators throws, is only ever left
\* by a storeMediator that has not returned.
THEOREM MediatorsCorrect == Spec => []MediatorsReadable
<1>1. Init => FullInv /\ Origin
  BY FullInit DEF Init, Origin
<1>2. FullInv /\ Origin /\ [Next]_vars => (FullInv /\ Origin)'
  BY FullStep, OriginStep DEF FullInv
<1>3. ASSUME FullInv, Origin, NEW h \in DIDs, HalfRecord(h)
      PROVE  \E c \in Calls : op[c].kind = "mediator" /\ op[c].host = h /\ status[c] # "returned"
  <2>1. PICK row \in store :
          row.table = "did-link" /\ row.host = h /\ row.role \in {"mediator", "routing"}
    BY <1>3 DEF HalfRecord, LinkRoles
  <2>2. PICK c \in Calls : status[c] # "idle" /\ \E i \in 1..Len(Rows(c)) : Rows(c)[i] = row
    BY <1>3 DEF Origin
  <2>3. PICK i \in 1..Len(Rows(c)) : Rows(c)[i] = row
    BY <2>2
  <2>4. op[c] \in Ops
    BY <1>3, <2>2 DEF FullInv, CallInv
  <2>5. op[c] \in MediatorOps /\ op[c].kind = "mediator" /\ op[c].host = h
    BY <2>1, <2>3, <2>4, MediatorLinkOf DEF Rows
  <2>6. status[c] # "returned"
    BY <1>3, <2>5, ReturnedMediator DEF FullInv, HalfRecord
  <2> QED
    BY <2>5, <2>6
<1>4. FullInv /\ Origin => MediatorsReadable
  BY <1>3 DEF MediatorsReadable
<1> QED
  BY <1>1, <1>2, <1>4, PTL DEF Spec
-----------------------------------------------------------------------------
(* Rows that are not DIDs are inserted once                                *)

\* The places of the rows that call c has dealt with.
DealtWith(c) == {i \in 1..Len(Rows(c)) : i < pos[c]}

\* Only a DID is looked up and shared: any other row that a call has dealt with
\* it has inserted, and the store keeps its uuid unique.
InsertedOnce ==
  \A b, c \in Calls : \A i \in DealtWith(b), j \in DealtWith(c) :
    Rows(b)[i] = Rows(c)[j] /\ Rows(b)[i].table # "dids" => b = c /\ i = j

\* What is dealt with is stored.
LEMMA DealtIsStored ==
  ASSUME TypeOK, CallInv, NEW c \in Calls, NEW i \in DealtWith(c)
  PROVE  Rows(c)[i] \in store /\ status[c] # "idle"
<1>1. status[c] # "idle"
  BY DEF DealtWith, CallInv, TypeOK
<1> QED
  BY <1>1 DEF DealtWith, CallInv

\* A step deals with one row at most: a DID that was found, or what it inserts.
LEMMA DealsWithOne ==
  ASSUME TypeOK, CallInv, [Next]_vars, NEW c \in Calls, NEW i \in DealtWith(c)'
  PROVE  \/ i \in DealtWith(c) /\ Rows(c)' = Rows(c)
         \/ /\ Rows(c)' = Rows(c) /\ op[c] \in Ops /\ i = pos[c]
            /\ \/ Rows(c)[i].table = "dids" /\ \A b \in Calls : b # c => pos'[b] = pos[b]
               \/ Insert(c)
<1>1. i \in 1..Len(Rows(c)') /\ i < pos'[c]
  BY DEF DealtWith
<1>2. CASE status[c] = "idle"
  <2>1. pos'[c] = 1
    BY <1>2 DEF Next, CallInv, Crash, Begin, LookUp, Insert, InsertConflicts, InsertFails, Return,
                BeginRead, ReadLinks, ReadKeys, ReadPrismLinks, ReadPrismKeys, ReadFails, Throw,
                Advance, Busy, Inserting, callVars, vars, TypeOK
  <2> QED
    BY <1>1, <2>1
<1>3. CASE status[c] # "idle"
  <2>1. op'[c] = op[c]
    BY <1>3, Grows DEF vars
  <2>2. Rows(c)' = Rows(c)
    BY <2>1 DEF Rows
  <2>3. op[c] \in Ops /\ Len(Rows(c)) \in Nat
    BY <1>3, RefsComeFirst DEF CallInv, Rows
  <2>4. CASE pos'[c] = pos[c]
    BY <1>1, <2>2, <2>4 DEF DealtWith
  <2>5. CASE pos'[c] # pos[c]
    <3>1. LookUp(c) \/ Insert(c)
      BY <2>5 DEF Next, Crash, Begin, LookUp, Insert, InsertConflicts, InsertFails, Return,
                  BeginRead, ReadLinks, ReadKeys, ReadPrismLinks, ReadPrismKeys, ReadFails, Throw,
                  Advance, callVars, vars, TypeOK
    <3>2. pos'[c] = pos[c] + 1 /\ \A b \in Calls : b # c => pos'[b] = pos[b]
      BY <2>5, <3>1 DEF LookUp, Insert, Advance, TypeOK
    <3>3. i < pos[c] \/ i = pos[c]
      BY <1>1, <2>2, <2>3, <3>2 DEF TypeOK
    <3>4. LookUp(c) => Rows(c)[pos[c]].table = "dids"
      BY DEF LookUp, At
    <3> QED
      BY <1>1, <2>2, <2>3, <3>1, <3>2, <3>3, <3>4 DEF DealtWith
  <2> QED
    BY <2>4, <2>5
<1> QED
  BY <1>2, <1>3

LEMMA OnceInit ==
  ASSUME Init
  PROVE  InsertedOnce
BY DEF Init, InsertedOnce, DealtWith

LEMMA OnceStep ==
  ASSUME TypeOK, CallInv, InsertedOnce, [Next]_vars
  PROVE  InsertedOnce'
<1> SUFFICES ASSUME NEW b \in Calls, NEW c \in Calls,
                    NEW i \in DealtWith(b)', NEW j \in DealtWith(c)',
                    Rows(b)'[i] = Rows(c)'[j], Rows(b)'[i].table # "dids"
             PROVE  b = c /\ i = j
  BY DEF InsertedOnce
<1>1. Rows(b)' = Rows(b) /\ Rows(c)' = Rows(c)
  BY DealsWithOne
<1>2. i \in DealtWith(b) \/ (i = pos[b] /\ Insert(b))
  BY <1>1, DealsWithOne
<1>3. j \in DealtWith(c) \/ (j = pos[c] /\ Insert(c))
  BY <1>1, DealsWithOne
<1>4. CASE i \in DealtWith(b) /\ j \in DealtWith(c)
  BY <1>1, <1>4 DEF InsertedOnce
<1>5. ASSUME i \in DealtWith(b), j = pos[c], Insert(c)
      PROVE  FALSE
  BY <1>1, <1>5, DealtIsStored DEF Insert, At
<1>6. ASSUME j \in DealtWith(c), i = pos[b], Insert(b)
      PROVE  FALSE
  BY <1>1, <1>6, DealtIsStored DEF Insert, At
<1>7. CASE i = pos[b] /\ Insert(b) /\ j = pos[c] /\ Insert(c)
  <2>1. ASSUME b # c PROVE FALSE
    <3>1. pos'[c] = pos[c]
      BY <1>7, <2>1 DEF Insert, Advance, TypeOK
    <3> QED
      BY <1>7, <3>1 DEF Insert, Advance, TypeOK
  <2> QED
    BY <1>7, <2>1
<1> QED
  BY <1>2, <1>3, <1>4, <1>5, <1>6, <1>7

-----------------------------------------------------------------------------
(* Storing what is stored                                                  *)

\* A link of a key is that of a DID's creation, right after the key.
LEMMA KeyLinkOf ==
  ASSUME NEW o \in Ops, NEW c \in Calls, NEW i \in 1..Len(RowsOf(o, c)),
         RowsOf(o, c)[i].table = "didkey-link"
  PROVE  /\ o \in DIDOps /\ o.kind = "did"
         /\ \E k \in DOMAIN o.keys :
              /\ i = 2 * k + 1
              /\ RowsOf(o, c)[i] = KeyLink(o.did, o.keys[k], c)
              /\ RowsOf(o, c)[2 * k] = KeyRow(o.keys[k])
<1> DEFINE row == RowsOf(o, c)[i]
<1>1. CASE o \in DIDOps /\ o.kind = "did" /\ RowsOf(o, c) = DIDRows(o, c)
  <2>1. i = 1 \/ \E k \in DOMAIN o.keys : i = 2 * k \/ i = 2 * k + 1
    BY <1>1, DIDRowsShape
  <2>2. i # 1
    <3>1. i = 1 => row = DIDRow(o.did)
      BY <1>1, DIDRowsShape
    <3> QED
      BY <3>1, Tables
  <2>3. ASSUME NEW k \in DOMAIN o.keys, i = 2 * k
        PROVE  FALSE
    <3>1. row = KeyRow(o.keys[k])
      BY <1>1, <2>3, DIDRowsShape
    <3> QED
      BY <3>1, Tables
  <2>4. PICK k \in DOMAIN o.keys : i = 2 * k + 1
    BY <2>1, <2>2, <2>3
  <2>5. row = KeyLink(o.did, o.keys[k], c) /\ RowsOf(o, c)[2 * k] = KeyRow(o.keys[k])
    BY <1>1, <2>4, DIDRowsShape
  <2> QED
    BY <1>1, <2>4, <2>5
<1>2. CASE o \in PairOps /\ RowsOf(o, c) = PairRows(o, c)
  <2>1. i = 1 \/ i = 2 \/ i = 3
    BY <1>2, PairRowsShape
  <2>2. (\E d : row = DIDRow(d)) \/ row = DIDLink("pair", o.host, o.target, o.alias, c)
    BY <1>2, <2>1, PairRowsShape
  <2> QED
    BY <2>2, Tables
<1>3. CASE o \in MediatorOps /\ RowsOf(o, c) = MediatorRows(o, c)
  <2>1. i = 1 \/ i = 2 \/ i = 3 \/ i = 4 \/ i = 5
    BY <1>3, MediatorRowsShape
  <2>2. \/ \E d : row = DIDRow(d)
        \/ row = DIDLink("mediator", o.host, o.mediator, NoAlias, c)
        \/ row = DIDLink("routing", o.host, o.routing, NoAlias, c)
    BY <1>3, <2>1, MediatorRowsShape
  <2> QED
    BY <2>2, Tables
<1>4. CASE o \in ObjectOps /\ RowsOf(o, c) = ObjectRows(o)
  BY <1>4, ObjectRowsShape DEF ObjectTables
<1> QED
  BY <1>1, <1>2, <1>3, <1>4, RowsOfKind

\* A link between DIDs is the only row of its call that is like it.
LEMMA DIDLinkOf ==
  ASSUME NEW o \in Ops, NEW c \in Calls, NEW i \in 1..Len(RowsOf(o, c)),
         RowsOf(o, c)[i].table = "did-link"
  PROVE  /\ RowsOf(o, c)[i].by = c
         /\ \A j \in 1..Len(RowsOf(o, c)) : RowsOf(o, c)[j] = RowsOf(o, c)[i] => j = i
<1> DEFINE row == RowsOf(o, c)[i]
<1>1. CASE o \in DIDOps /\ RowsOf(o, c) = DIDRows(o, c)
  <2>1. i = 1 \/ \E k \in DOMAIN o.keys : i = 2 * k \/ i = 2 * k + 1
    BY <1>1, DIDRowsShape
  <2>2. \/ row = DIDRow(o.did)
        \/ \E k \in DOMAIN o.keys : row = KeyRow(o.keys[k]) \/ row = KeyLink(o.did, o.keys[k], c)
    BY <1>1, <2>1, DIDRowsShape
  <2> QED
    BY <2>2, Tables
<1>2. CASE o \in PairOps /\ RowsOf(o, c) = PairRows(o, c)
  <2>1. Len(RowsOf(o, c)) = 3 /\ \A j \in 1..3 : j = 1 \/ j = 2 \/ j = 3
    BY <1>2, PairRowsShape
  <2>2. /\ RowsOf(o, c)[1].table = "dids" /\ RowsOf(o, c)[2].table = "dids"
        /\ RowsOf(o, c)[3].by = c
    BY <1>2, PairRowsShape, Tables
  <2> QED
    BY <2>1, <2>2
<1>3. CASE o \in MediatorOps /\ RowsOf(o, c) = MediatorRows(o, c)
  <2>1. Len(RowsOf(o, c)) = 5 /\ \A j \in 1..5 : j = 1 \/ j = 2 \/ j = 3 \/ j = 4 \/ j = 5
    BY <1>3, MediatorRowsShape
  <2>2. /\ RowsOf(o, c)[1].table = "dids" /\ RowsOf(o, c)[2].table = "dids"
        /\ RowsOf(o, c)[3].table = "dids"
        /\ RowsOf(o, c)[4].by = c /\ RowsOf(o, c)[4].role = "mediator"
        /\ RowsOf(o, c)[5].by = c /\ RowsOf(o, c)[5].role = "routing"
    BY <1>3, MediatorRowsShape, Tables
  <2> QED
    BY <2>1, <2>2
<1>4. CASE o \in ObjectOps /\ RowsOf(o, c) = ObjectRows(o)
  BY <1>4, ObjectRowsShape DEF ObjectTables
<1> QED
  BY <1>1, <1>2, <1>3, <1>4, RowsOfKind

\* A call that finds the row it is to insert stored, and has not looked it up, is
\* storing an object again: its own links are new.
LEMMA ConflictIsOfAnObject ==
  ASSUME TypeOK, CallInv, Origin, InsertedOnce, NEW c \in Calls, Busy(c),
         At(c) \in store, At(c).table # "dids"
  PROVE  SavedBefore(c)
<1>1. /\ op[c] \in Ops /\ Rows(c) \in Seq(Row) /\ pos[c] \in 1..Len(Rows(c))
      /\ At(c) \in Row /\ At(c) = Rows(c)[pos[c]]
  BY RowAt DEF At
<1>2. PICK b \in Calls :
        status[b] # "idle" /\ \E i \in 1..Len(Rows(b)) : i < pos[b] /\ Rows(b)[i] = At(c)
  BY DEF Origin
<1>3. PICK j \in DealtWith(b) : Rows(b)[j] = At(c)
  BY <1>2 DEF DealtWith
<1>4. op[b] \in Ops /\ j \in 1..Len(Rows(b)) /\ j < pos[b] /\ j \in Nat
  BY <1>2, <1>3 DEF CallInv, DealtWith
<1>5. CASE At(c).table \in ObjectTables
  <2>1. Rows(b) \in Seq(Row)
    BY <1>4, RefsComeFirst DEF Rows
  <2>2. DOMAIN Rows(b) = 1..Len(Rows(b)) /\ DOMAIN Rows(c) = 1..Len(Rows(c))
    BY <1>1, <2>1
  <2>3. <<b, j>> # <<c, pos[c]>>
    BY <1>1, <1>4
  <2> QED
    BY <1>1, <1>2, <1>3, <1>4, <1>5, <2>2, <2>3 DEF SavedBefore
<1>6. CASE At(c).table = "did-link"
  <2>1. b = c
    BY <1>1, <1>3, <1>4, <1>6, DIDLinkOf DEF Rows
  <2>2. j = pos[c]
    BY <1>1, <1>3, <1>4, <1>6, <2>1, DIDLinkOf DEF Rows
  <2> QED
    BY <1>4, <2>1, <2>2
<1>7. CASE At(c).table = "didkey-link"
  <2>1. PICK k \in DOMAIN op[c].keys :
          /\ pos[c] = 2 * k + 1
          /\ At(c) = KeyLink(op[c].did, op[c].keys[k], c)
          /\ Rows(c)[2 * k] = KeyRow(op[c].keys[k])
    BY <1>1, <1>7, KeyLinkOf DEF Rows
  <2>2. PICK m \in DOMAIN op[b].keys :
          /\ j = 2 * m + 1
          /\ At(c) = KeyLink(op[b].did, op[b].keys[m], b)
          /\ Rows(b)[2 * m] = KeyRow(op[b].keys[m])
    BY <1>3, <1>4, <1>7, KeyLinkOf DEF Rows
  <2>3. b = c /\ op[c].keys[k] = op[b].keys[m]
    BY <2>1, <2>2 DEF KeyLink
  <2>4. k \in Nat \ {0} /\ m \in Nat \ {0}
    <3>1. op[c] \in DIDOps /\ op[b] \in DIDOps
      BY <1>1, <1>3, <1>4, <1>7, KeyLinkOf DEF Rows
    <3>2. op[c].keys \in Seq(Keys) /\ op[b].keys \in Seq(Keys)
      BY <3>1 DEF DIDOps
    <3> QED
      BY <3>2
  <2>5. 2 * k \in DealtWith(c) /\ 2 * m \in DealtWith(b)
    <3>1. Len(Rows(c)) \in Nat /\ Len(Rows(b)) \in Nat
      BY <1>1, <1>4, RefsComeFirst DEF Rows
    <3>2. pos[c] \in Nat /\ pos[b] \in Nat
      BY DEF TypeOK
    <3>3. 2 * k \in 1..Len(Rows(c)) /\ 2 * k < pos[c]
      BY <1>1, <2>1, <2>4, <3>1, <3>2
    <3>4. 2 * m \in 1..Len(Rows(b)) /\ 2 * m < pos[b]
      BY <1>4, <2>2, <2>4, <3>1, <3>2
    <3> QED
      BY <3>3, <3>4 DEF DealtWith
  <2>6. 2 * k = 2 * m
    <3>1. Rows(c)[2 * k] = Rows(b)[2 * m] /\ Rows(c)[2 * k].table # "dids"
      BY <2>1, <2>2, <2>3, Tables
    <3> QED
      BY <2>5, <3>1 DEF InsertedOnce
  <2> QED
    BY <1>4, <2>1, <2>2, <2>3, <2>4, <2>6
<1> QED
  BY <1>1, <1>5, <1>6, <1>7 DEF Row, KeyLinks, DIDLinks

\* A call made alone is alone; what it has not found stays away until it has
\* inserted it; and the only rows it finds in its way are objects.
AloneInv ==
  /\ \A c \in Calls : absent[c] => Busy(c)
  /\ \A c \in Alone, b \in Calls : status[c] = "running" /\ status[b] = "running" => b = c
  /\ \A c \in Alone : absent[c] => At(c) \notin store
  /\ StoringAgainIsNoError

LEMMA AloneInit ==
  ASSUME Init
  PROVE  AloneInv
BY AloneAssumption DEF Init, AloneInv, StoringAgainIsNoError

\* Who has saved an object before has done so for good.
LEMMA SavedBeforeStays ==
  ASSUME TypeOK, [Next]_vars, NEW c \in Calls, status[c] # "idle", SavedBefore(c)
  PROVE  SavedBefore(c)'
<1>1. ASSUME NEW b \in Calls, status[b] # "idle"
      PROVE  status'[b] # "idle" /\ Rows(b)' = Rows(b)
  BY <1>1, Grows DEF Rows, vars
<1> QED
  BY <1>1 DEF SavedBefore

LEMMA AloneStep ==
  ASSUME TypeOK, CallInv, Origin, InsertedOnce, AloneInv, [Next]_vars
  PROVE  AloneInv'
<1>1. ASSUME NEW c \in Calls, c \in Alone, status[c] = "threw", faults' = 0
      PROVE  SavedBefore(c)'
  <2>1. faults = 0
    <3>1. faults' = faults \/ faults' = faults + 1
      BY DEF Next, Crash, Begin, LookUp, Insert, InsertConflicts, InsertFails, Return,
             BeginRead, ReadLinks, ReadKeys, ReadPrismLinks, ReadPrismKeys, ReadFails, Fault, vars
    <3> QED
      BY <1>1, <3>1 DEF TypeOK
  <2> QED
    BY <1>1, <2>1, SavedBeforeStays DEF AloneInv, Busy, StoringAgainIsNoError
<1>2. ASSUME NEW c \in Calls, Begin(c)
      PROVE  AloneInv'
  <2>1. /\ status' = [status EXCEPT ![c] = "running"] /\ status[c] = "idle"
        /\ UNCHANGED <<store, pos, absent, reads, faults>>
        /\ \A b \in Calls : b # c => op'[b] = op[b]
        /\ \A b \in Calls : status[b] = "running" => {b, c} \cap Alone = {}
    BY <1>2 DEF Begin, TypeOK
  <2>2. \A b \in Calls : b # c => At(b)' = At(b) /\ Rows(b)' = Rows(b)
    BY <2>1 DEF At, Rows
  <2>3. ~absent[c]
    BY <2>1 DEF AloneInv, Busy
  <2>4. \A b \in Calls : status'[b] = "threw" => status[b] = "threw"
    BY <2>1 DEF TypeOK
  <2> QED
    BY <1>1, <2>1, <2>2, <2>3, <2>4, AloneAssumption DEF AloneInv, Busy, StoringAgainIsNoError, TypeOK
<1>3. ASSUME NEW c \in Calls, LookUp(c) \/ Insert(c)
      PROVE  AloneInv'
  <2>1. /\ status[c] = "running" /\ op' = op /\ status' = status /\ faults' = faults
        /\ \A b \in Calls : b # c => pos'[b] = pos[b] /\ absent'[b] = absent[b]
        /\ \/ ~absent'[c] /\ store' = store
           \/ ~absent'[c] /\ store' = store \cup {At(c)}
           \/ Busy(c) /\ At(c) \notin store /\ pos' = pos /\ store' = store
    BY <1>3 DEF LookUp, Insert, Inserting, Busy, Advance, TypeOK
  <2>2. \A b \in Calls : b # c => At(b)' = At(b) /\ Rows(b)' = Rows(b)
    BY <2>1 DEF At, Rows
  <2>3. pos' = pos => At(c)' = At(c) /\ Rows(c)' = Rows(c)
    BY <2>1 DEF At, Rows
  <2>4. \A b \in Alone : absent[b] => b = c
    BY <2>1, AloneAssumption DEF AloneInv, Busy
  <2> QED
    BY <1>1, <2>1, <2>2, <2>3, <2>4, AloneAssumption DEF AloneInv, Busy, StoringAgainIsNoError
<1>4. ASSUME NEW c \in Calls, InsertConflicts(c)
      PROVE  AloneInv'
  <2>1. /\ Busy(c) /\ At(c) \in store /\ (At(c).table = "dids" => absent[c])
        /\ status' = [status EXCEPT ![c] = "threw"] /\ absent' = [absent EXCEPT ![c] = FALSE]
        /\ UNCHANGED <<store, op, pos, faults>>
    BY <1>4 DEF InsertConflicts, Inserting, Throw
  <2>2. \A b \in Calls : At(b)' = At(b) /\ Rows(b)' = Rows(b)
    BY <2>1 DEF At, Rows
  <2>3. c \in Alone => SavedBefore(c)
    BY <2>1, ConflictIsOfAnObject DEF AloneInv
  <2>4. c \in Alone => SavedBefore(c)'
    BY <2>1, <2>3, SavedBeforeStays DEF Busy
  <2> QED
    BY <1>1, <2>1, <2>2, <2>4, AloneAssumption DEF AloneInv, Busy, StoringAgainIsNoError, TypeOK
<1>5. ASSUME NEW c \in Calls, InsertFails(c)
      PROVE  AloneInv'
  <2>1. /\ status' = [status EXCEPT ![c] = "threw"] /\ absent' = [absent EXCEPT ![c] = FALSE]
        /\ UNCHANGED <<store, op, pos>> /\ faults' # 0
    BY <1>5 DEF InsertFails, Throw, Fault, TypeOK
  <2>2. \A b \in Calls : At(b)' = At(b) /\ Rows(b)' = Rows(b)
    BY <2>1 DEF At, Rows
  <2> QED
    BY <2>1, <2>2, AloneAssumption DEF AloneInv, Busy, StoringAgainIsNoError, TypeOK
<1>6. ASSUME NEW c \in Calls, Return(c)
      PROVE  AloneInv'
  <2>1. /\ status' = [status EXCEPT ![c] = "returned"] /\ status[c] = "running"
        /\ pos[c] > Len(Rows(c))
        /\ UNCHANGED <<store, op, pos, absent, faults>>
    BY <1>6 DEF Return
  <2>2. \A b \in Calls : At(b)' = At(b) /\ Rows(b)' = Rows(b)
    BY <2>1 DEF At, Rows
  <2>3. ~absent[c]
    <3>1. Len(Rows(c)) \in Nat /\ pos[c] \in Nat
      BY <2>1, RefsComeFirst DEF CallInv, TypeOK, Rows
    <3> QED
      BY <2>1, <3>1 DEF AloneInv, Busy
  <2> QED
    BY <1>1, <2>1, <2>2, <2>3, AloneAssumption DEF AloneInv, Busy, StoringAgainIsNoError, TypeOK
<1>7. CASE Crash
  <2>1. /\ absent' = [c \in Calls |-> FALSE] /\ faults' # 0
        /\ \A c \in Calls : status'[c] # "running"
    BY <1>7 DEF Crash, Fault, TypeOK
  <2> QED
    BY <2>1, AloneAssumption DEF AloneInv, Busy, StoringAgainIsNoError
<1>8. ASSUME UNCHANGED callVars
      PROVE  AloneInv'
  <2>1. \A b \in Calls : At(b)' = At(b) /\ Rows(b)' = Rows(b)
    BY <1>8 DEF At, Rows, callVars
  <2> QED
    BY <1>1, <1>8, <2>1, AloneAssumption DEF AloneInv, Busy, StoringAgainIsNoError, callVars
<1>9. ASSUME NEW r \in Readers,
             \/ BeginRead(r) \/ ReadLinks(r) \/ ReadKeys(r) \/ ReadPrismLinks(r)
             \/ ReadPrismKeys(r) \/ ReadFails(r)
      PROVE  AloneInv'
  BY <1>8, <1>9 DEF BeginRead, ReadLinks, ReadKeys, ReadPrismLinks, ReadPrismKeys, ReadFails
<1>10. CASE UNCHANGED vars
  BY <1>8, <1>10 DEF vars, callVars
<1> QED
  BY <1>2, <1>3, <1>4, <1>5, <1>6, <1>7, <1>9, <1>10 DEF Next

\* Storing a DID again is no error: a call that no other overlaps throws only when
\* an insert fails, or when it saves an object that has been saved
\* (DIDRepository.save).
THEOREM StoringAgainCorrect == Spec => []StoringAgainIsNoError
<1> DEFINE IInv == FullInv /\ Origin /\ InsertedOnce /\ AloneInv
<1>1. Init => IInv
  BY FullInit, OnceInit, AloneInit DEF Init, Origin
<1>2. IInv /\ [Next]_vars => IInv'
  BY FullStep, OriginStep, OnceStep, AloneStep DEF FullInv
<1>3. IInv => StoringAgainIsNoError
  BY DEF AloneInv
<1> QED
  BY <1>1, <1>2, <1>3, PTL DEF Spec

-----------------------------------------------------------------------------
(* Backups.  What a call has stored before it returns stays in the store,  *)
(* so each query finds it; and a key has one link, since only one call     *)
(* inserts it, so the key is given the DID it was stored with.             *)

\* What the theorems of the store say of it.
StoreInv == FullInv /\ Origin /\ InsertedOnce

\* The store's own steps keep it, and so does a query of the backup that fails.
LEMMA StoreInvStep ==
  ASSUME StoreInv, [BackupNext]_backupVars
  PROVE  StoreInv'
<1>1. CASE [Next]_vars
  BY <1>1, FullStep, OriginStep, OnceStep DEF StoreInv, FullInv
<1>2. CASE BackupFails
  <2>1. /\ UNCHANGED <<store, op, pos, absent, status, reads>>
        /\ faults < MaxFaults /\ faults' = faults + 1
    BY <1>2 DEF BackupFails, Fault, callVars
  <2>2. \A c \in Calls : Rows(c)' = Rows(c)
    BY <2>1 DEF Rows
  <2>3. TypeOK'
    BY <2>1, FaultsAssumption DEF StoreInv, FullInv, TypeOK
  <2>4. CallInv'
    BY <2>1, <2>2 DEF StoreInv, FullInv, CallInv, LinksAreGrounded
  <2>5. \A r \in Readers : ReadInv(r)'
    BY <2>1 DEF StoreInv, FullInv, ReadInv, Covered, HasKeys, Linked
  <2>6. \A c \in Calls : DealtWith(c)' = DealtWith(c)
    BY <2>1, <2>2 DEF DealtWith
  <2>7. Origin' /\ InsertedOnce'
    BY <2>1, <2>2, <2>6 DEF StoreInv, Origin, InsertedOnce
  <2> QED
    BY <2>3, <2>4, <2>5, <2>7 DEF StoreInv, FullInv
<1> QED
  BY <1>1, <1>2 DEF BackupNext, BackupStep, OtherStep, backupVars, vars

\* Nothing stored is lost, and who has returned has.
LEMMA StoreGrows ==
  ASSUME TypeOK, [BackupNext]_backupVars
  PROVE  /\ store \subseteq store'
         /\ \A c \in Calls : status[c] = "returned" => status'[c] = "returned" /\ op'[c] = op[c]
BY Grows DEF BackupNext, BackupStep, BackupFails, OtherStep, backupVars, vars, callVars

-----------------------------------------------------------------------------
(* Types                                                                   *)

\* The rows of each table.
LEMMA RowOfTable ==
  ASSUME NEW row \in Row
  PROVE  /\ row.table = "dids" => row.did \in DIDs
         /\ row.table \in ObjectTables => row.key \in Keys
         /\ row.table = "didkey-link" => row.did \in DIDs /\ row.key \in Keys
         /\ row.table = "did-link" => /\ row.host \in DIDs /\ row.target \in DIDs
                                      /\ row.alias \in Aliases \cup {NoAlias}
BY DEF Row, KeyLinks, DIDLinks, ObjectTables

\* The link that getAllMediators finds for a host is one of the host's.
LEMMA TargetIsLinked ==
  ASSUME NEW role, NEW h \in HostsOf(role)
  PROVE  \E l \in FoundLinks({role}) : l.host = h /\ TargetOf(h, role) = l.target
BY DEF HostsOf, TargetOf

LEMMA BackupTypeStep ==
  ASSUME BackupTypeOK, StoreInv, [BackupNext]_backupVars
  PROVE  BackupTypeOK'
<1>1. TypeOK' /\ store \subseteq Row
  BY StoreInvStep DEF StoreInv, FullInv, TypeOK
<1>2. \A table \in ObjectTables : Found(table) \subseteq Keys
  BY <1>1, RowOfTable DEF Found
<1>3. \A roles : \A l \in FoundLinks(roles) :
        l.host \in DIDs /\ l.target \in DIDs /\ l.alias \in Aliases \cup {NoAlias}
  BY <1>1, RowOfTable DEF FoundLinks
<1>4. NoBackup \in Backups
  BY DEF NoBackup, Backups, BackupSteps
<1>5. ASSUME BackupCredentials
      PROVE  backup' \in Backups
  BY <1>2, <1>5 DEF BackupCredentials, NoBackup, Backups, BackupSteps, BackupTypeOK, ObjectTables
<1>6. ASSUME BackupDIDs
      PROVE  backup' \in Backups
  BY <1>6 DEF BackupDIDs, Backups, BackupSteps, BackupTypeOK
<1>7. ASSUME BackupPairs
      PROVE  backup' \in Backups
  <2> DEFINE pairs == {[holder |-> l.host, recipient |-> l.target, alias |-> l.alias]
                         : l \in FoundLinks({"pair"})}
  <2>1. pairs \subseteq [holder : DIDs, recipient : DIDs, alias : Aliases \cup {NoAlias}]
    BY <1>3
  <2>2. backup' = [backup EXCEPT !.at = "keys", !.did_pairs = pairs]
    BY <1>7 DEF BackupPairs
  <2> HIDE DEF pairs
  <2> QED
    BY <2>1, <2>2 DEF Backups, BackupSteps, BackupTypeOK
<1>8. ASSUME BackupKeys
      PROVE  backup' \in Backups
  BY <1>2, <1>8 DEF BackupKeys, Backups, BackupSteps, BackupTypeOK, ObjectTables
<1>9. ASSUME BackupKeyLinks
      PROVE  backup' \in Backups
  <2> DEFINE keys == {[id |-> k, did |-> DIDOfKey(k)] : k \in backup.keyRows}
  <2>1. \A k \in backup.keyRows : k \in Keys /\ DIDOfKey(k) \in DIDs \cup {Unlinked}
    <3>1. \A k : DIDOfKey(k) \in backup.dids \cup {Unlinked}
      BY Zenon DEF DIDOfKey
    <3> QED
      BY <3>1 DEF BackupTypeOK, Backups
  <2>2. keys \subseteq [id : Keys, did : DIDs \cup {Unlinked}]
    BY <2>1
  <2>3. backup' = [backup EXCEPT !.at = "messages", !.keyRows = {}, !.keys = keys]
    BY <1>9 DEF BackupKeyLinks
  <2> HIDE DEF keys
  <2> QED
    BY <2>2, <2>3 DEF Backups, BackupSteps, BackupTypeOK
<1>10. ASSUME BackupMessages
      PROVE  backup' \in Backups
  BY <1>2, <1>10 DEF BackupMessages, Backups, BackupSteps, BackupTypeOK, ObjectTables
<1>11. ASSUME BackupMediators
      PROVE  backup' \in Backups
  <2> DEFINE mediators == {[holder |-> h, mediator |-> TargetOf(h, "mediator"),
                            routing |-> TargetOf(h, "routing")] : h \in HostsOf("mediator")}
  <2>1. HostsOf("mediator") = HostsOf("routing") =>
          mediators \subseteq [holder : DIDs, mediator : DIDs, routing : DIDs]
    <3>1. \A role : \A h \in HostsOf(role) : h \in DIDs /\ TargetOf(h, role) \in DIDs
      <4> SUFFICES ASSUME NEW role, NEW h \in HostsOf(role)
                   PROVE  h \in DIDs /\ TargetOf(h, role) \in DIDs
        OBVIOUS
      <4>1. PICK l \in FoundLinks({role}) : l.host = h /\ TargetOf(h, role) = l.target
        BY TargetIsLinked
      <4> QED
        BY <1>3, <4>1
    <3> QED
      BY <3>1
  <2>2. \/ backup' = [backup EXCEPT !.at = "threw"]
        \/ /\ HostsOf("mediator") = HostsOf("routing")
           /\ backup' = [backup EXCEPT !.at = "done", !.mediators = mediators]
    BY <1>11 DEF BackupMediators
  <2> HIDE DEF mediators
  <2> QED
    BY <2>1, <2>2 DEF Backups, BackupSteps, BackupTypeOK
<1>12. ASSUME BackupFails
      PROVE  backup' \in Backups
  BY <1>12 DEF BackupFails, Backups, BackupSteps, BackupTypeOK
<1>13. ASSUME OtherStep
      PROVE  backup' \in Backups
  <2> DEFINE q == backup.quiet /\ (UnderWay => store' = store)
  <2>1. q \in BOOLEAN
    BY Zenon
  <2>2. backup' = NoBackup \/ backup' = [backup EXCEPT !.quiet = q]
    BY <1>13 DEF OtherStep
  <2> HIDE DEF q
  <2> QED
    BY <1>4, <2>1, <2>2 DEF Backups, BackupTypeOK
<1>14. ASSUME UNCHANGED backup
       PROVE  backup' \in Backups
  BY <1>14 DEF BackupTypeOK
<1> QED
  BY <1>1, <1>5, <1>6, <1>7, <1>8, <1>9, <1>10, <1>11, <1>12, <1>13, <1>14
     DEF BackupNext, BackupStep, backupVars, BackupTypeOK

-----------------------------------------------------------------------------
(* What the queries find                                                   *)

Names(o) ==
  IF o.kind = "did" THEN {o.did}
  ELSE IF o.kind = "pair" THEN {o.host, o.target}
  ELSE IF o.kind = "mediator" THEN {o.host, o.mediator, o.routing}
  ELSE {}

IsOf(o, table) == o.kind = "object" /\ o.table = table

KeysOf(o) ==
  IF o.kind = "did" THEN {o.keys[i] : i \in DOMAIN o.keys}
  ELSE IF IsOf(o, "keys") THEN {o.key} ELSE {}

\* All that a call which has returned has stored.
LEMMA ReturnedIsFound ==
  ASSUME TypeOK, CallInv, NEW c \in Calls, status[c] = "returned"
  PROVE  /\ \A d \in Names(op[c]) : d \in DIDs /\ DIDRow(d) \in store
         /\ KeysOf(op[c]) \subseteq Found("keys")
         /\ op[c].kind = "pair" =>
              DIDLink("pair", op[c].host, op[c].target, op[c].alias, c) \in store
         /\ op[c].kind = "mediator" => op[c].host \in HostsOf("mediator")
         /\ \A table : IsOf(op[c], table) => op[c].key \in Found(table)
<1> DEFINE o == op[c]
           R == Rows(c)
<1>1. o \in Ops
  BY DEF CallInv
<1>2. \A i \in 1..Len(R) : R[i] \in store
  <2>1. Len(R) \in Nat /\ pos[c] \in Nat /\ pos[c] > Len(R)
    BY <1>1, RefsComeFirst DEF TypeOK, CallInv, Rows
  <2> QED
    BY <2>1 DEF CallInv
<1>3. CASE o \in DIDOps /\ o.kind = "did" /\ R = DIDRows(o, c)
  <2>1. o.did \in DIDs
    BY <1>3 DEF DIDOps
  <2>2. /\ DIDRow(o.did) \in store
        /\ \A i \in DOMAIN o.keys : KeyRow(o.keys[i]) \in store
    BY <1>3, ReturnedIsStored
  <2>3. ASSUME NEW i \in DOMAIN o.keys
        PROVE  o.keys[i] \in Found("keys")
    <3>1. KeyRow(o.keys[i]).table = "keys" /\ KeyRow(o.keys[i]).key = o.keys[i]
      BY DEF KeyRow
    <3> QED
      BY <2>2, <3>1 DEF Found
  <2> QED
    BY <1>3, <2>1, <2>2, <2>3 DEF Names, KeysOf, IsOf
<1>4. CASE o \in PairOps /\ o.kind = "pair" /\ R = PairRows(o, c)
  <2>1. /\ Len(R) = 3 /\ R[1] = DIDRow(o.host) /\ R[2] = DIDRow(o.target)
        /\ R[3] = DIDLink("pair", o.host, o.target, o.alias, c)
    BY <1>4, PairRowsShape
  <2>2. o.host \in DIDs /\ o.target \in DIDs
    BY <1>4 DEF PairOps
  <2>3. R[1] \in store /\ R[2] \in store /\ R[3] \in store
    BY <1>2, <2>1
  <2> QED
    BY <1>4, <2>1, <2>2, <2>3 DEF Names, KeysOf, IsOf
<1>5. CASE o \in MediatorOps /\ o.kind = "mediator" /\ R = MediatorRows(o, c)
  <2>1. /\ Len(R) = 5 /\ R[1] = DIDRow(o.host) /\ R[2] = DIDRow(o.mediator)
        /\ R[3] = DIDRow(o.routing)
    BY <1>5, MediatorRowsShape
  <2>2. o.host \in DIDs /\ o.mediator \in DIDs /\ o.routing \in DIDs
    BY <1>5 DEF MediatorOps
  <2>3. R[1] \in store /\ R[2] \in store /\ R[3] \in store
    BY <1>2, <2>1
  <2>4. o.host \in HostsOf("mediator")
    <3>1. "mediator" \in LinkRoles(o.host)
      BY <1>5, ReturnedMediator
    <3> QED
      BY <3>1 DEF LinkRoles, HostsOf, FoundLinks
  <2> QED
    BY <1>5, <2>1, <2>2, <2>3, <2>4 DEF Names, KeysOf, IsOf
<1>6. CASE o \in ObjectOps /\ o.kind = "object" /\ R = ObjectRows(o)
  <2>1. Len(R) = 1 /\ R[1] = [table |-> o.table, key |-> o.key]
    BY <1>6 DEF ObjectRows
  <2>2. [table |-> o.table, key |-> o.key] \in store
    BY <1>2, <2>1
  <2>3. o.key \in Found(o.table)
    BY <2>2 DEF Found
  <2> QED
    BY <1>6, <2>3 DEF Names, KeysOf, IsOf
<1> QED
  BY <1>1, <1>3, <1>4, <1>5, <1>6, RowsOfKind DEF Rows

\* A key that a creation has stored is linked to the DID it was stored with alone:
\* who links it has inserted it, and it is inserted once.
LEMMA KeyOfOneDID ==
  ASSUME StoreInv, NEW c \in Calls, status[c] = "returned", op[c].kind = "did",
         NEW i \in DOMAIN op[c].keys,
         NEW l \in store, l.table = "didkey-link", l.key = op[c].keys[i]
  PROVE  l.did = op[c].did
<1>1. op[c] \in DIDOps /\ Rows(c) = DIDRows(op[c], c) /\ op[c] \in Ops
  BY RowsOfKind DEF StoreInv, FullInv, CallInv, Rows
<1>2. 2 * i \in DealtWith(c) /\ Rows(c)[2 * i] = KeyRow(l.key)
  <2>1. 2 * i \in 1..Len(Rows(c)) /\ Rows(c)[2 * i] = KeyRow(l.key)
    BY <1>1, DIDRowsShape
  <2>2. pos[c] > Len(Rows(c)) /\ pos[c] \in Nat /\ Len(Rows(c)) \in Nat
    BY <1>1, RefsComeFirst DEF StoreInv, FullInv, CallInv, TypeOK, Rows
  <2> QED
    BY <2>1, <2>2 DEF DealtWith
<1>3. PICK b \in Calls : status[b] # "idle" /\ \E j \in 1..Len(Rows(b)) : j < pos[b] /\ Rows(b)[j] = l
  BY DEF StoreInv, Origin
<1>4. PICK j \in 1..Len(Rows(b)) : j < pos[b] /\ Rows(b)[j] = l
  BY <1>3
<1>5. op[b] \in Ops
  BY <1>3 DEF StoreInv, FullInv, CallInv
<1>6. PICK m \in DOMAIN op[b].keys :
        /\ j = 2 * m + 1 /\ op[b] \in DIDOps
        /\ l = KeyLink(op[b].did, op[b].keys[m], b)
        /\ Rows(b)[2 * m] = KeyRow(op[b].keys[m])
  BY <1>4, <1>5, KeyLinkOf DEF Rows
<1>7. l.key = op[b].keys[m] /\ l.did = op[b].did
  BY <1>6 DEF KeyLink
<1>8. 2 * m \in DealtWith(b)
  <2>1. m \in Nat \ {0}
    <3>1. op[b].keys \in Seq(Keys)
      BY <1>6 DEF DIDOps
    <3> QED
      BY <3>1
  <2>2. Len(Rows(b)) \in Nat /\ pos[b] \in Nat
    BY <1>5, RefsComeFirst DEF StoreInv, FullInv, TypeOK, Rows
  <2>3. 2 * m \in 1..Len(Rows(b)) /\ 2 * m < pos[b]
    BY <1>4, <1>6, <2>1, <2>2
  <2> QED
    BY <2>3 DEF DealtWith
<1>9. b = c
  <2>1. Rows(b)[2 * m] = Rows(c)[2 * i] /\ Rows(b)[2 * m].table # "dids"
    BY <1>2, <1>6, <1>7, Tables
  <2> QED
    BY <1>2, <1>8, <2>1 DEF StoreInv, InsertedOnce
<1> QED
  BY <1>7, <1>9

\* So the backup gives it that DID.
LEMMA KeyFindsItsDID ==
  ASSUME StoreInv, NEW c \in Calls, status[c] = "returned", op[c].kind = "did",
         NEW i \in DOMAIN op[c].keys, op[c].did \in backup.dids
  PROVE  DIDOfKey(op[c].keys[i]) = op[c].did
<1> DEFINE links == {l \in store : l.table = "didkey-link" /\ l.key = op[c].keys[i]}
<1>1. links # {}
  <2> DEFINE l == KeyLink(op[c].did, op[c].keys[i], c)
  <2>1. l \in store
    BY ReturnedIsStored DEF StoreInv, FullInv
  <2>2. l.table = "didkey-link" /\ l.key = op[c].keys[i]
    BY DEF KeyLink
  <2> QED
    BY <2>1, <2>2
<1>2. \A l \in links : l.did = op[c].did
  BY KeyOfOneDID
<1>3. (CHOOSE l \in links : TRUE).did = op[c].did
  BY <1>1, <1>2
<1> QED
  BY <1>1, <1>3, Zenon DEF DIDOfKey

-----------------------------------------------------------------------------
(* How far the backup has come                                             *)

AfterMessages == {"mediators", "done"}
AfterLinks == {"messages"} \cup AfterMessages
AfterPairs == {"keys", "links"} \cup AfterLinks
AfterDIDs == {"pairs"} \cup AfterPairs
AfterCredentials == {"dids"} \cup AfterDIDs

\* What the queries made so far have found of a call that had returned.
SinceInv(c) ==
  LET o == op[c]
  IN  /\ status[c] = "returned"
      /\ backup.at \in AfterCredentials /\ IsOf(o, "credentials") => o.key \in backup.credentials
      /\ backup.at \in AfterDIDs => Names(o) \subseteq backup.dids
      /\ backup.at \in AfterPairs /\ o.kind = "pair" =>
           [holder |-> o.host, recipient |-> o.target, alias |-> o.alias] \in backup.did_pairs
      /\ backup.at = "links" => KeysOf(o) \subseteq backup.keyRows
      /\ backup.at \in AfterLinks => KeysOf(o) \subseteq {k.id : k \in backup.keys}
      /\ backup.at \in AfterLinks /\ o.kind = "did" =>
           \A i \in DOMAIN o.keys : [id |-> o.keys[i], did |-> o.did] \in backup.keys
      /\ backup.at \in AfterMessages /\ IsOf(o, "messages") => o.key \in backup.messages
      /\ backup.at = "done" /\ o.kind = "mediator" =>
           \E m \in backup.mediators : m.holder = o.host

\* While nothing is stored beside it, the backup has every DID that is stored, and so
\* every DID that the links it reads name.
QuietInv ==
  /\ backup.at \in {"dids", "pairs"} => backup.did_pairs = {}
  /\ backup.at \in AfterCredentials \ {"done"} => backup.mediators = {}
  /\ backup.quiet /\ backup.at \in AfterDIDs =>
       /\ backup.at # "done" => \A d \in DIDs : DIDRow(d) \in store => d \in backup.dids
       /\ Unlisted = {}

BackupInv == (\A c \in backup.since : SinceInv(c)) /\ QuietInv

\* Every step keeps what has been found.
LEMMA SinceStep ==
  ASSUME StoreInv, BackupTypeOK, \A c \in backup.since : SinceInv(c),
         [BackupNext]_backupVars, NEW c \in backup'.since
  PROVE  SinceInv(c)'
<1> USE DEF AfterCredentials, AfterDIDs, AfterPairs, AfterLinks, AfterMessages
<1> DEFINE o == op[c]
<1>1. TypeOK /\ CallInv /\ backup \in Backups
  BY DEF StoreInv, FullInv, BackupTypeOK
<1>2. CASE BackupCredentials /\ UNCHANGED vars
  <2>1. /\ backup'.at = "dids" /\ backup'.credentials = Found("credentials")
        /\ c \in Calls /\ status[c] = "returned"
    BY <1>2 DEF BackupCredentials, NoBackup
  <2>2. IsOf(op[c], "credentials") => op[c].key \in Found("credentials")
    BY <1>1, <2>1, ReturnedIsFound
  <2> QED
    BY <1>2, <2>1, <2>2 DEF SinceInv, vars
<1>3. ASSUME backup'.since = backup.since
      PROVE  SinceInv(c) /\ c \in Calls /\ status[c] = "returned"
  BY <1>1, <1>3 DEF SinceInv, Backups
<1>4. ASSUME c \in Calls, status[c] = "returned"
      PROVE  /\ Names(o) \subseteq {d \in DIDs : DIDRow(d) \in store}
             /\ KeysOf(o) \subseteq Found("keys")
             /\ o.kind = "pair" => DIDLink("pair", o.host, o.target, o.alias, c) \in store
             /\ o.kind = "mediator" => o.host \in HostsOf("mediator")
             /\ IsOf(o, "messages") => o.key \in Found("messages")
  BY <1>1, <1>4, ReturnedIsFound
<1>5. CASE BackupDIDs /\ UNCHANGED vars
  <2>1. backup.at = "dids" /\ backup' = [backup EXCEPT !.at = "pairs", !.dids = {d \in DIDs : DIDRow(d) \in store}]
    BY <1>5 DEF BackupDIDs
  <2>2. backup'.since = backup.since /\ backup'.at = "pairs" /\ backup'.credentials = backup.credentials
    BY <1>1, <2>1 DEF Backups
  <2>3. backup'.dids = {d \in DIDs : DIDRow(d) \in store}
    BY <1>1, <2>1 DEF Backups
  <2> QED
    BY <1>3, <1>4, <1>5, <2>1, <2>2, <2>3 DEF SinceInv, vars
<1>6. CASE BackupPairs /\ UNCHANGED vars
  <2> DEFINE pairs == {[holder |-> l.host, recipient |-> l.target, alias |-> l.alias]
                         : l \in FoundLinks({"pair"})}
  <2>1. backup.at = "pairs" /\ backup' = [backup EXCEPT !.at = "keys", !.did_pairs = pairs]
    BY <1>6 DEF BackupPairs
  <2>2. /\ backup'.since = backup.since /\ backup'.at = "keys" /\ backup'.did_pairs = pairs
        /\ backup'.credentials = backup.credentials /\ backup'.dids = backup.dids
    <3> HIDE DEF pairs
    <3> QED
      BY <1>1, <2>1 DEF Backups
  <2>3. o.kind = "pair" => [holder |-> o.host, recipient |-> o.target, alias |-> o.alias] \in pairs
    <3> DEFINE l == DIDLink("pair", o.host, o.target, o.alias, c)
    <3>1. /\ l.table = "did-link" /\ l.role = "pair" /\ l.host = o.host
          /\ l.target = o.target /\ l.alias = o.alias
      BY DEF DIDLink
    <3>2. o.kind = "pair" => l \in FoundLinks({"pair"})
      BY <1>3, <1>4, <2>2, <3>1 DEF FoundLinks
    <3> HIDE DEF l
    <3> QED
      BY <3>1, <3>2
  <2> HIDE DEF pairs
  <2> QED
    BY <1>3, <1>6, <2>1, <2>2, <2>3 DEF SinceInv, vars
<1>7. CASE BackupKeys /\ UNCHANGED vars
  <2>1. /\ backup.at = "keys" /\ backup'.since = backup.since /\ backup'.at = "links"
        /\ backup'.credentials = backup.credentials /\ backup'.dids = backup.dids
        /\ backup'.did_pairs = backup.did_pairs /\ backup'.keyRows = Found("keys")
    BY <1>1, <1>7 DEF BackupKeys, Backups
  <2> QED
    BY <1>3, <1>4, <1>7, <2>1 DEF SinceInv, vars
<1>8. CASE BackupKeyLinks /\ UNCHANGED vars
  <2> DEFINE keys == {[id |-> k, did |-> DIDOfKey(k)] : k \in backup.keyRows}
  <2>1. backup.at = "links" /\ backup' = [backup EXCEPT !.at = "messages", !.keyRows = {}, !.keys = keys]
    BY <1>8 DEF BackupKeyLinks
  <2>2. /\ backup'.since = backup.since /\ backup'.at = "messages" /\ backup'.keys = keys
        /\ backup'.credentials = backup.credentials /\ backup'.dids = backup.dids
        /\ backup'.did_pairs = backup.did_pairs
    <3> HIDE DEF keys
    <3> QED
      BY <1>1, <2>1 DEF Backups
  <2>3. KeysOf(o) \subseteq backup.keyRows /\ Names(o) \subseteq backup.dids
    BY <1>3, <2>1, <2>2 DEF SinceInv
  <2>4. KeysOf(o) \subseteq {k.id : k \in keys}
    <3>1. ASSUME NEW k \in KeysOf(o)
          PROVE  \E x \in keys : x.id = k
      <4> DEFINE x == [id |-> k, did |-> DIDOfKey(k)]
      <4>1. x \in keys /\ x.id = k
        BY <2>3
      <4> HIDE DEF keys, x
      <4> QED
        BY <4>1
    <3> HIDE DEF keys
    <3> QED
      BY <3>1
  <2>5. ASSUME o.kind = "did", NEW i \in DOMAIN o.keys
        PROVE  [id |-> o.keys[i], did |-> o.did] \in keys
    <3>1. o.keys[i] \in backup.keyRows /\ o.did \in backup.dids
      BY <2>3, <2>5 DEF KeysOf, Names
    <3>2. DIDOfKey(o.keys[i]) = o.did
      BY <1>3, <2>2, <2>5, <3>1, KeyFindsItsDID
    <3> QED
      BY <3>1, <3>2
  <2> HIDE DEF keys
  <2> QED
    BY <1>3, <1>8, <2>1, <2>2, <2>4, <2>5 DEF SinceInv, vars
<1>9. CASE BackupMessages /\ UNCHANGED vars
  <2>1. /\ backup.at = "messages" /\ backup'.since = backup.since /\ backup'.at = "mediators"
        /\ backup'.credentials = backup.credentials /\ backup'.dids = backup.dids
        /\ backup'.did_pairs = backup.did_pairs /\ backup'.keys = backup.keys
        /\ backup'.messages = Found("messages")
    BY <1>1, <1>9 DEF BackupMessages, Backups
  <2> QED
    BY <1>3, <1>4, <1>9, <2>1 DEF SinceInv, vars
<1>10. CASE BackupMediators /\ UNCHANGED vars
  <2> DEFINE mediators == {[holder |-> h, mediator |-> TargetOf(h, "mediator"),
                            routing |-> TargetOf(h, "routing")] : h \in HostsOf("mediator")}
  <2>1. /\ backup.at = "mediators"
        /\ \/ backup' = [backup EXCEPT !.at = "threw"]
           \/ backup' = [backup EXCEPT !.at = "done", !.mediators = mediators]
    BY <1>10 DEF BackupMediators
  <2>2. /\ backup'.since = backup.since
        /\ backup'.credentials = backup.credentials /\ backup'.dids = backup.dids
        /\ backup'.did_pairs = backup.did_pairs /\ backup'.keys = backup.keys
        /\ backup'.messages = backup.messages
        /\ backup'.at = "threw" \/ (backup'.at = "done" /\ backup'.mediators = mediators)
    <3> HIDE DEF mediators
    <3> QED
      BY <1>1, <2>1 DEF Backups
  <2>3. ASSUME o.kind = "mediator"
        PROVE  \E m \in mediators : m.holder = o.host
    <3> DEFINE m == [holder |-> o.host, mediator |-> TargetOf(o.host, "mediator"),
                     routing |-> TargetOf(o.host, "routing")]
    <3>1. m \in mediators /\ m.holder = o.host
      BY <1>3, <1>4, <2>2, <2>3
    <3> HIDE DEF mediators, m
    <3> QED
      BY <3>1
  <2> HIDE DEF mediators
  <2> QED
    BY <1>3, <1>10, <2>1, <2>2, <2>3 DEF SinceInv, vars
<1>11. CASE BackupFails
  <2>1. backup'.at = "threw" /\ backup'.since = backup.since /\ UNCHANGED <<status, op>>
    BY <1>1, <1>11 DEF BackupFails, Backups, callVars
  <2> QED
    BY <1>3, <2>1 DEF SinceInv
<1>12. CASE OtherStep
  <2>1. CASE backup' = NoBackup
    BY <2>1 DEF NoBackup
  <2>2. CASE backup' = [backup EXCEPT !.quiet = @ /\ (UnderWay => store' = store)]
    <3>1. /\ backup'.since = backup.since /\ backup'.at = backup.at
          /\ backup'.credentials = backup.credentials /\ backup'.dids = backup.dids
          /\ backup'.did_pairs = backup.did_pairs /\ backup'.keys = backup.keys
          /\ backup'.messages = backup.messages /\ backup'.mediators = backup.mediators
          /\ backup'.keyRows = backup.keyRows
      <4> DEFINE q == backup.quiet /\ (UnderWay => store' = store)
      <4>1. backup' = [backup EXCEPT !.quiet = q]
        BY <2>2
      <4> HIDE DEF q
      <4> QED
        BY <1>1, <4>1 DEF Backups
    <3>2. status'[c] = "returned" /\ op'[c] = op[c]
      BY <1>1, <1>3, <3>1, StoreGrows
    <3> QED
      BY <1>3, <3>1, <3>2 DEF SinceInv
  <2> QED
    BY <1>12, <2>1, <2>2 DEF OtherStep
<1>13. CASE UNCHANGED backupVars
  BY <1>3, <1>13 DEF backupVars, vars, SinceInv
<1> QED
  BY <1>2, <1>5, <1>6, <1>7, <1>8, <1>9, <1>10, <1>11, <1>12, <1>13 DEF BackupNext, BackupStep

\* The DIDs that a link between DIDs names are stored.
LEMMA LinkedAreStored ==
  ASSUME StoreInv, NEW roles, NEW l \in FoundLinks(roles)
  PROVE  /\ l.host \in DIDs /\ l.target \in DIDs
         /\ DIDRow(l.host) \in store /\ DIDRow(l.target) \in store
<1>1. l \in Row /\ l \in store /\ l.table = "did-link"
  BY DEF FoundLinks, StoreInv, FullInv, TypeOK
<1>2. Refs(l) = {DIDRow(l.host), DIDRow(l.target)}
  BY <1>1 DEF Refs
<1> QED
  BY <1>1, <1>2, RowOfTable DEF StoreInv, FullInv, CallInv, LinksAreGrounded

LEMMA QuietStep ==
  ASSUME StoreInv, BackupTypeOK, QuietInv, [BackupNext]_backupVars
  PROVE  QuietInv'
<1> USE DEF AfterCredentials, AfterDIDs, AfterPairs, AfterLinks, AfterMessages
<1>1. backup \in Backups /\ TypeOK
  BY DEF BackupTypeOK
<1>2. CASE BackupCredentials /\ UNCHANGED vars
  <2>1. backup'.at = "dids" /\ backup'.did_pairs = {} /\ backup'.mediators = {}
    BY <1>2 DEF BackupCredentials, NoBackup
  <2> QED
    BY <2>1 DEF QuietInv
<1>3. CASE BackupDIDs /\ UNCHANGED vars
  <2>1. /\ backup.at = "dids" /\ backup'.at = "pairs" /\ backup'.did_pairs = backup.did_pairs
        /\ backup'.mediators = backup.mediators
        /\ backup'.dids = {d \in DIDs : DIDRow(d) \in store}
    BY <1>1, <1>3 DEF BackupDIDs, Backups
  <2> QED
    BY <1>3, <2>1 DEF QuietInv, Unlisted, vars
<1>4. CASE BackupPairs /\ UNCHANGED vars
  <2> DEFINE pairs == {[holder |-> l.host, recipient |-> l.target, alias |-> l.alias]
                         : l \in FoundLinks({"pair"})}
  <2>1. backup.at = "pairs" /\ backup' = [backup EXCEPT !.at = "keys", !.did_pairs = pairs]
    BY <1>4 DEF BackupPairs
  <2>2. /\ backup'.at = "keys" /\ backup'.did_pairs = pairs /\ backup'.dids = backup.dids
        /\ backup'.mediators = backup.mediators /\ backup'.quiet = backup.quiet
    <3> HIDE DEF pairs
    <3> QED
      BY <1>1, <2>1 DEF Backups
  <2>3. ASSUME backup.quiet, NEW p \in pairs
        PROVE  {p.holder, p.recipient} \subseteq backup.dids
    <3>1. PICK l \in FoundLinks({"pair"}) : p.holder = l.host /\ p.recipient = l.target
      OBVIOUS
    <3> QED
      BY <2>1, <2>3, <3>1, LinkedAreStored DEF QuietInv
  <2> HIDE DEF pairs
  <2> QED
    BY <1>4, <2>1, <2>2, <2>3 DEF QuietInv, Unlisted, vars
<1>5. CASE BackupKeys /\ UNCHANGED vars
  <2>1. /\ backup.at = "keys" /\ backup'.at = "links" /\ backup'.did_pairs = backup.did_pairs
        /\ backup'.mediators = backup.mediators /\ backup'.dids = backup.dids
        /\ backup'.quiet = backup.quiet
    BY <1>1, <1>5 DEF BackupKeys, Backups
  <2> QED
    BY <1>5, <2>1 DEF QuietInv, Unlisted, vars
<1>6. CASE BackupKeyLinks /\ UNCHANGED vars
  <2> DEFINE keys == {[id |-> k, did |-> DIDOfKey(k)] : k \in backup.keyRows}
  <2>1. backup.at = "links" /\ backup' = [backup EXCEPT !.at = "messages", !.keyRows = {}, !.keys = keys]
    BY <1>6 DEF BackupKeyLinks
  <2> HIDE DEF keys
  <2>2. /\ backup'.at = "messages" /\ backup'.did_pairs = backup.did_pairs
        /\ backup'.mediators = backup.mediators /\ backup'.dids = backup.dids
        /\ backup'.quiet = backup.quiet
    BY <1>1, <2>1 DEF Backups
  <2> QED
    BY <1>6, <2>1, <2>2 DEF QuietInv, Unlisted, vars
<1>7. CASE BackupMessages /\ UNCHANGED vars
  <2>1. /\ backup.at = "messages" /\ backup'.at = "mediators" /\ backup'.did_pairs = backup.did_pairs
        /\ backup'.mediators = backup.mediators /\ backup'.dids = backup.dids
        /\ backup'.quiet = backup.quiet
    BY <1>1, <1>7 DEF BackupMessages, Backups
  <2> QED
    BY <1>7, <2>1 DEF QuietInv, Unlisted, vars
<1>8. CASE BackupMediators /\ UNCHANGED vars
  <2> DEFINE mediators == {[holder |-> h, mediator |-> TargetOf(h, "mediator"),
                            routing |-> TargetOf(h, "routing")] : h \in HostsOf("mediator")}
  <2>1. /\ backup.at = "mediators"
        /\ \/ backup' = [backup EXCEPT !.at = "threw"]
           \/ /\ HostsOf("mediator") = HostsOf("routing")
              /\ backup' = [backup EXCEPT !.at = "done", !.mediators = mediators]
    BY <1>8 DEF BackupMediators
  <2>2. \/ backup'.at = "threw"
        \/ /\ HostsOf("mediator") = HostsOf("routing")
           /\ backup'.at = "done" /\ backup'.mediators = mediators
           /\ backup'.dids = backup.dids /\ backup'.did_pairs = backup.did_pairs
           /\ backup'.quiet = backup.quiet
    <3> HIDE DEF mediators
    <3> QED
      BY <1>1, <2>1 DEF Backups
  <2>3. ASSUME backup.quiet, HostsOf("mediator") = HostsOf("routing"), NEW m \in mediators
        PROVE  {m.holder, m.mediator, m.routing} \subseteq backup.dids
    <3>1. PICK h \in HostsOf("mediator") :
            /\ m.holder = h /\ m.mediator = TargetOf(h, "mediator")
            /\ m.routing = TargetOf(h, "routing")
      OBVIOUS
    <3>2. PICK l \in FoundLinks({"mediator"}) : l.host = h /\ TargetOf(h, "mediator") = l.target
      BY TargetIsLinked
    <3>3. PICK r \in FoundLinks({"routing"}) : r.host = h /\ TargetOf(h, "routing") = r.target
      BY <2>3, TargetIsLinked
    <3>4. \A d \in {l.host, l.target, r.target} : d \in DIDs /\ DIDRow(d) \in store
      BY LinkedAreStored
    <3> QED
      BY <2>1, <2>3, <3>1, <3>2, <3>3, <3>4 DEF QuietInv
  <2> HIDE DEF mediators
  <2> QED
    BY <2>1, <2>2, <2>3 DEF QuietInv, Unlisted
<1>9. CASE BackupFails
  <2>1. backup'.at = "threw"
    BY <1>1, <1>9 DEF BackupFails, Backups
  <2> QED
    BY <2>1 DEF QuietInv
<1>10. CASE OtherStep
  <2>1. CASE backup' = NoBackup
    BY <2>1 DEF NoBackup, QuietInv
  <2>2. CASE backup' = [backup EXCEPT !.quiet = @ /\ (UnderWay => store' = store)]
    <3> DEFINE q == backup.quiet /\ (UnderWay => store' = store)
    <3>1. /\ backup'.at = backup.at /\ backup'.dids = backup.dids /\ backup'.quiet = q
          /\ backup'.did_pairs = backup.did_pairs /\ backup'.mediators = backup.mediators
      <4>1. backup' = [backup EXCEPT !.quiet = q]
        BY <2>2
      <4> HIDE DEF q
      <4> QED
        BY <1>1, <4>1 DEF Backups
    <3>2. q /\ backup.at \in AfterDIDs \ {"done"} => store' = store
      BY DEF UnderWay
    <3>3. q => backup.quiet
      OBVIOUS
    <3> HIDE DEF q
    <3> QED
      BY <3>1, <3>2, <3>3 DEF QuietInv, Unlisted
  <2> QED
    BY <1>10, <2>1, <2>2 DEF OtherStep
<1>11. CASE UNCHANGED backupVars
  BY <1>11 DEF backupVars, vars, QuietInv, Unlisted
<1> QED
  BY <1>2, <1>3, <1>4, <1>5, <1>6, <1>7, <1>8, <1>9, <1>10, <1>11 DEF BackupNext, BackupStep

-----------------------------------------------------------------------------

BackupIInv == StoreInv /\ BackupTypeOK /\ BackupInv

LEMMA BackupIInvInit == BackupInit => BackupIInv
<1> SUFFICES ASSUME BackupInit PROVE BackupIInv
  OBVIOUS
<1>1. StoreInv
  BY FullInit, OnceInit DEF BackupInit, StoreInv, Origin, Init
<1>2. BackupTypeOK
  BY <1>1 DEF BackupInit, BackupTypeOK, StoreInv, FullInv, NoBackup, Backups, BackupSteps
<1>3. BackupInv
  BY DEF BackupInit, BackupInv, NoBackup, QuietInv, AfterCredentials, AfterDIDs, AfterPairs,
         AfterLinks, AfterMessages
<1> QED
  BY <1>1, <1>2, <1>3 DEF BackupIInv

LEMMA BackupIInvStep == BackupIInv /\ [BackupNext]_backupVars => BackupIInv'
BY StoreInvStep, BackupTypeStep, SinceStep, QuietStep DEF BackupIInv, BackupInv

\* Every variable of the store and the backup keeps its type (BackupTypeOK).
THEOREM BackupTypeCorrect == BackupSpec => []BackupTypeOK
<1>1. BackupIInv => BackupTypeOK
  BY DEF BackupIInv
<1> QED
  BY <1>1, BackupIInvInit, BackupIInvStep, PTL DEF BackupSpec

\* A backup that is done has all that was stored by the calls that had returned
\* when it began, each key with its DID, whatever else was stored meanwhile; and if
\* nothing was, it lists every DID it names (BackupTask.run).
THEOREM BackupCorrect == BackupSpec => []BackupIsComplete
<1>1. ASSUME BackupIInv, backup.at = "done"
      PROVE  /\ \A c \in backup.since : IsBackedUp(c)
             /\ backup.quiet => Unlisted = {}
  <2> USE DEF AfterCredentials, AfterDIDs, AfterPairs, AfterLinks, AfterMessages
  <2>1. backup.quiet => Unlisted = {}
    BY <1>1 DEF BackupIInv, BackupInv, QuietInv
  <2>2. ASSUME NEW c \in backup.since
        PROVE  IsBackedUp(c)
    <3>1. SinceInv(c) /\ c \in Calls /\ status[c] = "returned"
      BY <1>1, <2>2 DEF BackupIInv, BackupInv, SinceInv, BackupTypeOK, Backups
    <3>2. op[c] \in Ops
      BY <1>1, <3>1 DEF BackupIInv, StoreInv, FullInv, CallInv
    <3>3. CASE op[c].kind = "did"
      BY <1>1, <3>1, <3>3 DEF SinceInv, IsBackedUp, Names
    <3>4. CASE op[c].kind = "pair"
      BY <1>1, <3>1, <3>4 DEF SinceInv, IsBackedUp, Names
    <3>5. CASE op[c].kind = "mediator"
      BY <1>1, <3>1, <3>5 DEF SinceInv, IsBackedUp, Names
    <3>6. CASE op[c] \in ObjectOps /\ op[c].kind = "object"
      <4>1. op[c].table \in ObjectTables
        BY <3>6 DEF ObjectOps
      <4>2. op[c].table # "credential-metadata" => op[c].key \in BackedUpOf(op[c].table)
        BY <1>1, <3>1, <3>6, <4>1 DEF SinceInv, IsOf, KeysOf, BackedUpOf, ObjectTables
      <4> QED
        BY <3>6, <4>2 DEF IsBackedUp
    <3> QED
      BY <3>1, <3>2, <3>3, <3>4, <3>5, <3>6, RowsOfKind
  <2> QED
    BY <2>1, <2>2
<1>2. BackupIInv => BackupIsComplete
  BY <1>1 DEF BackupIsComplete
<1> QED
  BY <1>2, BackupIInvInit, BackupIInvStep, PTL DEF BackupSpec
===============================================================================
