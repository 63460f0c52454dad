---------------------------- MODULE PrismDIDsProofs ----------------------------
(***************************************************************************)
(* Theorems about PrismDIDs, for any number of creations, any services and *)
(* indices they may pass, any backup, and any number of failures.          *)
(***************************************************************************)
EXTENDS PrismDIDs, FiniteSetTheorems, WellFoundedInduction, TLAPS

-----------------------------------------------------------------------------
(* The latest index exists                                                 *)

\* A finite set of naturals that is not empty has a greatest element: a smallest
\* set without one would have one when an element is put back.
LEMMA GreatestExists ==
  ASSUME NEW S \in SUBSET Nat, IsFiniteSet(S), S # {}
  PROVE  \E m \in S : \A n \in S : m >= n
<1> DEFINE Finite == FiniteSubsetsOf(Nat)
           HasGreatest(T) == \E m \in T : \A n \in T : m >= n
           Without == {T \in Finite : T # {} /\ ~HasGreatest(T)}
<1>1. SUFFICES ASSUME Without # {} PROVE FALSE
  BY DEF FiniteSubsetsOf
<1>2. PICK T \in Without : \A U \in Without : <<U, T>> \notin StrictSubsetOrdering(Nat)
  <2>1. IsWellFoundedOn(StrictSubsetOrdering(Nat), Finite)
    BY FS_StrictSubsetOrderingWellFounded
  <2>2. Without \subseteq Finite
    OBVIOUS
  <2> HIDE DEF Without, Finite
  <2> QED
    BY <1>1, <2>1, <2>2, WFMin
<1>3. PICK x \in T : TRUE
  OBVIOUS
<1> DEFINE U == T \ {x}
<1>4. T \in SUBSET Nat /\ IsFiniteSet(T) /\ ~HasGreatest(T)
  BY DEF FiniteSubsetsOf
<1>5. IsFiniteSet(U) /\ U \in SUBSET Nat
  BY <1>4, FS_RemoveElement
<1>6. <<U, T>> \in StrictSubsetOrdering(Nat)
  BY <1>3, <1>4, <1>5 DEF StrictSubsetOrdering
<1>7. U = {} \/ HasGreatest(U)
  BY <1>2, <1>5, <1>6 DEF FiniteSubsetsOf
<1>8. CASE U = {}
  BY <1>3, <1>4, <1>8
<1>9. CASE HasGreatest(U)
  <2>1. PICK m \in U : \A n \in U : m >= n
    BY <1>9
  <2>2. CASE m >= x
    BY <1>4, <2>1, <2>2
  <2>3. CASE x >= m
    BY <1>3, <1>4, <2>1, <2>3
  <2> QED
    BY <1>3, <1>4, <2>1, <2>2, <2>3
<1> QED
  BY <1>7, <1>8, <1>9

\* Max is that element.
LEMMA MaxIsGreatest ==
  ASSUME NEW S \in SUBSET Nat, IsFiniteSet(S), S # {}
  PROVE  Max(S) \in S /\ \A n \in S : Max(S) >= n
BY GreatestExists DEF Max

-----------------------------------------------------------------------------
(* Types, and what the links record                                        *)

\* What links record of their keys' indices.
RecordedIn == \A l \in links : l.recorded \in {k.recorded : k \in restored} \cup {0}

Last == Max({l.recorded : l \in links} \cup {0})

LEMMA LastIsGreatest ==
  ASSUME TypeOK, RecordedIn
  PROVE  /\ Last \in Nat
         /\ \A l \in links : Last >= l.recorded
<1> DEFINE R == {l.recorded : l \in links} \cup {0}
<1>1. R \in SUBSET Nat /\ R # {} /\ 0 \in R
  BY DEF TypeOK, Links
<1>2. IsFiniteSet(R)
  <2> DEFINE Recorded == {k.recorded : k \in restored}
  <2>1. IsFiniteSet(Recorded)
    <3> DEFINE f == [k \in restored |-> k.recorded]
    <3>1. f \in Surjection(restored, Recorded)
      BY DEF Surjection
    <3>2. IsFiniteSet(restored)
      BY IndexAssumption DEF TypeOK
    <3> QED
      BY <3>1, <3>2, FS_Surjection
  <2>2. IsFiniteSet(Recorded \cup {0})
    BY <2>1, FS_AddElement
  <2>3. R \subseteq Recorded \cup {0}
    BY DEF RecordedIn
  <2> QED
    BY <2>2, <2>3, FS_Subset
<1>3. Last \in R /\ \A n \in R : Last >= n
  BY <1>1, <1>2, MaxIsGreatest DEF Last
<1> QED
  BY <1>1, <1>3

LEMMA KeyPathIndexIsAbove ==
  ASSUME TypeOK, RecordedIn, NEW explicit \in Explicit \cup {Default}
  PROVE  /\ KeyPathIndex(explicit) \in Nat
         /\ links = {} => KeyPathIndex(explicit) = 0
         /\ \A l \in links : KeyPathIndex(explicit) > l.recorded
         /\ links # {} => KeyPathIndex(explicit) > 0
<1>1. Last \in Nat /\ \A l \in links : Last >= l.recorded
  BY LastIsGreatest
<1>2. KeyPathIndex(explicit) =
        IF links = {} THEN 0
        ELSE IF explicit # Default /\ explicit > Last THEN explicit ELSE Last + 1
  BY DEF KeyPathIndex, Last
<1>3. explicit # Default => explicit \in Nat
  BY IndexAssumption
<1>4. \A l \in links : l.recorded \in Nat
  BY DEF TypeOK, Links
<1> QED
  BY <1>1, <1>2, <1>3, <1>4

Typed == TypeOK /\ RecordedIn

LEMMA TypedInit == Init => Typed
BY IndexAssumption
   DEF Init, Typed, TypeOK, RecordedIn, RestoredDIDs, RestoredLinks, Link, Key, DID, DIDs, Links,
       Usages, Steps

LEMMA TypedStep == Typed /\ [Next]_vars => Typed'
<1> SUFFICES ASSUME Typed, [Next]_vars PROVE Typed'
  OBVIOUS
<1> USE DEF Typed, TypeOK, RecordedIn, Steps, Running
<1>1. ASSUME NEW c \in Calls, Begin(c) \/ LookUpDID(c) \/ InsertConflicts(c), UNCHANGED restored
      PROVE  Typed'
  BY <1>1 DEF Begin, LookUpDID, InsertConflicts, Go
<1>2. ASSUME NEW c \in Calls, ReadIndex(c), UNCHANGED restored
      PROVE  Typed'
  <2>1. KeyPathIndex(args[c].keyPathIndex) \in Nat
    BY KeyPathIndexIsAbove
  <2> QED
    BY <1>2, <2>1 DEF ReadIndex, Go
<1>3. ASSUME NEW c \in Calls, InsertDID(c), UNCHANGED restored
      PROVE  Typed'
  BY <1>3 DEF InsertDID, Go, NewDID, DID, DIDs
<1>4. ASSUME NEW c \in Calls, LinkMaster(c) \/ LinkIssuing(c), UNCHANGED restored
      PROVE  Typed'
  BY <1>4 DEF LinkMaster, LinkIssuing, LinkKey, Go, RecordedIndex, NewDID, DID, DIDs, Links, Link,
              Key, Usages
<1>5. ASSUME Crash \/ (\E c \in Calls : Fail(c)), UNCHANGED restored
      PROVE  Typed'
  BY <1>5, IndexAssumption DEF Crash, Fail, Fault
<1>6. CASE UNCHANGED vars
  BY <1>6 DEF vars
<1> QED
  BY <1>1, <1>2, <1>3, <1>4, <1>5, <1>6 DEF Next, Step

\* Every variable keeps its type; the index that a creation goes by is a natural
\* number (PrismKeyPathIndexTask).
THEOREM TypeCorrect == Spec => []TypeOK
<1>1. Typed => TypeOK
  BY DEF Typed
<1> QED
  BY <1>1, TypedInit, TypedStep, PTL DEF Spec

-----------------------------------------------------------------------------
(* The keys of a returned DID                                              *)

IsLinked(c, usage) == \E l \in links : l.did = NewDID(c) /\ l.key = Key(index[c], usage)

\* Each insert that a call has behind it is there.
LinkedInv ==
  \A c \in Calls :
    /\ step[c] \in {"ISSUING_KEY", "returned"} => IsLinked(c, "MASTER_KEY")
    /\ step[c] = "returned" => IsLinked(c, "ISSUING_KEY")

\* What is linked stays so, and a call keeps the index that it has read.
LEMMA CallsKeepTheirLinks ==
  ASSUME Typed, [Next]_vars, NEW b \in Calls, step[b] # "index", NEW usage, IsLinked(b, usage)
  PROVE  IsLinked(b, usage)'
<1>1. links \subseteq links' /\ args' = args
  BY DEF Next, Step, vars, Crash, Begin, ReadIndex, LookUpDID, InsertDID, InsertConflicts,
         LinkMaster, LinkIssuing, LinkKey, Fail
<1>2. index'[b] = index[b]
  BY DEF Typed, TypeOK, Next, Step, vars, Crash, Begin, ReadIndex, LookUpDID, InsertDID,
         InsertConflicts, LinkMaster, LinkIssuing, LinkKey, Fail, Go
<1> QED
  BY <1>1, <1>2 DEF IsLinked, NewDID, DID, Key

LEMMA LinkedStep == Typed /\ LinkedInv /\ [Next]_vars => LinkedInv'
<1> SUFFICES ASSUME Typed, LinkedInv, [Next]_vars PROVE LinkedInv'
  OBVIOUS
<1> USE DEF Typed, TypeOK, Steps, Running
<1>1. ASSUME NEW b \in Calls, NEW usage, step[b] \in {"ISSUING_KEY", "returned"}, IsLinked(b, usage)
      PROVE  IsLinked(b, usage)'
  BY <1>1, CallsKeepTheirLinks
<1>2. ASSUME NEW c \in Calls, NEW usage \in Usages, NEW next, LinkKey(c, usage, next)
      PROVE  IsLinked(c, usage)'
  <2>1. Link(NewDID(c), usage, 0) \in links' /\ args' = args /\ index' = index
    BY <1>2 DEF LinkKey, RecordedIndex
  <2>2. /\ Link(NewDID(c), usage, 0).did = NewDID(c)
        /\ Link(NewDID(c), usage, 0).key = Key(index[c], usage)
    BY DEF Link, NewDID, DID
  <2>3. NewDID(c)' = NewDID(c) /\ Key(index[c], usage)' = Key(index[c], usage)
    BY <2>1 DEF NewDID, DID, Key
  <2> QED
    BY <2>1, <2>2, <2>3 DEF IsLinked
<1>3. ASSUME NEW b \in Calls, step'[b] = step[b]
      PROVE  /\ step'[b] \in {"ISSUING_KEY", "returned"} => IsLinked(b, "MASTER_KEY")'
             /\ step'[b] = "returned" => IsLinked(b, "ISSUING_KEY")'
  BY <1>1, <1>3 DEF LinkedInv
<1>4. ASSUME NEW c \in Calls, NEW b \in Calls,
             \/ Begin(c) \/ ReadIndex(c) \/ LookUpDID(c) \/ InsertDID(c) \/ InsertConflicts(c) \/ Fail(c)
             \/ Crash,
             step'[b] # step[b]
      PROVE  step'[b] \notin {"ISSUING_KEY", "returned"}
  BY <1>4 DEF Begin, ReadIndex, LookUpDID, InsertDID, InsertConflicts, Fail, Crash, Go
<1>5. ASSUME NEW c \in Calls, LinkMaster(c), NEW b \in Calls
      PROVE  /\ step'[b] \in {"ISSUING_KEY", "returned"} => IsLinked(b, "MASTER_KEY")'
             /\ step'[b] = "returned" => IsLinked(b, "ISSUING_KEY")'
  <2>1. CASE b = c
    BY <1>5, <1>2, <2>1 DEF LinkMaster, LinkKey, Go, Usages
  <2>2. CASE b # c
    BY <1>5, <1>3, <2>2 DEF LinkMaster, LinkKey, Go
  <2> QED
    BY <2>1, <2>2
<1>6. ASSUME NEW c \in Calls, LinkIssuing(c), NEW b \in Calls
      PROVE  /\ step'[b] \in {"ISSUING_KEY", "returned"} => IsLinked(b, "MASTER_KEY")'
             /\ step'[b] = "returned" => IsLinked(b, "ISSUING_KEY")'
  <2>1. CASE b = c
    <3>1. step[c] = "ISSUING_KEY"
      BY <1>6 DEF LinkIssuing, LinkKey, Go
    <3>2. IsLinked(c, "MASTER_KEY")'
      BY <1>1, <3>1 DEF LinkedInv
    <3> QED
      BY <1>6, <1>2, <2>1, <3>2 DEF LinkIssuing, Usages
  <2>2. CASE b # c
    BY <1>6, <1>3, <2>2 DEF LinkIssuing, LinkKey, Go
  <2> QED
    BY <2>1, <2>2
<1>7. CASE UNCHANGED vars
  BY <1>3, <1>7 DEF vars, LinkedInv
<1> QED
  BY <1>3, <1>4, <1>5, <1>6, <1>7 DEF Next, Step, LinkedInv

\* A DID is only returned with both its keys linked, whatever other creations
\* do with the same index and whatever was found half stored (storeDID).
THEOREM ReturnedDIDsHaveKeys == Spec => []ReturnedDIDHasKeys
<1>1. Init => LinkedInv
  BY DEF Init, LinkedInv
<1>2. LinkedInv => ReturnedDIDHasKeys
  BY DEF LinkedInv, IsLinked, ReturnedDIDHasKeys, Usages
<1> QED
  BY <1>1, <1>2, TypedInit, TypedStep, LinkedStep, PTL DEF Spec

-----------------------------------------------------------------------------
(* The keys of a restored DID                                              *)

\* The links that a backup restored, with the indices they record, are there.
RestoredLinked ==
  \A k \in restored, s \in Services, u \in Usages : Link(DID(k.path, s), u, k.recorded) \in links

FreshInv == RestoredLinked /\ RestoredKeysAreNotReused

LEMMA FreshInit == Init => FreshInv
BY DEF Init, FreshInv, RestoredLinked, RestoredLinks, RestoredKeysAreNotReused, Running

LEMMA FreshStep == Typed /\ FreshInv /\ [Next]_vars => FreshInv'
<1> SUFFICES ASSUME Typed, FreshInv, [Next]_vars PROVE FreshInv'
  OBVIOUS
<1> USE DEF Typed, TypeOK, Steps, Running
<1>1. RestoredLinked'
  <2>1. links \subseteq links' /\ restored' = restored
    BY DEF Next, Step, vars, Crash, Begin, ReadIndex, LookUpDID, InsertDID, InsertConflicts,
           LinkMaster, LinkIssuing, LinkKey, Fail
  <2> QED
    BY <2>1 DEF FreshInv, RestoredLinked
<1>2. ASSUME NEW c \in Calls, ReadIndex(c), UNCHANGED restored
      PROVE  RestoredKeysAreNotReused'
  <2>1. ASSUME NEW k \in restored, k.recorded = k.path
        PROVE  KeyPathIndex(args[c].keyPathIndex) # k.path
    <3>1. Link(DID(k.path, args[c].services), "MASTER_KEY", k.recorded) \in links
      BY DEF FreshInv, RestoredLinked, Usages
    <3>2. k.path \in Nat
      BY IndexAssumption
    <3>3. KeyPathIndex(args[c].keyPathIndex)
            > Link(DID(k.path, args[c].services), "MASTER_KEY", k.recorded).recorded
      BY <3>1, KeyPathIndexIsAbove
    <3>4. KeyPathIndex(args[c].keyPathIndex) > k.path
      BY <2>1, <3>3 DEF Link
    <3> QED
      BY <3>2, <3>4
  <2> QED
    BY <1>2, <2>1 DEF FreshInv, RestoredKeysAreNotReused, ReadIndex, Go
<1>3. ASSUME NEW c \in Calls,
             \/ Begin(c) \/ LookUpDID(c) \/ InsertDID(c) \/ InsertConflicts(c)
             \/ LinkMaster(c) \/ LinkIssuing(c) \/ Fail(c) \/ Crash,
             UNCHANGED restored
      PROVE  RestoredKeysAreNotReused'
  BY <1>3 DEF FreshInv, RestoredKeysAreNotReused, Begin, LookUpDID, InsertDID, InsertConflicts,
              LinkMaster, LinkIssuing, LinkKey, Fail, Crash, Go
<1>4. CASE UNCHANGED vars
  BY <1>1, <1>4 DEF vars, FreshInv, RestoredKeysAreNotReused
<1>5. CASE Crash /\ UNCHANGED restored
  BY <1>1, <1>5 DEF Crash, FreshInv, RestoredKeysAreNotReused
<1> QED
  BY <1>1, <1>2, <1>3, <1>4, <1>5 DEF FreshInv, Next, Step

\* No creation, with an explicit index or without, derives a restored key that
\* records the index of its path (PrismKeyPathIndexTask); a key of createPrismDID
\* records 0, also after a restore, and no such theorem holds of it.
THEOREM RestoredKeysKept == Spec => []RestoredKeysAreNotReused
<1>1. FreshInv => RestoredKeysAreNotReused
  BY DEF FreshInv
<1> QED
  BY <1>1, FreshInit, FreshStep, TypedInit, TypedStep, PTL DEF Spec

-----------------------------------------------------------------------------
(* A creation that was cut short                                           *)

HasLinkAtZero == \E l \in links : l.did.path = 0

\* An index other than the first is still the one that a retry would get; and
\* who goes by the first does so in an empty store, or is not alone.
RetryInv ==
  /\ \A c \in Calls : index[c] = 0 \/ KeyPathIndex(args[c].keyPathIndex) = index[c]
  /\ \A c \in Calls :
       step[c] \in Running \ {"index"} /\ index[c] = 0 => links = {} \/ HasLinkAtZero
  /\ (\E d \in dids : d.path = 0) => links = {} \/ HasLinkAtZero

LEMMA RetryInit == Init => RetryInv
<1> SUFFICES ASSUME Init PROVE RetryInv
  OBVIOUS
<1>1. ASSUME NEW d \in dids, d.path = 0
      PROVE  HasLinkAtZero
  <2>1. PICK k \in restored, s \in Services : d = DID(k.path, s)
    BY DEF Init, RestoredDIDs
  <2>2. Link(DID(k.path, s), "MASTER_KEY", k.recorded) \in links
    BY DEF Init, RestoredLinks, Usages
  <2>3. Link(DID(k.path, s), "MASTER_KEY", k.recorded).did = d
    BY <2>1 DEF Link
  <2> QED
    BY <1>1, <2>2, <2>3 DEF HasLinkAtZero
<1>2. \A c \in Calls : index[c] = 0 /\ step[c] = "idle"
  BY DEF Init
<1> QED
  BY <1>1, <1>2 DEF RetryInv, Running

\* A new link, whose key records 0, leaves the next index as it is, unless it is the
\* first.
LEMMA LinksKeepIndex ==
  ASSUME NEW c \in Calls, NEW usage, NEW next, LinkKey(c, usage, next), links # {},
         NEW explicit
  PROVE  KeyPathIndex(explicit)' = KeyPathIndex(explicit)
<1>1. links' = links \cup {Link(NewDID(c), usage, 0)}
  BY DEF LinkKey, RecordedIndex
<1>2. {l.recorded : l \in links'} \cup {0} = {l.recorded : l \in links} \cup {0}
  BY <1>1 DEF Link
<1> QED
  BY <1>1, <1>2 DEF KeyPathIndex

LEMMA RetryStep == Typed /\ RetryInv /\ [Next]_vars => RetryInv'
<1> SUFFICES ASSUME Typed, RetryInv, [Next]_vars PROVE RetryInv'
  OBVIOUS
<1> USE DEF Typed, TypeOK, Steps, Running
<1>0. \A c \in Calls : args[c].keyPathIndex \in Explicit \cup {Default}
  OBVIOUS
<1>1. ASSUME UNCHANGED <<links, args, index, dids>>,
             \A c \in Calls : step'[c] \in Running \ {"index"} => step[c] \in Running \ {"index"}
      PROVE  RetryInv'
  BY <1>1 DEF RetryInv, HasLinkAtZero, KeyPathIndex
<1>2. ASSUME NEW c \in Calls, Begin(c) \/ LookUpDID(c) \/ InsertConflicts(c) \/ Fail(c) \/ Crash
      PROVE  RetryInv'
  BY <1>1, <1>2 DEF Begin, LookUpDID, InsertConflicts, Fail, Crash, Go
<1>3. ASSUME NEW c \in Calls, ReadIndex(c)
      PROVE  RetryInv'
  <2>1. links # {} => KeyPathIndex(args[c].keyPathIndex) # 0
    BY <1>0, KeyPathIndexIsAbove
  <2>2. \A e : KeyPathIndex(e)' = KeyPathIndex(e)
    BY <1>3 DEF ReadIndex, KeyPathIndex
  <2> QED
    BY <1>3, <2>1, <2>2 DEF ReadIndex, Go, RetryInv, HasLinkAtZero
<1>4. ASSUME NEW c \in Calls, InsertDID(c)
      PROVE  RetryInv'
  <2>1. \A e : KeyPathIndex(e)' = KeyPathIndex(e)
    BY <1>4 DEF InsertDID, KeyPathIndex
  <2>2. index[c] = 0 => links = {} \/ HasLinkAtZero
    BY <1>4 DEF InsertDID, Go, RetryInv
  <2> QED
    BY <1>4, <2>1, <2>2 DEF InsertDID, Go, RetryInv, HasLinkAtZero, NewDID, DID
<1>5. ASSUME NEW c \in Calls, NEW usage \in Usages, NEW next, LinkKey(c, usage, next)
      PROVE  RetryInv'
  <2>1. CASE links # {}
    <3>1. \A b \in Calls : KeyPathIndex(args[b].keyPathIndex)' = KeyPathIndex(args[b].keyPathIndex)
      BY <1>5, <2>1, LinksKeepIndex DEF LinkKey
    <3>2. links \subseteq links' /\ index' = index /\ dids' = dids /\ args' = args
      BY <1>5 DEF LinkKey
    <3>3. \A b \in Calls : step'[b] \in Running \ {"index"} => b = c \/ step[b] \in Running \ {"index"}
      BY <1>5 DEF LinkKey, Go
    <3>4. step[c] \in Running \ {"index"}
      BY <1>5 DEF LinkKey, Go, Usages
    <3> QED
      BY <2>1, <3>1, <3>2, <3>3, <3>4 DEF RetryInv, HasLinkAtZero
  <2>2. CASE links = {}
    <3>1. \A b \in Calls : index[b] = 0
      BY <1>0, <2>2, KeyPathIndexIsAbove DEF RetryInv
    <3>2. HasLinkAtZero'
      <4>1. Link(NewDID(c), usage, 0) \in links'
        BY <1>5 DEF LinkKey, RecordedIndex
      <4>2. Link(NewDID(c), usage, 0).did.path = 0
        BY <3>1 DEF Link, NewDID, DID
      <4> QED
        BY <4>1, <4>2 DEF HasLinkAtZero
    <3> QED
      BY <1>5, <3>1, <3>2 DEF LinkKey, RetryInv
  <2> QED
    BY <2>1, <2>2
<1>6. CASE UNCHANGED vars
  BY <1>1, <1>6 DEF vars
<1>7. ASSUME NEW c \in Calls, LinkMaster(c) \/ LinkIssuing(c)
      PROVE  RetryInv'
  BY <1>5, <1>7 DEF LinkMaster, LinkIssuing, Usages
<1>8. CASE Crash
  BY <1>1, <1>8 DEF Crash
<1> QED
  BY <1>2, <1>3, <1>4, <1>6, <1>7, <1>8 DEF Next, Step

\* A creation cut short between the DID and its first key is completed by a retry,
\* unless another DID has the index (createPrismDID, getAllPrismDIDs).
THEOREM CutShortCompleted == Spec => []CutShortIsTakenUpAgain
<1>1. ASSUME Typed, RetryInv, NEW c \in Calls, NewDID(c) \in dids
      PROVE  \/ \E l \in links : l.did.path = index[c]
             \/ KeyPathIndex(args[c].keyPathIndex) = index[c]
  <2>1. CASE index[c] = 0
    <3>1. links = {} => KeyPathIndex(args[c].keyPathIndex) = 0
      BY DEF KeyPathIndex
    <3> QED
      BY <1>1, <2>1, <3>1 DEF RetryInv, HasLinkAtZero, NewDID, DID
  <2>2. CASE index[c] # 0
    BY <1>1, <2>2 DEF RetryInv
  <2> QED
    BY <2>1, <2>2
<1>2. Typed /\ RetryInv => CutShortIsTakenUpAgain
  BY <1>1 DEF CutShortIsTakenUpAgain
<1> QED
  BY <1>2, RetryInit, RetryStep, TypedInit, TypedStep, PTL DEF Spec
================================================================================
