----------------------------- MODULE RestoreProofs -----------------------------
(***************************************************************************)
(* Theorems about Restore, for any backup, any number of attempts and any  *)
(* number of failures and crashes.                                         *)
(***************************************************************************)
EXTENDS Restore, SequenceTheorems, TLAPS

-----------------------------------------------------------------------------
(* The store                                                               *)

\* A step of a restore is a step of PlutoStore, or none.
LEMMA StepImplements == [Next]_vars => [Pluto!Next]_Pluto!vars
<1> USE DEF Pluto!vars, Pluto!callVars, storeVars
<1>1. ASSUME NEW a \in Attempts, Begin(a) \/ AttemptStep(a)
      PROVE  UNCHANGED Pluto!vars
  BY <1>1 DEF Begin, AttemptStep, LookIn, LookInLast, QueryFails, PhaseReturns, PhaseThrows
<1>2. ASSUME NEW c \in Calls, Launch(c)
      PROVE  Pluto!Begin(c)
  <2>1. c[3] \in Ops
    BY DEF Ops
  <2> QED
    BY <1>2, <2>1 DEF Launch, Pluto!Begin
<1>3. ASSUME NEW c \in Calls, StoreStep(c)
      PROVE  Pluto!Next
  BY <1>3 DEF StoreStep, Pluto!Next
<1>4. ASSUME Crash
      PROVE  Pluto!Next
  BY <1>4 DEF Crash, Pluto!Next
<1>5. ASSUME UNCHANGED vars
      PROVE  UNCHANGED Pluto!vars
  BY <1>5 DEF vars
<1> QED
  BY <1>1, <1>2, <1>3, <1>4, <1>5 DEF Next, Step, Pluto!Next

\* A restore is a client of PlutoStore that breaks none of its rules.
THEOREM ImplementsPlutoStore == Spec => PlutoSpec
<1>1. Init => Pluto!Init
  BY DEF Init
<1> QED
  BY <1>1, StepImplements, PTL DEF Spec, PlutoSpec, Pluto!Spec

-----------------------------------------------------------------------------
(* What a restore stores                                                   *)

\* The rows of call c, in order.
RowsFor(c) == Pluto!RowsOf(c[3], c)
ObjectRow(table, a, x) == [table |-> table, key |-> <<a, x>>]

\* A sequence, and another after it.
LEMMA Joined ==
  ASSUME NEW S, NEW s \in Seq(S), NEW t \in Seq(S)
  PROVE  /\ \A i \in 1..Len(s) : (s \o t)[i] = s[i]
         /\ \A i \in 1..Len(t) : (s \o t)[Len(s) + i] = t[i]
<1>1. ASSUME NEW i \in 1..Len(s)
      PROVE  (s \o t)[i] = s[i]
  OBVIOUS
<1>2. ASSUME NEW i \in 1..Len(t)
      PROVE  (s \o t)[Len(s) + i] = t[i]
  OBVIOUS
<1> QED
  BY <1>1, <1>2

LEMMA LastPhaseIs ==
  LastPhase \in Nat /\ LastPhase >= 6 /\ DOMAIN Backup.messages = 1..(LastPhase - 6)
BY BackupAssumption DEF LastPhase

\* RestoreTask.run: the six kinds of object, then each message.
LEMMA PhasesAre ==
  ASSUME NEW a \in Attempts
  PROVE  /\ Phases(a)[1] = Credentials(a) /\ Phases(a)[2] = StoredDIDs(a)
         /\ Phases(a)[3] = DIDPairs(a) /\ Phases(a)[4] = PrivateKeys(a)
         /\ Phases(a)[5] = LinkSecrets(a) /\ Phases(a)[6] = Mediators(a)
         /\ \A i \in DOMAIN Backup.messages :
              Phases(a)[6 + i] = {Object("messages", a, Backup.messages[i])}
<1> DEFINE kinds == <<Credentials(a), StoredDIDs(a), DIDPairs(a), PrivateKeys(a),
                      LinkSecrets(a), Mediators(a)>>
           n == Len(Backup.messages)
<1>1. Backup.messages \in Seq(MessageIds) /\ n \in Nat /\ DOMAIN Backup.messages = 1..n
  BY BackupAssumption
<1>2. /\ Len(Messages(a)) = n
      /\ \A i \in 1..n : Messages(a)[i] = {Object("messages", a, Backup.messages[i])}
  BY <1>1 DEF Messages
<1>3. kinds[1] = Credentials(a) /\ kinds[2] = StoredDIDs(a) /\ kinds[3] = DIDPairs(a)
      /\ kinds[4] = PrivateKeys(a) /\ kinds[5] = LinkSecrets(a) /\ kinds[6] = Mediators(a)
      /\ Len(kinds) = 6
  OBVIOUS
<1>4. Phases(a) = kinds \o Messages(a)
  BY DEF Phases
<1> DEFINE S == {kinds[i] : i \in 1..6} \cup {Messages(a)[i] : i \in 1..n}
<1>5. Messages(a) \in Seq(S)
  <2>1. Messages(a) = [i \in 1..n |-> Messages(a)[i]]
    BY <1>1 DEF Messages
  <2>2. \A i \in 1..n : Messages(a)[i] \in S
    OBVIOUS
  <2> HIDE DEF S
  <2> QED
    BY <1>1, <2>1, <2>2
<1>6. /\ \A i \in 1..6 : (kinds \o Messages(a))[i] = kinds[i]
      /\ \A i \in 1..n : (kinds \o Messages(a))[6 + i] = Messages(a)[i]
  <2>1. kinds \in Seq(S)
    OBVIOUS
  <2>2. 6 = Len(kinds)
    OBVIOUS
  <2> HIDE DEF S, kinds
  <2>3. /\ \A i \in 1..Len(kinds) : (kinds \o Messages(a))[i] = kinds[i]
        /\ \A i \in 1..Len(Messages(a)) :
             (kinds \o Messages(a))[Len(kinds) + i] = Messages(a)[i]
    BY <1>5, <2>1, Joined
  <2> QED
    BY <1>2, <2>2, <2>3
<1> HIDE DEF S, kinds
<1>7. \A i \in 1..6 : Phases(a)[i] = kinds[i]
  BY <1>4, <1>6
<1>8. \A i \in 1..n : Phases(a)[6 + i] = Messages(a)[i]
  BY <1>4, <1>6
<1> QED
  BY <1>1, <1>2, <1>3, <1>7, <1>8

LEMMA CallIs ==
  ASSUME NEW c \in Calls
  PROVE  /\ c[1] \in Attempts /\ c[2] \in 1..LastPhase /\ c[3] \in Phases(c[1])[c[2]]
         /\ c = <<c[1], c[2], c[3]>>
BY DEF Calls, CallsOf

LEMMA IsCall ==
  ASSUME NEW a \in Attempts, NEW p \in 1..LastPhase, NEW o \in Phases(a)[p]
  PROVE  <<a, p, o>> \in Calls
BY DEF Calls, CallsOf

\* The calls of each phase.
StoresCredential(c) ==
  c[2] = 1 /\ \E x \in RecoveredCredentials : c[3] = Object("credentials", c[1], x)
StoresDID(c) ==
  c[2] = 2 /\ \E d \in Backup.dids : c[3] = [kind |-> "did", did |-> d, keys |-> << >>]
StoresPair(c) ==
  c[2] = 3 /\ \E p \in Backup.did_pairs :
    c[3] = [kind |-> "pair", host |-> p.holder, target |-> p.recipient, alias |-> p.alias]
StoresKey(c) ==
  c[2] = 4 /\ \E k \in Backup.keys : k.did = Unlinked /\ c[3] = Object("keys", c[1], k.id)
StoresKeyOfDID(c) ==
  c[2] = 4 /\ \E k \in Backup.keys :
    k.did # Unlinked /\ c[3] = [kind |-> "did", did |-> k.did, keys |-> <<(<<c[1], k.id>>)>>]
StoresLinkSecret(c) ==
  c[2] = 5 /\ Backup.link_secret /\ c[3] = Object("keys", c[1], LinkSecret)
StoresMediator(c) ==
  c[2] = 6 /\ \E m \in Backup.mediators :
    c[3] = [kind |-> "mediator", host |-> m.holder, mediator |-> m.mediator, routing |-> m.routing]
StoresMessage(c) ==
  \E i \in DOMAIN Backup.messages :
    c[2] = 6 + i /\ c[3] = Object("messages", c[1], Backup.messages[i])

\* What each phase stores, call by call.
LEMMA CallKinds ==
  ASSUME NEW c \in Calls
  PROVE  \/ StoresCredential(c) \/ StoresDID(c) \/ StoresPair(c) \/ StoresKey(c)
         \/ StoresKeyOfDID(c) \/ StoresLinkSecret(c) \/ StoresMediator(c) \/ StoresMessage(c)
<1> DEFINE phase == Phases(c[1])[c[2]]
<1>1. c[1] \in Attempts /\ c[2] \in 1..LastPhase /\ c[3] \in phase
  BY CallIs
<1>2. LastPhase \in Nat /\ DOMAIN Backup.messages = 1..(LastPhase - 6)
  BY LastPhaseIs
<1>3. /\ c[2] = 1 => phase = Credentials(c[1])
      /\ c[2] = 2 => phase = StoredDIDs(c[1])
      /\ c[2] = 3 => phase = DIDPairs(c[1])
      /\ c[2] = 4 => phase = PrivateKeys(c[1])
      /\ c[2] = 5 => phase = LinkSecrets(c[1])
      /\ c[2] = 6 => phase = Mediators(c[1])
      /\ \A i \in DOMAIN Backup.messages :
           c[2] = 6 + i => phase = {Object("messages", c[1], Backup.messages[i])}
  BY <1>1, PhasesAre
<1> HIDE DEF phase
<1>4. c[2] \in 1..6 \/ \E i \in DOMAIN Backup.messages : c[2] = 6 + i
  <2>1. ASSUME c[2] > 6
        PROVE  c[2] - 6 \in DOMAIN Backup.messages /\ c[2] = 6 + (c[2] - 6)
    BY <1>1, <1>2, <2>1
  <2> QED
    BY <1>1, <1>2, <2>1
<1>5. c[2] = 1 => StoresCredential(c)
  BY <1>1, <1>3 DEF Credentials, StoresCredential
<1>6. c[2] = 2 => StoresDID(c)
  BY <1>1, <1>3 DEF StoredDIDs, StoresDID
<1>7. c[2] = 3 => StoresPair(c)
  BY <1>1, <1>3 DEF DIDPairs, StoresPair
<1>8. c[2] = 4 => StoresKey(c) \/ StoresKeyOfDID(c)
  BY <1>1, <1>3 DEF PrivateKeys, StoresKey, StoresKeyOfDID
<1>9. c[2] = 5 => StoresLinkSecret(c)
  BY <1>1, <1>3 DEF LinkSecrets, StoresLinkSecret
<1>10. c[2] = 6 => StoresMediator(c)
  BY <1>1, <1>3 DEF Mediators, StoresMediator
<1>11. (\E i \in DOMAIN Backup.messages : c[2] = 6 + i) => StoresMessage(c)
  BY <1>1, <1>3 DEF StoresMessage
<1> QED
  BY <1>4, <1>5, <1>6, <1>7, <1>8, <1>9, <1>10, <1>11

\* Two attempts have the same to restore.
LEMMA SamePhases ==
  ASSUME NEW a \in Attempts, NEW b \in Attempts, CallsOf(a) # {}
  PROVE  CallsOf(b) # {}
<1>0. LastPhase \in Nat /\ LastPhase >= 6 /\ DOMAIN Backup.messages = 1..(LastPhase - 6)
  BY LastPhaseIs
<1>1. PICK c \in CallsOf(a) : TRUE
  OBVIOUS
<1>2. c \in Calls
  BY <1>1 DEF Calls
<1>3. ASSUME NEW p \in 1..LastPhase, NEW o \in Phases(b)[p]
      PROVE  CallsOf(b) # {}
  <2>1. <<b, p, o>> \in CallsOf(b)
    BY <1>3 DEF CallsOf
  <2> QED
    BY <2>1
<1>4. 1 \in 1..LastPhase /\ 2 \in 1..LastPhase /\ 3 \in 1..LastPhase
      /\ 4 \in 1..LastPhase /\ 5 \in 1..LastPhase /\ 6 \in 1..LastPhase
  BY <1>0
<1>5. CASE StoresCredential(c)
  <2>1. \E o : o \in Phases(b)[1]
    BY <1>5, PhasesAre DEF StoresCredential, Credentials
  <2> QED
    BY <1>3, <1>4, <2>1
<1>6. CASE StoresDID(c)
  <2>1. \E o : o \in Phases(b)[2]
    BY <1>6, PhasesAre DEF StoresDID, StoredDIDs
  <2> QED
    BY <1>3, <1>4, <2>1
<1>7. CASE StoresPair(c)
  <2>1. \E o : o \in Phases(b)[3]
    BY <1>7, PhasesAre DEF StoresPair, DIDPairs
  <2> QED
    BY <1>3, <1>4, <2>1
<1>8. CASE StoresKey(c) \/ StoresKeyOfDID(c)
  <2>0. Backup.keys # {}
    BY <1>8 DEF StoresKey, StoresKeyOfDID
  <2>1. \E o : o \in PrivateKeys(b)
    BY <2>0 DEF PrivateKeys
  <2> QED
    BY <1>3, <1>4, <2>1, PhasesAre
<1>9. CASE StoresLinkSecret(c)
  <2>1. \E o : o \in Phases(b)[5]
    BY <1>9, PhasesAre DEF StoresLinkSecret, LinkSecrets
  <2> QED
    BY <1>3, <1>4, <2>1
<1>10. CASE StoresMediator(c)
  <2>1. \E o : o \in Phases(b)[6]
    BY <1>10, PhasesAre DEF StoresMediator, Mediators
  <2> QED
    BY <1>3, <1>4, <2>1
<1>11. CASE StoresMessage(c)
  <2>1. PICK i \in DOMAIN Backup.messages : TRUE
    BY <1>11 DEF StoresMessage
  <2>2. 6 + i \in 1..LastPhase
    BY <1>0, <2>1
  <2>3. Object("messages", b, Backup.messages[i]) \in Phases(b)[6 + i]
    BY <2>1, PhasesAre
  <2> QED
    BY <1>3, <2>2, <2>3
<1> QED
  BY <1>2, <1>5, <1>6, <1>7, <1>8, <1>9, <1>10, <1>11, CallKinds

\* The rows of each kind of call.
LEMMA RowsOfKind ==
  ASSUME NEW c \in Calls
  PROVE  /\ \A table, x : c[3] = Object(table, c[1], x) =>
              RowsFor(c) = <<ObjectRow(table, c[1], x)>>
         /\ \A d : c[3] = [kind |-> "did", did |-> d, keys |-> << >>] =>
              RowsFor(c) = <<Pluto!DIDRow(d)>>
         /\ \A d, k : c[3] = [kind |-> "did", did |-> d, keys |-> <<k>>] =>
              RowsFor(c) = <<Pluto!DIDRow(d), Pluto!KeyRow(k), Pluto!KeyLink(d, k, c)>>
         /\ \A h, t, l : c[3] = [kind |-> "pair", host |-> h, target |-> t, alias |-> l] =>
              RowsFor(c) = <<Pluto!DIDRow(h), Pluto!DIDRow(t), Pluto!DIDLink("pair", h, t, l, c)>>
         /\ \A h, m, r :
              c[3] = [kind |-> "mediator", host |-> h, mediator |-> m, routing |-> r] =>
                RowsFor(c) = <<Pluto!DIDRow(h), Pluto!DIDRow(m), Pluto!DIDRow(r),
                               Pluto!DIDLink("mediator", h, m, Pluto!NoAlias, c),
                               Pluto!DIDLink("routing", h, r, Pluto!NoAlias, c)>>
<1> USE DEF RowsFor, Pluto!RowsOf
<1>1. ASSUME NEW table, NEW x, c[3] = Object(table, c[1], x)
      PROVE  RowsFor(c) = <<ObjectRow(table, c[1], x)>>
  BY <1>1 DEF Object, ObjectRow, Pluto!ObjectRows
<1>2. ASSUME NEW d, c[3] = [kind |-> "did", did |-> d, keys |-> << >>]
      PROVE  RowsFor(c) = <<Pluto!DIDRow(d)>>
  <2>1. RowsFor(c) = [i \in 1..1 |-> Pluto!DIDRow(d)]
    BY <1>2 DEF Pluto!DIDRows
  <2> QED
    BY <2>1
<1>3. ASSUME NEW d, NEW k, c[3] = [kind |-> "did", did |-> d, keys |-> <<k>>]
      PROVE  RowsFor(c) = <<Pluto!DIDRow(d), Pluto!KeyRow(k), Pluto!KeyLink(d, k, c)>>
  <2>1. /\ RowsFor(c) = Pluto!DIDRows(c[3], c) /\ c[3].keys = <<k>> /\ Len(c[3].keys) = 1
        /\ c[3].did = d
    BY <1>3
  <2>2. RowsFor(c) = [i \in 1..3 |->
          IF i = 1 THEN Pluto!DIDRow(d)
          ELSE IF i % 2 = 0 THEN Pluto!KeyRow(<<k>>[i \div 2])
          ELSE Pluto!KeyLink(d, <<k>>[i \div 2], c)]
    BY <2>1 DEF Pluto!DIDRows
  <2>3. /\ RowsFor(c)[1] = Pluto!DIDRow(d) /\ RowsFor(c)[2] = Pluto!KeyRow(k)
        /\ RowsFor(c)[3] = Pluto!KeyLink(d, k, c)
    BY <2>2
  <2> QED
    BY <2>2, <2>3
<1>4. ASSUME NEW h, NEW t, NEW l, c[3] = [kind |-> "pair", host |-> h, target |-> t, alias |-> l]
      PROVE  RowsFor(c) =
               <<Pluto!DIDRow(h), Pluto!DIDRow(t), Pluto!DIDLink("pair", h, t, l, c)>>
  BY <1>4 DEF Pluto!PairRows
<1>5. ASSUME NEW h, NEW m, NEW r,
             c[3] = [kind |-> "mediator", host |-> h, mediator |-> m, routing |-> r]
      PROVE  RowsFor(c) = <<Pluto!DIDRow(h), Pluto!DIDRow(m), Pluto!DIDRow(r),
                            Pluto!DIDLink("mediator", h, m, Pluto!NoAlias, c),
                            Pluto!DIDLink("routing", h, r, Pluto!NoAlias, c)>>
  BY <1>5 DEF Pluto!MediatorRows
<1> QED
  BY <1>1, <1>2, <1>3, <1>4, <1>5

\* PlutoStore admits what a restore stores: its OpsAssumption holds here.
LEMMA OpsAdmitted ==
  Ops \subseteq Pluto!DIDOps \cup Pluto!PairOps \cup Pluto!MediatorOps \cup Pluto!ObjectOps
<1> SUFFICES ASSUME NEW c \in Calls
             PROVE  c[3] \in Pluto!DIDOps \cup Pluto!PairOps \cup Pluto!MediatorOps \cup Pluto!ObjectOps
  BY DEF Ops
<1> USE BackupAssumption
<1>1. c[1] \in Attempts
  BY CallIs
<1>2. ASSUME NEW table \in {"keys", "credentials", "messages"}, NEW x \in Objects,
             c[3] = Object(table, c[1], x)
      PROVE  c[3] \in Pluto!ObjectOps
  BY <1>1, <1>2 DEF Object, Pluto!ObjectOps, Pluto!ObjectTables
<1>3. CASE StoresCredential(c)
  BY <1>2, <1>3 DEF StoresCredential, Objects
<1>4. CASE StoresDID(c)
  BY <1>4 DEF StoresDID, Pluto!DIDOps, Pluto!DIDs, DIDs
<1>5. CASE StoresPair(c)
  BY <1>5 DEF StoresPair, Pluto!PairOps, Pluto!DIDs, DIDs
<1>6. CASE StoresKey(c)
  BY <1>2, <1>6 DEF StoresKey, Objects
<1>7. CASE StoresKeyOfDID(c)
  <2>1. PICK k \in Backup.keys :
          k.did # Unlinked /\ c[3] = [kind |-> "did", did |-> k.did, keys |-> <<(<<c[1], k.id>>)>>]
    BY <1>7 DEF StoresKeyOfDID
  <2>2. k.did \in DIDs /\ <<c[1], k.id>> \in Attempts \X Objects
    BY <1>1, <2>1 DEF Objects
  <2>3. <<(<<c[1], k.id>>)>> \in Seq(Attempts \X Objects)
    BY <2>2
  <2> QED
    BY <2>1, <2>2, <2>3 DEF Pluto!DIDOps, Pluto!DIDs, DIDs
<1>8. CASE StoresLinkSecret(c)
  BY <1>2, <1>8 DEF StoresLinkSecret, Objects
<1>9. CASE StoresMediator(c)
  BY <1>9 DEF StoresMediator, Pluto!MediatorOps, Pluto!DIDs, DIDs
<1>10. CASE StoresMessage(c)
  BY <1>2, <1>10 DEF StoresMessage, Objects, MessageIds
<1> QED
  BY <1>3, <1>4, <1>5, <1>6, <1>7, <1>8, <1>9, <1>10, CallKinds

\* The entry of a name.
KeyNamed(x) == CHOOSE k \in Backup.keys : k.id = x
MessageNamed(x) == CHOOSE i \in DOMAIN Backup.messages : Backup.messages[i] = x

\* Every entry of the backup has a name of its own.
LEMMA Named ==
  /\ \A k \in Backup.keys : KeyNamed(k.id) = k /\ k.id # LinkSecret
  /\ \A i \in DOMAIN Backup.messages : MessageNamed(Backup.messages[i]) = i
BY NamesAssumption DEF KeyNamed, MessageNamed

\* The call whose row r is, and where r is among its rows, if r is not of a DID.
Place(r) ==
  LET a == r.key[1]
      x == r.key[2]
      k == KeyNamed(x)
  IN  IF r.table = "didkey-link" THEN <<r.by, 3>>
      ELSE IF r.table = "did-link"
      THEN <<r.by, IF r.role = "pair" THEN 3 ELSE IF r.role = "mediator" THEN 4 ELSE 5>>
      ELSE IF r.table = "credentials" THEN <<(<<a, 1, Object("credentials", a, x)>>), 1>>
      ELSE IF r.table = "messages" THEN <<(<<a, 6 + MessageNamed(x), Object("messages", a, x)>>), 1>>
      ELSE IF x = LinkSecret THEN <<(<<a, 5, Object("keys", a, x)>>), 1>>
      ELSE IF k.did = Unlinked THEN <<(<<a, 4, Object("keys", a, x)>>), 1>>
      ELSE <<(<<a, 4, [kind |-> "did", did |-> k.did, keys |-> <<(<<a, x>>)>>]>>), 2>>

\* Each call has rows, of its objects and links and of DIDs; and any but those of
\* DIDs are of that call alone, and once.
LEMMA RowsDiffer ==
  ASSUME NEW c \in Calls
  PROVE  /\ RowsFor(c) \in Seq(Pluto!Row) /\ Len(RowsFor(c)) \in Nat \ {0}
         /\ \A i \in 1..Len(RowsFor(c)) :
              RowsFor(c)[i].table # "dids" => Place(RowsFor(c)[i]) = <<c, i>>
<1> USE BackupAssumption
<1> DEFINE S == RowsFor(c)
           Good == /\ S \in Seq(Pluto!Row) /\ Len(S) \in Nat \ {0}
                   /\ \A i \in 1..Len(S) : S[i].table # "dids" => Place(S[i]) = <<c, i>>
<1>1. c[1] \in Attempts /\ c = <<c[1], c[2], c[3]>>
  BY CallIs
<1>2. ASSUME NEW table \in {"keys", "credentials", "messages"}, NEW x \in Objects,
             c[3] = Object(table, c[1], x), Place(ObjectRow(table, c[1], x)) = <<c, 1>>
      PROVE  Good
  <2>1. S = <<ObjectRow(table, c[1], x)>>
    BY <1>2, RowsOfKind
  <2>2. ObjectRow(table, c[1], x) \in Pluto!Row
    BY <1>1 DEF ObjectRow, Pluto!Row, Pluto!ObjectTables
  <2> QED
    BY <1>2, <2>1, <2>2
<1>3. CASE StoresCredential(c)
  <2>1. PICK x \in RecoveredCredentials : c[3] = Object("credentials", c[1], x)
    BY <1>3 DEF StoresCredential
  <2>2. Place(ObjectRow("credentials", c[1], x)) = <<(<<c[1], 1, c[3]>>), 1>>
    BY <2>1 DEF Place, ObjectRow
  <2> QED
    BY <1>1, <1>2, <1>3, <2>1, <2>2 DEF StoresCredential, Objects
<1>4. ASSUME NEW d \in DIDs
      PROVE  Pluto!DIDRow(d) \in Pluto!Row /\ Pluto!DIDRow(d).table = "dids"
  BY DEF Pluto!DIDRow, Pluto!Row, Pluto!DIDs, DIDs
<1>5. CASE StoresDID(c)
  <2>1. PICK d \in DIDs : c[3] = [kind |-> "did", did |-> d, keys |-> << >>]
    BY <1>5 DEF StoresDID
  <2>2. S = <<Pluto!DIDRow(d)>>
    BY <2>1, RowsOfKind
  <2> QED
    BY <1>4, <2>2
<1>6. ASSUME NEW role \in Pluto!Roles, NEW h \in DIDs, NEW t \in DIDs,
             NEW l \in Aliases \cup {Pluto!NoAlias}
      PROVE  LET r == Pluto!DIDLink(role, h, t, l, c)
             IN  /\ r \in Pluto!Row
                 /\ Place(r) = <<c, IF role = "pair" THEN 3 ELSE IF role = "mediator" THEN 4 ELSE 5>>
  BY DEF Pluto!DIDLink, Pluto!Row, Pluto!DIDLinks, Pluto!DIDs, DIDs, Place
<1>7. CASE StoresPair(c)
  <2>1. PICK p \in Backup.did_pairs : c[3] =
          [kind |-> "pair", host |-> p.holder, target |-> p.recipient, alias |-> p.alias]
    BY <1>7 DEF StoresPair
  <2> DEFINE link == Pluto!DIDLink("pair", p.holder, p.recipient, p.alias, c)
  <2>2. S = <<Pluto!DIDRow(p.holder), Pluto!DIDRow(p.recipient), link>>
    BY <2>1, RowsOfKind
  <2>3. p.holder \in DIDs /\ p.recipient \in DIDs /\ p.alias \in Aliases
    OBVIOUS
  <2>4. link \in Pluto!Row /\ Place(link) = <<c, 3>>
    BY <1>6, <2>3 DEF Pluto!Roles
  <2> HIDE DEF link
  <2> QED
    BY <1>4, <2>2, <2>3, <2>4
<1>8. CASE StoresKey(c)
  <2>1. PICK k \in Backup.keys : k.did = Unlinked /\ c[3] = Object("keys", c[1], k.id)
    BY <1>8 DEF StoresKey
  <2>2. Place(ObjectRow("keys", c[1], k.id)) = <<(<<c[1], 4, c[3]>>), 1>>
    BY <2>1, Named DEF Place, ObjectRow
  <2>3. c[2] = 4 /\ k.id \in Objects
    BY <1>8 DEF StoresKey, Objects
  <2> QED
    BY <1>1, <1>2, <2>1, <2>2, <2>3
<1>9. CASE StoresKeyOfDID(c)
  <2>1. PICK k \in Backup.keys :
          k.did # Unlinked /\ c[3] = [kind |-> "did", did |-> k.did, keys |-> <<(<<c[1], k.id>>)>>]
    BY <1>9 DEF StoresKeyOfDID
  <2> DEFINE x == <<c[1], k.id>>
             row == Pluto!KeyRow(x)
             link == Pluto!KeyLink(k.did, x, c)
  <2>2. k.did \in DIDs /\ x \in Attempts \X Objects
    BY <1>1, <2>1 DEF Objects
  <2>3. S = <<Pluto!DIDRow(k.did), row, link>>
    BY <2>1, RowsOfKind
  <2>4. row \in Pluto!Row /\ link \in Pluto!Row
    BY <2>2 DEF Pluto!KeyRow, Pluto!KeyLink, Pluto!KeyLinks, Pluto!Row, Pluto!ObjectTables,
                Pluto!DIDs, DIDs
  <2>5. Place(link) = <<c, 3>>
    BY DEF Pluto!KeyLink, Place
  <2>6. Place(row) = <<(<<c[1], 4, c[3]>>), 2>>
    BY <2>1, Named DEF Pluto!KeyRow, Place
  <2>7. Place(row) = <<c, 2>>
    BY <1>1, <1>9, <2>6 DEF StoresKeyOfDID
  <2> HIDE DEF row, link
  <2> QED
    BY <1>4, <2>2, <2>3, <2>4, <2>5, <2>7
<1>10. CASE StoresLinkSecret(c)
  <2>1. Place(ObjectRow("keys", c[1], LinkSecret)) = <<(<<c[1], 5, c[3]>>), 1>>
    BY <1>10 DEF StoresLinkSecret, Place, ObjectRow
  <2> QED
    BY <1>1, <1>2, <1>10, <2>1 DEF StoresLinkSecret, Objects
<1>11. CASE StoresMediator(c)
  <2>1. PICK m \in Backup.mediators : c[3] =
          [kind |-> "mediator", host |-> m.holder, mediator |-> m.mediator, routing |-> m.routing]
    BY <1>11 DEF StoresMediator
  <2> DEFINE l1 == Pluto!DIDLink("mediator", m.holder, m.mediator, Pluto!NoAlias, c)
             l2 == Pluto!DIDLink("routing", m.holder, m.routing, Pluto!NoAlias, c)
  <2>2. S = <<Pluto!DIDRow(m.holder), Pluto!DIDRow(m.mediator), Pluto!DIDRow(m.routing), l1, l2>>
    BY <2>1, RowsOfKind
  <2>3. m.holder \in DIDs /\ m.mediator \in DIDs /\ m.routing \in DIDs
    OBVIOUS
  <2>4. l1 \in Pluto!Row /\ Place(l1) = <<c, 4>> /\ l2 \in Pluto!Row /\ Place(l2) = <<c, 5>>
    BY <1>6, <2>3 DEF Pluto!Roles
  <2> HIDE DEF l1, l2
  <2> QED
    BY <1>4, <2>2, <2>3, <2>4
<1>12. CASE StoresMessage(c)
  <2>1. PICK i \in DOMAIN Backup.messages :
          c[2] = 6 + i /\ c[3] = Object("messages", c[1], Backup.messages[i])
    BY <1>12 DEF StoresMessage
  <2>2. Place(ObjectRow("messages", c[1], Backup.messages[i])) = <<(<<c[1], c[2], c[3]>>), 1>>
    BY <2>1, Named DEF Place, ObjectRow
  <2> QED
    BY <1>1, <1>2, <2>1, <2>2 DEF Objects, MessageIds
<1> QED
  BY <1>3, <1>5, <1>7, <1>8, <1>9, <1>10, <1>11, <1>12, CallKinds

-----------------------------------------------------------------------------
(* Types, and how far the calls and the attempts have come                 *)

\* The row call c is at.
RowAt(c) == RowsFor(c)[pos[c]]

\* What is before the row that a call is at is stored, and a call returns when
\* all of it is.
CallsInv ==
  \A c \in Calls :
    /\ status[c] = "idle" => pos[c] = 1
    /\ status[c] # "idle" => op[c] = c[3]
    /\ \A i \in 1..Len(RowsFor(c)) : i < pos[c] => RowsFor(c)[i] \in store
    /\ status[c] = "returned" => pos[c] > Len(RowsFor(c))

\* An attempt comes to a phase when every call of the phases before has returned.
AttemptsInv ==
  \A a \in Attempts :
    /\ stage[a] = "restoring" =>
         /\ at[a] \in 1..LastPhase
         /\ \A c \in Calls : c[1] = a /\ c[2] < at[a] => status[c] = "returned"
    /\ stage[a] = "returned" => \A c \in Calls : c[1] = a => status[c] = "returned"

\* What a step of a call of PlutoStore may do: it deals with its row, or throws
\* at it, or returns.
LEMMA StoreStepIs ==
  ASSUME TypeOK, CallsInv, NEW c \in Calls, StoreStep(c)
  PROVE  /\ status[c] = "running" /\ op' = op /\ UNCHANGED <<stage, at, occupied>>
         /\ \A b \in Calls \ {c} :
              pos'[b] = pos[b] /\ status'[b] = status[b] /\ absent'[b] = absent[b]
         /\ \/ /\ pos[c] \in 1..Len(RowsFor(c)) /\ RowAt(c) \in store
               /\ RowAt(c).table = "dids" /\ ~absent[c]
               /\ store' = store /\ pos'[c] = pos[c] + 1 /\ ~absent'[c]
               /\ status' = status /\ faults' = faults
            \/ /\ pos[c] \in 1..Len(RowsFor(c)) /\ RowAt(c) \notin store
               /\ RowAt(c).table = "dids" /\ ~absent[c]
               /\ store' = store /\ pos' = pos /\ absent'[c]
               /\ status' = status /\ faults' = faults
            \/ /\ pos[c] \in 1..Len(RowsFor(c)) /\ RowAt(c) \notin store
               /\ RowAt(c).table = "dids" => absent[c]
               /\ store' = store \cup {RowAt(c)} /\ pos'[c] = pos[c] + 1 /\ ~absent'[c]
               /\ status' = status /\ faults' = faults
            \/ /\ pos[c] \in 1..Len(RowsFor(c))
               /\ \/ /\ RowAt(c) \in store /\ faults' = faults
                     /\ RowAt(c).table = "dids" => absent[c]
                  \/ faults < MaxFaults /\ faults' = faults + 1
               /\ store' = store /\ pos' = pos /\ ~absent'[c] /\ status'[c] = "threw"
            \/ /\ pos[c] > Len(RowsFor(c))
               /\ store' = store /\ pos' = pos /\ absent' = absent
               /\ status'[c] = "returned" /\ faults' = faults
<1>1. /\ pos \in [Calls -> Nat \ {0}] /\ absent \in [Calls -> BOOLEAN]
      /\ status \in [Calls -> Pluto!Statuses]
  BY DEF TypeOK, Pluto!TypeOK
<1>2. status[c] = "running" /\ op' = op /\ UNCHANGED <<stage, at, occupied>>
  BY DEF StoreStep, Pluto!LookUp, Pluto!Insert, Pluto!InsertConflicts, Pluto!InsertFails,
         Pluto!Return, Pluto!Inserting, Pluto!Busy, Pluto!Throw
<1>3. Pluto!Rows(c) = RowsFor(c) /\ Pluto!At(c) = RowAt(c)
  BY <1>2 DEF CallsInv, Pluto!Rows, Pluto!At, RowsFor, RowAt
<1>4. Len(RowsFor(c)) \in Nat
  BY RowsDiffer
<1>5. Pluto!Busy(c) <=> pos[c] \in 1..Len(RowsFor(c))
  BY <1>1, <1>2, <1>3, <1>4 DEF Pluto!Busy
<1>6. CASE Pluto!LookUp(c)
  BY <1>1, <1>2, <1>3, <1>5, <1>6 DEF Pluto!LookUp, Pluto!Advance
<1>7. CASE Pluto!Insert(c)
  BY <1>1, <1>2, <1>3, <1>5, <1>7 DEF Pluto!Insert, Pluto!Inserting, Pluto!Advance
<1>8. CASE Pluto!InsertConflicts(c)
  BY <1>1, <1>2, <1>3, <1>5, <1>8 DEF Pluto!InsertConflicts, Pluto!Inserting, Pluto!Throw
<1>9. CASE Pluto!InsertFails(c)
  BY <1>1, <1>2, <1>3, <1>5, <1>9 DEF Pluto!InsertFails, Pluto!Inserting, Pluto!Throw, Pluto!Fault
<1>10. CASE Pluto!Return(c)
  BY <1>1, <1>2, <1>3, <1>10 DEF Pluto!Return
<1> QED
  BY <1>2, <1>6, <1>7, <1>8, <1>9, <1>10 DEF StoreStep

\* BackupManager.restore and RestoreTask.run touch no variable of the store.
LEMMA AttemptStepIs ==
  ASSUME NEW a \in Attempts, Begin(a) \/ AttemptStep(a)
  PROVE  UNCHANGED <<storeVars, faults>>
BY DEF Begin, AttemptStep, LookIn, LookInLast, QueryFails, PhaseReturns, PhaseThrows

\* Every step keeps the variables in their types.
LEMMA TypeStep == TypeOK /\ CallsInv /\ [Next]_vars => TypeOK'
<1> SUFFICES ASSUME TypeOK, CallsInv, [Next]_vars PROVE TypeOK'
  OBVIOUS
<1> USE LastPhaseIs, BackupAssumption DEF Pluto!TypeOK
<1>1. serial' = serial
  BY DEF Next, vars
<1>2. ASSUME NEW a \in Attempts, Begin(a) \/ AttemptStep(a) PROVE TypeOK'
  <2>1. Pluto!TypeOK'
    BY <1>2, AttemptStepIs DEF TypeOK, storeVars
  <2>2. /\ stage \in [Attempts -> Stages] /\ occupied \in [Attempts -> BOOLEAN]
        /\ at \in [Attempts -> 0..LastPhase]
    BY DEF TypeOK
  <2>3. stage' \in [Attempts -> Stages]
    BY <1>2, <2>2 DEF Begin, AttemptStep, LookIn, LookInLast, QueryFails, PhaseReturns,
                      PhaseThrows, Stages
  <2>4. at' \in [Attempts -> 0..LastPhase]
    <3>1. 1 \in 0..LastPhase /\ 0 \in 0..LastPhase
      OBVIOUS
    <3>2. at[a] < 5 \/ at[a] # LastPhase => at[a] + 1 \in 0..LastPhase
      BY <2>2
    <3>3. Len(Collections) = 5
      BY DEF Collections
    <3> QED
      BY <1>2, <2>2, <3>1, <3>2, <3>3
         DEF Begin, AttemptStep, LookIn, LookInLast, QueryFails, PhaseReturns, PhaseThrows
  <2>5. occupied' \in [Attempts -> BOOLEAN]
    BY <1>2, <2>2 DEF Begin, AttemptStep, LookIn, LookInLast, QueryFails, PhaseReturns, PhaseThrows
  <2> QED
    BY <1>1, <2>1, <2>3, <2>4, <2>5 DEF TypeOK
<1>3. ASSUME NEW c \in Calls, Launch(c) PROVE TypeOK'
  <2>1. c[3] \in Ops
    BY DEF Ops
  <2> QED
    BY <1>1, <1>3, <2>1 DEF Launch, TypeOK, Pluto!Statuses
<1>4. ASSUME NEW c \in Calls, StoreStep(c) PROVE TypeOK'
  <2>1. /\ store \in SUBSET Pluto!Row /\ pos \in [Calls -> Nat \ {0}]
        /\ absent \in [Calls -> BOOLEAN] /\ status \in [Calls -> Pluto!Statuses]
        /\ faults \in 0..MaxFaults
    BY DEF TypeOK
  <2>2. pos[c] \in 1..Len(RowsFor(c)) => RowAt(c) \in Pluto!Row
    BY RowsDiffer DEF RowAt
  <2>3. store' \in SUBSET Pluto!Row /\ faults' \in 0..MaxFaults
    BY <1>4, <2>1, <2>2, StoreStepIs
  <2>4. /\ pos' \in [Calls -> Nat \ {0}] /\ absent' \in [Calls -> BOOLEAN]
        /\ status' \in [Calls -> Pluto!Statuses]
    <3>1. /\ pos' = pos \/ pos' = [pos EXCEPT ![c] = @ + 1]
          /\ absent' = absent \/ \E x \in BOOLEAN : absent' = [absent EXCEPT ![c] = x]
          /\ \/ status' = status
             \/ \E s \in {"threw", "returned"} : status' = [status EXCEPT ![c] = s]
      BY <1>4 DEF StoreStep, Pluto!LookUp, Pluto!Insert, Pluto!InsertConflicts,
         Pluto!InsertFails, Pluto!Return, Pluto!Advance, Pluto!Throw
    <3>2. pos' \in [Calls -> Nat \ {0}]
      BY <2>1, <3>1
    <3>3. absent' \in [Calls -> BOOLEAN]
      BY <2>1, <3>1
    <3>4. status' \in [Calls -> Pluto!Statuses]
      BY <2>1, <3>1 DEF Pluto!Statuses
    <3> QED
      BY <3>2, <3>3, <3>4
  <2>5. op' = op /\ UNCHANGED <<stage, at, occupied>>
    BY <1>4, StoreStepIs
  <2> QED
    BY <1>1, <2>3, <2>4, <2>5 DEF TypeOK
<1>5. CASE Crash
  BY <1>1, <1>5 DEF Crash, Pluto!Crash, Pluto!Fault, TypeOK, Pluto!Statuses, Stages
<1>6. CASE UNCHANGED vars
  BY <1>6 DEF vars, TypeOK
<1> QED
  BY <1>2, <1>3, <1>4, <1>5, <1>6 DEF Next, Step

\* PlutoStore: every step keeps what each call has dealt with stored.
LEMMA CallsStep == TypeOK /\ CallsInv /\ [Next]_vars => CallsInv'
<1> SUFFICES ASSUME TypeOK, CallsInv, [Next]_vars PROVE CallsInv'
  OBVIOUS
<1>0. /\ pos \in [Calls -> Nat \ {0}] /\ status \in [Calls -> Pluto!Statuses]
      /\ op \in [Calls -> Ops \cup {Pluto!NoOp}]
  BY DEF TypeOK, Pluto!TypeOK
<1>1. CASE UNCHANGED storeVars
  BY <1>1 DEF CallsInv, storeVars
<1>2. ASSUME NEW c \in Calls, Launch(c) PROVE CallsInv'
  BY <1>0, <1>2 DEF CallsInv, Launch
<1>3. ASSUME NEW c \in Calls, StoreStep(c) PROVE CallsInv'
  <2>1. ASSUME NEW b \in Calls \ {c} PROVE CallsInv!(b)'
    BY <1>3, StoreStepIs DEF CallsInv
  <2>2. status[c] = "running" /\ op' = op /\ status'[c] # "idle"
    BY <1>3, StoreStepIs
  <2>3. ASSUME NEW i \in 1..Len(RowsFor(c)), i < pos'[c] PROVE RowsFor(c)[i] \in store'
    <3>1. /\ store \subseteq store'
          /\ \/ pos'[c] = pos[c]
             \/ pos'[c] = pos[c] + 1 /\ RowAt(c) \in store'
      BY <1>3, StoreStepIs
    <3>2. i < pos[c] \/ i = pos[c]
      BY <1>0, <2>3, <3>1
    <3>3. i = pos[c] => RowsFor(c)[i] \in store'
      BY <2>3, <3>1 DEF RowAt
    <3> QED
      BY <3>1, <3>2, <3>3 DEF CallsInv
  <2>4. status'[c] = "returned" => pos'[c] > Len(RowsFor(c))
    BY <1>3, <2>2, StoreStepIs
  <2>5. CallsInv!(c)'
    BY <2>2, <2>3, <2>4 DEF CallsInv
  <2> QED
    BY <2>1, <2>5 DEF CallsInv
<1>4. CASE Crash
  BY <1>0, <1>4 DEF CallsInv, Crash, Pluto!Crash
<1>5. ASSUME NEW a \in Attempts, Begin(a) \/ AttemptStep(a) PROVE UNCHANGED storeVars
  BY <1>5, AttemptStepIs
<1> QED
  BY <1>1, <1>2, <1>3, <1>4, <1>5 DEF Next, Step, vars, storeVars

\* RestoreTask.run: every step keeps AttemptsInv.
LEMMA AttemptsStep == TypeOK /\ CallsInv /\ AttemptsInv /\ [Next]_vars => AttemptsInv'
<1> SUFFICES ASSUME TypeOK, CallsInv, AttemptsInv, [Next]_vars PROVE AttemptsInv'
  OBVIOUS
<1>0. /\ stage \in [Attempts -> Stages] /\ at \in [Attempts -> 0..LastPhase]
      /\ status \in [Calls -> Pluto!Statuses] /\ LastPhase \in Nat /\ LastPhase >= 6
      /\ \A c \in Calls : c[2] \in 1..LastPhase
  BY LastPhaseIs, CallIs DEF TypeOK, Pluto!TypeOK
<1>1. ASSUME NEW a \in Attempts, Begin(a) \/ LookIn(a) \/ LookInLast(a) \/ QueryFails(a) \/ PhaseThrows(a)
      PROVE  AttemptsInv'
  BY <1>0, <1>1 DEF AttemptsInv, Begin, LookIn, LookInLast, QueryFails, PhaseThrows, storeVars
<1>2. ASSUME NEW a \in Attempts, PhaseReturns(a) PROVE AttemptsInv'
  <2>1. \A c \in Calls : c[1] = a /\ c[2] <= at[a] => status[c] = "returned"
    BY <1>0, <1>2 DEF AttemptsInv, PhaseReturns, PhaseCalls
  <2>2. status' = status /\ \A b \in Attempts \ {a} : stage'[b] = stage[b] /\ at'[b] = at[b]
    BY <1>0, <1>2 DEF PhaseReturns, storeVars
  <2>3. stage[a] = "restoring" /\ at[a] \in 1..LastPhase
    BY <1>2 DEF PhaseReturns, AttemptsInv
  <2>4. \/ at[a] = LastPhase /\ stage'[a] = "returned"
        \/ at[a] # LastPhase /\ stage'[a] = "restoring" /\ at'[a] = at[a] + 1
    BY <1>0, <1>2, <2>3 DEF PhaseReturns
  <2>5. AttemptsInv!(a)'
    BY <1>0, <2>1, <2>2, <2>3, <2>4
  <2> QED
    BY <2>2, <2>5 DEF AttemptsInv
<1>3. ASSUME UNCHANGED <<stage, at>>, \A c \in Calls : status[c] = "returned" => status'[c] = "returned"
      PROVE  AttemptsInv'
  BY <1>3 DEF AttemptsInv
<1>4. ASSUME NEW c \in Calls, Launch(c) PROVE AttemptsInv'
  BY <1>0, <1>3, <1>4 DEF Launch
<1>5. ASSUME NEW c \in Calls, StoreStep(c) PROVE AttemptsInv'
  BY <1>3, <1>5, StoreStepIs
<1>6. CASE Crash
  BY <1>0, <1>6 DEF AttemptsInv, Crash, Pluto!Crash, Pending
<1>7. CASE UNCHANGED vars
  BY <1>3, <1>7 DEF vars
<1> QED
  BY <1>1, <1>2, <1>4, <1>5, <1>6, <1>7 DEF Next, Step, AttemptStep

LEMMA RestoreInit == Init => TypeOK /\ CallsInv /\ AttemptsInv
<1> SUFFICES ASSUME Init PROVE TypeOK /\ CallsInv /\ AttemptsInv
  OBVIOUS
<1> USE DEF Init, Pluto!Init
<1>1. Pluto!TypeOK
  BY BackupAssumption DEF Pluto!TypeOK, Pluto!Statuses, Pluto!Readers
<1>2. TypeOK
  BY <1>1, LastPhaseIs DEF TypeOK, Stages
<1>3. CallsInv
  <2>1. \A c \in Calls : pos[c] = 1 /\ status[c] = "idle"
    OBVIOUS
  <2>2. \A c \in Calls : Len(RowsFor(c)) \in Nat
    BY RowsDiffer
  <2> QED
    BY <2>1, <2>2 DEF CallsInv
<1>4. AttemptsInv
  BY DEF AttemptsInv
<1> QED
  BY <1>2, <1>3, <1>4

\* Every variable of a restore and of the store keeps its type.
THEOREM TypeCorrect == Spec => []TypeOK
<1>1. Init => TypeOK /\ CallsInv
  BY RestoreInit
<1>2. TypeOK /\ CallsInv /\ [Next]_vars => (TypeOK /\ CallsInv)'
  BY TypeStep, CallsStep
<1> QED
  BY <1>1, <1>2, PTL DEF Spec

-----------------------------------------------------------------------------
(* A restore that returned                                                 *)

\* An attempt that returned has stored all rows of each of its calls.
LEMMA ReturnedIsStored ==
  ASSUME TypeOK, CallsInv, AttemptsInv, NEW a \in Attempts, stage[a] = "returned",
         NEW p \in 1..LastPhase, NEW o \in Phases(a)[p]
  PROVE  LET S == RowsFor(<<a, p, o>>)
         IN  <<a, p, o>> \in Calls /\ \A i \in 1..Len(S) : S[i] \in store
<1> DEFINE c == <<a, p, o>>
<1>1. c \in Calls /\ c[1] = a
  BY IsCall
<1> HIDE DEF c
<1>2. status[c] = "returned" /\ pos[c] > Len(RowsFor(c)) /\ pos[c] \in Nat
  BY <1>1 DEF AttemptsInv, CallsInv, TypeOK, Pluto!TypeOK
<1>3. Len(RowsFor(c)) \in Nat
  BY <1>1, RowsDiffer
<1>4. \A i \in 1..Len(RowsFor(c)) : RowsFor(c)[i] \in store
  BY <1>1, <1>2, <1>3 DEF CallsInv
<1> QED
  BY <1>1, <1>4 DEF c

\* And so all that the backup has.
LEMMA ReturnedIsComplete == TypeOK /\ CallsInv /\ AttemptsInv => RestoredIsComplete
<1> SUFFICES ASSUME TypeOK, CallsInv, AttemptsInv, NEW a \in Attempts, stage[a] = "returned"
             PROVE  RestoredIsComplete!(a)!2
  BY DEF RestoredIsComplete
<1>0. LastPhase \in Nat /\ LastPhase >= 6 /\ DOMAIN Backup.messages = 1..(LastPhase - 6)
  BY LastPhaseIs
<1>1. ASSUME NEW p \in 1..LastPhase, NEW table, NEW x, Object(table, a, x) \in Phases(a)[p]
      PROVE  HasObject(table, a, x)
  <2> DEFINE c == <<a, p, Object(table, a, x)>>
  <2>1. c \in Calls /\ c[1] = a /\ c[3] = Object(table, a, x)
        /\ \A i \in 1..Len(RowsFor(c)) : RowsFor(c)[i] \in store
    BY <1>1, ReturnedIsStored
  <2> HIDE DEF c
  <2>2. RowsFor(c) = <<ObjectRow(table, a, x)>>
    BY <2>1, RowsOfKind
  <2> QED
    BY <2>1, <2>2 DEF HasObject, ObjectRow
<1>2. ASSUME NEW d \in Backup.dids PROVE Pluto!DIDRow(d) \in store
  <2> DEFINE o == [kind |-> "did", did |-> d, keys |-> << >>]
             c == <<a, 2, o>>
  <2>1. o \in Phases(a)[2] /\ 2 \in 1..LastPhase
    BY <1>0, PhasesAre DEF StoredDIDs
  <2>2. c \in Calls /\ c[3] = o /\ \A i \in 1..Len(RowsFor(c)) : RowsFor(c)[i] \in store
    BY <2>1, ReturnedIsStored
  <2> HIDE DEF c
  <2>3. RowsFor(c) = <<Pluto!DIDRow(d)>>
    BY <2>2, RowsOfKind
  <2> QED
    BY <2>2, <2>3
<1>3. ASSUME NEW x \in RecoveredCredentials PROVE HasObject("credentials", a, x)
  BY <1>0, <1>1, PhasesAre DEF Credentials
<1>4. ASSUME NEW x \in MessageIds PROVE HasObject("messages", a, x)
  <2>1. PICK i \in DOMAIN Backup.messages : x = Backup.messages[i]
    BY DEF MessageIds
  <2>2. 6 + i \in 1..LastPhase /\ Object("messages", a, x) \in Phases(a)[6 + i]
    BY <1>0, <2>1, PhasesAre
  <2> QED
    BY <1>1, <2>2
<1>5. Backup.link_secret => HasObject("keys", a, LinkSecret)
  BY <1>0, <1>1, PhasesAre DEF LinkSecrets
<1>6. ASSUME NEW p \in Backup.did_pairs PROVE HasLink("pair", p.holder, p.recipient)
  <2> DEFINE o == [kind |-> "pair", host |-> p.holder, target |-> p.recipient, alias |-> p.alias]
             c == <<a, 3, o>>
             link == Pluto!DIDLink("pair", p.holder, p.recipient, p.alias, c)
  <2>1. o \in Phases(a)[3] /\ 3 \in 1..LastPhase
    BY <1>0, PhasesAre DEF DIDPairs
  <2>2. c \in Calls /\ c[3] = o /\ \A i \in 1..Len(RowsFor(c)) : RowsFor(c)[i] \in store
    BY <2>1, ReturnedIsStored
  <2> HIDE DEF c
  <2>3. RowsFor(c) = <<Pluto!DIDRow(p.holder), Pluto!DIDRow(p.recipient), link>>
    BY <2>2, RowsOfKind
  <2>4. link \in store
    <3> HIDE DEF link
    <3> QED BY <2>2, <2>3
  <2> QED
    BY <2>4 DEF HasLink, Pluto!DIDLink
<1>7. ASSUME NEW m \in Backup.mediators
      PROVE  HasLink("mediator", m.holder, m.mediator) /\ HasLink("routing", m.holder, m.routing)
  <2> DEFINE o == [kind |-> "mediator", host |-> m.holder, mediator |-> m.mediator,
                   routing |-> m.routing]
             c == <<a, 6, o>>
             l1 == Pluto!DIDLink("mediator", m.holder, m.mediator, Pluto!NoAlias, c)
             l2 == Pluto!DIDLink("routing", m.holder, m.routing, Pluto!NoAlias, c)
  <2>1. o \in Phases(a)[6] /\ 6 \in 1..LastPhase
    BY <1>0, PhasesAre DEF Mediators
  <2>2. c \in Calls /\ c[3] = o /\ \A i \in 1..Len(RowsFor(c)) : RowsFor(c)[i] \in store
    BY <2>1, ReturnedIsStored
  <2> HIDE DEF c
  <2>3. RowsFor(c) =
          <<Pluto!DIDRow(m.holder), Pluto!DIDRow(m.mediator), Pluto!DIDRow(m.routing), l1, l2>>
    BY <2>2, RowsOfKind
  <2>4. l1 \in store /\ l2 \in store
    <3> HIDE DEF l1, l2
    <3> QED BY <2>2, <2>3
  <2> QED
    BY <2>4 DEF HasLink, Pluto!DIDLink
<1>8. ASSUME NEW k \in Backup.keys
      PROVE  /\ HasObject("keys", a, k.id)
             /\ k.did # Unlinked =>
                  \E l \in store :
                    l.table = "didkey-link" /\ l.did = k.did /\ l.key = <<a, k.id>>
  <2>1. 4 \in 1..LastPhase /\ Phases(a)[4] = PrivateKeys(a)
    BY <1>0, PhasesAre
  <2>2. CASE k.did = Unlinked
    <3>1. Object("keys", a, k.id) \in Phases(a)[4]
      BY <2>1, <2>2 DEF PrivateKeys
    <3> QED
      BY <1>1, <2>1, <2>2, <3>1
  <2>3. CASE k.did # Unlinked
    <3> DEFINE x == <<a, k.id>>
               o == [kind |-> "did", did |-> k.did, keys |-> <<x>>]
               c == <<a, 4, o>>
               link == Pluto!KeyLink(k.did, x, c)
    <3>1. o \in Phases(a)[4]
      BY <2>1, <2>3 DEF PrivateKeys
    <3>2. c \in Calls /\ c[3] = o /\ \A i \in 1..Len(RowsFor(c)) : RowsFor(c)[i] \in store
      BY <2>1, <3>1, ReturnedIsStored
    <3> HIDE DEF c
    <3>3. RowsFor(c) = <<Pluto!DIDRow(k.did), Pluto!KeyRow(x), link>>
      BY <3>2, RowsOfKind
    <3>4. Pluto!KeyRow(x) \in store /\ link \in store
      <4> HIDE DEF link
      <4> QED BY <3>2, <3>3
    <3> QED
      BY <2>3, <3>4 DEF HasObject, Pluto!KeyRow, Pluto!KeyLink
  <2> QED
    BY <2>2, <2>3
<1> QED
  BY <1>2, <1>3, <1>4, <1>5, <1>6, <1>7, <1>8

\* A restore that returned, whatever overlapped it, has stored all of its backup.
THEOREM RestoredCorrect == Spec => []RestoredIsComplete
<1>1. Init => TypeOK /\ CallsInv /\ AttemptsInv
  BY RestoreInit
<1>2. TypeOK /\ CallsInv /\ AttemptsInv /\ [Next]_vars => (TypeOK /\ CallsInv /\ AttemptsInv)'
  BY TypeStep, CallsStep, AttemptsStep
<1> QED
  BY <1>1, <1>2, ReturnedIsComplete, PTL DEF Spec

-----------------------------------------------------------------------------
(* Restores that are awaited                                               *)

\* A row that is not of a DID is inserted by the call it belongs to, and once.
InsertedInv ==
  \A c \in Calls : \A i \in 1..Len(RowsFor(c)) :
    RowsFor(c)[i] \in store /\ RowsFor(c)[i].table # "dids" => i < pos[c]

\* One restore at a time; and what one has stored, the next cannot overlook: the
\* collection it is in has been found not to be empty, or is still to be looked at.
OnceInv ==
  /\ \A a, b \in Attempts : Pending(a) /\ Pending(b) => a = b
  /\ RestoredOnce
  /\ \A a, b \in Attempts :
       CallsOf(a) # {} /\ stage[a] = "returned" /\ stage[b] = "checking" =>
         \E j \in 1..5 : Models(Collections[j]) # {} /\ (j < at[b] => occupied[b])

\* Nothing throws: the calls under way are of the phase that one attempt has come
\* to, and only those of the second can find a DID not to be stored, each its own.
NoThrowInv ==
  /\ \A a \in Attempts :
       stage[a] \notin {"threw", "lost"} /\ (stage[a] \in {"idle", "refused"} => at[a] = 0)
  /\ \A c \in Calls :
       /\ status[c] \notin {"threw", "lost"}
       /\ status[c] = "running" => stage[c[1]] = "restoring" /\ c[2] = at[c[1]]
       /\ absent[c] =>
            /\ status[c] = "running" /\ c[2] = 2
            /\ pos[c] \in 1..Len(RowsFor(c)) /\ RowAt(c) \notin store

\* The first row of a call is in one of the collections that are looked at.
LEMMA FirstRow ==
  ASSUME NEW c \in Calls
  PROVE  RowsFor(c)[1].table \in {"dids", "keys", "credentials", "messages"}
<1> USE DEF ObjectRow, Pluto!DIDRow
<1>1. CASE StoresCredential(c) \/ StoresKey(c) \/ StoresLinkSecret(c) \/ StoresMessage(c)
  <2>1. PICK table \in {"keys", "credentials", "messages"}, x \in Objects : c[3] = Object(table, c[1], x)
    BY <1>1 DEF StoresCredential, StoresKey, StoresLinkSecret, StoresMessage, Objects, MessageIds
  <2>2. RowsFor(c) = <<ObjectRow(table, c[1], x)>>
    BY <2>1, RowsOfKind
  <2> QED
    BY <2>2
<1>2. CASE StoresDID(c)
  BY <1>2, RowsOfKind DEF StoresDID
<1>3. CASE StoresPair(c)
  BY <1>3, RowsOfKind DEF StoresPair
<1>4. CASE StoresKeyOfDID(c)
  BY <1>4, RowsOfKind DEF StoresKeyOfDID
<1>5. CASE StoresMediator(c)
  BY <1>5, RowsOfKind DEF StoresMediator
<1> QED
  BY <1>1, <1>2, <1>3, <1>4, <1>5, CallKinds

\* assertStoreIsEmpty: what an attempt has stored shows in a collection.
LEMMA ReturnedIsNoticed ==
  ASSUME TypeOK, CallsInv, AttemptsInv, NEW a \in Attempts, stage[a] = "returned", CallsOf(a) # {}
  PROVE  \E j \in 1..5 : Models(Collections[j]) # {}
<1>1. PICK p \in 1..LastPhase : Phases(a)[p] # {}
  BY DEF CallsOf
<1> PICK o \in Phases(a)[p] : TRUE
  BY <1>1
<1> DEFINE c == <<a, p, o>>
           row == RowsFor(c)[1]
<1>2. c \in Calls /\ \A i \in 1..Len(RowsFor(c)) : RowsFor(c)[i] \in store
  BY ReturnedIsStored
<1> HIDE DEF c
<1>3. 1 \in 1..Len(RowsFor(c))
  BY <1>2, RowsDiffer
<1>4. row \in store /\ row.table \in {"dids", "keys", "credentials", "messages"}
  BY <1>2, <1>3, FirstRow
<1> HIDE DEF row
<1>5. \/ row \in Models("Credentials") \/ row \in Models("DIDs") \/ row \in Models("Keys")
      \/ row \in Models("LinkSecrets") \/ row \in Models("Messages")
  BY <1>4 DEF Models
<1> QED
  BY <1>5 DEF Collections

\* A step of a call keeps every row, and so every model of a collection.
LEMMA StoreGrows ==
  ASSUME TypeOK, CallsInv, [Next]_vars
  PROVE  store \subseteq store' /\ \A r : Models(r) # {} => Models(r)' # {}
<1>1. store \subseteq store'
  <2>1. ASSUME NEW a \in Attempts, Begin(a) \/ AttemptStep(a) PROVE store' = store
    BY <2>1, AttemptStepIs DEF storeVars
  <2>2. ASSUME NEW c \in Calls, Launch(c) \/ StoreStep(c) PROVE store \subseteq store'
    BY <2>2, StoreStepIs DEF Launch
  <2>3. Crash \/ UNCHANGED vars => store' = store
    BY DEF Crash, Pluto!Crash, vars
  <2> QED
    BY <2>1, <2>2, <2>3 DEF Next, Step
<1> QED
  BY <1>1 DEF Models

\* PlutoStore: every step keeps InsertedInv.
LEMMA InsertedStep == TypeOK /\ CallsInv /\ InsertedInv /\ [Next]_vars => InsertedInv'
<1> SUFFICES ASSUME TypeOK, CallsInv, InsertedInv, [Next]_vars PROVE InsertedInv'
  OBVIOUS
<1>0. pos \in [Calls -> Nat \ {0}]
  BY DEF TypeOK, Pluto!TypeOK
<1>1. ASSUME UNCHANGED <<store, pos>> PROVE InsertedInv'
  BY <1>1 DEF InsertedInv
<1>2. ASSUME NEW a \in Attempts, Begin(a) \/ AttemptStep(a) PROVE InsertedInv'
  BY <1>1, <1>2, AttemptStepIs DEF storeVars
<1>3. ASSUME NEW c \in Calls, Launch(c) PROVE InsertedInv'
  BY <1>1, <1>3 DEF Launch
<1>4. ASSUME NEW b \in Calls, StoreStep(b) PROVE InsertedInv'
  <2>1. /\ \A c \in Calls : pos'[c] >= pos[c]
        /\ \/ store' = store
           \/ /\ store' = store \cup {RowAt(b)} /\ pos[b] \in 1..Len(RowsFor(b))
              /\ pos'[b] = pos[b] + 1
    BY <1>0, <1>4, StoreStepIs
  <2>2. ASSUME NEW c \in Calls, NEW i \in 1..Len(RowsFor(c)),
               RowsFor(c)[i] \in store', RowsFor(c)[i].table # "dids"
        PROVE  i < pos'[c]
    <3>1. i \in Nat /\ pos[c] \in Nat /\ pos'[c] >= pos[c]
      BY <1>0, <2>1
    <3>2. CASE RowsFor(c)[i] \in store
      <4>1. i < pos[c]
        BY <2>2, <3>2 DEF InsertedInv
      <4>2. pos'[c] = pos[c] \/ pos'[c] = pos[c] + 1
        BY <1>0, <1>4, StoreStepIs
      <4> QED
        BY <3>1, <4>1, <4>2
    <3>3. CASE RowsFor(c)[i] = RowsFor(b)[pos[b]] /\ RowsFor(c)[i] \notin store
      <4>1. pos[b] \in 1..Len(RowsFor(b)) /\ pos'[b] = pos[b] + 1
        BY <2>1, <2>2, <3>3
      <4>2. <<c, i>> = <<b, pos[b]>>
        BY <2>2, <3>3, <4>1, RowsDiffer
      <4> QED
        BY <3>1, <4>1, <4>2
    <3> QED
      BY <2>1, <2>2, <3>2, <3>3 DEF RowAt
  <2> QED
    BY <2>2 DEF InsertedInv
<1>5. CASE Crash \/ UNCHANGED vars
  BY <1>1, <1>5 DEF Crash, Pluto!Crash, vars
<1> QED
  BY <1>2, <1>3, <1>4, <1>5 DEF Next, Step

\* BackupManager.restore, awaited: every step keeps OnceInv.
LEMMA OnceStep ==
  serial /\ TypeOK /\ CallsInv /\ AttemptsInv /\ OnceInv /\ [Next]_vars => OnceInv'
<1> SUFFICES ASSUME serial, TypeOK, CallsInv, AttemptsInv, OnceInv, [Next]_vars PROVE OnceInv'
  OBVIOUS
<1> USE DEF OnceInv, RestoredOnce, Pending
<1>0. /\ stage \in [Attempts -> Stages] /\ at \in [Attempts -> 0..LastPhase]
      /\ occupied \in [Attempts -> BOOLEAN] /\ LastPhase \in Nat /\ Len(Collections) = 5
      /\ \A r : Models(r) # {} => Models(r)' # {}
  BY LastPhaseIs, StoreGrows DEF TypeOK, Collections
<1>1. ASSUME NEW a \in Attempts, Begin(a) PROVE OnceInv'
  <2>1. /\ \A b \in Attempts : ~Pending(b)
        /\ stage' = [stage EXCEPT ![a] = "checking"] /\ at' = [at EXCEPT ![a] = 1]
        /\ stage[a] = "idle" /\ occupied' = occupied
    BY <1>1 DEF Begin
  <2>2. ASSUME NEW b \in Attempts, CallsOf(b) # {}, stage[b] = "returned"
        PROVE  \E j \in 1..5 : Models(Collections[j]) # {} /\ ~(j < 1)
    BY <2>2, ReturnedIsNoticed
  <2> QED
    BY <1>0, <2>1, <2>2
<1>2. ASSUME NEW a \in Attempts, LookIn(a) PROVE OnceInv'
  <2>1. /\ stage' = stage /\ stage[a] = "checking" /\ at' = [at EXCEPT ![a] = @ + 1]
        /\ occupied' = [occupied EXCEPT ![a] = @ \/ Models(Collections[at[a]]) # {}]
    BY <1>2 DEF LookIn
  <2>2. ASSUME NEW j \in 1..5, Models(Collections[j]) # {}, j < at[a] => occupied[a]
        PROVE  j < at'[a] => occupied'[a]
    <3>1. j < at'[a] => j < at[a] \/ j = at[a]
      BY <1>0, <2>1
    <3> QED
      BY <1>0, <2>1, <2>2, <3>1
  <2> QED
    BY <1>0, <2>1, <2>2
<1>3. ASSUME NEW a \in Attempts, LookInLast(a) PROVE OnceInv'
  <2>1. /\ stage[a] = "checking" /\ at[a] = 5
        /\ stage' = [stage EXCEPT ![a] =
             IF occupied[a] \/ Models(Collections[5]) # {} THEN "refused" ELSE "restoring"]
    BY <1>0, <1>3 DEF LookInLast
  <2>2. ASSUME NEW b \in Attempts, CallsOf(b) # {}, stage[b] = "returned"
        PROVE  stage'[a] = "refused"
    <3>1. PICK j \in 1..5 : Models(Collections[j]) # {} /\ (j < at[a] => occupied[a])
      BY <2>1, <2>2
    <3>2. j < 5 \/ j = 5
      OBVIOUS
    <3> QED
      BY <1>0, <2>1, <3>1, <3>2
  <2>3. /\ \A b \in Attempts \ {a} : stage'[b] = stage[b] /\ at'[b] = at[b] /\ occupied'[b] = occupied[b]
        /\ stage'[a] \in {"refused", "restoring"}
    BY <1>0, <1>3, <2>1 DEF LookInLast
  <2> QED
    BY <1>0, <2>1, <2>2, <2>3
<1>4. ASSUME NEW a \in Attempts, QueryFails(a) \/ PhaseThrows(a) PROVE OnceInv'
  <2>1. /\ \A b \in Attempts \ {a} : stage'[b] = stage[b] /\ at'[b] = at[b] /\ occupied'[b] = occupied[b]
        /\ stage'[a] \in {"refused", "threw"}
    BY <1>0, <1>4 DEF QueryFails, PhaseThrows
  <2> QED
    BY <1>0, <2>1
<1>5. ASSUME NEW a \in Attempts, PhaseReturns(a) PROVE OnceInv'
  <2>1. /\ \A b \in Attempts \ {a} : stage'[b] = stage[b] /\ at'[b] = at[b] /\ occupied'[b] = occupied[b]
        /\ stage[a] = "restoring" /\ stage'[a] \in {"restoring", "returned"}
    BY <1>0, <1>5 DEF PhaseReturns
  <2>2. \A b \in Attempts \ {a} : stage[b] \notin {"checking", "restoring"}
    BY <2>1
  <2>3. \A b \in Attempts \ {a} : CallsOf(b) # {} => stage[b] # "returned"
    BY <2>1
  <2>4. \A b \in Attempts : CallsOf(b) = {} <=> CallsOf(a) = {}
    BY SamePhases
  <2> QED
    BY <1>0, <2>1, <2>2, <2>3, <2>4
<1>6. ASSUME UNCHANGED <<stage, at, occupied>> PROVE OnceInv'
  BY <1>0, <1>6
<1>7. ASSUME NEW c \in Calls, Launch(c) \/ StoreStep(c) PROVE OnceInv'
  BY <1>6, <1>7, StoreStepIs DEF Launch
<1>8. CASE Crash
  BY <1>0, <1>8 DEF Crash
<1>9. CASE UNCHANGED vars
  BY <1>6, <1>9 DEF vars
<1> QED
  BY <1>1, <1>2, <1>3, <1>4, <1>5, <1>7, <1>8, <1>9 DEF Next, Step, AttemptStep
\* The calls of the second phase save a DID each, and each another.
LEMMA SecondPhase ==
  ASSUME NEW c \in Calls, c[2] = 2
  PROVE  StoresDID(c) /\ Len(RowsFor(c)) = 1 /\ RowsFor(c)[1].table = "dids"
         /\ \A b \in Calls : b[1] = c[1] /\ b[2] = 2 /\ RowsFor(b)[1] = RowsFor(c)[1] => b = c
<1>1. ASSUME NEW b \in Calls, b[2] = 2
      PROVE  \E d \in Backup.dids :
               b[3] = [kind |-> "did", did |-> d, keys |-> << >>] /\ RowsFor(b) = <<Pluto!DIDRow(d)>>
  <2>1. DOMAIN Backup.messages \subseteq Nat \ {0}
    BY BackupAssumption
  <2>2. StoresDID(b)
    BY <1>1, <2>1, CallKinds DEF StoresCredential, StoresPair, StoresKey, StoresKeyOfDID,
         StoresLinkSecret, StoresMediator, StoresMessage
  <2> QED
    BY <2>2, RowsOfKind DEF StoresDID
<1>2. PICK d \in Backup.dids :
        c[3] = [kind |-> "did", did |-> d, keys |-> << >>] /\ RowsFor(c) = <<Pluto!DIDRow(d)>>
  BY <1>1
<1>3. ASSUME NEW b \in Calls, b[1] = c[1], b[2] = 2, RowsFor(b)[1] = RowsFor(c)[1]
      PROVE  b = c
  <2>1. PICK e \in Backup.dids :
          b[3] = [kind |-> "did", did |-> e, keys |-> << >>] /\ RowsFor(b) = <<Pluto!DIDRow(e)>>
    BY <1>1, <1>3
  <2>2. Pluto!DIDRow(e) = Pluto!DIDRow(d)
    BY <1>2, <1>3, <2>1
  <2>3. e = d
    BY <2>2 DEF Pluto!DIDRow
  <2> QED
    BY <1>2, <1>3, <2>1, <2>3, CallIs
<1> QED
  BY <1>2, <1>3 DEF StoresDID, Pluto!DIDRow

\* The DIDs of a coherent backup's pairs, keys and mediators are listed in it,
\* so that the second phase saves them.
LEMMA DIDsAreListed ==
  ASSUME Coherent, NEW c \in Calls, NEW i \in 1..Len(RowsFor(c)), RowsFor(c)[i].table = "dids"
  PROVE  c[2] >= 2 /\ \E d \in Backup.dids : RowsFor(c)[i] = Pluto!DIDRow(d)
<1> DEFINE S == RowsFor(c)
           Good == c[2] >= 2 /\ \E d \in Backup.dids : S[i] = Pluto!DIDRow(d)
<1>1. ASSUME NEW table \in {"keys", "credentials", "messages"}, NEW x,
             c[3] = Object(table, c[1], x)
      PROVE  FALSE
  <2>1. S = <<ObjectRow(table, c[1], x)>>
    BY <1>1, RowsOfKind
  <2> QED
    BY <2>1 DEF ObjectRow
<1>2. CASE StoresCredential(c) \/ StoresKey(c) \/ StoresLinkSecret(c) \/ StoresMessage(c)
  BY <1>1, <1>2 DEF StoresCredential, StoresKey, StoresLinkSecret, StoresMessage
<1>3. CASE StoresDID(c)
  BY <1>3, RowsOfKind DEF StoresDID
<1>4. CASE StoresPair(c)
  <2>1. PICK p \in Backup.did_pairs : c[3] =
          [kind |-> "pair", host |-> p.holder, target |-> p.recipient, alias |-> p.alias]
    BY <1>4 DEF StoresPair
  <2> DEFINE link == Pluto!DIDLink("pair", p.holder, p.recipient, p.alias, c)
  <2>2. S = <<Pluto!DIDRow(p.holder), Pluto!DIDRow(p.recipient), link>>
    BY <2>1, RowsOfKind
  <2>3. p.holder \in Backup.dids /\ p.recipient \in Backup.dids /\ c[2] = 3
    BY <1>4 DEF Coherent, StoresPair
  <2>4. link.table # "dids"
    BY DEF Pluto!DIDLink
  <2> HIDE DEF link
  <2>5. i = 1 \/ i = 2 \/ i = 3
    BY <2>2
  <2> QED
    BY <2>2, <2>3, <2>4, <2>5
<1>5. CASE StoresKeyOfDID(c)
  <2>1. PICK k \in Backup.keys :
          k.did # Unlinked /\ c[3] = [kind |-> "did", did |-> k.did, keys |-> <<(<<c[1], k.id>>)>>]
    BY <1>5 DEF StoresKeyOfDID
  <2> DEFINE row == Pluto!KeyRow(<<c[1], k.id>>)
             link == Pluto!KeyLink(k.did, <<c[1], k.id>>, c)
  <2>2. S = <<Pluto!DIDRow(k.did), row, link>>
    BY <2>1, RowsOfKind
  <2>3. k.did \in Backup.dids /\ c[2] = 4
    BY <1>5, <2>1 DEF Coherent, StoresKeyOfDID
  <2>4. row.table # "dids" /\ link.table # "dids"
    BY DEF Pluto!KeyRow, Pluto!KeyLink
  <2> HIDE DEF row, link
  <2>5. i = 1 \/ i = 2 \/ i = 3
    BY <2>2
  <2> QED
    BY <2>2, <2>3, <2>4, <2>5
<1>6. CASE StoresMediator(c)
  <2>1. PICK m \in Backup.mediators : c[3] =
          [kind |-> "mediator", host |-> m.holder, mediator |-> m.mediator, routing |-> m.routing]
    BY <1>6 DEF StoresMediator
  <2> DEFINE l1 == Pluto!DIDLink("mediator", m.holder, m.mediator, Pluto!NoAlias, c)
             l2 == Pluto!DIDLink("routing", m.holder, m.routing, Pluto!NoAlias, c)
  <2>2. S = <<Pluto!DIDRow(m.holder), Pluto!DIDRow(m.mediator), Pluto!DIDRow(m.routing), l1, l2>>
    BY <2>1, RowsOfKind
  <2>3. m.holder \in Backup.dids /\ m.mediator \in Backup.dids /\ m.routing \in Backup.dids
        /\ c[2] = 6
    BY <1>6 DEF Coherent, StoresMediator
  <2>4. l1.table # "dids" /\ l2.table # "dids"
    BY DEF Pluto!DIDLink
  <2> HIDE DEF l1, l2
  <2>5. i = 1 \/ i = 2 \/ i = 3 \/ i = 4 \/ i = 5
    BY <2>2
  <2> QED
    BY <2>2, <2>3, <2>4, <2>5
<1> QED
  BY <1>2, <1>3, <1>4, <1>5, <1>6, CallKinds

\* So a phase after the second finds its DIDs stored.
LEMMA DIDsAreStored ==
  ASSUME TypeOK, CallsInv, AttemptsInv, Coherent, NEW c \in Calls, stage[c[1]] = "restoring",
         c[2] = at[c[1]], c[2] # 2, NEW i \in 1..Len(RowsFor(c)), RowsFor(c)[i].table = "dids"
  PROVE  RowsFor(c)[i] \in store
<1>1. PICK d \in Backup.dids : RowsFor(c)[i] = Pluto!DIDRow(d) /\ c[2] >= 2
  BY DIDsAreListed
<1> DEFINE o == [kind |-> "did", did |-> d, keys |-> << >>]
           b == <<c[1], 2, o>>
<1>2. o \in Phases(c[1])[2] /\ 2 \in 1..LastPhase /\ c[1] \in Attempts /\ c[2] \in Nat
  BY LastPhaseIs, PhasesAre, CallIs DEF StoredDIDs
<1>3. b \in Calls /\ b[1] = c[1] /\ b[2] = 2 /\ b[3] = o
  BY <1>2, IsCall
<1> HIDE DEF b
<1>4. status[b] = "returned"
  BY <1>1, <1>2, <1>3 DEF AttemptsInv
<1>5. RowsFor(b) = <<Pluto!DIDRow(d)>> /\ pos[b] \in Nat /\ pos[b] > Len(RowsFor(b))
  BY <1>3, <1>4, RowsOfKind DEF CallsInv, TypeOK, Pluto!TypeOK
<1>6. 1 \in 1..Len(RowsFor(b)) /\ 1 < pos[b]
  BY <1>5
<1>7. RowsFor(b)[1] \in store
  BY <1>3, <1>6 DEF CallsInv
<1> QED
  BY <1>1, <1>5, <1>7

\* RestoreTask.run, awaited and without a failure: every step keeps NoThrowInv.
LEMMA NoThrowStep ==
  ASSUME TypeOK, CallsInv, AttemptsInv, InsertedInv, OnceInv, NoThrowInv, Coherent,
         faults = 0, faults' = 0, [Next]_vars
  PROVE  NoThrowInv'
<1>0. /\ stage \in [Attempts -> Stages] /\ at \in [Attempts -> 0..LastPhase]
      /\ status \in [Calls -> Pluto!Statuses] /\ LastPhase \in Nat
      /\ pos \in [Calls -> Nat \ {0}] /\ absent \in [Calls -> BOOLEAN]
      /\ \A c \in Calls : c[1] \in Attempts /\ c[2] \in 1..LastPhase /\ Len(RowsFor(c)) \in Nat
  BY LastPhaseIs, CallIs, RowsDiffer DEF TypeOK, Pluto!TypeOK
<1>1. ASSUME NEW a \in Attempts, Begin(a) \/ LookIn(a) \/ LookInLast(a) \/ QueryFails(a)
      PROVE  NoThrowInv'
  <2>1. /\ stage[a] \in {"idle", "checking"}
        /\ \A b \in Attempts \ {a} : stage'[b] = stage[b] /\ at'[b] = at[b]
        /\ stage'[a] \in {"checking", "restoring", "refused"} /\ (stage'[a] = "refused" => at'[a] = 0)
        /\ UNCHANGED storeVars
    BY <1>0, <1>1 DEF Begin, LookIn, LookInLast, QueryFails
  <2> QED
    BY <1>0, <2>1 DEF NoThrowInv, storeVars, RowAt
<1>2. ASSUME NEW a \in Attempts, PhaseReturns(a) PROVE NoThrowInv'
  <2>1. /\ stage[a] = "restoring"
        /\ \A b \in Attempts \ {a} : stage'[b] = stage[b] /\ at'[b] = at[b]
        /\ stage'[a] \in {"restoring", "returned"} /\ UNCHANGED storeVars
    BY <1>0, <1>2 DEF PhaseReturns
  <2>2. \A c \in Calls : c[1] = a => status[c] # "running"
    BY <1>0, <1>2 DEF NoThrowInv, PhaseReturns, PhaseCalls
  <2>3. NoThrowInv!1'
    BY <2>1 DEF NoThrowInv
  <2>4. ASSUME NEW c \in Calls PROVE NoThrowInv!2!(c)'
    <3>1. status'[c] = status[c] /\ absent'[c] = absent[c] /\ pos' = pos /\ store' = store
      BY <2>1 DEF storeVars
    <3>2. status[c] = "running" => stage'[c[1]] = stage[c[1]] /\ at'[c[1]] = at[c[1]]
      BY <1>0, <2>1, <2>2
    <3> QED
      BY <3>1, <3>2 DEF NoThrowInv, RowAt
  <2> QED
    BY <2>3, <2>4 DEF NoThrowInv
<1>3. ASSUME NEW a \in Attempts, PhaseThrows(a) PROVE FALSE
  BY <1>3 DEF PhaseThrows, PhaseCalls, NoThrowInv
<1>4. ASSUME NEW c \in Calls, Launch(c) PROVE NoThrowInv'
  <2>1. status[c] = "idle" /\ at[c[1]] >= c[2] /\ stage[c[1]] # "checking"
        /\ status' = [status EXCEPT ![c] = "running"]
        /\ UNCHANGED <<store, pos, absent, faults, stage, at>>
    BY <1>4 DEF Launch
  <2>2. c[1] \in Attempts /\ c[2] \in Nat /\ c[2] >= 1 /\ at[c[1]] \in Nat
    BY <1>0
  <2>3. stage[c[1]] \in {"restoring", "returned"}
    <3>1. stage[c[1]] \in Stages /\ stage[c[1]] \notin {"idle", "refused", "threw", "lost"}
      BY <1>0, <2>1, <2>2 DEF NoThrowInv
    <3> QED
      BY <2>1, <3>1 DEF Stages
  <2>4. ~(c[2] < at[c[1]] /\ stage[c[1]] = "restoring") /\ stage[c[1]] # "returned"
    BY <2>1, <2>2 DEF AttemptsInv
  <2>5. stage[c[1]] = "restoring" /\ c[2] = at[c[1]]
    BY <2>1, <2>2, <2>3, <2>4
  <2> QED
    BY <1>0, <2>1, <2>5 DEF NoThrowInv, RowAt
<1>5. ASSUME NEW c \in Calls, StoreStep(c) PROVE NoThrowInv'
  <2>1. status[c] = "running" /\ stage[c[1]] = "restoring" /\ c[2] = at[c[1]]
        /\ UNCHANGED <<stage, at>>
        /\ \A b \in Calls \ {c} :
             pos'[b] = pos[b] /\ status'[b] = status[b] /\ absent'[b] = absent[b]
    BY <1>5, StoreStepIs DEF NoThrowInv
  <2>2. absent[c] => c[2] = 2 /\ pos[c] \in 1..Len(RowsFor(c)) /\ RowAt(c) \notin store
    BY DEF NoThrowInv
  <2>3. ~(RowAt(c) \in store /\ pos[c] \in 1..Len(RowsFor(c)) /\ (RowAt(c).table = "dids" => absent[c]))
    <3>1. ASSUME RowAt(c) \in store, pos[c] \in 1..Len(RowsFor(c)), RowAt(c).table # "dids"
          PROVE  FALSE
      <4>1. pos[c] < pos[c]
        BY <3>1 DEF InsertedInv, RowAt
      <4> QED
        BY <1>0, <4>1
    <3> QED
      BY <2>2, <3>1
  <2>4. status'[c] \in {"running", "returned"} /\ (absent'[c] => status'[c] = "running")
    BY <1>0, <1>5, <2>1, <2>2, <2>3, StoreStepIs
  <2>5. absent'[c] => c[2] = 2 /\ pos'[c] = pos[c] /\ pos[c] \in 1..Len(RowsFor(c))
                      /\ RowAt(c) \notin store'
    <3>1. ASSUME pos[c] \in 1..Len(RowsFor(c)), RowAt(c) \notin store, RowAt(c).table = "dids"
          PROVE  c[2] = 2
      BY <2>1, <3>1, DIDsAreStored DEF RowAt
    <3> QED
      BY <1>0, <1>5, <2>2, <2>4, <3>1, StoreStepIs
  <2>6. ASSUME NEW b \in Calls \ {c}, absent[b]
        PROVE  RowAt(b) \notin store'
    <3>1. /\ status[b] = "running" /\ b[2] = 2 /\ stage[b[1]] = "restoring"
          /\ pos[b] \in 1..Len(RowsFor(b)) /\ RowAt(b) \notin store
      BY <2>6 DEF NoThrowInv
    <3>2. RowAt(b) = RowsFor(b)[1] /\ RowAt(b).table = "dids"
      BY <3>1, SecondPhase DEF RowAt
    <3>3. ASSUME RowAt(c) = RowAt(b), absent[c]
          PROVE  FALSE
      <4>1. b[1] = c[1]
        BY <1>0, <2>1, <3>1 DEF OnceInv, Pending
      <4>2. RowAt(c) = RowsFor(c)[1]
        BY <2>2, <3>3, SecondPhase DEF RowAt
      <4> QED
        BY <2>2, <2>6, <3>1, <3>2, <3>3, <4>1, <4>2, SecondPhase
    <3>4. store' = store \/ (store' = store \cup {RowAt(c)} /\ (RowAt(c).table = "dids" => absent[c]))
      BY <1>5, StoreStepIs
    <3> QED
      BY <3>1, <3>2, <3>3, <3>4
  <2>7. \A b \in Calls \ {c} : RowAt(b)' = RowAt(b)
    BY <2>1 DEF RowAt
  <2>8. absent'[c] => RowAt(c)' = RowAt(c)
    BY <2>5 DEF RowAt
  <2>9. NoThrowInv!2!(c)'
    BY <2>1, <2>4, <2>5, <2>8
  <2>10. ASSUME NEW b \in Calls \ {c} PROVE NoThrowInv!2!(b)'
    BY <2>1, <2>6, <2>7 DEF NoThrowInv
  <2>11. NoThrowInv!1'
    BY <2>1 DEF NoThrowInv
  <2> QED
    BY <2>9, <2>10, <2>11 DEF NoThrowInv
<1>6. CASE Crash
  BY <1>6 DEF Crash, Pluto!Crash, Pluto!Fault
<1>7. CASE UNCHANGED vars
  BY <1>7 DEF vars, NoThrowInv, RowAt
<1> QED
  BY <1>1, <1>2, <1>3, <1>4, <1>5, <1>6, <1>7 DEF Next, Step, AttemptStep

\* The failures only grow in number, and the application does not change its way.
LEMMA FaultsGrow ==
  ASSUME TypeOK, CallsInv, [Next]_vars
  PROVE  serial' = serial /\ (faults' = 0 => faults = 0)
<1>0. faults \in Nat
  BY BackupAssumption DEF TypeOK, Pluto!TypeOK
<1>1. ASSUME NEW a \in Attempts, Begin(a) \/ AttemptStep(a) PROVE faults' = faults
  BY <1>1, AttemptStepIs
<1>2. ASSUME NEW c \in Calls, Launch(c) PROVE faults' = faults
  BY <1>2 DEF Launch
<1>3. ASSUME NEW c \in Calls, StoreStep(c) PROVE faults' = 0 => faults = 0
  BY <1>0, <1>3, StoreStepIs
<1>4. ASSUME Crash PROVE faults' = 0 => faults = 0
  BY <1>0, <1>4 DEF Crash, Pluto!Crash, Pluto!Fault
<1> QED
  BY <1>1, <1>2, <1>3, <1>4 DEF Next, Step, vars

\* What is kept by an application that awaits each restore.
AwaitedInv == serial => OnceInv /\ (faults = 0 /\ Coherent => NoThrowInv)

\* An application that awaits each restore of a coherent backup, and meets no
\* failure: none throws, and what one has stored is not restored again beside it.
THEOREM AwaitedCorrect == Spec => []AwaitedRestoreSucceedsOnce
<1> DEFINE IInv == TypeOK /\ CallsInv /\ AttemptsInv /\ InsertedInv /\ AwaitedInv
<1>1. Init => IInv
  <2> SUFFICES ASSUME Init PROVE IInv
    OBVIOUS
  <2>1. TypeOK /\ CallsInv /\ AttemptsInv
    BY RestoreInit
  <2>2. store = {} /\ absent = [c \in Calls |-> FALSE] /\ status = [c \in Calls |-> "idle"]
    BY DEF Init, Pluto!Init
  <2>3. stage = [a \in Attempts |-> "idle"] /\ at = [a \in Attempts |-> 0]
    BY DEF Init
  <2> QED
    BY <2>1, <2>2, <2>3 DEF InsertedInv, AwaitedInv, OnceInv, RestoredOnce, NoThrowInv, Pending
<1>2. IInv /\ [Next]_vars => IInv'
  <2> SUFFICES ASSUME IInv, [Next]_vars PROVE IInv'
    OBVIOUS
  <2>1. TypeOK' /\ CallsInv' /\ AttemptsInv' /\ InsertedInv'
    BY TypeStep, CallsStep, AttemptsStep, InsertedStep
  <2>2. serial' = serial /\ (faults' = 0 => faults = 0)
    BY FaultsGrow
  <2>3. serial => OnceInv'
    BY OnceStep DEF AwaitedInv
  <2>4. serial /\ faults' = 0 /\ Coherent => NoThrowInv'
    BY <2>2, NoThrowStep DEF AwaitedInv
  <2>5. Coherent' = Coherent
    BY DEF Coherent
  <2> QED
    BY <2>1, <2>2, <2>3, <2>4, <2>5 DEF AwaitedInv
<1>3. IInv => AwaitedRestoreSucceedsOnce
  BY DEF AwaitedInv, AwaitedRestoreSucceedsOnce, RestoreDoesNotThrow, OnceInv, NoThrowInv
<1> QED
  BY <1>1, <1>2, <1>3, PTL DEF Spec
==============================================================================
