----------------------------- MODULE MCPlutoStore -----------------------------
(* What the calls of PlutoStore store, in TLC's instance.                  *)
EXTENDS Backup

CONSTANTS p1, p2, p3, q1, k1, k2, k3, k4

CreatePeer == [kind |-> "did", did |-> p1, keys |-> <<k1, k2>>]
CreatePrism == [kind |-> "did", did |-> q1, keys |-> <<k3>>]
CreatePrismAgain == [kind |-> "did", did |-> q1, keys |-> <<k4>>]
Connect == [kind |-> "pair", host |-> p1, target |-> p2, alias |-> "OOBConn"]
ConnectAgain == [kind |-> "pair", host |-> p3, target |-> p2, alias |-> "OOBConn"]
StoreKey == [kind |-> "object", table |-> "keys", key |-> k1]
StoreMessage == [kind |-> "object", table |-> "messages", key |-> k1]
Mediate == [kind |-> "mediator", host |-> p1, mediator |-> p2, routing |-> p3]

\* Creations, of two DIDs, that readers can overtake.
ReadOps == {CreatePeer, CreatePrism, CreatePrismAgain}

\* Also pairs and mediators that share their DIDs, and objects whose uuid can be
\* taken.
AllOps == ReadOps \cup {Connect, ConnectAgain, Mediate, StoreKey, StoreMessage}

\* The readers' part of the instance: one that overlaps two calls that create
\* DIDs.  A reader writes nothing, so two tell no more than each of them.
Reading == {r \in Readers : reads[r] # NoRead}
ReadersMeetCreations ==
  Reading # {} =>
    /\ Cardinality(Reading) = 1
    /\ \A c \in Calls : IF c \in Alone THEN op[c] = NoOp ELSE op[c] \in ReadOps \cup {NoOp}
    /\ \A r \in KeyReaders : reads[r].scope \subseteq {p1, q1}

\* The backup's part: it overlaps two calls, and no reader.
BackupOps == {CreatePeer, CreatePrism, Connect, Mediate, StoreMessage}
BackupMeetsCalls ==
  backup.at # "idle" =>
    /\ \A c \in Calls : IF c \in Alone THEN op[c] = NoOp ELSE op[c] \in BackupOps \cup {NoOp}
    /\ \A r \in Readers : reads[r] = NoRead
===============================================================================
