-------------------------------- MODULE Restore --------------------------------
(***************************************************************************)
(* Restoring a backup into Pluto.  BackupManager.restore looks whether the *)
(* store is empty, one collection after the other, and RestoreTask then    *)
(* restores one kind of object after the other; but the objects of a kind  *)
(* are all stored at once (Promise.all), each by a call of PlutoStore.     *)
(* When one of them fails the restore throws, and the others go on.        *)
(*                                                                         *)
(* The backup is one that validates.  An object restored from it has a new *)
(* uuid, so here it belongs to the attempt that restores it.               *)
(***************************************************************************)
EXTENDS Naturals, Sequences, FiniteSets

CONSTANTS
  Attempts,              \* the calls of pluto.restore(Backup)
  Backup,                \* the backup they restore
  PeerDIDs, PrismDIDs,   \* the DIDs it names
  Aliases,
  Unlinked,              \* key.did === undefined
  LinkSecret,            \* the link secret's object
  MaxFaults              \* bound: failed inserts and crashes

DIDs == PeerDIDs \cup PrismDIDs
MessageIds == {Backup.messages[i] : i \in DOMAIN Backup.messages}

\* restoreCredentials makes a JWTCredential of an SD-JWT as well.
Recovered(x) == [x EXCEPT !.recovery_id = IF @ = "sdjwt" THEN "jwt" ELSE @]
RecoveredCredentials == {Recovered(x) : x \in Backup.credentials}

Objects == RecoveredCredentials \cup {k.id : k \in Backup.keys} \cup MessageIds \cup {LinkSecret}

ASSUME BackupAssumption ==
  /\ \A x \in Backup.credentials : x.recovery_id \in {"jwt", "sdjwt", "anoncred"}
  /\ Backup.dids \subseteq DIDs
  /\ Backup.did_pairs \subseteq [holder : DIDs, recipient : DIDs, alias : Aliases]
  /\ \A k \in Backup.keys : k.did \in DIDs \cup {Unlinked}
  /\ Backup.mediators \subseteq [holder : DIDs, mediator : DIDs, routing : DIDs]
  /\ Backup.messages \in Seq(MessageIds)
  /\ Backup.link_secret \in BOOLEAN
  /\ Unlinked \notin DIDs
  /\ MaxFaults \in Nat

\* An entry of the backup is an object of its own, and has a name of its own here.
ASSUME NamesAssumption ==
  /\ \A j, k \in Backup.keys : j.id = k.id => j = k
  /\ \A k \in Backup.keys : k.id # LinkSecret
  /\ \A i, j \in DOMAIN Backup.messages : Backup.messages[i] = Backup.messages[j] => i = j

-----------------------------------------------------------------------------
(* What each phase of RestoreTask stores                                   *)

Object(table, a, x) == [kind |-> "object", table |-> table, key |-> <<a, x>>]

Credentials(a) == {Object("credentials", a, x) : x \in RecoveredCredentials}

StoredDIDs(a) == {[kind |-> "did", did |-> d, keys |-> << >>] : d \in Backup.dids}

DIDPairs(a) ==
  {[kind |-> "pair", host |-> p.holder, target |-> p.recipient, alias |-> p.alias]
     : p \in Backup.did_pairs}

\* A key that has a DID is stored with it, any other on its own.
PrivateKeys(a) ==
  {IF k.did = Unlinked THEN Object("keys", a, k.id)
   ELSE [kind |-> "did", did |-> k.did, keys |-> <<(<<a, k.id>>)>>] : k \in Backup.keys}

LinkSecrets(a) == IF Backup.link_secret THEN {Object("keys", a, LinkSecret)} ELSE {}

Mediators(a) ==
  {[kind |-> "mediator", host |-> m.holder, mediator |-> m.mediator, routing |-> m.routing]
     : m \in Backup.mediators}

\* storeMessages awaits each message.
Messages(a) == [i \in DOMAIN Backup.messages |-> {Object("messages", a, Backup.messages[i])}]

\* Mutant of Phases: the pairs are restored before the DIDs.
PhasesPairsFirst(a) ==
  <<Credentials(a), DIDPairs(a), StoredDIDs(a), PrivateKeys(a), LinkSecrets(a), Mediators(a)>>
    \o Messages(a)

Phases(a) ==
  <<Credentials(a), StoredDIDs(a), DIDPairs(a), PrivateKeys(a), LinkSecrets(a), Mediators(a)>>
    \o Messages(a)

LastPhase == 6 + Len(Backup.messages)

\* The calls of PlutoStore.
CallsOf(a) == UNION {{<<a, p, o>> : o \in Phases(a)[p]} : p \in 1..LastPhase}
Calls == UNION {CallsOf(a) : a \in Attempts}
Ops == {c[3] : c \in Calls}

VARIABLES
  serial,     \* whether the application awaits each restore before the next: never changes
  store, op, pos, absent, status, faults,   \* of PlutoStore
  stage,      \* what each attempt is at
  at,         \* the collection it looks at, then the phase it has come to
  occupied    \* whether a collection has been found not to be empty

storeVars == <<store, op, pos, absent, status>>
vars == <<serial, store, op, pos, absent, status, faults, stage, at, occupied>>

Pluto == INSTANCE PlutoStore WITH
  Keys <- Attempts \X Objects, Alone <- {},
  PeerReaders <- {}, PrismReaders <- {}, KeyReaders <- {}, reads <- << >>

Stages == {"idle", "checking", "restoring", "returned", "refused", "threw", "lost"}
Collections == <<"Credentials", "DIDs", "Keys", "LinkSecrets", "Messages">>

TypeOK ==
  /\ serial \in BOOLEAN
  /\ Pluto!TypeOK
  /\ stage \in [Attempts -> Stages]
  /\ at \in [Attempts -> 0..LastPhase]
  /\ occupied \in [Attempts -> BOOLEAN]

Init ==
  /\ serial \in BOOLEAN
  /\ Pluto!Init
  /\ stage = [a \in Attempts |-> "idle"]
  /\ at = [a \in Attempts |-> 0]
  /\ occupied = [a \in Attempts |-> FALSE]

-----------------------------------------------------------------------------
(* BackupManager.restore                                                   *)

Pending(a) == stage[a] \in {"checking", "restoring"}

Begin(a) ==
  /\ stage[a] = "idle"
  /\ serial => \A b \in Attempts : ~Pending(b)
  /\ stage' = [stage EXCEPT ![a] = "checking"]
  /\ at' = [at EXCEPT ![a] = 1]
  /\ UNCHANGED <<storeVars, faults, occupied>>

\* The rows a repository's getModels() returns: link secrets share the
\* collection of the keys, and the links are in none of the five.
Models(repository) ==
  {row \in store :
     \/ repository = "Credentials" /\ row.table = "credentials"
     \/ repository = "DIDs" /\ row.table = "dids"
     \/ repository = "Keys" /\ row.table = "keys" /\ row.key[2] # LinkSecret
     \/ repository = "LinkSecrets" /\ row.table = "keys" /\ row.key[2] = LinkSecret
     \/ repository = "Messages" /\ row.table = "messages"}

\* assertStoreIsEmpty reads the collections in turn ...
LookIn(a) ==
  /\ stage[a] = "checking" /\ at[a] < Len(Collections)
  /\ occupied' = [occupied EXCEPT ![a] = @ \/ Models(Collections[at[a]]) # {}]
  /\ at' = [at EXCEPT ![a] = @ + 1]
  /\ UNCHANGED <<storeVars, faults, stage>>

\* Mutant of LookInLast: the check is made and not awaited.
LookInLastUnawaited(a) ==
  /\ stage[a] = "checking" /\ at[a] = Len(Collections)
  /\ stage' = [stage EXCEPT ![a] = "restoring"]
  /\ at' = [at EXCEPT ![a] = 1]
  /\ occupied' = [occupied EXCEPT ![a] = FALSE]
  /\ UNCHANGED <<storeVars, faults>>

\* ... and after the last throws StoreNotEmptyError or lets the task run.
LookInLast(a) ==
  LET full == occupied[a] \/ Models(Collections[Len(Collections)]) # {}
  IN  /\ stage[a] = "checking" /\ at[a] = Len(Collections)
      /\ stage' = [stage EXCEPT ![a] = IF full THEN "refused" ELSE "restoring"]
      /\ at' = [at EXCEPT ![a] = IF full THEN 0 ELSE 1]
      /\ occupied' = [occupied EXCEPT ![a] = FALSE]
      /\ UNCHANGED <<storeVars, faults>>

\* One of these queries fails: nothing has been stored either.
QueryFails(a) ==
  /\ stage[a] = "checking"
  /\ stage' = [stage EXCEPT ![a] = "refused"]
  /\ at' = [at EXCEPT ![a] = 0]
  /\ occupied' = [occupied EXCEPT ![a] = FALSE]
  /\ UNCHANGED <<storeVars, faults>>

-----------------------------------------------------------------------------
(* RestoreTask.run                                                         *)

\* Mutant of Launch: a call that threw is made again.
LaunchAgain(c) ==
  /\ at[c[1]] >= c[2] /\ stage[c[1]] # "checking"
  /\ status[c] \in {"idle", "threw"}
  /\ op' = [op EXCEPT ![c] = c[3]]
  /\ status' = [status EXCEPT ![c] = "running"]
  /\ UNCHANGED <<store, pos, absent, faults, stage, at, occupied>>

\* The calls of a phase are made together, when the attempt comes to it; each
\* gets to its first query in its own time, also when the attempt has thrown.
Launch(c) ==
  /\ at[c[1]] >= c[2] /\ stage[c[1]] # "checking"
  /\ status[c] = "idle"
  /\ op' = [op EXCEPT ![c] = c[3]]
  /\ status' = [status EXCEPT ![c] = "running"]
  /\ UNCHANGED <<store, pos, absent, faults, stage, at, occupied>>

PhaseCalls(a) == {c \in Calls : c[1] = a /\ c[2] = at[a]}

\* Mutant of PhaseReturns: the phase is not awaited.
PhaseUnawaited(a) ==
  /\ stage[a] = "restoring"
  /\ \A c \in PhaseCalls(a) : status[c] \in {"running", "returned"}
  /\ IF at[a] = LastPhase
     THEN stage' = [stage EXCEPT ![a] = "returned"] /\ at' = at
     ELSE stage' = stage /\ at' = [at EXCEPT ![a] = @ + 1]
  /\ UNCHANGED <<storeVars, faults, occupied>>

\* Promise.all resolves: the next phase, or the end.
PhaseReturns(a) ==
  /\ stage[a] = "restoring"
  /\ \A c \in PhaseCalls(a) : status[c] = "returned"
  /\ IF at[a] = LastPhase
     THEN stage' = [stage EXCEPT ![a] = "returned"] /\ at' = at
     ELSE stage' = stage /\ at' = [at EXCEPT ![a] = @ + 1]
  /\ UNCHANGED <<storeVars, faults, occupied>>

\* Mutant of PhaseThrows: only the failure of every call counts.
PhaseThrowsLast(a) ==
  /\ stage[a] = "restoring"
  /\ PhaseCalls(a) # {} /\ \A c \in PhaseCalls(a) : status[c] = "threw"
  /\ stage' = [stage EXCEPT ![a] = "threw"]
  /\ UNCHANGED <<storeVars, faults, at, occupied>>

\* It rejects with the first call that throws, and restore with it.
PhaseThrows(a) ==
  /\ stage[a] = "restoring"
  /\ \E c \in PhaseCalls(a) : status[c] = "threw"
  /\ stage' = [stage EXCEPT ![a] = "threw"]
  /\ UNCHANGED <<storeVars, faults, at, occupied>>

\* A step of a call of PlutoStore.
StoreStep(c) ==
  /\ \/ Pluto!LookUp(c) \/ Pluto!Insert(c) \/ Pluto!InsertConflicts(c)
     \/ Pluto!InsertFails(c) \/ Pluto!Return(c)
  /\ UNCHANGED <<stage, at, occupied>>

\* The process ends; nothing is resumed.
Crash ==
  /\ Pluto!Crash
  /\ stage' = [a \in Attempts |-> IF Pending(a) THEN "lost" ELSE stage[a]]
  /\ at' = [a \in Attempts |-> 0]
  /\ occupied' = [a \in Attempts |-> FALSE]

AttemptStep(a) ==
  LookIn(a) \/ LookInLast(a) \/ QueryFails(a) \/ PhaseReturns(a) \/ PhaseThrows(a)

Step ==
  \/ Crash
  \/ \E a \in Attempts : Begin(a) \/ AttemptStep(a)
  \/ \E c \in Calls : Launch(c) \/ StoreStep(c)

Next == Step /\ UNCHANGED serial

Spec == Init /\ [][Next]_vars

CallStep == \E c \in Calls : Launch(c) \/ StoreStep(c)

\* A query or an insert of the store is answered, and what awaits it resumes:
\* while calls are under way one or another proceeds, and each has an end.
Fairness ==
  /\ \A a \in Attempts : WF_vars(AttemptStep(a) /\ UNCHANGED serial)
  /\ WF_vars(CallStep /\ UNCHANGED serial)

FairSpec == Spec /\ Fairness

-----------------------------------------------------------------------------

\* Restoring uses the store as any caller does: it implements PlutoStore.
PlutoSpec == Pluto!Spec

\* What a restore that returned has stored, whatever ran beside it.
HasLink(role, h, t) ==
  \E l \in store : l.table = "did-link" /\ l.role = role /\ l.host = h /\ l.target = t
HasObject(table, a, x) == [table |-> table, key |-> <<a, x>>] \in store

RestoredIsComplete ==
  \A a \in Attempts : stage[a] = "returned" =>
    /\ \A d \in Backup.dids : Pluto!DIDRow(d) \in store
    /\ \A x \in RecoveredCredentials : HasObject("credentials", a, x)
    /\ \A x \in MessageIds : HasObject("messages", a, x)
    /\ Backup.link_secret => HasObject("keys", a, LinkSecret)
    /\ \A p \in Backup.did_pairs : HasLink("pair", p.holder, p.recipient)
    /\ \A m \in Backup.mediators :
         HasLink("mediator", m.holder, m.mediator) /\ HasLink("routing", m.holder, m.routing)
    /\ \A k \in Backup.keys :
         /\ HasObject("keys", a, k.id)
         /\ k.did # Unlinked =>
              \E l \in store :
                l.table = "didkey-link" /\ l.did = k.did /\ l.key = <<a, k.id>>

\* A backup lists the DIDs that its pairs, keys and mediators name; one that was
\* taken while nothing was stored does (BackupIsComplete of module Backup).
Coherent ==
  /\ \A p \in Backup.did_pairs : {p.holder, p.recipient} \subseteq Backup.dids
  /\ \A k \in Backup.keys : k.did \in Backup.dids \cup {Unlinked}
  /\ \A m \in Backup.mediators : {m.holder, m.mediator, m.routing} \subseteq Backup.dids

RestoreDoesNotThrow ==
  Coherent => \A a \in Attempts : stage[a] # "threw"

\* A backup of nothing leaves the store empty, and can be restored again.
RestoredOnce ==
  \A a, b \in Attempts :
    CallsOf(a) # {} /\ stage[a] = "returned" /\ b # a => stage[b] \notin {"restoring", "returned"}

\* An application that awaits each restore, of a coherent backup and without a
\* failure: it is restored or refused, for no two of the calls that store its
\* DIDs at the same time save the same one; and what an earlier restore has
\* stored is not restored again beside it (BackupManager.restore, RestoreTask).
AwaitedRestoreSucceedsOnce == serial /\ faults = 0 => RestoreDoesNotThrow /\ RestoredOnce

\* A restore settles.
RestoreSettles == \A a \in Attempts : Pending(a) ~> ~Pending(a)

==============================================================================
