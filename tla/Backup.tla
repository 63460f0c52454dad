-------------------------------- MODULE Backup --------------------------------
(***************************************************************************)
(* Taking a backup of Pluto: BackupTask reads one collection after the     *)
(* other, while other calls may be storing.  The backup holds what each    *)
(* query found; a key is given the DID that the links read after it name,  *)
(* if that is among the DIDs read before it.  The link secret is a query   *)
(* of its own that none of these calls stores anything for.                *)
(***************************************************************************)
EXTENDS PlutoStore

CONSTANT Unlinked    \* key.did === undefined

ASSUME UnlinkedAssumption == Unlinked \notin DIDs

VARIABLE backup   \* how far the task is, and what it has read

backupVars == <<vars, backup>>

\* since and quiet are histories: the calls that had returned when the backup
\* began, and whether nothing has been stored from then on.
NoBackup ==
  [at |-> "idle", credentials |-> {}, dids |-> {}, did_pairs |-> {}, keyRows |-> {}, keys |-> {},
   messages |-> {}, mediators |-> {}, since |-> {}, quiet |-> TRUE]

BackupSteps ==
  {"idle", "dids", "pairs", "keys", "links", "messages", "mediators", "done", "threw"}

Backups ==
  [at : BackupSteps, credentials : SUBSET Keys, dids : SUBSET DIDs,
   did_pairs : SUBSET [holder : DIDs, recipient : DIDs, alias : Aliases \cup {NoAlias}],
   keyRows : SUBSET Keys, keys : SUBSET [id : Keys, did : DIDs \cup {Unlinked}],
   messages : SUBSET Keys, mediators : SUBSET [holder : DIDs, mediator : DIDs, routing : DIDs],
   since : SUBSET Calls, quiet : BOOLEAN]

BackupTypeOK == TypeOK /\ backup \in Backups

BackupInit == Init /\ backup = NoBackup

-----------------------------------------------------------------------------
(* BackupTask.run                                                          *)

Found(table) == {row.key : row \in {x \in store : x.table = table}}
FoundLinks(roles) == {row \in store : row.table = "did-link" /\ row.role \in roles}

BackupCredentials ==
  /\ backup.at = "idle"
  /\ backup' = [NoBackup EXCEPT !.at = "dids", !.credentials = Found("credentials"),
                                !.since = {c \in Calls : status[c] = "returned"}]

\* Mutant of BackupDIDs: only the DIDs of one method are read.
BackupDIDsOfPeers ==
  /\ backup.at = "dids"
  /\ backup' = [backup EXCEPT !.at = "pairs", !.dids = {d \in PeerDIDs : DIDRow(d) \in store}]

BackupDIDs ==
  /\ backup.at = "dids"
  /\ backup' = [backup EXCEPT !.at = "pairs", !.dids = {d \in DIDs : DIDRow(d) \in store}]

BackupPairs ==
  /\ backup.at = "pairs"
  /\ backup' = [backup EXCEPT !.at = "keys",
       !.did_pairs = {[holder |-> l.host, recipient |-> l.target, alias |-> l.alias]
                        : l \in FoundLinks({"pair"})}]

BackupKeys ==
  /\ backup.at = "keys"
  /\ backup' = [backup EXCEPT !.at = "links", !.keyRows = Found("keys")]

\* The DID of the key's link, unless it was stored since the DIDs were read.
DIDOfKey(k) ==
  LET links == {l \in store : l.table = "didkey-link" /\ l.key = k}
      did == (CHOOSE l \in links : TRUE).did
  IN  IF links # {} /\ did \in backup.dids THEN did ELSE Unlinked

BackupKeyLinks ==
  /\ backup.at = "links"
  /\ backup' = [backup EXCEPT !.at = "messages", !.keyRows = {},
                              !.keys = {[id |-> k, did |-> DIDOfKey(k)] : k \in backup.keyRows}]

BackupMessages ==
  /\ backup.at = "messages"
  /\ backup' = [backup EXCEPT !.at = "mediators", !.messages = Found("messages")]

\* getAllMediators: of each host one link of each role, or it throws.  Its DIDs
\* are looked up after; what is stored is there for good.
HostsOf(role) == {l.host : l \in FoundLinks({role})}
TargetOf(host, role) == (CHOOSE l \in FoundLinks({role}) : l.host = host).target

BackupMediators ==
  /\ backup.at = "mediators"
  /\ backup' =
       IF HostsOf("mediator") # HostsOf("routing") THEN [backup EXCEPT !.at = "threw"]
       ELSE [backup EXCEPT !.at = "done",
              !.mediators = {[holder |-> h, mediator |-> TargetOf(h, "mediator"),
                              routing |-> TargetOf(h, "routing")] : h \in HostsOf("mediator")}]

UnderWay == backup.at \notin {"idle", "done", "threw"}

BackupStep ==
  /\ \/ BackupCredentials \/ BackupDIDs \/ BackupPairs \/ BackupKeys \/ BackupKeyLinks
     \/ BackupMessages \/ BackupMediators
  /\ UNCHANGED vars

\* A query fails, and the backup with it.
BackupFails ==
  /\ UnderWay /\ Fault
  /\ backup' = [backup EXCEPT !.at = "threw"]
  /\ UNCHANGED <<callVars, reads>>

\* A step of another call, or the end of the process, which ends the backup.
OtherStep ==
  /\ Next
  /\ backup' = IF Crash THEN NoBackup
               ELSE [backup EXCEPT !.quiet = @ /\ (UnderWay => store' = store)]

BackupNext == BackupStep \/ BackupFails \/ OtherStep

BackupSpec == BackupInit /\ [][BackupNext]_backupVars

-----------------------------------------------------------------------------

\* What the backup has of a table of objects.
BackedUpOf(table) ==
  CASE table = "keys" -> {k.id : k \in backup.keys}
    [] table = "credentials" -> backup.credentials
    [] table = "messages" -> backup.messages

\* Whether what c stores is in the backup, each thing with what it belongs to.  The
\* metadata of credentials is not among the queries of BackupTask.
IsBackedUp(c) ==
  LET o == op[c]
  IN  CASE o.kind = "did" ->
             o.did \in backup.dids /\ \A i \in DOMAIN o.keys : [id |-> o.keys[i], did |-> o.did] \in backup.keys
        [] o.kind = "pair" ->
             /\ {o.host, o.target} \subseteq backup.dids
             /\ [holder |-> o.host, recipient |-> o.target, alias |-> o.alias] \in backup.did_pairs
        [] o.kind = "mediator" ->
             /\ {o.host, o.mediator, o.routing} \subseteq backup.dids
             /\ \E m \in backup.mediators : m.holder = o.host
        [] o.kind = "object" ->
             o.table # "credential-metadata" => o.key \in BackedUpOf(o.table)

\* The DIDs that the backup names without listing them.
Unlisted ==
  (UNION ({{p.holder, p.recipient} : p \in backup.did_pairs}
            \cup {{m.holder, m.mediator, m.routing} : m \in backup.mediators})) \ backup.dids

\* A backup holds all that was stored by the calls that had returned when it
\* began, whatever is stored beside it; and if nothing is, it lists every DID
\* that it names, as restoring it asks for (Restore's Coherent), whatever was cut
\* short before (BackupTask.run, its reads in this order).
BackupIsComplete ==
  backup.at = "done" =>
    /\ \A c \in backup.since : IsBackedUp(c)
    /\ backup.quiet => Unlisted = {}
===============================================================================
