------------------------------ MODULE Connections ------------------------------
(***************************************************************************)
(* ConnectionsManager: what the agent is connected to, in the order that   *)
(* the connections were added, and which of them are mediators.  A         *)
(* connection is found by its uri: the DID of the other party, or the url  *)
(* of an issuer's credential endpoint.                                     *)
(***************************************************************************)
EXTENDS Mercury

VARIABLES
  connections,   \* ConnectionsManager.connections
  mediators      \* ConnectionsManager.mediators, in the order of the Set

connectionVars == <<connections, mediators>>

Connection(kind, uri, host, alias) ==
  [kind |-> kind, uri |-> uri, host |-> host, alias |-> alias,
   state |-> "NEW", tokenResponse |-> Absent]

\* Mutant of Add: the newest connection is looked at first.
AddInFront(connection) == connections' = <<connection>> \o connections

Add(connection) == connections' = Append(connections, connection)

\* find(): the first one of that uri.
Find(uri) ==
  LET i == SelectInSeq(connections, LAMBDA c : c.uri = uri)
  IN  IF i = 0 THEN Absent ELSE connections[i]

\* Only one mediator is used: the first, if its uri finds a MediatorConnection.
MediatorConnection ==
  IF mediators = <<>> THEN Absent
  ELSE LET found == Find(Head(mediators))
       IN  IF found = Absent THEN Absent
           ELSE IF found.kind = "mediator" THEN found ELSE Absent

\* The state of the newest connection of these two DIDs.
SetState(uri, host, state) ==
  connections' = [i \in DOMAIN connections |->
    IF connections[i].uri = uri /\ connections[i].host = host
    THEN [connections[i] EXCEPT !.state = state] ELSE connections[i]]

\* A process that has just started its agent knows its mediator, which Pluto
\* has stored, and nothing else.
Reconnected(mediator) ==
  IF mediator = Absent THEN <<>>
  ELSE <<[Connection("mediator", mediator.did, mediator.host, Absent) EXCEPT !.state = "GRANTED"]>>

ConnectionsInit(mediator) ==
  /\ connections = Reconnected(mediator)
  /\ mediators = IF mediator = Absent THEN <<>> ELSE <<mediator.did>>
===============================================================================
