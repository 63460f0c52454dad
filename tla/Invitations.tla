------------------------------ MODULE Invitations ------------------------------
(***************************************************************************)
(* Invitations: parseInvitation() and acceptInvitation() of the agent, the *)
(* peer DID that each of them creates, and the handshake with the inviter. *)
(* An action is what runs between two awaits; the calls of an application  *)
(* run side by side.                                                       *)
(*                                                                         *)
(* The mediator and the inviters (external) speak DIDComm as the agent     *)
(* does: a request reaches who can unpack it, and the mediator queues what *)
(* is forwarded to a DID of its key list.  A request may fail, before or   *)
(* after it has arrived, and the process may end.                          *)
(***************************************************************************)
EXTENDS Connections, Events

CONSTANTS
  Calls,       \* calls of an application: natural numbers above 1
  Inviters,    \* the other parties: [did, keys]
  MaxFaults    \* bound: requests that fail and processes that end

ASSUME CallsAssumption == Calls \subseteq Nat \ {0, 1}
ASSUME EventNamesAssumption == {"MESSAGE", "CONNECTION"} \subseteq EventNames

VARIABLES
  party,       \* the mediator of this behaviour, [did, keys, host, hostKeys], or Absent
  calls,       \* what each call was given, how far it is, the DID it created
  peerDIDs,    \* Pluto's peer DIDs, each with its keys in the order stored
  pairs,       \* Pluto's DID pairs
  messages,    \* Pluto's messages
  told,        \* the DIDs on the mediator's key list
  known,       \* history: the DIDs that a party other than the mediator knows
  wire,        \* requests that have arrived
  queue,       \* packed messages that the mediator has for the agent
  faults

invitationVars ==
  <<party, calls, peerDIDs, pairs, messages, told, known, wire, queue, faults>>

-----------------------------------------------------------------------------
(* Parsing                                                                 *)

\* A url carries its text as _oob; a string that is no such url is taken as
\* base64.  What holds no JSON throws.
Decode(value) == IF value.form \in {"url", "object", "base64"} THEN value.json ELSE Thrown

InvitationType(json) == IF json.type # Absent THEN json.type ELSE json.piuri

\* json.accept: is the body's list there, of texts.  The time is only looked at
\* here.
ParseOOBInvitation(json) ==
  IF \/ json.type # "oob" \/ json.id = Absent \/ json.from = Absent \/ ~json.accept
     \/ json.expired
  THEN Thrown
  ELSE [type |-> "oob", from |-> json.from, attachments |-> MapSeq(BuildAttachment, json.attachments)]

ParsePrismInvitation(json) ==
  IF json.endpoint = Absent \/ json.type = Absent THEN Thrown
  ELSE [type |-> "prism", onboardEndpoint |-> json.endpoint]

ParseInvitation(value) ==
  Then(Decode(value), LAMBDA json :
    IF InvitationType(json) = "prism" THEN ParsePrismInvitation(json)
    ELSE IF InvitationType(json) = "oob" THEN ParseOOBInvitation(json)
    ELSE Thrown)

InvitationOf(c) == ParseInvitation(calls[c].value)
IsOOB(c) == InvitationOf(c).type = "oob"
HasAttachment(c) == InvitationOf(c).attachments # <<>>

-----------------------------------------------------------------------------
(* The calls                                                               *)

CallInit(value, alias) == [value |-> value, alias |-> alias, at |-> "idle", did |-> Absent]

InvitationsInit(mediator, given) ==
  /\ party = mediator
  /\ calls = given
  /\ peerDIDs = IF mediator = Absent THEN {} ELSE {[did |-> mediator.host, keys |-> mediator.hostKeys]}
  /\ pairs = {} /\ messages = {} /\ told = {} /\ known = {}
  /\ wire = {} /\ queue = {} /\ faults = 0

Goes(c, at) == calls' = [calls EXCEPT ![c].at = at]
At(c, at) == Quiet /\ calls[c].at = at
CanFail == faults < MaxFaults

\* The keys of the DID that a call creates.
NewKeys(c) == <<Key("X25519", 10 * c), Key("Ed25519", 10 * c + 1)>>

\* The mediator becomes the service, unless there is one for messages.
ServicesFor(services, mediator) ==
  IF \E i \in DOMAIN services : IsDIDCommMessaging(services[i]) THEN services
  ELSE Append(services, Service(Id(Absent, <<"didcomm", 1>>), Type(TRUE, <<"DIDCommMessaging">>),
                                mediator))

\* An onboarding invitation brings a service of its own.
OnboardingService(invitation) ==
  Service(Id(Absent, <<"didcomm", 1>>), Type(TRUE, <<"DIDCommMessaging">>),
          [url |-> invitation.onboardEndpoint])
OwnServices(invitation) ==
  IF invitation.type = "oob" THEN <<>> ELSE <<OnboardingService(invitation)>>

NewPeerDID(c, invitation, mediator) ==
  PeerCreate(<<[usage |-> "KEY_AGREEMENT_KEY", list |-> <<NewKeys(c)[1]>>],
               [usage |-> "AUTHENTICATION_KEY", list |-> <<NewKeys(c)[2]>>]>>,
             ServicesFor(OwnServices(invitation), mediator))

\* CreatePeerDID up to its first request: without a mediator it throws.
CreateDID(c) ==
  /\ IF MediatorConnection = Absent THEN Goes(c, "threw")
     ELSE \E did \in {NewPeerDID(c, InvitationOf(c), MediatorConnection.uri)} :
            IF did = Thrown THEN Goes(c, "threw")
            ELSE calls' = [calls EXCEPT ![c].at = "telling", ![c].did = did]
  /\ UNCHANGED <<party, peerDIDs, pairs, messages, told, known, wire, queue, faults>>

\* parseInvitation: of an onboarding invitation it creates the DID.
Parse(c) ==
  /\ At(c, "idle")
  /\ IF InvitationOf(c) # Thrown
     THEN IF IsOOB(c)
          THEN /\ Goes(c, "parsed")
               /\ UNCHANGED <<party, peerDIDs, pairs, messages, told, known, wire, queue, faults>>
          ELSE CreateDID(c)
     ELSE /\ Goes(c, "threw")
          /\ UNCHANGED <<party, peerDIDs, pairs, messages, told, known, wire, queue, faults>>
  /\ UNCHANGED <<connectionVars, eventVars>>

\* acceptInvitation, of an out-of-band invitation.
Accept(c) ==
  /\ At(c, "parsed")
  /\ CreateDID(c)
  /\ UNCHANGED <<connectionVars, eventVars>>

-----------------------------------------------------------------------------
(* The new DID                                                             *)

\* The request of the mediator's connection: the DIDs of a keys update are in
\* its body.
KeysUpdate(c) == Message("keys-update", MediatorConnection.host, MediatorConnection.uri,
                         <<Attachment("json", [recipient |-> calls[c].did])>>)
Told(request) ==
  UnpackMessage(request.packed, {party}).attachments[1].content.recipient

\* updateKeyListWithDID: what the mediator answers is not looked at; only a
\* request that fails throws.
TellMediator(c) ==
  /\ At(c, "telling")
  /\ \E request \in {SendMessage(KeysUpdate(c), peerDIDs)} :
       IF request = Thrown THEN Goes(c, "threw") /\ UNCHANGED <<told, faults>>
       ELSE \E arrived \in {told \cup {Told(request)}} :
              \/ told' = arrived /\ Goes(c, "storing") /\ UNCHANGED faults
              \/ /\ CanFail /\ faults' = faults + 1
                 /\ told' \in {told, arrived} /\ Goes(c, "threw")
  /\ UNCHANGED <<party, peerDIDs, pairs, messages, known, wire, queue, connectionVars, eventVars>>

NextOf(c) == IF IsOOB(c) THEN "handling" ELSE "onboarding"

\* Mutant of StoreDID: storeDID is not awaited.
StoreDIDUnawaited(c) ==
  /\ At(c, "storing")
  /\ Goes(c, NextOf(c))
  /\ UNCHANGED <<party, peerDIDs, pairs, messages, told, known, wire, queue, faults, connectionVars, eventVars>>

\* storeDID saves the DID,
StoreDID(c) ==
  /\ At(c, "storing")
  /\ peerDIDs' = peerDIDs \cup {[did |-> calls[c].did, keys |-> <<>>]}
  /\ Goes(c, "linking")
  /\ UNCHANGED <<party, pairs, messages, told, known, wire, queue, faults, connectionVars, eventVars>>

\* and then its keys, with their links.
StoreKeys(c) ==
  /\ At(c, "linking")
  /\ peerDIDs' = (peerDIDs \ {[did |-> calls[c].did, keys |-> <<>>]})
                    \cup {[did |-> calls[c].did, keys |-> NewKeys(c)]}
  /\ Goes(c, NextOf(c))
  /\ UNCHANGED <<party, pairs, messages, told, known, wire, queue, faults, connectionVars, eventVars>>

\* acceptPrismOnboardingInvitation: the DID is posted; only 200 will do.
Onboard(c) ==
  /\ At(c, "onboarding")
  /\ \/ known' = known \cup {calls[c].did} /\ Goes(c, "returned") /\ UNCHANGED faults
     \/ /\ CanFail /\ faults' = faults + 1
        /\ known' \in {known, known \cup {calls[c].did}} /\ Goes(c, "threw")
  /\ UNCHANGED <<party, peerDIDs, pairs, messages, told, wire, queue, connectionVars, eventVars>>

-----------------------------------------------------------------------------
(* HandleOOBInvitation                                                     *)

\* The attached message is for the new DID.
AttachedMessage(c) ==
  Then(ExtractJSON(InvitationOf(c).attachments[1]), LAMBDA json : MessageFromJSON(json, calls[c].did))

HandleAttachment(c) ==
  /\ At(c, "handling") /\ HasAttachment(c)
  /\ Goes(c, IF AttachedMessage(c) = Thrown THEN "threw" ELSE "keeping")
  /\ UNCHANGED <<party, peerDIDs, pairs, messages, told, known, wire, queue, faults, connectionVars, eventVars>>

\* The attached message is stored, and then announced.
KeepAttached(c) ==
  /\ At(c, "keeping")
  /\ messages' = messages \cup {AttachedMessage(c)}
  /\ Goes(c, "announcing") /\ Emit("MESSAGE")
  /\ UNCHANGED <<party, peerDIDs, pairs, told, known, wire, queue, faults, connectionVars>>

Alias(c) == IF calls[c].alias = Absent THEN "OOBConn" ELSE calls[c].alias
Receiver(c) == InvitationOf(c).from

Handshake(c) == Message("handshake", calls[c].did, Receiver(c), <<>>)

\* The connection is added before the handshake; text that is no DID throws.
HandleConnection(c) ==
  /\ At(c, "handling") /\ ~HasAttachment(c)
  /\ IF MediatorConnection = Absent \/ Receiver(c) = Thrown
     THEN Goes(c, "threw") /\ UNCHANGED connections
     ELSE /\ Add(Connection("DIDComm", Receiver(c), calls[c].did, Alias(c)))
          /\ Goes(c, "recording")
  /\ UNCHANGED <<party, peerDIDs, pairs, messages, told, known, wire, queue, faults, mediators, eventVars>>

\* DIDCommConnection.send stores the message first.
RecordHandshake(c) ==
  /\ At(c, "recording")
  /\ messages' = messages \cup {Handshake(c)}
  /\ Goes(c, "sending")
  /\ UNCHANGED <<party, peerDIDs, pairs, told, known, wire, queue, faults, connectionVars, eventVars>>

\* A handshake that fails leaves its connection as it is, NEW.
SendHandshake(c) ==
  LET Arrives(request) == wire' = wire \cup {request} /\ known' = known \cup {calls[c].did}
  IN  /\ At(c, "sending")
      /\ \E request \in {SendMessage(Handshake(c), peerDIDs)} :
           IF request = Thrown THEN Goes(c, "threw") /\ UNCHANGED <<wire, known, faults>>
           ELSE \/ Arrives(request) /\ Goes(c, "pairing") /\ UNCHANGED faults
                \/ /\ CanFail /\ faults' = faults + 1
                   /\ Arrives(request) \/ UNCHANGED <<wire, known>>
                   /\ Goes(c, "threw")
      /\ UNCHANGED <<party, peerDIDs, pairs, messages, told, queue, connectionVars, eventVars>>

Saved(rows, did) ==
  IF \E r \in rows : r.did = did THEN rows ELSE rows \cup {[did |-> did, keys |-> <<>>]}

\* Mutant of StorePair: the pair is not awaited.
StorePairUnawaited(c) ==
  /\ At(c, "pairing")
  /\ Goes(c, "granting")
  /\ UNCHANGED <<party, peerDIDs, pairs, messages, told, known, wire, queue, faults, connectionVars, eventVars>>

\* storeDIDPair: both DIDs, which are known already or have no keys, and the link.
StorePair(c) ==
  /\ At(c, "pairing")
  /\ peerDIDs' = Saved(Saved(peerDIDs, calls[c].did), Receiver(c))
  /\ pairs' = pairs \cup {[host |-> calls[c].did, receiver |-> Receiver(c), alias |-> Alias(c)]}
  /\ Goes(c, "granting")
  /\ UNCHANGED <<party, messages, told, known, wire, queue, faults, connectionVars, eventVars>>

Grant(c) ==
  /\ At(c, "granting")
  /\ SetState(Receiver(c), calls[c].did, "GRANTED")
  /\ Goes(c, "announcing") /\ Emit("CONNECTION")
  /\ UNCHANGED <<party, peerDIDs, pairs, messages, told, known, wire, queue, faults, mediators>>

\* The call of the agent ends as its emission does.
Announce(c) ==
  /\ calls[c].at = "announcing"
  /\ \/ EmissionReturns /\ Goes(c, "returned")
     \/ EmissionThrows /\ Goes(c, "threw")
  /\ UNCHANGED <<party, peerDIDs, pairs, messages, told, known, wire, queue, faults, connectionVars>>

RunCallback ==
  CallbackStep /\ UNCHANGED <<invitationVars, connectionVars>>

-----------------------------------------------------------------------------
(* The other parties (external), and the end of the process                *)

\* What a request gives who it is for: the mediator takes the forward apart.
Arriving(request) ==
  IF party # Absent /\ CanUnpack(request.packed, {party})
  THEN UnpackMessage(request.packed, {party}).attachments[1].content.packed
  ELSE request.packed

\* An inviter answers a handshake, and the mediator queues the answer.
Answer(inviter, request) ==
  LET Response(handshake) ==
        SendMessage(Message("response", inviter.did, handshake.from, <<>>), {inviter})
  IN  /\ Quiet
      /\ \E handshake \in {UnpackMessage(Arriving(request), {inviter})} \ {Thrown} :
         \E answer \in {Response(handshake)} \ {Thrown} :
         \E packed \in {Arriving(answer)} \ queue :
           /\ handshake.from \in told
           /\ queue' = queue \cup {packed}
      /\ UNCHANGED <<party, calls, peerDIDs, pairs, messages, told, known, wire, faults, connectionVars, eventVars>>

\* What Pluto has survives, and the mediator's connection comes back.
Crash ==
  /\ Quiet /\ CanFail /\ faults' = faults + 1
  /\ calls' = [c \in Calls |-> IF calls[c].at = "idle" THEN calls[c] ELSE [calls[c] EXCEPT !.at = "lost"]]
  /\ connections' = Reconnected(party)
  /\ UNCHANGED <<party, peerDIDs, pairs, messages, told, known, wire, queue, mediators, eventVars>>

CallStep(c) ==
  \/ Parse(c) \/ Accept(c) \/ TellMediator(c) \/ StoreDID(c) \/ StoreKeys(c) \/ Onboard(c)
  \/ HandleAttachment(c) \/ KeepAttached(c) \/ HandleConnection(c) \/ RecordHandshake(c)
  \/ SendHandshake(c) \/ StorePair(c) \/ Grant(c) \/ Announce(c)

InvitationsNext ==
  \/ \E c \in Calls : CallStep(c)
  \/ RunCallback
  \/ \E i \in Inviters, request \in wire : Answer(i, request)

-----------------------------------------------------------------------------
(* What Pluto finds                                                        *)

OnlyOne(set, Op(_)) ==
  IF Cardinality(set) = 1 THEN Op(CHOOSE x \in set : TRUE) ELSE Thrown

HasRow(did) == \E r \in peerDIDs : r.did = did

\* A pair whose DIDs are not both stored is no pair.
MapDIDPair(link) == IF HasRow(link.host) /\ HasRow(link.receiver) THEN link ELSE Absent

GetPairByDID(did) == OnlyOne({p \in pairs : p.host = did \/ p.receiver = did}, MapDIDPair)
GetPairByName(alias) == OnlyOne({p \in pairs : p.alias = alias}, MapDIDPair)
===============================================================================
