-------------------------------- MODULE Exchange --------------------------------
(***************************************************************************)
(* The agent among others: the invitations it follows, with the events it  *)
(* emits, and the OIDC offers, which share its ConnectionsManager.  What   *)
(* an application does is one of the scenarios.                            *)
(***************************************************************************)
EXTENDS Invitations, Oidc

CONSTANT
  Scenarios   \* [mediator, calls, listeners, flows]

\* Nothing has been followed yet, and no listener is registered twice.
ASSUME ScenariosAssumption ==
  \A s \in Scenarios :
    /\ s.calls = [c \in Calls |->
         [CallInit(s.calls[c].value, s.calls[c].alias) EXCEPT !.at = s.calls[c].at]]
    /\ \A c \in Calls : s.calls[c].at \in {"idle", "threw"}
    /\ s.flows = [f \in Flows |->
         [FlowInit(s.flows[f].value, s.flows[f].clientId) EXCEPT !.at = s.flows[f].at]]
    /\ \A f \in Flows : s.flows[f].at \in {"idle", "threw"}
    /\ s.listeners \in Seq(Listeners)
    /\ \A i, j \in DOMAIN s.listeners : s.listeners[i] = s.listeners[j] => i = j

\* What a call is invited to, and the DID that it creates.
Invited(s, c) == ParseInvitation(s.calls[c].value)
Creates(s, c) ==
  IF s.mediator = Absent \/ Invited(s, c) = Thrown THEN Thrown
  ELSE NewPeerDID(c, Invited(s, c), s.mediator.did)
Creating(s) == {c \in Calls : Creates(s, c) # Thrown}
Connecting(s) ==
  {c \in Creating(s) : /\ Invited(s, c).type = "oob" /\ Invited(s, c).attachments = <<>>
                       /\ Invited(s, c).from # Thrown}

\* The handshake of a call, the inviter's answer, and a message that is packed.
HandshakeOf(s, c) == Message("handshake", Creates(s, c), Invited(s, c).from, <<>>)
ResponseTo(s, c) == Message("response", Invited(s, c).from, Creates(s, c), <<>>)
Packed(message) == [for |-> KeyAgreement(message.to), message |-> message]

\* What is packed for a party is for keys of its DID, one of which it has, and goes
\* to its own endpoint or to the mediator's.
IsParty(p, mediator) ==
  LET keys == KeyAgreement(p.did)
      uri == MessagingUri(ResolveDID(p.did, Absent))
  IN  keys # Thrown =>
        /\ \A k \in keys : k.id.did = p.did
        /\ keys # {} => \E k \in keys : SecretOf(p, k.id) = k.pair
        /\ RequiresForwarding(uri) => uri = mediator

\* A mediator that can be reached itself, inviters who use it or none, and DIDs
\* that resolve to the keys they were created of (Castor; Identity's ResolvedIsCreated).
ASSUME PartiesAssumption ==
  \A s \in Scenarios : s.mediator # Absent =>
    LET mediator == s.mediator.did
    IN  /\ IsParty(s.mediator, mediator)
        /\ ~RequiresForwarding(MessagingUri(ResolveDID(mediator, Absent)))
        /\ \A i \in Inviters : IsParty(i, mediator) /\ i.did # mediator
        /\ \A c \in Creating(s) : IsParty([did |-> Creates(s, c), keys |-> NewKeys(c)], mediator)

\* New keys make a new DID; and who invites to a connection is an inviter.
ASSUME FreshAssumption ==
  \A s \in Scenarios : \A c \in Creating(s) :
    /\ Creates(s, c) \notin {Absent, s.mediator.did, s.mediator.host} \cup {i.did : i \in Inviters}
    /\ \A d \in Creating(s) : Creates(s, d) = Creates(s, c) => d = c
    /\ c \in Connecting(s) => Invited(s, c).from \in {i.did : i \in Inviters}

\* What there is, is not Absent.
ASSUME PresenceAssumption ==
  \A s \in Scenarios : s.mediator # Absent =>
    /\ Reconnected(s.mediator)[1] # Absent
    /\ \A c \in Creating(s) : [recipient |-> Creates(s, c)] # Absent
    /\ \A c \in Connecting(s) : \A m \in {HandshakeOf(s, c), ResponseTo(s, c)} :
         [next |-> m.to, packed |-> Packed(m)] # Absent

vars == <<connectionVars, eventVars, invitationVars, oidcVars>>

Init ==
  \E s \in Scenarios :
    /\ ConnectionsInit(s.mediator)
    /\ EventsInit(s.listeners)
    /\ InvitationsInit(s.mediator, s.calls)
    /\ OidcInit(s.flows)

Next ==
  \/ InvitationsNext /\ UNCHANGED oidcVars
  \/ Crash /\ Forget
  \/ OidcNext /\ Quiet /\ UNCHANGED <<eventVars, invitationVars>>

Spec == Init /\ [][Next]_vars

-----------------------------------------------------------------------------
(* Properties                                                              *)

\* Who has got to know a DID of the agent can reach it: the mediator has it on
\* its list, and Pluto has the DID with its keys.
KnownIsReachable ==
  \A did \in known :
    did \in told /\ \E r \in peerDIDs : r.did = did /\ r.keys # <<>>

\* The agent can read what is queued for it, and knows the connection it is about
\* while the process that made the connection runs.
QueuedIsReadable ==
  \A packed \in queue :
    /\ CanUnpack(packed, peerDIDs)
    /\ LET answer == UnpackMessage(packed, peerDIDs)
       IN  \A c \in Calls : calls[c].did = answer.to /\ calls[c].at # "lost" =>
             \E i \in DOMAIN connections : connections[i].uri = answer.from

\* Whenever an answer to a handshake may be picked up, and that is before the
\* handshake has returned, its DID has its keys, the mediator has its DID and
\* the connection is there (CreatePeerDID, HandleOOBInvitation).
AnswersAreRead == KnownIsReachable /\ QueuedIsReadable

HasGranted(c) == calls[c].at \in {"announcing", "returned"} /\ IsOOB(c) /\ ~HasAttachment(c)
ConnectionOf(c) ==
  {i \in DOMAIN connections : connections[i].uri = Receiver(c) /\ connections[i].host = calls[c].did}

\* A connection that is announced can be used: its handshake has arrived at the
\* inviter, Pluto finds the pair by the agent's DID, alone, and by its alias if
\* no other call has chosen the same; the connection is granted
\* (HandleOOBInvitation, getPairByDID, getPairByName).
GrantedIsUsable ==
  \A c \in Calls : HasGranted(c) =>
    LET pair == [host |-> calls[c].did, receiver |-> Receiver(c), alias |-> Alias(c)]
    IN  /\ GetPairByDID(calls[c].did) = pair
        /\ (\A d \in Calls \ {c} : Alias(d) # Alias(c)) => GetPairByName(Alias(c)) = pair
        /\ Cardinality(ConnectionOf(c)) = 1
        /\ \A i \in ConnectionOf(c) : connections[i].state = "GRANTED"
        /\ \E request \in wire, inviter \in Inviters :
             /\ inviter.did = Receiver(c)
             /\ UnpackMessage(Arriving(request), {inviter}) = Handshake(c)

\* Whatever the callbacks do to the listeners while an event is emitted, each
\* listener that is registered in the end, and was not removed in between, has
\* heard the event once (EventsManager.emit).
ListenersHearOnce ==
  IsFinished => \A l \in ToSet(Entries) \ ({Gap} \cup Running.removed) : Running.heard[l] = 1

SupportsIss(server) == \E s \in DOMAIN AuthServers :
  /\ AuthServers[s] # Absent /\ IsAuthServerMetadata(AuthServers[s])
  /\ AuthServers[s].issuer = server /\ AuthServers[s].iss_supported

\* A code goes to the server that issued it, even if the application mixes up the
\* callbacks of two flows, unless neither of the servers says who it is; and
\* the proof of a credential request is for the issuer that it is sent to, with
\* the nonce of the very token it is sent with, whatever connections are added
\* in between (ProcessCallbackUrl, CreateCredentialRequest, OIDCConnection).
RequestsBelongTogether ==
  /\ \A r \in redeemed :
       r.code.server # r.server => ~SupportsIss(r.code.server) /\ ~SupportsIss(r.server)
  /\ \A q \in requested : q.body.proof # Absent =>
       /\ q.body.proof.nonce = q.bearer.c_nonce
       /\ Issuers[q.body.proof.aud].credential_endpoint = q.url.url
===============================================================================
