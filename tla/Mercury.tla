-------------------------------- MODULE Mercury --------------------------------
(***************************************************************************)
(* Mercury: a DIDComm message is packed for the keys of its receiver, and  *)
(* posted to the messaging endpoint of the receiver's document, or inside  *)
(* a forward message to the mediator that this endpoint names.  The        *)
(* DIDComm library is external: it asks the two resolvers of the SDK for   *)
(* documents and secrets.                                                  *)
(*                                                                         *)
(* An endpoint is a DID or [url |-> ...].  What Pluto answers for the peer *)
(* DIDs is a set of [did, keys], the keys in the order they were stored.   *)
(***************************************************************************)
EXTENDS Castor

-----------------------------------------------------------------------------
(* Messages                                                                *)

\* An attachment carries base64, json, links or something else, and what it
\* holds; content is Absent when that is not the text of a JSON value.
Attachment(kind, content) == [kind |-> kind, content |-> content]

Message(piuri, from, to, attachments) ==
  [piuri |-> piuri, from |-> from, to |-> to, attachments |-> attachments]

\* build(): text is encoded as base64, anything else is taken as it is.
BuildAttachment(data) == IF data.kind = "text" THEN [data EXCEPT !.kind = "base64"] ELSE data

\* The payload of base64 that holds no JSON is the text itself.
ExtractJSON(attachment) ==
  IF attachment.kind \notin {"base64", "json"} THEN Thrown
  ELSE IF attachment.content # Absent THEN attachment.content
  ELSE IF attachment.kind = "base64" THEN [text |-> TRUE] ELSE Thrown

\* Of a spread text only the letters are left: it has no body.  The list of
\* attachments must be there, though its check lets none pass; a sender that is
\* not the text of a DID is marked Thrown.
MessageFromJSON(json, to) ==
  IF \/ "text" \in DOMAIN json
     \/ ~json.body \/ json.piuri = Absent
     \/ json.attachments = Absent
     \/ json.from = Thrown
  THEN Thrown
  ELSE IF \E i \in DOMAIN json.attachments : json.attachments[i].kind \notin {"base64", "json"}
  THEN Thrown
  ELSE Message(json.piuri, json.from, to, json.attachments)

\* An attachment that the library, or the SDK, cannot represent is dropped
\* without a word (Promise.allSettled).
IsRepresentable(a) ==
  /\ a.kind \in {"base64", "json", "links"}
  /\ a.kind = "json" => a.content # Absent

ParseAttachments(attachments) ==
  IF \A i \in DOMAIN attachments : IsRepresentable(attachments[i]) THEN attachments
  ELSE SelectSeq(attachments, IsRepresentable)

-----------------------------------------------------------------------------
(* The resolvers                                                           *)

RelationshipMethods(doc) ==
  FoldLeft(LAMBDA acc, p : IF p.kind \in Relationships THEN acc \o p.values ELSE acc,
           <<>>, doc.coreProperties)

\* DIDCommDIDResolver: the methods of the relationships, which must all have a
\* JWK; those of X25519 keys are for key agreement.
AgreementKeys(methods) ==
  IF \E m \in methods : m.publicKeyJwk = Absent THEN Thrown
  ELSE {[id |-> m.id, pair |-> m.publicKeyJwk.x] :
          m \in {x \in methods : x.publicKeyJwk.crv = "X25519"}}

KeyAgreement(did) ==
  Then(ResolveDID(did, Absent), LAMBDA doc : AgreementKeys(ToSet(RelationshipMethods(doc))))

\* find_secrets: the ids of the peer DIDs that Pluto has.
FindSecrets(peerDIDs, ids) == {id \in ids : \E p \in peerDIDs : p.did = id.did}

IsAgreementKey(key) == key.curve = "X25519"

\* get_secret: the first X25519 key of the DID, whichever of its methods is asked for.
SecretOf(row, id) ==
  LET keys == SelectSeq(row.keys, IsAgreementKey)
      known == SelectInSeq(ValuesOf(ResolveDID(id.did, Absent), "verificationMethod"),
                           LAMBDA m : m.id = id /\ m.publicKeyJwk # Absent)
  IN  IF known = 0 THEN Absent
      ELSE IF keys = <<>> THEN Thrown ELSE keys[1].pair

GetSecret(peerDIDs, id) ==
  LET rows == {p \in peerDIDs : p.did = id.did}
  IN  IF rows = {} THEN Absent ELSE SecretOf(CHOOSE p \in rows : TRUE, id)

-----------------------------------------------------------------------------
(* Packing                                                                 *)

\* With a sender the library needs a secret of the sender as well.
CanSign(peerDIDs, from) ==
  With(KeyAgreement(from), LAMBDA mine :
    /\ mine # Thrown
    /\ With(FindSecrets(peerDIDs, {k.id : k \in mine}), LAMBDA found :
         found # {} /\ \A id \in found : GetSecret(peerDIDs, id) \notin {Absent, Thrown}))

PackMessage(message, peerDIDs) ==
  IF message.to = Absent THEN Thrown
  ELSE Then(KeyAgreement(message.to), LAMBDA keys :
         IF keys = {} \/ (message.from # Absent /\ ~CanSign(peerDIDs, message.from)) THEN Thrown
         ELSE [for |-> keys, message |-> [message EXCEPT !.attachments = ParseAttachments(@)]])

\* One key that fits is enough.
CanUnpack(packed, peerDIDs) ==
  LET found == FindSecrets(peerDIDs, {k.id : k \in packed.for})
  IN  \E k \in packed.for : k.id \in found /\ GetSecret(peerDIDs, k.id) = k.pair

UnpackMessage(packed, peerDIDs) ==
  IF CanUnpack(packed, peerDIDs)
  THEN [packed.message EXCEPT !.attachments = ParseAttachments(@)] ELSE Thrown

-----------------------------------------------------------------------------
(* Sending                                                                 *)

IsDID(uri) == "method" \in DOMAIN uri

\* The endpoint of the first service for messages.
MessagingUri(doc) ==
  With(SelectSeq(ValuesOf(doc, "service"), IsDIDCommMessaging), LAMBDA services :
    IF services = <<>> THEN Absent ELSE Head(services).uri)

RequiresForwarding(uri) == uri # Absent /\ IsDID(uri)

\* No request goes to an endpoint that is missing, or that is a DID.
MakeRequest(uri, packed) ==
  IF uri = Absent THEN Thrown
  ELSE IF IsDID(uri) THEN Thrown ELSE [url |-> uri.url, packed |-> packed]

\* The packed message travels as the attachment; its receiver is next in the body.
ForwardMessage(message, packed, mediator) ==
  Message("forward", message.from, mediator,
          <<Attachment("json", [next |-> message.to, packed |-> packed])>>)

\* The request that sendMessage makes, or Thrown: to the endpoint, or to that of
\* the mediator which the endpoint names.
Route(message, packed, uri, peerDIDs) ==
  IF ~RequiresForwarding(uri) THEN MakeRequest(uri, packed)
  ELSE IF message.from = Absent THEN Thrown
  ELSE Then(PackMessage(ForwardMessage(message, packed, uri), peerDIDs), LAMBDA forward :
         Then(ResolveDID(uri, Absent), LAMBDA mediator :
           MakeRequest(MessagingUri(mediator), forward)))

SendMessage(message, peerDIDs) ==
  IF message.to = Absent THEN Thrown
  ELSE Then(ResolveDID(message.to, Absent), LAMBDA doc :
         Then(PackMessage(message, peerDIDs), LAMBDA packed :
           Route(message, packed, MessagingUri(doc), peerDIDs)))
===============================================================================
