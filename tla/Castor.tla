-------------------------------- MODULE Castor --------------------------------
(***************************************************************************)
(* Castor: the prism and peer methods.  A prism DID carries the operation  *)
(* that creates it, and its hash; a peer DID carries its keys and services *)
(* as parts.  Creating, resolving, publishing and verifying are functions  *)
(* of the DID, of the keys given and, for a short-form DID, of what the    *)
(* registry (external) answers.                                            *)
(*                                                                         *)
(* A key is a curve and a pair: encoding a key and decoding the encoding   *)
(* of a key of that curve lose nothing, unless a point of secp256k1 is     *)
(* compressed; a signature is by a key.                                    *)
(***************************************************************************)
EXTENDS DIDDocuments

CONSTANTS
  Unencodable,    \* uris whose base64url encoding holds a "-" or a "_"
  Abbreviations   \* of service types: those that hold DIDCommMessaging, with "dm" in its place

ASSUME AbbreviationsAssumption ==
  /\ "DIDCommMessaging" \in DOMAIN Abbreviations /\ Abbreviations["DIDCommMessaging"] = "dm"
  /\ \A type \in DOMAIN Abbreviations \ {"DIDCommMessaging"} : Abbreviations[type] # "dm"

Curves == {"secp256k1", "Ed25519", "X25519"}
Key(curve, pair) == [curve |-> curve, pair |-> pair]

\* The compressed bytes of a point of secp256k1 hold no y.
Compressed(key) ==
  IF key.curve = "secp256k1" THEN [curve |-> key.curve, pair |-> key.pair, y |-> Absent] ELSE key

\* The key that bytes are of, compressed or not.
Point(bytes) == Key(bytes.curve, bytes.pair)

-----------------------------------------------------------------------------
(* did:prism: the operation                                                *)

UsageWord ==
  [MASTER_KEY |-> "master", ISSUING_KEY |-> "issuing",
   KEY_AGREEMENT_KEY |-> "agreement", AUTHENTICATION_KEY |-> "authentication",
   REVOCATION_KEY |-> "revocation", CAPABILITY_DELEGATION_KEY |-> "delegation",
   CAPABILITY_INVOCATION_KEY |-> "invocation", UNKNOWN_KEY |-> "unknown"]
PrismDIDKeyUsage == DOMAIN UsageWord

UsageId(usage, index) == <<UsageWord[usage], index>>

UsageFromId(fragment) ==
  IF fragment[1] \in Range(UsageWord)
  THEN CHOOSE u \in PrismDIDKeyUsage : UsageWord[u] = fragment[1]
  ELSE "UNKNOWN_KEY"

\* A secp256k1 key is given by the coordinates that its bytes hold, no y when they
\* are compressed; any other key as it is.
CreateProtos(key, usage, index) ==
  [id |-> UsageId(usage, index), usage |-> usage, key |-> key,
   compressed |-> key.curve # "secp256k1"]

ProtoService(service) ==
  [id |-> service.id, type |-> FirstType(service.type), endpoints |-> <<service.uri>>]

\* Mutant of CreateOperation: the index runs over all the keys.
CreateOperationRunning(keys, services) ==
  LET others == FlattenSeq([i \in DOMAIN keys |->
        IF keys[i].usage = "MASTER_KEY" THEN <<>>
        ELSE [j \in DOMAIN keys[i].list |-> [key |-> keys[i].list[j], usage |-> keys[i].usage]]])
      master == Filtered(keys, LAMBDA e : e.usage = "MASTER_KEY")[1].list[1]
  IN  [public_keys |-> <<CreateProtos(master, "MASTER_KEY", 0)>> \o
         [i \in DOMAIN others |-> CreateProtos(others[i].key, others[i].usage, 0)],
       services |-> MapSeq(ProtoService, services)]

\* keys lists the entries of the payload, each a usage and its keys; the index
\* counts the keys of a usage.
CreateOperation(keys, services) ==
  LET master == Filtered(keys, LAMBDA e : e.usage = "MASTER_KEY")[1].list[1]
      Protos(e) == [j \in DOMAIN e.list |-> CreateProtos(e.list[j], e.usage, j - 1)]
      others == Filtered(keys, LAMBDA e : e.usage # "MASTER_KEY")
  IN  [public_keys |-> <<CreateProtos(master, "MASTER_KEY", 0)>> \o
         FlattenSeq(MapSeq(Protos, others)),
       services |-> MapSeq(ProtoService, services)]

LongForm(operation) == [method |-> "prism", hash |-> operation, state |-> operation]
ShortForm(did) == [did EXCEPT !.state = Absent]

PrismCreate(keys, services) ==
  IF \/ ~\E i \in DOMAIN keys : keys[i].usage = "MASTER_KEY"
     \/ \E i \in DOMAIN keys : keys[i].usage \notin PrismDIDKeyUsage
  THEN Thrown
  ELSE LongForm(CreateOperation(keys, services))

-----------------------------------------------------------------------------
(* did:prism: resolution                                                   *)

MethodType ==
  [secp256k1 |-> "EcdsaSecp256k1VerificationKey2019",
   Ed25519 |-> "Ed25519VerificationKey2020", X25519 |-> "X25519KeyAgreementKey2020"]

\* The coordinates only serve secp256k1.
MapToPublicKey(proto) ==
  IF proto.key.curve # "secp256k1" /\ ~proto.compressed THEN Thrown ELSE proto.key

PrismMethod(did, proto) ==
  VerificationMethod(Id(did, proto.id), did, MethodType[proto.key.curve], Absent,
                     MapToPublicKey(proto))

\* The usage whose keys each relationship holds; master and revocation keys are
\* in none.
UsageOf ==
  [authentication |-> "AUTHENTICATION_KEY", assertionMethod |-> "ISSUING_KEY",
   keyAgreement |-> "KEY_AGREEMENT_KEY",
   capabilityDelegation |-> "CAPABILITY_DELEGATION_KEY",
   capabilityInvocation |-> "CAPABILITY_INVOCATION_KEY"]

\* The document of the state that a long form carries.
LongFormDocument(did) ==
  LET protos == did.state.public_keys
      Method(p) == PrismMethod(did, p)
      Group(relationship) ==
        PropertyUnlessEmpty(relationship,
          MapSeq(Method, Filtered(protos, LAMBDA p : p.usage = UsageOf[relationship])))
      Decoded(s) == Service(s.id, Type(TRUE, <<s.type>>), s.endpoints[1])
      services == Filtered(did.state.services, LAMBDA s : s.endpoints # <<>>)
  IN  Document(did,
        <<Property("verificationMethod", MapSeq(Method, protos))>>
        \o PropertyUnlessEmpty("service", MapSeq(Decoded, services))
        \o FlattenSeq(MapSeq(Group,
             <<"authentication", "assertionMethod", "keyAgreement",
               "capabilityDelegation", "capabilityInvocation">>)))

\* The hash that is compared is that of the state itself: the one in the DID
\* plays no part.
LongFormResolve(did) ==
  IF \/ did.state = Absent
     \/ \E i \in DOMAIN did.state.public_keys : MapToPublicKey(did.state.public_keys[i]) = Thrown
  THEN Thrown
  ELSE LongFormDocument(did)

\* The answer of the registry, given for the short form, is not ok or is the
\* JSON of a document.
HttpProxyResolve(answer) == IF answer = Absent THEN Thrown ELSE FromJSON(answer)

PrismResolve(did, answer) ==
  IF did.state = Absent THEN HttpProxyResolve(answer) ELSE LongFormResolve(did)

-----------------------------------------------------------------------------
(* did:prism: publication                                                  *)

\* Mutant of KeyFromMethod: the position in the document is not looked at.
KeyFromMethodUnnumbered(method) ==
  CreateProtos(method.publicKeyMultibase, UsageFromId(method.id.fragment), 0)

\* The curve that the type of a method is for; JsonWebKey2020 does not say.
MethodCurve ==
  [EcdsaSecp256k1VerificationKey2019 |-> "secp256k1",
   Ed25519VerificationKey2018 |-> "Ed25519", Ed25519VerificationKey2020 |-> "Ed25519",
   X25519KeyAgreementKey2019 |-> "X25519", X25519KeyAgreementKey2020 |-> "X25519"]
MultibaseBytes(method) == [method.publicKeyMultibase EXCEPT !.curve = MethodCurve[method.type]]

\* Of a JWK only x is read, which is no secp256k1 key; the bytes of a multibase
\* key are taken for a key of the type's curve, as they are.
KeyFromMethod(method) ==
  LET Protos(key) ==
        CreateProtos(key, UsageFromId(method.id.fragment), method.id.fragment[2])
  IN  IF method.id.fragment = Absent THEN Thrown
      ELSE IF method.publicKeyJwk # Absent
        THEN IF method.publicKeyJwk.crv = "secp256k1" THEN Thrown
             ELSE Protos(Key(method.publicKeyJwk.crv, method.publicKeyJwk.x))
      ELSE IF method.publicKeyMultibase # Absent /\ method.type \in DOMAIN MethodCurve
        THEN Protos(MultibaseBytes(method))
      ELSE Thrown

\* The resolved document is turned back into the operation, which any
\* secp256k1 key may sign.
SignedOperation(key, keys, services) ==
  IF Thrown \in Range(keys) THEN Thrown
  ELSE With([public_keys |-> keys, services |-> services], LAMBDA operation :
         [operation |-> operation, signed_with |-> UsageId("MASTER_KEY", 0),
          signature |-> [by |-> key, on |-> operation]])

PrismPublish(key, did, answer) ==
  IF key.curve # "secp256k1" THEN Thrown
  ELSE Then(PrismResolve(did, answer), LAMBDA doc :
         SignedOperation(key, MapSeq(KeyFromMethod, ValuesOf(doc, "verificationMethod")),
                         MapSeq(ProtoService, ValuesOf(doc, "service"))))

-----------------------------------------------------------------------------
(* Signatures                                                              *)

Signature(key, challenge) == [by |-> key, on |-> challenge]

\* X25519 keys have no verify.
Verifies(key, challenge, signature) ==
  key.curve # "X25519" /\ signature = Signature(key, challenge)

\* Mutant of PrismVerify: only the first method is tried.
PrismVerifyFirst(did, answer, challenge, signature) ==
  Then(PrismResolve(did, answer), LAMBDA doc :
    Verifies(Point(ValuesOf(doc, "verificationMethod")[1].publicKeyMultibase), challenge, signature))

\* Every method with a multibase key is tried, whatever it is for and whether its
\* bytes are compressed.
PrismVerify(did, answer, challenge, signature) ==
  Then(PrismResolve(did, answer), LAMBDA doc :
    \E m \in Range(ValuesOf(doc, "verificationMethod")) :
      /\ m.publicKeyMultibase # Absent
      /\ m.type \in DOMAIN MethodCurve
      /\ Verifies(Point(MultibaseBytes(m)), challenge, signature))

-----------------------------------------------------------------------------
(* did:peer                                                                *)

Part(prefix, content) == [prefix |-> prefix, content |-> content]

\* encode() abbreviates DIDCommMessaging wherever the type holds it; decode() only
\* undoes it for a type that is nothing else.
PeerServiceEncode(type, service) ==
  [t |-> IF type \in DOMAIN Abbreviations THEN Abbreviations[type] ELSE type, uri |-> service.uri]

PeerServiceDecode(encoded) ==
  [type |-> IF encoded.t = "dm" THEN "DIDCommMessaging" ELSE encoded.t,
   uri |-> encoded.uri]

\* A single service is no list; a service of no type is passed over.
EncodeService(services) ==
  With(Filtered(services, LAMBDA s : FirstType(s.type) # Absent), LAMBDA typed :
    [list |-> Len(typed) # 1,
     of |-> MapSeq(LAMBDA s : PeerServiceEncode(FirstType(s.type), s), typed)])

\* The encryption keys come first, then the signing keys, then the services,
\* whose encoding may not be one that PeerDID admits; keys of another curve are
\* passed over, and there must be one at least.
PeerDID(keyParts, encoded) ==
  IF keyParts = <<>> \/ \E i \in DOMAIN encoded.of : encoded.of[i].uri \in Unencodable
  THEN Thrown
  ELSE [method |-> "peer", numalgo |-> 2, parts |-> Append(keyParts, Part("S", encoded))]

CreatePeerDID(publicKeys, services) ==
  LET PartsOf(curve, prefix) ==
        MapSeq(LAMBDA k : Part(prefix, k), Filtered(publicKeys, LAMBDA k : k.curve = curve))
  IN  PeerDID(PartsOf("X25519", "E") \o PartsOf("Ed25519", "V"), EncodeService(services))

PeerCreate(keys, services) ==
  IF {"AUTHENTICATION_KEY", "KEY_AGREEMENT_KEY"} \subseteq {keys[i].usage : i \in DOMAIN keys}
  THEN CreatePeerDID(FlattenSeq([i \in DOMAIN keys |-> keys[i].list]), services)
  ELSE Thrown

\* The codec read is not looked at: the part says what the key is for.
DecodedCurve == [E |-> "X25519", V |-> "Ed25519"]

\* A key is known by its position in the DID.
PeerMethod(did, i) ==
  LET id == Id(did, <<"key", i>>)
      part == did.parts[i]
  IN  VerificationMethod(id, did, "JsonWebKey2020",
        [kty |-> "OKP", crv |-> DecodedCurve[part.prefix], x |-> part.content.pair, y |-> Absent, kid |-> id],
        Absent)

DecodeService(did, part) ==
  [i \in DOMAIN part.content.of |->
     LET s == PeerServiceDecode(part.content.of[i])
     IN  Service(Id(did, <<s.type, i - 1>>), Type(TRUE, <<s.type>>), s.uri)]

PeerDocument(did, signing, agreement, services) ==
  Document(did,
    <<Property("verificationMethod", signing \o agreement),
      Property("authentication", signing),
      Property("keyAgreement", agreement),
      Property("service", services)>>)

PartsDocument(did) ==
  LET Positions(prefix) ==
        Filtered([i \in DOMAIN did.parts |-> i], LAMBDA i : did.parts[i].prefix = prefix)
      Methods(prefix) == MapSeq(LAMBDA i : PeerMethod(did, i), Positions(prefix))
      services == MapSeq(LAMBDA i : DecodeService(did, did.parts[i]), Positions("S"))
  IN  PeerDocument(did, Methods("V"), Methods("E"), FlattenSeq(services))

PeerResolve(did) == IF did.numalgo # 2 THEN Thrown ELSE PartsDocument(did)

PeerVerify(did, challenge, signature) ==
  With(Filtered(ValuesOf(PeerResolve(did), "verificationMethod"),
                 LAMBDA m : m.publicKeyJwk.crv = "Ed25519"),
    LAMBDA methods :
      IF methods = <<>> THEN Thrown
      ELSE \E m \in Range(methods) :
             Verifies(Key("Ed25519", m.publicKeyJwk.x), challenge, signature))

-----------------------------------------------------------------------------
(* The facade                                                              *)

Builtin == [prism |-> {"create", "verifySignature", "resolve", "publish"},
            peer |-> {"create", "verifySignature", "resolve"}]

\* Each extra method is its name and the operations it implements: it takes the
\* place of a built-in one of that name.
MethodRecord(extras) ==
  FoldLeft(LAMBDA record, m : [n \in DOMAIN record \cup {m.method} |->
             IF n = m.method THEN m.operations ELSE record[n]], Builtin, extras)

\* updateDID, deactivateDID, publishDID, ...: the method must be registered and
\* implement it.
Supports(registered, method, operation) ==
  method \in DOMAIN registered /\ operation \in registered[method]

Create(method, keys, services) ==
  IF method = "prism" THEN PrismCreate(keys, services) ELSE PeerCreate(keys, services)

ResolveDID(did, answer) ==
  IF did.method = "prism" THEN PrismResolve(did, answer) ELSE PeerResolve(did)

VerifySignature(did, answer, challenge, signature) ==
  IF did.method = "prism" THEN PrismVerify(did, answer, challenge, signature)
  ELSE PeerVerify(did, challenge, signature)
===============================================================================
