------------------------------- MODULE Identity -------------------------------
(***************************************************************************)
(* An identity, from its keys to the proofs made with them: Apollo creates *)
(* keys, which Pluto keeps as rows; Castor creates DIDs of them, resolves  *)
(* them, and publishes prism DIDs to a registry; Pollux signs credentials  *)
(* as a DID; a holder presents them on request, and a verifier judges the  *)
(* presentation by what the registry and the status lists say.             *)
(*                                                                         *)
(* setup says which part of this a behaviour is about: "keys" makes keys   *)
(* in every way, "documents" DIDs of every payload, and "proofs" starts    *)
(* with the DIDs of an issuer and of a holder.                             *)
(***************************************************************************)
EXTENDS Presentations

CONSTANTS
  Origins,      \* what keys are made of: seeds, and random draws
  Options,      \* of the keys an application may ask for
  Draw,         \* what a random key is
  Axes,         \* paths that keys are derived along
  Texts,        \* derivation paths as text
  Numbers,      \* bound: numbers that are encoded
  Payloads,     \* what DIDs are created with: a method, keys and services
  Parties,      \* the payloads of an issuer and a holder that proofs begin with
  Stray,        \* a key that is in no document
  Challenge,    \* what is signed
  Claims,       \* the claims of a credential
  Statuses,     \* the statuses of a credential
  StatusLists,  \* the status lists that a server answers with
  Requests(_),  \* what a verifier may ask for: claims with filters, an issuer
  Frames,       \* what a holder may reveal of an SD-JWT
  MaxKeys,      \* bounds: keys made,
  MaxDIDs,      \* DIDs created,
  MaxTokens,    \* credentials issued,
  MaxRequests   \* and presentations requested

Pairs == Origins \X Seq(Nat)
PublicKeys == [curve : Curves, pair : Pairs]
CompressedKeys == [curve : Curves, pair : Pairs, y : {Absent}]
PrivateKeys ==
  [curve : Curves, pair : Pairs,
   spec : [path : Seq(Nat) \cup {Absent}, index : Nat \cup {Absent}, chainCode : BOOLEAN]]

\* The options of a key, and the paths, have their types.
ASSUME KeysAssumption ==
  /\ Draw \in Origins /\ Axes \subseteq Seq(Nat)
  /\ \A o \in Options :
       /\ o.raw \in Pairs \cup {Absent} /\ o.seed \in Origins \cup {Absent}
       /\ o.index \in Nat \cup {Absent} /\ o.path \in Seq(Nat) \cup {Absent}

\* What DIDs are created of; no type is "dm", as a peer DID writes DIDCommMessaging.
Offered == Payloads \cup {p.issuer : p \in Parties} \cup {p.holder : p \in Parties}
PayloadType ==
  [method : {"prism", "peer"},
   keys : Seq([usage : STRING, list : Seq(PrivateKeys) \ {<<>>}]),
   services : Seq([id : [did : {Absent}, fragment : STRING \X Nat],
                   type : [list : BOOLEAN, words : Seq(STRING \ {"dm"})], uri : STRING])]

ASSUME PayloadsAssumption == Offered \subseteq PayloadType

\* The keys come in a record, by their usage.
ASSUME UsagesAssumption ==
  \A p \in Offered : \A i, j \in DOMAIN p.keys : p.keys[i].usage = p.keys[j].usage => i = j

Credentials == [framed : BOOLEAN, credentialSubject : Claims, credentialStatus : Statuses \cup {Absent}]

\* What is thrown, or absent, is none of the things that may be there instead.
ASSUME OutcomesAssumption ==
  /\ Thrown # Absent
  /\ {Thrown, Absent} \cap (BOOLEAN \cup Pairs \cup PublicKeys \cup CompressedKeys \cup PrivateKeys
       \cup Credentials \cup [public : PublicKeys, private : PrivateKeys \cup {Absent}]) = {}

VARIABLES
  setup,
  made,         \* the keys made, or derived
  wallet,       \* Pluto's DIDs and the keys linked to each, in the order listed
  dids,         \* the DIDs created, with what they were created of
  registry,     \* the documents that prism DIDs were published as
  tokens,       \* the credentials issued, with whether they are for a holder
  messages,     \* Pluto's RequestPresentation messages, in the order listed
  submissions,  \* presentations, each with the request that it answers
  verdicts      \* what the verifier made of them

vars == <<setup, made, wallet, dids, registry, tokens, messages, submissions, verdicts>>

Schemas == <<PrismSchema, DeprecatedSchema>>
Known == {d.did : d \in dids} \cup {ShortForm(d.did) : d \in {e \in dids : e.did.method = "prism"}}

\* What the registry (external) answers when asked for a DID.
Answers == [d \in Known |-> IF d \in DOMAIN registry THEN registry[d].json ELSE Absent]

\* storeDID: the keys are listed in an order of the store.
Listed(did, keys, reversed) ==
  [did |-> did, keys |-> IF reversed THEN Reverse(keys) ELSE keys]

KeysOf(payload) == FlattenSeq([i \in DOMAIN payload.keys |-> payload.keys[i].list])
PublicPayload(payload) ==
  [i \in DOMAIN payload.keys |->
     [payload.keys[i] EXCEPT !.list = MapSeq(PublicKey, payload.keys[i].list)]]

Created(payload) ==
  [did |-> Create(payload.method, PublicPayload(payload), payload.services), of |-> payload]

\* The parties have DIDs, and no claim has the name of a member of the
\* credential that holds it: a verifier looks for a claim there too.
Members == {"issuer", "id", "credentialSubject", "vc", "iss"}
ASSUME PartiesAssumption ==
  \A p \in Parties :
    /\ Created(p.issuer).did # Thrown /\ Created(p.holder).did # Thrown
    /\ \A r \in Requests(Created(p.issuer).did) : DOMAIN r.asked \cap Members = {}
ASSUME ClaimsAssumption == \A c \in Claims : DOMAIN c \cap Members = {}

Init ==
  /\ setup \in {"keys", "documents", "proofs"}
  /\ made = {} /\ registry = <<>> /\ tokens = {} /\ messages = <<>>
  /\ submissions = {} /\ verdicts = {}
  /\ IF setup = "proofs"
     THEN \E parties \in Parties, reversed \in BOOLEAN :
            /\ dids = {Created(parties.issuer), Created(parties.holder)}
            /\ wallet = <<Listed(Created(parties.issuer).did, KeysOf(parties.issuer), FALSE),
                          Listed(Created(parties.holder).did, KeysOf(parties.holder), reversed)>>
     ELSE dids = {} /\ wallet = <<>>

-----------------------------------------------------------------------------
(* Keys                                                                    *)

Make(key) ==
  /\ setup = "keys" /\ Cardinality(made) < MaxKeys
  /\ key # Thrown
  /\ made' = made \cup {key}
  /\ UNCHANGED <<setup, wallet, dids, registry, tokens, messages, submissions, verdicts>>

MakeKey(options) == Make(CreatePrivateKey(options, Draw))
DeriveKey(key, path) == Make(Derive(key, path))

-----------------------------------------------------------------------------
(* DIDs                                                                    *)

\* createDID: what throws leaves nothing behind.
CreateDID(payload) ==
  \E created \in {Created(payload)} :
    /\ setup = "documents" /\ Len(wallet) < MaxDIDs
    /\ created.did # Thrown
    /\ dids' = dids \cup {created}
    /\ wallet' = Append(wallet, Listed(created.did, KeysOf(payload), FALSE))
    /\ UNCHANGED <<setup, made, registry, tokens, messages, submissions, verdicts>>

\* The document that the registry (external) makes of an operation: keys as
\* multibase, compressed or not, or as JWK, which the relationships name; or as
\* JWK which they embed, and which are listed nowhere else.
Forms == {"multibase", "compressed", "jwk", "embedded"}

RegistryMethod(did, proto, form) ==
  LET id == Id(did, proto.id)
      jwk == PublicJWK(proto.key, FALSE)
  IN  IF form \in {"multibase", "compressed"}
      THEN VerificationMethod(id, did, MethodType[proto.key.curve], Absent,
             IF form = "compressed" THEN Compressed(proto.key) ELSE proto.key)
      ELSE VerificationMethod(id, did, "JsonWebKey2020",
             [kty |-> jwk.kty, crv |-> jwk.crv, x |-> jwk.x, y |-> jwk.y, kid |-> id], Absent)

RegistryDocument(did, operation, form) ==
  LET Method(p) == RegistryMethod(did, p, form)
      Entry(p) == IF form = "embedded" THEN [embedded |-> Method(p), ref |-> Absent]
                  ELSE [embedded |-> Absent, ref |-> Id(did, p.id)]
      Group(word) == MapSeq(Entry, Filtered(operation.public_keys, LAMBDA p : p.id[1] = word))
  IN  [id |-> did,
       verificationMethod |->
         IF form = "embedded" THEN <<>> ELSE MapSeq(Method, operation.public_keys),
       authentication |-> Group("authentication"), assertionMethod |-> Group("issuing"),
       keyAgreement |-> Group("agreement"), capabilityDelegation |-> Group("delegation"),
       capabilityInvocation |-> Group("invocation"),
       service |-> MapSeq(LAMBDA s : Service(s.id, Type(TRUE, <<s.type>>), s.endpoints[1]),
                          operation.services)]

\* What is resolved, or answered, is neither thrown nor absent, and no DID is
\* what is signed.
ASSUME DocumentsAssumption ==
  \A p \in Offered :
    LET did == Created(p).did
        short == ShortForm(did)
        Method(i, form) == RegistryMethod(short, did.hash.public_keys[i], form)
    IN  /\ did # Thrown => Challenge # did
        /\ did # Thrown /\ did.method = "prism" =>
             /\ did.state # Absent /\ LongFormDocument(did) # Thrown
             /\ \A form \in Forms :
                  LET json == RegistryDocument(short, did.hash, form)
                  IN  /\ json # Absent /\ FromJSON(json) # Thrown
                      /\ \A i \in DOMAIN did.hash.public_keys :
                           /\ Method(i, form) # Absent
                           /\ form \in {"jwk", "embedded"} => Method(i, form).publicKeyJwk # Absent
        /\ did # Thrown /\ did.method = "peer" =>
             /\ PartsDocument(did) # Thrown
             /\ \A i \in 1 .. Len(did.parts) - 1 :
                  /\ PeerMethod(did, i).publicKeyJwk # Absent
                  /\ CloneWithNewId(PeerMethod(did, i), Challenge).publicKeyJwk # Absent
             /\ \A s \in Range(p.services) : s.type.words # <<>> => FirstType(s.type) # Absent

\* The registry (external) knows a DID by its hash: what is published is the
\* document that it gives from now on, if that is the hash of it.
Registered(short, operation, form, read) ==
  IF operation = short.hash
  THEN [json |-> RegistryDocument(short, operation, form), form |-> form,
        operation |-> operation, read |-> read]
  ELSE [json |-> Answers[short], form |-> read, operation |-> operation, read |-> read]

\* publishDID, with the master key; it is published again in its short form, of
\* what the registry is read to say.
Publish(d, form, again) ==
  /\ setup = "documents" /\ d.did.method = "prism"
  /\ \E short \in {ShortForm(d.did)} :
       /\ again <=> short \in DOMAIN registry
       /\ \E published \in {PrismPublish(PublicKey(KeysOf(d.of)[1]),
                                          IF again THEN short ELSE d.did, Answers[short])} :
            /\ published # Thrown
            /\ registry' = [s \in DOMAIN registry \cup {short} |->
                 IF s = short
                 THEN Registered(short, published.operation, form,
                                 IF again THEN registry[short].form ELSE Absent)
                 ELSE registry[s]]
  /\ UNCHANGED <<setup, made, wallet, dids, tokens, messages, submissions, verdicts>>

-----------------------------------------------------------------------------
(* Credentials                                                             *)

\* HandleRequestCredential.createJWT: the vc has a subject, and no context or type.
OwnJWT(issuer, holder, claims) ==
  CreateJWT(wallet, Answers[issuer], issuer,
    Payload(issuer, holder, Credential(FALSE, claims, Absent), Absent, <<>>, {}),
    Absent, "ISSUING_KEY")

\* HandleRequestCredential.createSDJWT: every claim may be disclosed.
OwnSDJWT(issuer, holder, claims) ==
  CreateSDJWT(wallet, Answers[issuer], issuer,
    Payload(issuer, holder, Absent, Absent, claims, {}), Absent, "ISSUING_KEY")

\* An issuer that frames its credentials and gives them a status (external), by
\* the same JWT module.
FramedJWT(issuer, holder, claims, status, given) ==
  CreateJWT(wallet, Answers[issuer], issuer,
    Payload(issuer, holder, Credential(TRUE, claims, status), Absent, <<>>, {}),
    given, "ISSUING_KEY")

Issue(token, own) ==
  /\ setup = "proofs" /\ Cardinality(tokens) < MaxTokens
  /\ token # Thrown
  /\ tokens' = tokens \cup {[token |-> token, own |-> own]}
  /\ UNCHANGED <<setup, made, wallet, dids, registry, messages, submissions, verdicts>>

IssueOwn(issuer, holder, claims) ==
  \/ Issue(OwnJWT(issuer, holder, claims), TRUE)
  \/ Issue(OwnSDJWT(issuer, holder, claims), TRUE)
IssueFramed(issuer, holder, claims, status, given) ==
  Issue(FramedJWT(issuer, holder, claims, status, given), FALSE)

-----------------------------------------------------------------------------
(* Presentations                                                           *)

\* The verifier's request, of a thread, is stored when it is sent.
RequestPresentation(thid, request) ==
  /\ setup = "proofs" /\ tokens # {} /\ Len(messages) < MaxRequests
  /\ messages' = Append(messages,
       [thid |-> thid, format |-> RequestFormat("prism/jwt"),
        asked |-> request.asked, issuer |-> request.issuer,
        definition |-> CreatePresentationDefinition(Len(messages), request.asked, request.issuer)])
  /\ UNCHANGED <<setup, made, wallet, dids, registry, tokens, submissions, verdicts>>

\* What the holder has parsed: a token that does not parse is not held.
Held(token) == IF token.form = "sd_jwt" THEN SDJWTCredential(token) ELSE JWTCredential(token)

CreatePresentation(token, i, frame, oea) ==
  LET Presented(credential) ==
        IF oea THEN CreateOEAPresentation(wallet, Answers[credential.sub], credential, frame)
        ELSE CreatePresentationFor(wallet, Answers[credential.sub], credential,
                                   messages[i].definition, frame)
  IN  /\ submissions = {}
      /\ \E presentation \in {Then(Held(token), Presented)} \ {Thrown} :
           submissions' = {[submission |-> presentation, thid |-> messages[i].thid, request |-> i,
                            token |-> token, frame |-> frame]}
      /\ UNCHANGED <<setup, made, wallet, dids, registry, tokens, messages, verdicts>>

Verify(s) ==
  /\ verdicts' = verdicts \cup {[of |-> s, verdict |->
       HandlePresentation(messages, s.submission, s.thid, Answers, StatusLists)]}
  /\ UNCHANGED <<setup, made, wallet, dids, registry, tokens, messages, submissions>>

Next ==
  \/ \E o \in Options : MakeKey(o)
  \/ \E k \in made, path \in Axes : DeriveKey(k, path)
  \/ \E p \in Payloads : CreateDID(p)
  \/ \E d \in dids, form \in Forms, again \in BOOLEAN : Publish(d, form, again)
  \/ setup = "proofs" /\ \E claims \in Claims, holder \in {wallet[2].did} :
       \/ IssueOwn(wallet[1].did, holder, claims)
       \/ \E status \in Statuses, given \in {Absent, Stray} :
            IssueFramed(wallet[1].did, holder, claims, status, given)
  \/ setup = "proofs" /\ \E thid \in {1, 2}, request \in Requests(wallet[1].did) : RequestPresentation(thid, request)
  \/ \E t \in tokens, i \in DOMAIN messages, frame \in Frames :
       /\ t.token.form = "jwt" => frame = Absent
       /\ \/ CreatePresentation(t.token, i, frame, FALSE)
          \/ i = 1 /\ CreatePresentation(t.token, i, frame, TRUE)
  \/ \E s \in submissions : Verify(s)

Spec == Init /\ [][Next]_vars
-----------------------------------------------------------------------------
(* Properties                                                              *)

\* Pluto's rows are addressed by the DIDs and the keys of the wallet, and what
\* is submitted, judged or published belongs to what was made before.
TypeOK ==
  /\ setup \in {"keys", "documents", "proofs"}
  /\ \A k \in made : k.curve \in Curves /\ k.spec.chainCode \in BOOLEAN
  /\ {row.did : row \in Range(wallet)} = {d.did : d \in dids}
  /\ DOMAIN registry \subseteq Known
  /\ \A t \in tokens : t.token.form \in {"jwt", "sd_jwt"} /\ t.own \in BOOLEAN
  /\ \A s \in submissions : s.request \in DOMAIN messages
  /\ \A v \in verdicts : v.of \in submissions /\ v.verdict \in {TRUE, FALSE, Thrown}

\* What a key is stored as gives the same key back: it derives the same keys, and
\* an old row's index still counts; its JWK and its PEM give its bytes back, to
\* the class it was exported from (KeyRepository, restorePrivateKey, FromJWK, PEM).
KeysSurviveStorage ==
  \A key \in made :
    LET restored == KeyFromRow(KeyRow(key))
        old == KeyFromRow(OldKeyRow(key))
        imported == FromJWK(PrivateJWK(key))
    IN  /\ KeyRows({KeyRow(key)}) = {KeyRow(key)}
        /\ restored = key
        /\ \A path \in Axes : Derive(restored, path) = Derive(key, path)
        /\ old.pair = key.pair /\ old.spec.index = key.spec.index
        /\ imported.public = PublicKey(key) /\ imported.private.pair = key.pair
        /\ FromPEM(ToPEM(key, "priv"), key.curve, "priv") = key.pair
        /\ FromPEM(ToPEM(key, "priv"), key.curve, "pub") = Thrown

\* What is left of a number in a signed word.
WordOf(n) ==
  CHOOSE w \in -(2 ^ (WordBits - 1)) .. 2 ^ (WordBits - 1) - 1 : (n - w) % 2 ^ WordBits = 0

\* A path that is read keeps the numbers of its text, if they fit, all hardened,
\* and is read again from its own text; what a codec or a bit is written as is read
\* as the same; and a number by the same bytes, as itself if it is below the sign of
\* a word and as what a signed word keeps of it if not, although the comments speak
\* of UInt64 (DerivationPath, VarInt, MultiCodec, Bitstring).
EncodingsRoundTrip == setup = "keys" =>
  /\ \A text \in Texts :
       LET paths == FromPath(text, Schemas)
       IN  IF \/ text.root # "m" \/ Len(text.axes) \notin {3, 5}
              \/ \E i \in DOMAIN text.axes : text.axes[i].n = Absent
           THEN paths = Thrown
           ELSE /\ \A i \in DOMAIN text.axes :
                     text.axes[i].n < AxisModulus => paths[i] = text.axes[i].n
                /\ \A i \in DOMAIN paths : PathText(paths, Schemas).axes[i].hardened
                /\ FromPath(PathText(paths, Schemas), Schemas) = paths
                /\ PathIndex(paths, Schemas) = paths[Len(paths)]
  /\ \A m, n \in Numbers :
       LET read == UVarInt(PutUVarInt(m) \o PutUVarInt(n))
       IN  /\ read = <<WordOf(m), Len(PutUVarInt(m))>>
           /\ m < 2 ^ (WordBits - 1) => read[1] = m
  /\ \A type \in DOMAIN Codec, n \in Numbers :
       WithoutCodec(WithCodec(type, PutUVarInt(n))) = PutUVarInt(n)
  /\ \A i, j \in 0 .. 2 * ByteBits - 1 : BitOf(SetBit(<<0, 0>>, i), j) = (i = j)

\* The relationships and the usages of keys that they are for.
Purposes ==
  {<<"authentication", "AUTHENTICATION_KEY">>, <<"assertionMethod", "ISSUING_KEY">>,
   <<"keyAgreement", "KEY_AGREEMENT_KEY">>,
   <<"capabilityDelegation", "CAPABILITY_DELEGATION_KEY">>,
   <<"capabilityInvocation", "CAPABILITY_INVOCATION_KEY">>}

KeysFor(payload, usage) ==
  FlattenSeq([i \in DOMAIN payload.keys |->
    IF payload.keys[i].usage = usage THEN MapSeq(PublicKey, payload.keys[i].list) ELSE <<>>])
Of(keys, curve) == Filtered(keys, LAMBDA k : k.curve = curve)
DocumentKeys(doc, kind) == MapSeq(PKInstance, ValuesOf(doc, kind))
Typed(services) == Filtered(services, LAMBDA s : s.type.words # <<>>)

\* A type that is a word, not a list, is cut to its first letter; those that are
\* abbreviated are not given back.
Serves(served, services, abbreviated) ==
  /\ Len(served) = Len(services)
  /\ \A i \in DOMAIN services :
       /\ served[i].uri = services[i].uri
       /\ /\ services[i].type.list /\ services[i].type.words # <<>>
          /\ services[i].type.words[1] \notin abbreviated
          => served[i].type.words[1] = services[i].type.words[1]

HasPurposes(doc, payload) ==
  \A purpose \in Purposes : DocumentKeys(doc, purpose[1]) = KeysFor(payload, purpose[2])

ListsMethods(doc, payload) ==
  /\ KeysFor(payload, "MASTER_KEY")[1] \in Range(DocumentKeys(doc, "verificationMethod"))
  /\ \A r \in Relationships : Range(ValuesOf(doc, r)) \subseteq Range(ValuesOf(doc, "verificationMethod"))
  /\ IsInjective(MapSeq(LAMBDA m : m.id, ValuesOf(doc, "verificationMethod")))

\* A DID that was created resolves to a document with each key under the
\* relationship of its usage and under no other, each method under an id of its
\* own, and the services with their endpoint and their type, unless it holds
\* DIDCommMessaging and more and the DID is a peer's; under another DID the
\* document keeps them (createDID, the resolvers, cloneWithNewDID).
ResolvedIsCreated ==
  \A d \in dids :
    LET doc == ResolveDID(d.did, Absent)
        other == CloneWithNewDID(doc, Challenge)
        keys == MapSeq(PublicKey, KeysOf(d.of))
    IN  /\ doc # Thrown
        /\ IF d.did.method = "prism"
           THEN /\ HasPurposes(doc, d.of) /\ ListsMethods(doc, d.of)
                /\ Serves(ValuesOf(doc, "service"), d.of.services, {})
           ELSE /\ Serves(ValuesOf(doc, "service"), Typed(d.of.services),
                          DOMAIN Abbreviations \ {"DIDCommMessaging"})
                /\ DocumentKeys(doc, "authentication") = Of(keys, "Ed25519")
                /\ DocumentKeys(doc, "keyAgreement") = Of(keys, "X25519")
                /\ IsInjective(MapSeq(LAMBDA m : m.id, ValuesOf(doc, "verificationMethod")))
        /\ \A kind \in Kinds :
             /\ kind # "service" => DocumentKeys(other, kind) = DocumentKeys(doc, kind)
             /\ \A v \in Range(ValuesOf(other, kind)) : v.id.did \in {Challenge, Absent}

\* What is published for a prism DID is the operation that the DID is the hash
\* of, when it is made of its long form, or of a short form that the registry gives
\* with its keys as multibase, uncompressed: of compressed bytes, or of embedded
\* keys, another operation is made.  Whatever was published, and in every form, what
\* the registry answers for the short form resolves to the keys that the DID was
\* created with, each under its relationship, and to its services; when it lists
\* its methods, the master key is one, and no two have an id in common (publishDID,
\* getPrismDIDKeyFromVerificationMethod, createProtos, DIDDocument.fromJSON).
PublishedIsCreated ==
  \A d \in {e \in dids : e.did.method = "prism" /\ ShortForm(e.did) \in DOMAIN registry} :
    LET short == ShortForm(d.did)
        entry == registry[short]
        doc == ResolveDID(short, entry.json)
    IN  /\ entry.read \notin {"compressed", "embedded"} =>
             /\ entry.operation.public_keys = d.did.hash.public_keys
             /\ entry.operation.services = d.did.hash.services
        /\ HasPurposes(doc, d.of)
        /\ Serves(ValuesOf(doc, "service"), d.of.services, {})
        /\ entry.form # "embedded" => ListsMethods(doc, d.of)

\* A signature verifies for a DID exactly when one of the keys that the DID was
\* created with made it; for a short form, when the registry gives its keys as
\* multibase, compressed or not, and never otherwise (verifySignature).
SignaturesAreOfTheDID ==
  \A d \in dids :
    LET keys == IF d.did.method = "peer" THEN Of(MapSeq(PublicKey, KeysOf(d.of)), "Ed25519")
                ELSE DocumentKeys(ResolveDID(d.did, Absent), "verificationMethod")
        short == IF d.did.method = "prism" THEN ShortForm(d.did) ELSE d.did
        candidates == {PublicKey(Stray)} \cup UNION {Range(MapSeq(PublicKey, KeysOf(p))) : p \in Payloads}
    IN  \A k \in candidates :
          LET signature == Signature(k, Challenge)
          IN  /\ VerifySignature(d.did, Absent, Challenge, signature) = TRUE
                   <=> k \in Range(keys) /\ k.curve # "X25519"
              /\ VerifySignature(d.did, Absent, d.did, signature) # TRUE
              /\ d.did.method = "prism" /\ short \in DOMAIN registry =>
                   (VerifySignature(short, registry[short].json, Challenge, signature) = TRUE
                      <=> /\ k \in Range(keys) /\ k.curve # "X25519"
                          /\ registry[short].form \in {"multibase", "compressed"})

\* A credential verifies for the DID that it says issued it, if it parses and a
\* key of that DID signed it, and for no other; the key id it carries names the
\* issuing key that signed it.  A presentation made of a JWT verifies for the
\* credential's subject; an authentication key signed it if it is OEA's, but DIF
\* takes the first key listed, and gives a key id only if it authenticates
\* (CreateJWT, CreateSDJWT, JWT.verify, SDJWT.verify, PresentationRequest).
CredentialsAreOfTheirIssuer ==
  /\ \A s \in submissions : s.submission.presentation.form = "jwt" =>
       LET vp == s.submission.presentation
           subject == s.token.payload.sub
       IN  /\ JWTVerify(vp, subject, Absent, Answers[subject])
           /\ (s.submission.protocol = "oea" \/ vp.kid # Absent) <=>
                \E m \in Range(ValuesOf(ResolveDID(subject, Absent), "authentication")) :
                  m.id = vp.kid /\ PKInstance(m) = vp.signature.by
  /\ \A t \in tokens, d \in dids :
    LET token == t.token
        issuing == ValuesOf(ResolveDID(token.payload.iss, Answers[token.payload.iss]), "assertionMethod")
        backed == /\ token.payload.iss = d.did
                  /\ token.signature.by \in Range(MapSeq(PublicKey, KeysOf(d.of)))
    IN  /\ token.form = "jwt" =>
             (JWTVerify(token, d.did, Absent, Answers[d.did]) <=> backed /\ JWTCredential(token) # Thrown)
        /\ token.form = "sd_jwt" => ((SDJWTVerify(token, d.did, Answers[d.did]) = TRUE) <=> backed)
        /\ token.kid # Absent =>
             \E m \in Range(issuing) : m.id = token.kid /\ PKInstance(m) = token.signature.by

Asked(s) == messages[CHOOSE i \in DOMAIN messages :
                       messages[i].thid = s.thid /\ \A j \in 1 .. i - 1 : messages[j].thid # s.thid]
ClaimsOf(token) == IF token.form = "jwt" THEN token.payload.vc.credentialSubject ELSE token.payload.claims
Satisfied(claims, asked) ==
  \A n \in DOMAIN asked :
    asked[n].kind # "const" /\ n \in DOMAIN claims /\ claims[n] \in asked[n].passes
RevokedAt(token) ==
  /\ token.form = "jwt" /\ token.payload.vc.credentialStatus # Absent
  /\ LET status == token.payload.vc.credentialStatus
     IN  BitOf(StatusLists[status.list].bits, status.index) = TRUE
HasGoodStatus(token) ==
  token.form = "jwt" => token.payload.vc.credentialStatus \in {Absent} \cup
    {status \in Statuses : status # Absent /\ status.type = "StatusList2021Entry"
                           /\ StatusLists[status.list].httpStatus = 200}

Backed(s) ==
  LET token == s.token
      asked == Asked(s)
  IN  /\ \E d \in dids : /\ d.did = token.payload.iss
                         /\ token.signature.by \in Range(MapSeq(PublicKey, KeysOf(d.of)))
      /\ asked.issuer \in {Absent, token.payload.iss}
      /\ Satisfied(ClaimsOf(token), asked.asked)
      /\ ~RevokedAt(token)
      /\ s.submission.format = "jwt_vp" =>
           s.submission.presentation.payload.iss = token.payload.sub

\* A presentation is only accepted if a key of the DID that the credential says
\* issued it signed it, the credential is for the holder who presents it, it has
\* the claims that the request asks for, and its status list does not revoke it
\* (PresentationVerify, HandlePresentation).
AcceptedIsBacked == \A v \in verdicts : v.verdict = TRUE => Backed(v.of)

\* A holder who answers the request of a thread with a credential that has what
\* is asked for, is not revoked and is revealed as far as asked is accepted,
\* whatever the order the store lists the holder's keys in, unless an earlier
\* request has the same thread or asks for a const (PresentationRequest,
\* PresentationVerify).
HonestIsAccepted ==
  \A v \in verdicts :
    LET token == v.of.token
        request == messages[v.of.request]
    IN  /\ request = Asked(v.of) /\ v.of.submission.protocol = "dif"
        /\ request.issuer \in {Absent, token.payload.iss}
        /\ token.signature.by # PublicKey(Stray)
        /\ Satisfied(ClaimsOf(token), request.asked)
        /\ HasGoodStatus(token) /\ ~RevokedAt(token)
        /\ token.form = "sd_jwt" =>
             v.of.frame = Absent \/ DOMAIN request.asked \subseteq v.of.frame
        => v.verdict = TRUE

\* A credential that an agent issues on a request is one that a holder's agent
\* reads: "A Issuer will receive a Credential request froma  holder and must
\* issue the credential" (HandleRequestCredential).
OwnCredentialsAreReadable == \A t \in tokens : t.own => Held(t.token) # Thrown
===============================================================================
