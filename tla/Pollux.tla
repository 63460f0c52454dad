-------------------------------- MODULE Pollux --------------------------------
(***************************************************************************)
(* Pollux: the credentials and presentations that are signed as JWT or     *)
(* SD-JWT with a DID's key, parsed, and verified against the DID's         *)
(* document.                                                               *)
(*                                                                         *)
(* A token is its payload, the key id of its header, and a signature of    *)
(* the payload.  The claims of an SD-JWT are those of its payload, of      *)
(* which its disclosures reveal some.                                      *)
(***************************************************************************)
EXTENDS Apollo

-----------------------------------------------------------------------------
(* Signing                                                                 *)

\* A wallet's rows: the keys of each DID in the order they are listed, and the
\* prism DIDs.  The text of a long form holds that of its short form.
IncludesText(did, other) == other = did \/ (did.method = "prism" /\ other = ShortForm(did))

KeysOfRows(wallet, owners) ==
  FlattenSeq(MapSeq(LAMBDA row : IF row.did \in owners THEN row.keys ELSE <<>>, wallet))
KeysOfDID(wallet, did) == KeysOfRows(wallet, {did})
PrismDIDsIncluding(wallet, did) ==
  {d \in {row.did : row \in Range(wallet)} : d.method = "prism" /\ IncludesText(d, did)}

KeysForSigning(wallet, did, given) ==
  IF given # Absent THEN <<given>>
  ELSE IF KeysOfDID(wallet, did) # <<>> THEN KeysOfDID(wallet, did)
  ELSE KeysOfRows(wallet, PrismDIDsIncluding(wallet, did))

\* A multibase method is compared by the encoding, which is the same for equal
\* bytes; a JWK by its members.
IsMethodOf(method, key) ==
  IF method.publicKeyMultibase # Absent THEN method.publicKeyMultibase = PublicKey(key)
  ELSE /\ method.publicKeyJwk # Absent
       /\ \A member \in {"kty", "crv", "x"} :
            PublicJWK(PublicKey(key), FALSE)[member] = method.publicKeyJwk[member]

\* For each method of the purpose, the first key that is its own.
MatchKeys(keys, methods) ==
  LET Matched(method) ==
        With(SelectInSeq(keys, LAMBDA k : IsMethodOf(method, k)), LAMBDA i :
          IF i = 0 THEN <<>> ELSE <<[kid |-> method.id, key |-> keys[i]]>>)
  IN  FlattenSeq(MapSeq(Matched, methods))

FindSigningKeys(wallet, answer, did, given, purpose) ==
  LET group == IF purpose = "AUTHENTICATION_KEY" THEN "authentication" ELSE "assertionMethod"
  IN  Then(ResolveDID(did, answer), LAMBDA doc :
        MatchKeys(KeysForSigning(wallet, did, given), ValuesOf(doc, group)))

Token(form, payload, kid, key, disclosed) ==
  [form |-> form, payload |-> payload, kid |-> kid,
   signature |-> Signature(PublicKey(key), payload), disclosed |-> disclosed]

\* A given key that the document does not have signs too, with no key id.
CreateJWT(wallet, answer, did, payload, given, purpose) ==
  Then(FindSigningKeys(wallet, answer, did, given, purpose), LAMBDA found :
    LET key == IF found # <<>> THEN found[1].key ELSE given
        kid == IF found # <<>> THEN found[1].kid ELSE Absent
    IN  IF key = Absent \/ ~IsSignable(key) THEN Thrown
        ELSE Token("jwt", [payload EXCEPT !.iss = did], kid, key, {}))

CreateSDJWT(wallet, answer, did, payload, given, purpose) ==
  Then(FindSigningKeys(wallet, answer, did, given, purpose), LAMBDA found :
    IF found = <<>> \/ ~IsSignable(found[1].key) THEN Thrown
    ELSE Token("sd_jwt", payload, found[1].kid, found[1].key, DOMAIN payload.claims))

-----------------------------------------------------------------------------
(* Parsing                                                                 *)

\* iss and sub are DIDs; vc and vp are parts of a JWT, claims of an SD-JWT;
\* illTyped are the registered names whose value is of the wrong type.
Payload(iss, sub, vc, vp, claims, illTyped) ==
  [iss |-> iss, sub |-> sub, vc |-> vc, vp |-> vp, claims |-> claims, illTyped |-> illTyped]

\* A W3C credential: does it have a context and a type, its subject, its status.
Credential(framed, subject, status) ==
  [framed |-> framed, credentialSubject |-> subject, credentialStatus |-> status]
Presentation(tokens) == [framed |-> TRUE, verifiableCredential |-> tokens]

CheckedOfVC == {"iss", "nbf", "exp", "sub", "aud", "revoked"}
CheckedOfVP == {"iss", "aud", "nonce", "nbf", "exp"}

\* TRUE for a credential, FALSE for a presentation.
IsCredentialPayload(payload) ==
  IF payload.vc # Absent
  THEN IF \/ payload.illTyped \cap CheckedOfVC # {}
          \/ ~payload.vc.framed \/ payload.vc.credentialSubject = Absent
       THEN Thrown ELSE TRUE
  ELSE IF \/ payload.illTyped \cap CheckedOfVP # {}
          \/ payload.vp # Absent /\ (~payload.vp.framed \/ payload.vp.verifiableCredential = Absent)
       THEN Thrown ELSE FALSE

\* fromJWS and the constructor: what is kept, with the token as the id.  A
\* presentation keeps no subject.
JWTCredential(token) ==
  Then(IsCredentialPayload(token.payload), LAMBDA is :
    [id |-> token, isCredential |-> is, issuer |-> token.payload.iss,
     sub |-> IF is THEN token.payload.sub ELSE Absent,
     vc |-> token.payload.vc, vp |-> IF is THEN Absent ELSE token.payload.vp])

Subject(credential) == IF credential.isCredential THEN credential.sub ELSE Thrown

\* presentation(): of a credential, by its token.
PresentationOf(credential) ==
  IF credential.isCredential THEN Presentation(<<credential.id>>) ELSE Thrown

\* sub is a disclosure, or a claim of the payload.
SDJWTCredential(token) ==
  [id |-> token, issuer |-> token.payload.iss, sub |-> token.payload.sub,
   claims |-> token.payload.claims, disclosed |-> token.disclosed]

\* present() of the SD-JWT library (external): the frame says which claims the
\* disclosures still reveal; without one, all of them.
Present(token, frame) ==
  [token EXCEPT !.disclosed = IF frame = Absent THEN @ ELSE @ \cap frame]

\* reveal(): the claims that a verifier sees.
Reveal(credential) ==
  [n \in credential.disclosed \cap DOMAIN credential.claims |-> credential.claims[n]]

-----------------------------------------------------------------------------
(* Verifying                                                               *)

\* ResolveDID of the tokens: the first list of methods, each with its multibase
\* or, as a JsonWebKey2020, its JWK.
FirstMethods(doc) ==
  With(SelectInSeq(doc.coreProperties, LAMBDA p : p.kind = "verificationMethod"), LAMBDA i :
    IF i = 0 THEN <<>> ELSE doc.coreProperties[i].values)

Normal(method) ==
  IF method.publicKeyMultibase # Absent THEN [method EXCEPT !.publicKeyJwk = Absent]
  ELSE IF method.publicKeyJwk # Absent THEN [method EXCEPT !.type = "JsonWebKey2020"]
  ELSE Thrown

MethodsForTokens(did, answer) ==
  Then(ResolveDID(did, answer), LAMBDA doc :
    With(MapSeq(Normal, FirstMethods(doc)), LAMBDA methods :
      IF Thrown \in Range(methods) THEN Thrown ELSE methods))

\* Thrown when the method holds no key, FALSE when it is of no known type.
SignedBy(method, token) ==
  Then(PKInstance(method), LAMBDA pk :
    pk # Absent /\ Verifies(pk, token.payload, token.signature))

IsSigned(token, methods) ==
  methods # Thrown /\ \E m \in Range(methods) : SignedBy(m, token) = TRUE

\* Mutant of JWTVerify: whose token it is is not looked at.
JWTVerifyAnyIssuer(token, issuerDID, holderDID, answer) ==
  IsSigned(token, MethodsForTokens(issuerDID, answer))

\* Any method will do; whatever fails, the token is just not verified.
JWTVerify(token, issuerDID, holderDID, answer) ==
  With(JWTCredential(token), LAMBDA credential :
    /\ credential # Thrown
    /\ credential.issuer = issuerDID
    /\ credential.isCredential /\ holderDID # Absent => credential.sub = holderDID
    /\ IsSigned(token, MethodsForTokens(issuerDID, answer)))

\* One method after the other, until one throws or has signed.
FirstAnswer(answers) ==
  With(SelectInSeq(answers, LAMBDA a : a # FALSE), LAMBDA i :
    IF i = 0 THEN FALSE ELSE answers[i])

\* Only the method that the key id names, when there is one.
SDJWTVerify(token, issuerDID, answer) ==
  IF token.payload.iss \notin {Absent, issuerDID} THEN Thrown
  ELSE Then(MethodsForTokens(issuerDID, answer), LAMBDA methods :
         FirstAnswer(MapSeq(LAMBDA m : SignedBy(m, token),
           Filtered(methods, LAMBDA m : token.kid # Absent => m.id = token.kid))))
===============================================================================
