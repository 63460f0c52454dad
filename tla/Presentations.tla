----------------------------- MODULE Presentations -----------------------------
(***************************************************************************)
(* Presentations: the request for one, the holder's answer and the         *)
(* verifier's verdict, in the DIF format and in the older one of OEA, and  *)
(* whether a credential is revoked.                                        *)
(*                                                                         *)
(* What a path leads through is a tree: a function of member names, or a   *)
(* leaf.  A filter is its kind and the values that it lets pass.           *)
(***************************************************************************)
EXTENDS Pollux

CONSTANT ByteBits   \* the bits of a byte: 8 in the code

ASSUME ByteIsNotEmpty == ByteBits \in Nat \ {0}

-----------------------------------------------------------------------------
(* Paths                                                                   *)

Leaf(value) == [leaf |-> value]
Branches(f) == [n \in DOMAIN f |-> Leaf(f[n])]

\* DescriptorPath: the members one after the other, from the root.
GetValue(tree, path) ==
  LET node[i \in 0 .. Len(path)] ==
        IF i = 0 THEN tree
        ELSE IF node[i - 1] # Absent /\ path[i] \in DOMAIN node[i - 1] THEN node[i - 1][path[i]]
        ELSE Absent
  IN  node[Len(path)]

\* The members of a JWTCredential, its getters included, that a path may name.
TreeOfJWT(credential) ==
  IF credential.isCredential
  THEN [issuer |-> Leaf(credential.issuer), id |-> Leaf(credential.id),
        credentialSubject |-> Branches(credential.vc.credentialSubject),
        vc |-> [credentialSubject |-> Branches(credential.vc.credentialSubject)]]
  ELSE [issuer |-> Leaf(credential.issuer), id |-> Leaf(credential.id),
        vp |-> IF credential.vp = Absent THEN <<>>
               ELSE [verifiableCredential |->
                       IF credential.vp.verifiableCredential = <<>> THEN <<>>
                       ELSE [n \in {"0"} |-> Leaf(credential.vp.verifiableCredential[1])]]]

\* An SD-JWT is what it reveals, the registered claims with it.
TreeOfSDJWT(credential) ==
  LET revealed == Reveal(credential)
  IN  [n \in DOMAIN revealed \cup {"iss"} |->
         Leaf(IF n = "iss" THEN credential.issuer ELSE revealed[n])]

-----------------------------------------------------------------------------
(* Revocation                                                              *)

\* Bitstring.get and set: from the left of each byte.
BitOf(bytes, position) ==
  IF position >= ByteBits * Len(bytes) THEN Thrown
  ELSE (bytes[(position \div ByteBits) + 1] \div 2 ^ (ByteBits - 1 - (position % ByteBits))) % 2 = 1

SetBit(bytes, position) ==
  IF position >= ByteBits * Len(bytes) THEN Thrown
  ELSE IF BitOf(bytes, position) THEN bytes
  ELSE [bytes EXCEPT ![(position \div ByteBits) + 1] = @ + 2 ^ (ByteBits - 1 - (position % ByteBits))]

\* A status list as the server gives it (external): its subject's type, the
\* proof with the method embedded in it, and the list.
ProofHolds(list) ==
  LET pk == CreatePublicKey(list.proof.jwk.crv, Absent, list.proof.jwk.x, list.proof.jwk.y)
  IN  /\ list.proof.type = "EcdsaSecp256k1Signature2019"
      /\ list.proof.methodType = "EcdsaSecp256k1VerificationKey2019"
      /\ list.proof.jwk.kty = "EC" /\ list.proof.jwk.crv = "secp256k1"
      /\ list.proof.parts = 3
      /\ pk # Thrown /\ Verifies(pk, list.bits, list.proof.signature)

\* Mutant of IsCredentialRevoked: a list that cannot be had revokes nothing.
IsCredentialRevokedIfListed(credential, lists) ==
  LET status == credential.vc.credentialStatus
  IN  IF status = Absent THEN FALSE
      ELSE IF lists[status.list].httpStatus # 200 THEN FALSE
      ELSE BitOf(lists[status.list].bits, status.index)

\* A credential with no status is not revocable; whatever is wrong with the
\* status or its list throws.
IsCredentialRevoked(credential, lists) ==
  LET status == IF credential.vc = Absent THEN Absent ELSE credential.vc.credentialStatus
      list == lists[status.list]
  IN  IF status = Absent THEN FALSE
      ELSE IF status.type # "StatusList2021Entry" THEN Thrown
      ELSE IF list.httpStatus # 200 THEN Thrown
      ELSE IF list.type # "StatusList2021" \/ ~ProofHolds(list) THEN Thrown
      ELSE BitOf(list.bits, status.index)

-----------------------------------------------------------------------------
(* The request                                                             *)

Filter(kind, passes) == [kind |-> kind, passes |-> passes]
Field(paths, filter) == [paths |-> paths, filter |-> filter, optional |-> FALSE]

\* Mutant of CreatePresentationDefinition: a claim is only looked for in a vc.
CreatePresentationDefinitionOfVC(id, claims, issuer) ==
  [id |-> id,
   input_descriptors |->
     <<[id |-> id, limit_disclosure |-> "required",
        fields |-> {Field({<<"vc", "credentialSubject", n>>}, claims[n]) : n \in DOMAIN claims}]>>]

\* The three places a claim may be at; the issuer is one more field.
CreatePresentationDefinition(id, claims, issuer) ==
  LET OfClaim(n) == Field({<<"vc", "credentialSubject", n>>, <<"credentialSubject", n>>, <<n>>}, claims[n])
      OfIssuer == Field({<<"vc", "issuer">>, <<"issuer">>, <<"iss">>, <<"vc", "iss">>},
                        Filter("pattern", {issuer}))
  IN  [id |-> id,
       input_descriptors |->
         <<[id |-> id, limit_disclosure |-> "required",
            fields |-> {OfClaim(n) : n \in DOMAIN claims}
                       \cup (IF issuer = Absent THEN {} ELSE {OfIssuer})]>>]

PresentableTypes == {"prism/jwt", "vc+sd-jwt", "AnonCreds"}

\* CreatePresentationRequest.createRequest: the attachment's format goes by the
\* type of the credential.
RequestFormat(type) ==
  IF type \notin PresentableTypes THEN Thrown
  ELSE IF type = "AnonCreds" THEN "anoncreds/proof-request@v1.0"
  ELSE "dif/presentation-exchange/definitions@v1.0"

-----------------------------------------------------------------------------
(* The holder's answer                                                     *)

\* The subject signs a presentation of its credential.
PresentedJWT(wallet, answer, credential, given) ==
  CreateJWT(wallet, answer, credential.sub,
    Payload(credential.sub, Absent, Absent, PresentationOf(credential), <<>>, {}),
    given, "AUTHENTICATION_KEY")

\* DIF: the first key of the subject must be able to sign.  A JWT goes into a
\* presentation of its own, an SD-JWT as it is.
CreatePresentationFor(wallet, answer, credential, definition, frame) ==
  With(KeysOfDID(wallet, credential.sub), LAMBDA keys :
    IF keys = <<>> \/ ~IsSignable(keys[1]) THEN Thrown
    ELSE Then(IF credential.id.form = "sd_jwt" THEN Present(credential.id, frame)
              ELSE PresentedJWT(wallet, answer, credential, keys[1]),
      LAMBDA signed :
        [protocol |-> "dif",
         format |-> IF credential.id.form = "sd_jwt" THEN "sd_jwt" ELSE "jwt_vp",
         presentation |-> signed,
         descriptor_map |-> MapSeq(LAMBDA d : d.id, definition.input_descriptors)]))

\* OEA: a JWT is presented by the subject's key of the purpose; an SD-JWT, as
\* the frame says (nothing without one), if the subject has an Ed25519 key.
CreateOEAPresentation(wallet, answer, credential, frame) ==
  LET Submission(format, presentation) ==
        [protocol |-> "oea", format |-> format, presentation |-> presentation, descriptor_map |-> <<>>]
  IN  IF credential.id.form = "jwt"
      THEN Then(PresentedJWT(wallet, answer, credential, Absent), LAMBDA signed :
             Submission("prism/jwt", signed))
      ELSE IF ~\E key \in Range(KeysOfDID(wallet, credential.sub)) : key.curve = "Ed25519" THEN Thrown
      ELSE Submission("vc+sd-jwt", Present(credential.id, IF frame = Absent THEN {} ELSE frame))

-----------------------------------------------------------------------------
(* The verifier's verdict                                                  *)

\* getCredential: parsed, and verified by who it says issued it.
VerifiedCredential(token, format, registry) ==
  LET Holder(credential) == IF format = "jwt_vc" THEN Subject(credential) ELSE Absent
      Verified(credential) ==
        IF format = "sd_jwt" THEN SDJWTVerify(token, credential.issuer, registry[credential.issuer])
        ELSE Then(Holder(credential), LAMBDA holder :
               JWTVerify(token, credential.issuer, holder, registry[credential.issuer]))
  IN  Then(IF format = "sd_jwt" THEN SDJWTCredential(token) ELSE JWTCredential(token),
        LAMBDA credential : IF Verified(credential) = TRUE THEN credential ELSE Thrown)

\* validateField: a field without a filter is never met, nor is a const, which
\* is compared with the pattern that it comes without.
FieldHolds(tree, field) ==
  \E path \in field.paths :
    LET value == GetValue(tree, path)
    IN  /\ value # Absent /\ "leaf" \in DOMAIN value
        /\ field.filter.kind \in {"pattern", "enum"}
        /\ value.leaf \in field.filter.passes

\* The constraints only count when the disclosure is limited as "required".
ConstraintsHold(tree, descriptor) ==
  descriptor.limit_disclosure = "required" =>
    \A f \in descriptor.fields : f.optional \/ FieldHolds(tree, f)

\* A jwt_vp is verified first, then the token that its nested path leads to.
PresentedCredential(submission, registry) ==
  Then(VerifiedCredential(submission.presentation, submission.format, registry), LAMBDA outer :
    IF submission.format # "jwt_vp" THEN outer
    ELSE With(GetValue(TreeOfJWT(outer), <<"vp", "verifiableCredential", "0">>), LAMBDA nested :
           IF nested = Absent THEN Thrown
           ELSE VerifiedCredential(nested.leaf, "jwt_vc", registry)))

ProcessDescriptorItem(submission, descriptor, registry, lists) ==
  Then(PresentedCredential(submission, registry), LAMBDA credential :
    LET tree == IF submission.format = "sd_jwt" THEN TreeOfSDJWT(credential) ELSE TreeOfJWT(credential)
    IN  IF submission.format # "sd_jwt" /\ IsCredentialRevoked(credential, lists) # FALSE THEN Thrown
        ELSE IF ConstraintsHold(tree, descriptor) THEN TRUE ELSE Thrown)

\* PresentationVerify: every descriptor of the map must be one of the request;
\* a presentation of no known format is not valid.
PresentationVerify(submission, definition, registry, lists) ==
  LET Verdict(id) ==
        With(SelectInSeq(definition.input_descriptors, LAMBDA d : d.id = id), LAMBDA i :
          IF i = 0 THEN Thrown
          ELSE ProcessDescriptorItem(submission, definition.input_descriptors[i], registry, lists))
  IN  IF submission.descriptor_map = <<>> \/ submission.format \notin {"jwt_vp", "jwt_vc", "sd_jwt"}
      THEN FALSE
      ELSE IF \A i \in DOMAIN submission.descriptor_map : Verdict(submission.descriptor_map[i]) = TRUE
           THEN TRUE ELSE Thrown

\* HandlePresentation: what it is verified against is the first stored request
\* of the thread; only DIF registers a task that verifies.
HandlePresentation(messages, submission, thid, registry, lists) ==
  LET i == SelectInSeq(messages, LAMBDA m : m.thid = thid)
  IN  IF i = 0 \/ submission.protocol # "dif" THEN Thrown
      ELSE PresentationVerify(submission, messages[i].definition, registry, lists)
===============================================================================
