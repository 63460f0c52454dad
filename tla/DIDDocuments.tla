----------------------------- MODULE DIDDocuments -----------------------------
(***************************************************************************)
(* The DID document of the domain package, as the resolvers build it and   *)
(* as it is read from the JSON of a registry: a sequence of core           *)
(* properties, of which the getters collect one kind.                      *)
(*                                                                         *)
(* An id is a DID and a fragment, or no DID when the text has no "#"; a    *)
(* fragment is a word and a number.  Text that only serves to be compared  *)
(* is itself; the list of routing keys and the accepted media types of an  *)
(* endpoint stay empty.                                                    *)
(***************************************************************************)
EXTENDS Naturals, Sequences, SequencesExt, Functions

CONSTANTS
  Thrown,   \* the outcome of an operation that throws
  Absent    \* undefined

\* What follows an operation, unless it throws.
Then(value, Op(_)) == IF value = Thrown THEN Thrown ELSE Op(value)
With(value, Op(_)) == Op(value)
MapSeq(Op(_), s) == [i \in DOMAIN s |-> Op(s[i])]

\* Array.filter: SelectSeq in a form whose definition a proof can unfold.
Filtered(s, Test(_)) == FlattenSeq([i \in DOMAIN s |-> IF Test(s[i]) THEN <<s[i]>> ELSE <<>>])

Relationships == {"authentication", "assertionMethod", "keyAgreement",
                  "capabilityDelegation", "capabilityInvocation"}
Kinds == Relationships \cup {"verificationMethod", "service"}

Id(did, fragment) == [did |-> did, fragment |-> fragment]

VerificationMethod(id, controller, type, jwk, multibase) ==
  [id |-> id, controller |-> controller, type |-> type,
   publicKeyJwk |-> jwk, publicKeyMultibase |-> multibase]

\* A type is a word or a list of words: at(0) of a word is its first letter.
Type(list, words) == [list |-> list, words |-> words]

Initial == [DIDCommMessaging |-> "D", LinkedDomains |-> "L", D |-> "D", L |-> "L"]

FirstType(type) ==
  IF type.words = <<>> THEN Absent
  ELSE IF type.list THEN Head(type.words) ELSE Initial[Head(type.words)]

Service(id, type, uri) == [id |-> id, type |-> type, uri |-> uri]

\* A list includes the word; the word is compared as a whole.
IsDIDCommMessaging(service) == Contains(service.type.words, "DIDCommMessaging")

Property(kind, values) == [kind |-> kind, values |-> values]

\* A property is only pushed when it has values.
PropertyUnlessEmpty(kind, values) ==
  IF values = <<>> THEN <<>> ELSE <<Property(kind, values)>>

Document(did, properties) == [id |-> did, coreProperties |-> properties]

\* The getters: services, authentication, ..., verificationMethods.
ValuesOf(doc, kind) ==
  FlattenSeq(MapSeq(LAMBDA p : IF p.kind = kind THEN p.values ELSE <<>>, doc.coreProperties))

-----------------------------------------------------------------------------
(* From the JSON of a registry                                             *)

\* A relationship lists ids of the document's methods, or methods of its own;
\* an id that no method has is passed over.
MethodOf(entry, available) ==
  IF entry.embedded # Absent THEN <<entry.embedded>>
  ELSE LET i == SelectInSeq(available, LAMBDA m : m.id = entry.ref)
       IN  IF i = 0 THEN <<>> ELSE <<available[i]>>

ParseVerificationMethodGroup(entries, available) ==
  FlattenSeq([i \in DOMAIN entries |-> MethodOf(entries[i], available)])

FromJSON(json) ==
  LET Group(kind) ==
        Property(kind, ParseVerificationMethodGroup(json[kind], json.verificationMethod))
  IN  Document(json.id,
        MapSeq(Group, <<"authentication", "capabilityInvocation", "capabilityDelegation",
                        "assertionMethod", "keyAgreement">>)
        \o <<Property("service", json.service),
             Property("verificationMethod", json.verificationMethod)>>)

-----------------------------------------------------------------------------
(* The same document under another DID                                     *)

\* What precedes the "#" is replaced.
ReplaceDID(id, did) == IF id.did = Absent THEN id ELSE [id EXCEPT !.did = did]

\* The controller stays the old one.
CloneWithNewId(method, did) ==
  LET jwk == method.publicKeyJwk
  IN  [method EXCEPT
        !.id = ReplaceDID(method.id, did),
        !.publicKeyJwk = IF jwk = Absent \/ jwk.kid = Absent THEN jwk
                         ELSE [jwk EXCEPT !.kid = ReplaceDID(jwk.kid, did)]]

CloneWithNewDID(doc, did) ==
  LET Cloned(kind, v) ==
        IF kind = "service" THEN [v EXCEPT !.id = ReplaceDID(v.id, did)] ELSE CloneWithNewId(v, did)
      Clone(p) == Property(p.kind, MapSeq(LAMBDA v : Cloned(p.kind, v), p.values))
  IN  Document(did, MapSeq(Clone, doc.coreProperties))
===============================================================================
