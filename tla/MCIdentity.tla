------------------------------ MODULE MCIdentity ------------------------------
EXTENDS Identity

CONSTANTS s0, r0, Nonce

SeedKey(curve, axes) == PrivateKey(curve, <<s0, axes>>, Specification(axes, 0, TRUE))
Ma == SeedKey("secp256k1", <<1>>)
Mb == SeedKey("secp256k1", <<2>>)
Is == SeedKey("secp256k1", <<3>>)
Ie == SeedKey("Ed25519", <<3>>)
Au == SeedKey("Ed25519", <<4>>)
As == SeedKey("secp256k1", <<4>>)
Xa == SeedKey("X25519", <<5>>)
mcStray == SeedKey("secp256k1", <<6>>)

Option(curve, raw, seed, index, path) ==
  [curve |-> curve, raw |-> raw, seed |-> seed, index |-> index, path |-> path]
mcOptions ==
  {Option(c, Absent, s, i, p) : c \in Curves \cup {"P-256"}, s \in {s0, Absent},
                                i \in {Absent, 1}, p \in {Absent, <<1>>, <<2, 1>>}}
  \cup {Option(c, <<r0, <<>>>>, Absent, Absent, Absent) : c \in Curves}
mcAxes == {<<1>>, <<0, 2>>}

mcOrigins == {s0, r0}

Axis(n, hardened) == [n |-> n, hardened |-> hardened]
mcTexts ==
  {[root |-> "m", axes |-> <<Axis(a, h), Axis(1, TRUE), Axis(b, FALSE)>>] :
     a \in {0, 7, 8, Absent}, b \in {3, 17}, h \in BOOLEAN}
  \cup {[root |-> r, axes |-> [i \in 1 .. n |-> Axis(i, TRUE)]] : n \in {0, 3, 4, 5}, r \in {"m", "n"}}
\* 1024 is the sign of a word of 11 bits.
mcNumbers == {0, 7, 8, 17, 63, 64, 1023, 1024, 2047, 2048, 2055}
mcAbbreviations == [DIDCommMessaging |-> "dm", DIDCommMessagingV2 |-> "dmV2"]

Entry(usage, list) == [usage |-> usage, list |-> list]
OfMethod(method, keys, services) == [method |-> method, keys |-> keys, services |-> services]
Svc(n, list, words, uri) == Service(Id(Absent, <<"service", n>>), Type(list, words), uri)
Messaging == Svc(1, TRUE, <<"DIDCommMessaging", "LinkedDomains">>, "u1")
Domains == Svc(2, TRUE, <<"LinkedDomains">>, "u2")
Lettered == Svc(3, FALSE, <<"LinkedDomains">>, "u3")
Dashed == Svc(4, TRUE, <<"DIDCommMessaging">>, "u-")
Versioned == Svc(5, TRUE, <<"DIDCommMessagingV2">>, "u4")

mcPayloads ==
  {OfMethod("prism", <<Entry("MASTER_KEY", <<Ma>>)>> \o rest, services) :
     rest \in {<<>>, <<Entry("ISSUING_KEY", <<Is, Ie>>), Entry("AUTHENTICATION_KEY", <<Au>>)>>,
               <<Entry("AUTHENTICATION_KEY", <<Au, As>>), Entry("KEY_AGREEMENT_KEY", <<Xa>>),
                 Entry("REVOCATION_KEY", <<Mb>>)>>,
               <<Entry("CAPABILITY_DELEGATION_KEY", <<Is>>), Entry("CAPABILITY_INVOCATION_KEY", <<Ie>>)>>},
     services \in {<<>>, <<Messaging, Domains>>}}
  \cup {OfMethod("prism", <<Entry("ISSUING_KEY", <<Ie>>), Entry("MASTER_KEY", <<Mb, Ma>>)>>, <<Domains, Lettered>>),
        OfMethod("prism", <<Entry("ISSUING_KEY", <<Is>>)>>, <<>>)}
  \cup {OfMethod("peer", keys, services) :
          keys \in {<<Entry("AUTHENTICATION_KEY", <<Au>>), Entry("KEY_AGREEMENT_KEY", <<Xa>>)>>,
                    <<Entry("KEY_AGREEMENT_KEY", <<Xa>>), Entry("AUTHENTICATION_KEY", <<Ie, Au, As>>)>>,
                    <<Entry("AUTHENTICATION_KEY", <<Au>>)>>},
          services \in {<<>>, <<Messaging>>, <<Domains, Messaging, Versioned>>, <<Dashed>>}}

Issuers == {OfMethod("prism", <<Entry("MASTER_KEY", <<Ma>>), Entry("ISSUING_KEY", <<k>>)>>, <<>>) : k \in {Is, Ie}}
Holders ==
  {OfMethod("prism", <<Entry("MASTER_KEY", <<Mb>>), Entry("AUTHENTICATION_KEY", <<As>>)>>, <<>>),
   OfMethod("peer", <<Entry("KEY_AGREEMENT_KEY", <<Xa>>), Entry("AUTHENTICATION_KEY", <<Au>>)>>, <<>>)}
mcParties == [issuer : Issuers, holder : Holders]

mcClaims == {[name |-> "Ann", age |-> "30"], [name |-> "Bob", age |-> "30"]}
Status(type, list, index) == [type |-> type, list |-> list, index |-> index]
mcStatuses ==
  {Absent, Status("StatusList2021Entry", "ok", 1), Status("StatusList2021Entry", "ok", 2),
   Status("RevocationList2020Status", "ok", 2), Status("StatusList2021Entry", "down", 1)}
List(httpStatus) ==
  [httpStatus |-> httpStatus, type |-> "StatusList2021", bits |-> <<4, 0>>,
   proof |-> [type |-> "EcdsaSecp256k1Signature2019",
              methodType |-> "EcdsaSecp256k1VerificationKey2019",
              jwk |-> PublicJWK(PublicKey(Is), FALSE), parts |-> 3,
              signature |-> Signature(PublicKey(Is), <<4, 0>>)]]
mcStatusLists == [ok |-> List(200), down |-> List(503)]

Ask(asked, issuer) == [asked |-> asked, issuer |-> issuer]
mcRequests(issuer) ==
  {Ask([name |-> Filter("pattern", {"Ann"}), age |-> Filter("enum", {"30", "31"})], issuer),
   Ask([name |-> Filter("pattern", {"Bob"})], Absent),
   Ask([name |-> Filter("const", {"Ann"})], Absent)}
mcFrames == {Absent, {"name"}}
===============================================================================
