-------------------------------- MODULE Apollo --------------------------------
(***************************************************************************)
(* Apollo: derivation paths, the creation of keys, their export as JWK and *)
(* PEM, and their way through Pluto's rows.                                *)
(*                                                                         *)
(* The pair of a key is where it comes from: an origin (a seed or a draw)  *)
(* and the axes derived from it, none for the base key.  Bytes are known   *)
(* by the pair they encode, so that two keys are equal when their curves   *)
(* and pairs are.                                                          *)
(***************************************************************************)
EXTENDS Castor, FiniteSets

CONSTANTS
  AxisBits,   \* the width of an axis number: 31 in the code
  GroupBits,  \* the width of a group of a variable-length number: 7 in the code
  WordBits    \* the width of a word, on which &, |, << and >>> work: 32 in the code

ASSUME WidthsAreNatural ==
  AxisBits \in Nat \ {0} /\ GroupBits \in Nat \ {0} /\ WordBits \in Nat \ {0}

-----------------------------------------------------------------------------
(* Derivation paths                                                        *)

\* An axis holds the number and, one bit above it, the hardened mark.
AxisModulus == 2 ^ AxisBits
AxisNumber(i) == i % AxisModulus
AxisHardened(i) == (i \div AxisModulus) % 2 = 1

\* A number that overflows its width is printed whole, unless its excess is
\* the hardened mark.
AxisText(i) == IF AxisHardened(i) THEN [n |-> AxisNumber(i), hardened |-> TRUE]
               ELSE [n |-> i, hardened |-> FALSE]

\* Absent: the text was no number, or a negative one.
NormalAxis(n) == IF n = Absent THEN Thrown ELSE n
HardenedAxis(n) == IF n = Absent THEN Thrown ELSE AxisModulus + AxisNumber(n)

ParseAxis(text) ==
  Then(IF text.hardened THEN HardenedAxis(text.n) ELSE NormalAxis(text.n), AxisNumber)

PrismSchema == [name |-> "prism", length |-> 5]
DeprecatedSchema == [name |-> "deprecated", length |-> 3]

\* callBackOrThrow: the first of the schemas with the length of the path.
SchemaOf(paths, derivations) ==
  LET i == SelectInSeq(derivations, LAMBDA schema : schema.length = Len(paths))
  IN  IF i = 0 THEN Thrown ELSE derivations[i].name

\* Mutant of FromPath: the root is dropped without a look at it, and an axis is
\* kept with its mark.
FromPathWithMarks(path, derivations) ==
  [i \in DOMAIN path.axes |-> IF path.axes[i].hardened THEN HardenedAxis(path.axes[i].n)
                              ELSE path.axes[i].n]

\* Only the numbers are kept: the schema makes every axis hardened.
FromPath(path, derivations) ==
  LET numbers == MapSeq(ParseAxis, path.axes)
  IN  IF path.root # "m" \/ Thrown \in ToSet(numbers) THEN Thrown
      ELSE IF SchemaOf(numbers, derivations) = Thrown THEN Thrown
      ELSE numbers

PathText(paths, derivations) ==
  IF paths = <<>> \/ SchemaOf(paths, derivations) = Thrown THEN Thrown
  ELSE [root |-> "m", axes |-> [i \in DOMAIN paths |-> AxisText(HardenedAxis(paths[i]))]]

\* index: the key's number in the path.
PathIndex(paths, derivations) ==
  IF SchemaOf(paths, derivations) = Thrown THEN Thrown ELSE AxisNumber(Last(paths))

KeyPurpose ==
  [UNKNOWN_KEY |-> 0, MASTER_KEY |-> 1, ISSUING_KEY |-> 2, KEY_AGREEMENT_KEY |-> 3,
   AUTHENTICATION_KEY |-> 4, REVOCATION_KEY |-> 5, CAPABILITY_INVOCATION_KEY |-> 6,
   CAPABILITY_DELEGATION_KEY |-> 7]

\* PrismDerivationPath.init: wallet purpose and DID method are 0x1D.
InitPath(keyIndex) == <<29, 29, 0, KeyPurpose["AUTHENTICATION_KEY"], keyIndex>>

-----------------------------------------------------------------------------
(* Variable-length numbers and codecs                                      *)

GroupSize == 2 ^ GroupBits

\* The lowest group of the word first; a byte that another follows has the bit
\* above its group set.
PutUVarInt(value) ==
  LET put[v \in Nat] == IF v < GroupSize THEN <<v>> ELSE <<GroupSize + (v % GroupSize)>> \o put[v \div GroupSize]
  IN  put[value % 2 ^ WordBits]

Bit(number, j) == (number \div 2 ^ j) % 2 = 1

\* The number whose bits these are: the highest of a word is its sign.
SignedWord(bits) ==
  MapThenSumSet(LAMBDA j : 2 ^ j, bits \ {WordBits - 1})
    - (IF WordBits - 1 \in bits THEN 2 ^ (WordBits - 1) ELSE 0)

\* The bits that the first n bytes set, each n shifted by a count that wraps.
ShiftedBits(bytes, n) ==
  {j \in 0 .. WordBits - 1 : \E i \in 1 .. n :
     LET shift == (GroupBits * (i - 1)) % WordBits
     IN  j >= shift /\ Bit(bytes[i] % GroupSize, j - shift)}

\* The value and the number of bytes read; <<0, 0>> when the bytes end first,
\* a negative number when there are too many.
UVarInt(bytes) ==
  LET n == SelectInSeq(bytes, LAMBDA b : b < GroupSize)
  IN  IF n = 0 THEN <<0, 0>>
      ELSE IF n > 10 \/ (n = 10 /\ bytes[n] > 1) THEN <<0, -n>>
      ELSE <<SignedWord(ShiftedBits(bytes, n)), n>>

Codec == [agreement |-> 236, authenticate |-> 237]

\* MultiCodec: what a peer DID prefixes to a key, and what it reads back.
WithCodec(keyType, bytes) == PutUVarInt(Codec[keyType]) \o bytes
WithoutCodec(bytes) == SubSeq(bytes, UVarInt(bytes)[2] + 1, Len(bytes))

-----------------------------------------------------------------------------
(* Keys                                                                    *)

\* keySpecification: the chain code is that of the pair, when it is known.
Specification(path, index, chainCode) ==
  [path |-> path, index |-> index, chainCode |-> chainCode]
NoSpecification == Specification(Absent, Absent, FALSE)

PrivateKey(curve, pair, spec) == [curve |-> curve, pair |-> pair, spec |-> spec]
PublicKey(key) == Key(key.curve, key.pair)

\* What a key can do is which methods its class has.
IsSignable(key) == key.curve # "X25519"
IsDerivable(key) == key.curve # "X25519"
Alg(curve) == IF curve = "secp256k1" THEN "ES256K" ELSE "EdDSA"

\* fromRaw, and the constructors of the private keys.
FromRaw(curve, pair) == PrivateKey(curve, pair, NoSpecification)

\* The index is the parent's, the path the one derived last.
Derive(key, path) ==
  IF ~IsDerivable(key) \/ ~key.spec.chainCode THEN Thrown
  ELSE PrivateKey(key.curve, <<key.pair[1], key.pair[2] \o path>>,
         Specification(path, IF key.spec.index = Absent THEN 0 ELSE key.spec.index, TRUE))

\* Without a path secp256k1 and Ed25519 give the base key of the seed, whatever
\* the index, although the index's path is what they note; X25519 derives.
FromSeed(curve, seed, index, path, drawn) ==
  LET taken == IF path = Absent THEN InitPath(index) ELSE path
      Base(noted) == PrivateKey(curve, <<seed, <<>>>>, Specification(taken, noted, TRUE))
      Derived(base) == IF path = Absent THEN base ELSE Derive(base, path)
  IN  CASE curve = "secp256k1" /\ seed = Absent -> Thrown
        [] curve = "secp256k1" /\ seed # Absent -> Derived(Base(index))
        [] curve = "Ed25519" /\ seed # Absent -> Derived(Base(Absent))
        [] curve = "X25519" /\ seed # Absent ->
             PrivateKey(curve, <<seed, taken>>, Specification(taken, index, TRUE))
        [] OTHER -> FromRaw(curve, <<drawn, <<>>>>)

\* raw, then seed, index (0) and path; drawn is what a random key would be.
CreatePrivateKey(options, drawn) ==
  IF options.curve \notin Curves THEN Thrown
  ELSE IF options.raw # Absent THEN FromRaw(options.curve, options.raw)
  ELSE FromSeed(options.curve, options.seed,
                IF options.index = Absent THEN 0 ELSE options.index, options.path, drawn)

\* raw, or the coordinates of a point of secp256k1.
CreatePublicKey(curve, raw, x, y) ==
  IF curve \notin Curves THEN Thrown
  ELSE IF raw # Absent THEN Key(curve, raw)
  ELSE IF x = Absent \/ y = Absent \/ curve # "secp256k1" THEN Thrown
  ELSE Key(curve, x)

-----------------------------------------------------------------------------
(* JWK and PEM                                                             *)

JWK(kty, crv, x, y, d) == [kty |-> kty, crv |-> crv, x |-> x, y |-> y, d |-> d]

\* compressed: the bytes of a secp256k1 public key hold no y.
PublicJWK(key, compressed) ==
  IF key.curve = "secp256k1"
  THEN JWK("EC", key.curve, key.pair, IF compressed THEN Absent ELSE key.pair, Absent)
  ELSE JWK("OKP", key.curve, key.pair, Absent, Absent)

PrivateJWK(key) == [PublicJWK(PublicKey(key), FALSE) EXCEPT !.d = key.pair]

\* A public half, a private half, or both; an EC key has both coordinates or
\* none.
FromJWK(jwk) ==
  LET private == IF jwk.d = Absent THEN Absent ELSE FromRaw(jwk.crv, jwk.d)
      Half(public) == IF public = Thrown THEN Thrown ELSE [public |-> public, private |-> private]
  IN  IF jwk.kty \notin {"EC", "OKP"} \/ jwk.crv \notin Curves THEN Thrown
      ELSE IF jwk.kty = "OKP"
        THEN IF jwk.x = Absent THEN Thrown
             ELSE Half(CreatePublicKey(jwk.crv, jwk.x, Absent, Absent))
      ELSE IF jwk.x # Absent \/ jwk.y # Absent
        THEN IF jwk.x = Absent \/ jwk.y = Absent THEN Thrown
             ELSE Half(CreatePublicKey(jwk.crv, Absent, jwk.x, jwk.y))
      ELSE IF private = Absent THEN Thrown ELSE [public |-> Absent, private |-> private]

MultibaseCurve ==
  [EcdsaSecp256k1VerificationKey2019 |-> "secp256k1", JsonWebKey2020 |-> "secp256k1",
   Ed25519VerificationKey2018 |-> "Ed25519", Ed25519VerificationKey2020 |-> "Ed25519",
   X25519KeyAgreementKey2019 |-> "X25519", X25519KeyAgreementKey2020 |-> "X25519"]

\* The public key of a verification method; of a type that is not known the
\* multibase gives none.
PKInstance(method) ==
  IF method.publicKeyMultibase # Absent
  THEN IF method.type \in DOMAIN MultibaseCurve
       THEN Key(MultibaseCurve[method.type], method.publicKeyMultibase.pair)
       ELSE Absent
  ELSE IF method.publicKeyJwk = Absent THEN Thrown
  ELSE Then(FromJWK([kty |-> method.publicKeyJwk.kty, crv |-> method.publicKeyJwk.crv,
                     x |-> method.publicKeyJwk.x, y |-> method.publicKeyJwk.y, d |-> Absent]),
            LAMBDA half : half.public)

PemLabel(curve, privacy) ==
  (IF curve = "secp256k1" THEN <<"EC">> ELSE <<>>)
  \o (IF privacy = "priv" THEN <<"PRIVATE_KEY">> ELSE <<"PUBLIC_KEY">>)

ToPEM(key, privacy) == [label |-> PemLabel(key.curve, privacy), data |-> key.pair]

\* Two curves share a label: the PEM does not say which it is of.
FromPEM(pem, curve, privacy) ==
  IF pem.label # PemLabel(curve, privacy) THEN Thrown ELSE pem.data

-----------------------------------------------------------------------------
(* Pluto's rows                                                            *)

RecoveryId(curve, privacy) == <<curve, privacy>>

\* KeyRepository.toModel: the bytes go with the specification.
KeyRow(key) ==
  [recoveryId |-> RecoveryId(key.curve, "priv"), index |-> key.spec.index, raw |-> Absent,
   data |-> [raw |-> key.pair, spec |-> key.spec]]

\* Old rows have the bytes beside, and no specification.
OldKeyRow(key) ==
  [recoveryId |-> RecoveryId(key.curve, "priv"), index |-> key.spec.index, raw |-> key.pair,
   data |-> [raw |-> Absent, spec |-> NoSpecification]]

\* Mutant of RestorePrivateKey: only the bytes come back.
RestoreBytes(row) ==
  LET raw == IF row.raw # Absent THEN row.raw ELSE row.data.raw
  IN  FromRaw(row.recoveryId[1], raw)

RestorePrivateKey(row) ==
  LET raw == IF row.raw # Absent THEN row.raw ELSE row.data.raw
  IN  IF raw = Absent \/ row.recoveryId \notin {RecoveryId(c, "priv") : c \in Curves} THEN Thrown
      ELSE PrivateKey(row.recoveryId[1], raw, row.data.spec)

RestorePublicKey(row) ==
  LET raw == IF row.raw # Absent THEN row.raw ELSE row.data.raw
  IN  IF raw = Absent \/ row.recoveryId \notin {RecoveryId(c, "pub") : c \in Curves} THEN Thrown
      ELSE Key(row.recoveryId[1], raw)

\* KeyRepository.toDomain: the row's index serves when the specification has none.
KeyFromRow(row) ==
  Then(RestorePrivateKey(row), LAMBDA key :
    IF key.spec.index = Absent THEN [key EXCEPT !.spec.index = row.index] ELSE key)

\* getModels: link secrets are in the same collection.
KeyRows(rows) == {row \in rows : row.recoveryId # <<"linksecret">>}
===============================================================================
