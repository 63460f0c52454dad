----------------------------- MODULE IdentityProofs -----------------------------
(***************************************************************************)
(* What Apollo, Castor and Pollux compute, one from the other's output:    *)
(* keys survive their rows, DIDs resolve to what they were created with,   *)
(* signatures are of the DID they verify under, and what a verifier        *)
(* accepts is backed by the request and by its issuer's signature.         *)
(***************************************************************************)
EXTENDS Identity, SequenceTheorems, WellFoundedInduction, TLAPS

-----------------------------------------------------------------------------
(* Sequences                                                               *)

\* Induction on numbers, with a set in the place of the predicate.
LEMMA Induction ==
  ASSUME NEW N, 0 \in N, \A n \in Nat : n \in N => n + 1 \in N
  PROVE  Nat \subseteq N
<1> SUFFICES ASSUME Nat \ N # {} PROVE FALSE
  OBVIOUS
<1>1. IsWellFoundedOn(OpToRel(<, Nat), Nat)
  BY NatLessThanWellFounded
<1>2. PICK m \in Nat \ N : \A n \in Nat \ N : ~(<<n, m>> \in OpToRel(<, Nat))
  BY <1>1, WFMin
<1>3. m \in Nat /\ m \notin N
  BY <1>2
<1>4. m # 0 /\ m - 1 \in Nat /\ m - 1 < m /\ (m - 1) + 1 = m
  BY <1>3
<1> DEFINE pair == <<m - 1, m>>
<1>5. pair \in Nat \X Nat /\ pair[1] < pair[2]
  BY <1>3, <1>4
<1> HIDE DEF pair
<1>6. pair \in OpToRel(<, Nat)
  BY <1>5 DEF OpToRel
<1>7. m - 1 \in N
  BY <1>2, <1>4, <1>6 DEF pair
<1>8. (m - 1) + 1 \in N
  BY <1>4, <1>7
<1> QED
  BY <1>3, <1>4, <1>8

\* The least of some numbers is the first position that a search finds.
LEMMA MinIsLeast ==
  ASSUME NEW S \in SUBSET Nat, S # {}
  PROVE  Min(S) \in S /\ \A n \in S : Min(S) <= n
<1>1. IsWellFoundedOn(OpToRel(<, Nat), Nat)
  BY NatLessThanWellFounded
<1>2. PICK m \in S : \A n \in S : ~(<<n, m>> \in OpToRel(<, Nat))
  BY <1>1, WFMin
<1>3. ASSUME NEW n \in S, n < m
      PROVE  FALSE
  <2> DEFINE pair == <<n, m>>
  <2>1. pair \in Nat \X Nat /\ pair[1] < pair[2]
    BY <1>3
  <2> HIDE DEF pair
  <2>2. pair \in OpToRel(<, Nat)
    BY <2>1 DEF OpToRel
  <2> QED
    BY <1>2, <2>2 DEF pair
<1>4. \A n \in S : m <= n
  BY <1>3
<1> QED
  BY <1>4 DEF Min

LEMMA MinIs ==
  ASSUME NEW S, S \subseteq Nat, NEW m \in S, \A n \in S : m <= n
  PROVE  Min(S) = m
<1>1. Min(S) \in S /\ \A n \in S : Min(S) <= n
  BY MinIsLeast
<1>2. Min(S) \in Nat /\ m \in Nat /\ Min(S) <= m /\ m <= Min(S)
  BY <1>1
<1> QED
  BY <1>2

\* f joins the first n of the sequences ss, one after the other.
Joins(f, ss, n) ==
  f = [i \in 1 .. n |-> IF i = 1 THEN ss[i] ELSE f[i - 1] \o ss[i]]

\* There is exactly one such function, so FlattenSeq is what its definition says.
LEMMA JoinsExists ==
  ASSUME NEW ss, NEW n \in Nat
  PROVE  \E f : Joins(f, ss, n)
<1> DEFINE N == {m \in Nat : \E f : Joins(f, ss, m)}
<1>1. 0 \in N
  <2> DEFINE f == [i \in 1 .. 0 |-> <<>>]
  <2>1. Joins(f, ss, 0)
    BY DEF Joins
  <2> QED
    BY <2>1
<1>2. ASSUME NEW m \in Nat, m \in N
      PROVE  m + 1 \in N
  <2>1. PICK f : Joins(f, ss, m)
    BY <1>2
  <2> DEFINE g == [i \in 1 .. m + 1 |->
                     IF i <= m THEN f[i] ELSE IF i = 1 THEN ss[i] ELSE f[i - 1] \o ss[i]]
  <2>2. ASSUME NEW i \in 1 .. m + 1
        PROVE  g[i] = IF i = 1 THEN ss[i] ELSE g[i - 1] \o ss[i]
    <3>1. i = 1 \/ (i - 1 \in 1 .. m /\ i - 1 \in 1 .. m + 1 /\ i - 1 <= m)
      OBVIOUS
    <3>2. i <= m => f[i] = IF i = 1 THEN ss[i] ELSE f[i - 1] \o ss[i]
      <4>1. \A j \in 1 .. m : f[j] = IF j = 1 THEN ss[j] ELSE f[j - 1] \o ss[j]
        BY <2>1 DEF Joins
      <4>2. i <= m => i \in 1 .. m
        OBVIOUS
      <4> QED
        BY <4>1, <4>2
    <3>3. g[i] = IF i = 1 THEN ss[i] ELSE f[i - 1] \o ss[i]
      BY <3>2
    <3>4. i # 1 => g[i - 1] = f[i - 1]
      BY <3>1
    <3> QED
      BY <3>3, <3>4
  <2>3. Joins(g, ss, m + 1)
    BY <2>2 DEF Joins
  <2> QED
    BY <2>3
<1> HIDE DEF N
<1>3. Nat \subseteq N
  BY <1>1, <1>2, Induction
<1> QED
  BY <1>3 DEF N

LEMMA JoinsAgree ==
  ASSUME NEW ss, NEW tt, NEW n \in Nat, \A i \in 1 .. n : ss[i] = tt[i],
         NEW f, Joins(f, ss, n), NEW g, Joins(g, tt, n + 1)
  PROVE  \A i \in 1 .. n : f[i] = g[i]
<1> DEFINE N == {j \in Nat : j \in 1 .. n => f[j] = g[j]}
<1>1. 0 \in N
  OBVIOUS
<1>2. ASSUME NEW j \in Nat, j \in N
      PROVE  j + 1 \in N
  <2> SUFFICES ASSUME j + 1 \in 1 .. n PROVE f[j + 1] = g[j + 1]
    OBVIOUS
  <2>1. /\ f[j + 1] = IF j + 1 = 1 THEN ss[j + 1] ELSE f[j] \o ss[j + 1]
        /\ g[j + 1] = IF j + 1 = 1 THEN tt[j + 1] ELSE g[j] \o tt[j + 1]
    <3>1. j + 1 \in 1 .. n /\ j + 1 \in 1 .. n + 1 /\ (j + 1) - 1 = j
      OBVIOUS
    <3>2. \A i \in 1 .. n : f[i] = IF i = 1 THEN ss[i] ELSE f[i - 1] \o ss[i]
      BY DEF Joins
    <3>3. \A i \in 1 .. n + 1 : g[i] = IF i = 1 THEN tt[i] ELSE g[i - 1] \o tt[i]
      BY DEF Joins
    <3> QED
      BY <3>1, <3>2, <3>3
  <2>2. j = 0 \/ f[j] = g[j]
    BY <1>2
  <2> QED
    BY <2>1, <2>2
<1> HIDE DEF N
<1>3. Nat \subseteq N
  BY <1>1, <1>2, Induction
<1> QED
  BY <1>3 DEF N

LEMMA FlattenJoins ==
  ASSUME NEW ss, Len(ss) \in Nat, Len(ss) # 0
  PROVE  \E f : Joins(f, ss, Len(ss)) /\ FlattenSeq(ss) = f[Len(ss)]
<1>1. \E f : Joins(f, ss, Len(ss))
  BY JoinsExists
<1> DEFINE f == CHOOSE f : Joins(f, ss, Len(ss))
<1>2. Joins(f, ss, Len(ss))
  BY <1>1
<1>3. FlattenSeq(ss) = f[Len(ss)]
  BY DEF FlattenSeq, Joins
<1> QED
  BY <1>2, <1>3

\* The next sequence is put at the end of what the others make.
LEMMA FlattenAppend ==
  ASSUME NEW S, NEW ss \in Seq(Seq(S)), NEW s \in Seq(S)
  PROVE  FlattenSeq(Append(ss, s)) = FlattenSeq(ss) \o s
<1> DEFINE n == Len(ss)
           tt == Append(ss, s)
<1>1. n \in Nat /\ Len(tt) = n + 1 /\ tt[n + 1] = s /\ \A i \in 1 .. n : tt[i] = ss[i]
  OBVIOUS
<1>2. PICK g : Joins(g, tt, n + 1) /\ FlattenSeq(tt) = g[n + 1]
  <2>1. Len(tt) \in Nat /\ Len(tt) # 0
    BY <1>1
  <2> QED
    BY <2>1, <1>1, FlattenJoins
<1>3. \A i \in 1 .. n + 1 : g[i] = IF i = 1 THEN tt[i] ELSE g[i - 1] \o tt[i]
  BY <1>2 DEF Joins
<1>4. CASE n = 0
  <2>1. ss = <<>> /\ FlattenSeq(ss) = <<>>
    BY <1>4 DEF FlattenSeq
  <2>2. FlattenSeq(tt) = s
    BY <1>1, <1>2, <1>3, <1>4
  <2> QED
    BY <2>1, <2>2
<1>5. CASE n # 0
  <2>1. PICK f : Joins(f, ss, n) /\ FlattenSeq(ss) = f[n]
    BY <1>1, <1>5, FlattenJoins
  <2> HIDE DEF n, tt
  <2>2. f[n] = g[n]
    <3>1. n \in 1 .. n
      BY <1>1, <1>5
    <3>2. \A i \in 1 .. n : f[i] = g[i]
      BY <1>1, <1>2, <2>1, <3>1, JoinsAgree
    <3> QED
      BY <3>1, <3>2
  <2>3. n + 1 \in 1 .. n + 1 /\ n + 1 # 1 /\ (n + 1) - 1 = n
    BY <1>1, <1>5
  <2>4. g[n + 1] = g[n] \o tt[n + 1]
    BY <1>3, <2>3
  <2> QED
    BY <1>1, <1>2, <2>1, <2>2, <2>4 DEF tt
<1> QED
  BY <1>4, <1>5

LEMMA FlattenEmpty == FlattenSeq(<<>>) = <<>>
BY DEF FlattenSeq

\* Induction on sequences, with a set in the place of the predicate.
LEMMA SeqInduction ==
  ASSUME NEW S, NEW T, <<>> \in T, \A s \in Seq(S), e \in S : s \in T => Append(s, e) \in T
  PROVE  Seq(S) \subseteq T
<1> DEFINE N == {n \in Nat : \A s \in Seq(S) : Len(s) = n => s \in T}
<1>1. 0 \in N
  OBVIOUS
<1>2. ASSUME NEW n \in Nat, n \in N
      PROVE  n + 1 \in N
  <2> SUFFICES ASSUME NEW s \in Seq(S), Len(s) = n + 1 PROVE s \in T
    OBVIOUS
  <2>1. s # <<>>
    OBVIOUS
  <2>2. PICK r \in Seq(S), e \in S : s = Append(r, e)
    BY <2>1, SequenceEmptyOrAppend
  <2>3. Len(r) = n
    BY <2>2
  <2>4. r \in T
    BY <1>2, <2>3
  <2> QED
    BY <2>2, <2>4
<1> HIDE DEF N
<1>3. Nat \subseteq N
  BY <1>1, <1>2, Induction
<1> QED
  BY <1>3 DEF N

LEMMA FlattenType ==
  ASSUME NEW S, NEW ss \in Seq(Seq(S))
  PROVE  /\ FlattenSeq(ss) \in Seq(S)
         /\ Range(FlattenSeq(ss)) = UNION {Range(ss[i]) : i \in DOMAIN ss}
<1> DEFINE Elements(tt) == UNION {Range(tt[i]) : i \in DOMAIN tt}
           T == {tt \in Seq(Seq(S)) : /\ FlattenSeq(tt) \in Seq(S)
                                      /\ Range(FlattenSeq(tt)) = Elements(tt)}
<1>1. <<>> \in T
  <2>1. <<>> \in Seq(Seq(S)) /\ <<>> \in Seq(S) /\ DOMAIN <<>> = {}
    OBVIOUS
  <2>2. Range(<<>>) = {} /\ Elements(<<>>) = {}
    BY <2>1 DEF Range
  <2> QED
    BY <2>1, <2>2, FlattenEmpty
<1>2. ASSUME NEW tt \in Seq(Seq(S)), NEW s \in Seq(S), tt \in T
      PROVE  Append(tt, s) \in T
  <2>1. Append(tt, s) \in Seq(Seq(S))
    OBVIOUS
  <2>2. FlattenSeq(Append(tt, s)) = FlattenSeq(tt) \o s
    BY FlattenAppend
  <2>3. FlattenSeq(Append(tt, s)) \in Seq(S)
    BY <1>2, <2>2
  <2>4. Range(FlattenSeq(tt) \o s) = Range(FlattenSeq(tt)) \cup Range(s)
    BY <1>2, RangeConcatenation
  <2>5. Elements(Append(tt, s)) = Elements(tt) \cup Range(s)
    <3> DEFINE u == Append(tt, s)
               n == Len(tt)
    <3>1. /\ n \in Nat /\ DOMAIN tt = 1 .. n /\ DOMAIN u = 1 .. n + 1 /\ u[n + 1] = s
          /\ \A i \in 1 .. n : u[i] = tt[i]
      OBVIOUS
    <3> HIDE DEF u, n
    <3>2. \A i \in 1 .. n + 1 : i \in 1 .. n \/ i = n + 1
      BY <3>1
    <3>3. \A i \in 1 .. n : i \in 1 .. n + 1
      BY <3>1
    <3>4. n + 1 \in 1 .. n + 1
      BY <3>1
    <3> QED
      BY <3>1, <3>2, <3>3, <3>4 DEF u
  <2> QED
    BY <1>2, <2>1, <2>2, <2>3, <2>4, <2>5
<1> HIDE DEF T
<1>3. Seq(Seq(S)) \subseteq T
  BY <1>1, <1>2, SeqInduction
<1> QED
  BY <1>3 DEF T

LEMMA FlattenConcat ==
  ASSUME NEW S, NEW ss \in Seq(Seq(S)), NEW tt \in Seq(Seq(S))
  PROVE  FlattenSeq(ss \o tt) = FlattenSeq(ss) \o FlattenSeq(tt)
<1> DEFINE T == {uu \in Seq(Seq(S)) : FlattenSeq(ss \o uu) = FlattenSeq(ss) \o FlattenSeq(uu)}
<1>1. <<>> \in T
  <2>1. FlattenSeq(ss) \in Seq(S)
    BY FlattenType
  <2>2. FlattenSeq(ss) \o <<>> = FlattenSeq(ss) /\ ss \o <<>> = ss
    BY <2>1
  <2>3. FlattenSeq(ss \o <<>>) = FlattenSeq(ss) \o FlattenSeq(<<>>)
    BY <2>2, FlattenEmpty, Zenon
  <2>4. <<>> \in Seq(Seq(S))
    OBVIOUS
  <2> QED
    BY <2>3, <2>4
<1>2. ASSUME NEW uu \in Seq(Seq(S)), NEW s \in Seq(S), uu \in T
      PROVE  Append(uu, s) \in T
  <2>1. FlattenSeq(ss) \in Seq(S) /\ FlattenSeq(uu) \in Seq(S)
    BY FlattenType
  <2>2. ss \o Append(uu, s) = Append(ss \o uu, s) /\ ss \o uu \in Seq(Seq(S))
    OBVIOUS
  <2>3. FlattenSeq(Append(ss \o uu, s)) = FlattenSeq(ss \o uu) \o s
    BY <2>2, FlattenAppend
  <2>4. FlattenSeq(Append(uu, s)) = FlattenSeq(uu) \o s
    BY FlattenAppend
  <2>5. (FlattenSeq(ss) \o FlattenSeq(uu)) \o s = FlattenSeq(ss) \o (FlattenSeq(uu) \o s)
    BY <2>1, ConcatAssociative
  <2>6. FlattenSeq(ss \o uu) = FlattenSeq(ss) \o FlattenSeq(uu)
    BY <1>2
  <2>7. FlattenSeq(ss \o Append(uu, s)) = FlattenSeq(ss) \o FlattenSeq(Append(uu, s))
    BY <2>2, <2>3, <2>4, <2>5, <2>6, Zenon
  <2>8. Append(uu, s) \in Seq(Seq(S))
    OBVIOUS
  <2> QED
    BY <2>7, <2>8
<1> HIDE DEF T
<1>3. Seq(Seq(S)) \subseteq T
  BY <1>1, <1>2, SeqInduction
<1> QED
  BY <1>3 DEF T

LEMMA One ==
  ASSUME NEW X, NEW e \in X
  PROVE  <<e>> \in Seq(X) /\ <<>> \in Seq(X)
OBVIOUS

LEMMA Sequenced ==
  ASSUME NEW X, NEW n \in Nat, NEW f \in [1 .. n -> X]
  PROVE  f \in Seq(X) /\ Len(f) = n /\ DOMAIN f = 1 .. n
OBVIOUS

\* What a function makes of each element, and of all: the filters and the maps
\* of the modules are such, with a function in the place of the operator.
Maps(S, T) == [S -> T]
Mapped(f, s) == [i \in DOMAIN s |-> f[s[i]]]
Gathered(f, s) == FlattenSeq(Mapped(f, s))

LEMMA MappedType ==
  ASSUME NEW S, NEW T, NEW f \in Maps(S, T), NEW s \in Seq(S)
  PROVE  Mapped(f, s) \in Seq(T) /\ Len(Mapped(f, s)) = Len(s)
<1>1. DOMAIN s = 1 .. Len(s) /\ Len(s) \in Nat
  OBVIOUS
<1>2. \A i \in 1 .. Len(s) : f[s[i]] \in T
  BY DEF Maps
<1>3. Mapped(f, s) \in [1 .. Len(s) -> T]
  BY <1>1, <1>2 DEF Mapped
<1> QED
  BY <1>1, <1>3, Sequenced

LEMMA MappedConcat ==
  ASSUME NEW S, NEW T, NEW f \in Maps(S, T), NEW s \in Seq(S), NEW t \in Seq(S)
  PROVE  Mapped(f, s \o t) = Mapped(f, s) \o Mapped(f, t)
<1>1. /\ s \o t \in Seq(S)
      /\ \A i \in 1 .. Len(s) : (s \o t)[i] = s[i]
      /\ \A i \in 1 .. Len(t) : (s \o t)[Len(s) + i] = t[i]
      /\ Len(s \o t) = Len(s) + Len(t) /\ Len(s) \in Nat /\ Len(t) \in Nat
  OBVIOUS
<1> DEFINE left == Mapped(f, s \o t)
           right == Mapped(f, s) \o Mapped(f, t)
<1>2. ASSUME NEW u \in Seq(S)
      PROVE  Mapped(f, u) \in Seq(T) /\ Len(Mapped(f, u)) = Len(u)
  BY MappedType
<1>3. left \in Seq(T) /\ Len(left) = Len(s) + Len(t)
  BY <1>1, <1>2
<1>4. right \in Seq(T) /\ Len(right) = Len(s) + Len(t)
  <2>1. /\ Mapped(f, s) \in Seq(T) /\ Len(Mapped(f, s)) = Len(s)
        /\ Mapped(f, t) \in Seq(T) /\ Len(Mapped(f, t)) = Len(t)
    BY <1>2
  <2>2. \A a, b \in Seq(T) : a \o b \in Seq(T) /\ Len(a \o b) = Len(a) + Len(b)
    OBVIOUS
  <2> QED
    BY <2>1, <2>2
<1>5. ASSUME NEW i \in 1 .. Len(s) + Len(t)
      PROVE  left[i] = right[i]
  <2>1. /\ Mapped(f, s) \in Seq(T) /\ Len(Mapped(f, s)) = Len(s)
        /\ Mapped(f, t) \in Seq(T) /\ Len(Mapped(f, t)) = Len(t)
    BY <1>2
  <2>2. CASE i \in 1 .. Len(s)
    <3>1. (s \o t)[i] = s[i] /\ i \in 1 .. Len(s \o t)
      BY <1>1, <2>2
    <3>2. left[i] = f[s[i]] /\ Mapped(f, s)[i] = f[s[i]]
      BY <1>1, <2>2, <3>1 DEF Mapped
    <3>3. right[i] = Mapped(f, s)[i]
      BY <2>1, <2>2
    <3> QED
      BY <3>2, <3>3
  <2>3. CASE i \notin 1 .. Len(s)
    <3> DEFINE j == i - Len(s)
    <3>1. j \in 1 .. Len(t) /\ i = Len(s) + j
      BY <1>1, <2>3
    <3>2. (s \o t)[i] = t[j] /\ i \in 1 .. Len(s \o t)
      BY <1>1, <3>1
    <3>3. left[i] = f[t[j]] /\ Mapped(f, t)[j] = f[t[j]]
      BY <1>1, <3>1, <3>2 DEF Mapped
    <3>4. right[i] = Mapped(f, t)[j]
      BY <2>1, <3>1
    <3> QED
      BY <3>3, <3>4
  <2> QED
    BY <2>2, <2>3
<1> HIDE DEF left, right
<1> QED
  BY <1>3, <1>4, <1>5, SeqEqual DEF left, right

LEMMA GatheredEmpty ==
  ASSUME NEW f
  PROVE  Gathered(f, <<>>) = <<>>
<1>1. Mapped(f, <<>>) = <<>>
  BY DEF Mapped
<1> QED
  BY <1>1, FlattenEmpty, Zenon DEF Gathered

LEMMA GatheredOne ==
  ASSUME NEW S, NEW T, NEW f \in Maps(S, Seq(T)), NEW e \in S
  PROVE  Gathered(f, <<e>>) = f[e]
<1>1. Mapped(f, <<e>>) = <<f[e]>> /\ f[e] \in Seq(T) /\ <<>> \in Seq(Seq(T))
  BY DEF Mapped, Maps
<1>2. <<f[e]>> = Append(<<>>, f[e])
  OBVIOUS
<1>3. FlattenSeq(Append(<<>>, f[e])) = FlattenSeq(<<>>) \o f[e]
  BY <1>1, FlattenAppend
<1>4. <<>> \o f[e] = f[e]
  BY <1>1
<1>5. FlattenSeq(Mapped(f, <<e>>)) = f[e]
  BY <1>1, <1>2, <1>3, <1>4, FlattenEmpty, Zenon
<1> QED
  BY <1>5 DEF Gathered

LEMMA GatheredConcat ==
  ASSUME NEW S, NEW T, NEW f \in Maps(S, Seq(T)), NEW s \in Seq(S), NEW t \in Seq(S)
  PROVE  Gathered(f, s \o t) = Gathered(f, s) \o Gathered(f, t)
<1>1. Mapped(f, s) \in Seq(Seq(T)) /\ Mapped(f, t) \in Seq(Seq(T))
  BY MappedType
<1>2. Mapped(f, s \o t) = Mapped(f, s) \o Mapped(f, t)
  BY MappedConcat
<1>3. FlattenSeq(Mapped(f, s) \o Mapped(f, t)) = FlattenSeq(Mapped(f, s)) \o FlattenSeq(Mapped(f, t))
  BY <1>1, FlattenConcat
<1> QED
  BY <1>2, <1>3, Zenon DEF Gathered

LEMMA GatheredType ==
  ASSUME NEW S, NEW T, NEW f \in Maps(S, Seq(T)), NEW s \in Seq(S)
  PROVE  /\ Gathered(f, s) \in Seq(T)
         /\ Range(Gathered(f, s)) = UNION {Range(f[e]) : e \in Range(s)}
<1>1. /\ Mapped(f, s) \in Seq(Seq(T)) /\ DOMAIN Mapped(f, s) = DOMAIN s
      /\ \A i \in DOMAIN s : Mapped(f, s)[i] = f[s[i]]
  BY MappedType DEF Mapped
<1>2. /\ FlattenSeq(Mapped(f, s)) \in Seq(T)
      /\ Range(FlattenSeq(Mapped(f, s))) = UNION {Range(Mapped(f, s)[i]) : i \in DOMAIN Mapped(f, s)}
  BY <1>1, FlattenType
<1>3. UNION {Range(Mapped(f, s)[i]) : i \in DOMAIN Mapped(f, s)} = UNION {Range(f[e]) : e \in Range(s)}
  <2>1. \A i \in DOMAIN s : s[i] \in Range(s)
    BY DEF Range
  <2>2. \A e \in Range(s) : \E i \in DOMAIN s : e = s[i]
    BY DEF Range
  <2>3. \A x : (\E i \in DOMAIN s : x \in Range(f[s[i]])) <=> (\E e \in Range(s) : x \in Range(f[e]))
    BY <2>1, <2>2
  <2>4. \A i \in DOMAIN s : Range(Mapped(f, s)[i]) = Range(f[s[i]])
    BY <1>1
  <2>5. DOMAIN Mapped(f, s) = DOMAIN s
    BY <1>1
  <2> DEFINE A == UNION {Range(Mapped(f, s)[i]) : i \in DOMAIN s}
             B == UNION {Range(f[e]) : e \in Range(s)}
  <2>6. \A x : x \in A <=> \E i \in DOMAIN s : x \in Range(f[s[i]])
    BY <2>4, Zenon
  <2>7. \A x : x \in B <=> \E e \in Range(s) : x \in Range(f[e])
    BY Zenon
  <2> QED
    BY <2>3, <2>5, <2>6, <2>7, Zenon
<1> QED
  BY <1>2, <1>3 DEF Gathered

\* A filter keeps the elements of a set P.
Pick(S, P) == [e \in S |-> IF e \in P THEN <<e>> ELSE <<>>]

LEMMA PickType ==
  ASSUME NEW S, NEW P
  PROVE  Pick(S, P) \in Maps(S, Seq(S))
<1>1. ASSUME NEW e \in S
      PROVE  (IF e \in P THEN <<e>> ELSE <<>>) \in Seq(S)
  <2>1. <<e>> \in Seq(S) /\ <<>> \in Seq(S)
    OBVIOUS
  <2> QED
    BY <2>1
<1> QED
  BY <1>1 DEF Pick, Maps

LEMMA PicksType ==
  ASSUME NEW S, NEW P, NEW s \in Seq(S)
  PROVE  /\ Gathered(Pick(S, P), s) \in Seq(S)
         /\ Range(Gathered(Pick(S, P), s)) = Range(s) \cap P
<1>1. Pick(S, P) \in Maps(S, Seq(S))
  BY PickType
<1>2. /\ Gathered(Pick(S, P), s) \in Seq(S)
      /\ Range(Gathered(Pick(S, P), s)) = UNION {Range(Pick(S, P)[e]) : e \in Range(s)}
  BY <1>1, GatheredType
<1>3. Range(s) \subseteq S
  BY DEF Range
<1>4. ASSUME NEW e \in Range(s)
      PROVE  Range(Pick(S, P)[e]) = {e} \cap P
  <2>1. Range(<<e>>) = {e} /\ Range(<<>>) = {}
    BY DEF Range
  <2> QED
    BY <1>3, <2>1 DEF Pick
<1>5. \A x : x \in UNION {Range(Pick(S, P)[e]) : e \in Range(s)} <=> x \in Range(s) \cap P
  BY <1>4
<1> QED
  BY <1>2, <1>5

-----------------------------------------------------------------------------
(* Keys                                                                    *)

\* A key that is made is of a known curve, with a pair and a specification.
LEMMA MadeType ==
  /\ \A o \in Options : CreatePrivateKey(o, Draw) \in PrivateKeys \cup {Thrown}
  /\ \A k \in PrivateKeys, path \in Axes : Derive(k, path) \in PrivateKeys \cup {Thrown}
<1>1. ASSUME NEW k \in PrivateKeys, NEW path \in Seq(Nat)
      PROVE  Derive(k, path) \in PrivateKeys \cup {Thrown}
  <2>1. /\ k.curve \in Curves /\ k.pair \in Origins \X Seq(Nat)
        /\ k.spec.index \in Nat \cup {Absent}
    BY DEF PrivateKeys, Pairs
  <2>2. <<k.pair[1], k.pair[2] \o path>> \in Pairs
    <3>1. k.pair[1] \in Origins /\ k.pair[2] \in Seq(Nat)
      BY <2>1
    <3>2. k.pair[2] \o path \in Seq(Nat)
      BY <3>1
    <3> QED
      BY <3>1, <3>2, Zenon DEF Pairs
  <2>3. Specification(path, IF k.spec.index = Absent THEN 0 ELSE k.spec.index, TRUE)
          \in [path : Seq(Nat) \cup {Absent}, index : Nat \cup {Absent}, chainCode : BOOLEAN]
    BY <2>1 DEF Specification
  <2> QED
    BY <2>1, <2>2, <2>3 DEF Derive, PrivateKey, PrivateKeys
<1>2. ASSUME NEW o \in Options
      PROVE  CreatePrivateKey(o, Draw) \in PrivateKeys \cup {Thrown}
  <2> DEFINE index == IF o.index = Absent THEN 0 ELSE o.index
             taken == IF o.path = Absent THEN InitPath(index) ELSE o.path
  <2>1. /\ o.raw \in Pairs \cup {Absent} /\ o.seed \in Origins \cup {Absent}
        /\ index \in Nat /\ o.path \in Seq(Nat) \cup {Absent} /\ Draw \in Origins
    BY KeysAssumption
  <2>2. taken \in Seq(Nat)
    BY <2>1 DEF InitPath, KeyPurpose
  <2>3. \A s \in Origins : <<s, <<>>>> \in Pairs /\ <<s, taken>> \in Pairs
    <3>1. <<>> \in Seq(Nat)
      OBVIOUS
    <3> HIDE DEF taken
    <3> QED
      BY <2>2, <3>1 DEF Pairs
  <2> HIDE DEF index, taken
  <2>4. ASSUME NEW c \in Curves, NEW pair \in Pairs
        PROVE  FromRaw(c, pair) \in PrivateKeys
    BY DEF FromRaw, PrivateKey, NoSpecification, Specification, PrivateKeys
  <2>5. ASSUME NEW c \in Curves, NEW pair \in Pairs, NEW noted \in Nat \cup {Absent}
        PROVE  PrivateKey(c, pair, Specification(taken, noted, TRUE)) \in PrivateKeys
    BY <2>2 DEF PrivateKey, Specification, PrivateKeys
  <2>6. ASSUME o.curve \in Curves
        PROVE  FromSeed(o.curve, o.seed, index, o.path, Draw) \in PrivateKeys \cup {Thrown}
    <3> DEFINE Base(noted) == PrivateKey(o.curve, <<o.seed, <<>>>>, Specification(taken, noted, TRUE))
    <3>1. ASSUME o.seed # Absent, NEW noted \in Nat \cup {Absent}
          PROVE  (IF o.path = Absent THEN Base(noted) ELSE Derive(Base(noted), o.path))
                   \in PrivateKeys \cup {Thrown}
      <4>1. Base(noted) \in PrivateKeys
        BY <2>1, <2>3, <2>5, <2>6, <3>1
      <4> QED
        BY <1>1, <2>1, <4>1
    <3>2. index \in Nat \cup {Absent} /\ Absent \in Nat \cup {Absent}
      BY <2>1
    <3>3. CASE o.curve = "secp256k1"
      BY <2>6, <3>1, <3>2, <3>3 DEF FromSeed, taken
    <3>4. CASE o.curve = "Ed25519"
      <4>1. CASE o.seed = Absent
        BY <2>1, <2>3, <2>4, <2>6, <3>4, <4>1 DEF FromSeed
      <4>2. CASE o.seed # Absent
        BY <3>1, <3>2, <3>4, <4>2 DEF FromSeed, taken
      <4> QED
        BY <4>1, <4>2
    <3>5. CASE o.curve = "X25519"
      <4>1. CASE o.seed = Absent
        BY <2>1, <2>3, <2>4, <2>6, <3>5, <4>1 DEF FromSeed
      <4>2. CASE o.seed # Absent
        BY <2>1, <2>3, <2>5, <2>6, <3>5, <4>2 DEF FromSeed, taken
      <4> QED
        BY <4>1, <4>2
    <3> QED
      BY <2>6, <3>3, <3>4, <3>5 DEF Curves
  <2>7. CASE o.curve \in Curves /\ o.raw # Absent
    BY <2>1, <2>4, <2>7 DEF CreatePrivateKey
  <2>8. CASE o.curve \in Curves /\ o.raw = Absent
    BY <2>6, <2>8 DEF CreatePrivateKey, index
  <2> QED
    BY <2>7, <2>8 DEF CreatePrivateKey
<1> QED
  BY <1>1, <1>2, KeysAssumption

\* What a key of every type is stored and exported as gives it back.
LEMMA KeySurvives ==
  ASSUME NEW key \in PrivateKeys
  PROVE  LET restored == KeyFromRow(KeyRow(key))
             old == KeyFromRow(OldKeyRow(key))
             imported == FromJWK(PrivateJWK(key))
         IN  /\ KeyRows({KeyRow(key)}) = {KeyRow(key)}
             /\ restored = key
             /\ old.pair = key.pair /\ old.spec.index = key.spec.index
             /\ imported.public = PublicKey(key) /\ imported.private.pair = key.pair
             /\ FromPEM(ToPEM(key, "priv"), key.curve, "priv") = key.pair
             /\ FromPEM(ToPEM(key, "priv"), key.curve, "pub") = Thrown
<1> DEFINE old == [key EXCEPT !.spec = [path |-> Absent, index |-> key.spec.index, chainCode |-> FALSE]]
<1>1. /\ key.curve \in Curves /\ key.pair \in Pairs /\ key.pair # Absent
      /\ key = [curve |-> key.curve, pair |-> key.pair, spec |-> key.spec]
      /\ key.spec = [path |-> key.spec.path, index |-> key.spec.index, chainCode |-> key.spec.chainCode]
  BY OutcomesAssumption DEF PrivateKeys
<1>2. key # Thrown /\ Key(key.curve, key.pair) # Thrown
  BY <1>1, OutcomesAssumption DEF Key, PublicKeys
<1>3. \A c : <<c, "priv">> # <<"linksecret">>
  OBVIOUS
<1>4. KeyRows({KeyRow(key)}) = {KeyRow(key)}
  BY <1>3 DEF KeyRows, KeyRow, RecoveryId
<1>5. KeyFromRow(KeyRow(key)) = key
  <2>1. RestorePrivateKey(KeyRow(key)) = key
    BY <1>1 DEF RestorePrivateKey, KeyRow, RecoveryId, PrivateKey
  <2>2. KeyRow(key).index = key.spec.index
    BY DEF KeyRow
  <2>3. [key EXCEPT !.spec.index = key.spec.index] = key
    BY <1>1
  <2> QED
    BY <1>2, <2>1, <2>2, <2>3 DEF KeyFromRow, Then
<1> DEFINE oldKey == PrivateKey(key.curve, key.pair, NoSpecification)
<1>6. RestorePrivateKey(OldKeyRow(key)) = oldKey
  BY <1>1 DEF RestorePrivateKey, OldKeyRow, RecoveryId
<1>7. oldKey \in PrivateKeys
  BY <1>1 DEF PrivateKey, NoSpecification, Specification, PrivateKeys
<1>8. KeyFromRow(OldKeyRow(key)) = [oldKey EXCEPT !.spec.index = key.spec.index]
  <2>1. oldKey.spec.index = Absent /\ OldKeyRow(key).index = key.spec.index
    BY DEF PrivateKey, NoSpecification, Specification, OldKeyRow
  <2>2. oldKey # Thrown
    BY <1>7, OutcomesAssumption
  <2> HIDE DEF oldKey
  <2> QED
    BY <1>6, <2>1, <2>2 DEF KeyFromRow, Then
<1>9. [oldKey EXCEPT !.spec.index = key.spec.index].pair = key.pair
      /\ [oldKey EXCEPT !.spec.index = key.spec.index].spec.index = key.spec.index
  BY DEF PrivateKey, NoSpecification, Specification
<1> DEFINE jwk == PrivateJWK(key)
           half == [public |-> PublicKey(key), private |-> FromRaw(key.curve, key.pair)]
<1>10. FromJWK(jwk) = half
  <2>1. CASE key.curve = "secp256k1"
    <3>1. jwk = [kty |-> "EC", crv |-> "secp256k1", x |-> key.pair, y |-> key.pair, d |-> key.pair]
      BY <2>1 DEF PrivateJWK, PublicJWK, JWK, PublicKey, Key
    <3> HIDE DEF jwk
    <3>2. CreatePublicKey("secp256k1", Absent, jwk.x, jwk.y) = PublicKey(key)
      BY <1>1, <2>1, <3>1 DEF CreatePublicKey, PublicKey, Key, Curves
    <3> QED
      BY <1>1, <1>2, <2>1, <3>1, <3>2 DEF FromJWK, Curves, PublicKey
  <2>2. CASE key.curve # "secp256k1"
    <3>1. jwk = [kty |-> "OKP", crv |-> key.curve, x |-> key.pair, y |-> Absent, d |-> key.pair]
      BY <2>2 DEF PrivateJWK, PublicJWK, JWK, PublicKey, Key
    <3> HIDE DEF jwk
    <3>2. CreatePublicKey(key.curve, jwk.x, Absent, Absent) = PublicKey(key)
      BY <1>1, <2>2, <3>1 DEF CreatePublicKey, PublicKey, Key, Curves
    <3> QED
      BY <1>1, <1>2, <2>2, <3>1, <3>2 DEF FromJWK, Curves, PublicKey
  <2> QED
    BY <2>1, <2>2
<1>11. half.public = PublicKey(key) /\ half.private.pair = key.pair
  BY DEF FromRaw, PrivateKey
<1>12. PemLabel(key.curve, "priv") # PemLabel(key.curve, "pub")
  BY DEF PemLabel
<1>13. /\ FromPEM(ToPEM(key, "priv"), key.curve, "priv") = key.pair
       /\ FromPEM(ToPEM(key, "priv"), key.curve, "pub") = Thrown
  BY <1>12 DEF FromPEM, ToPEM
<1> QED
  BY <1>4, <1>5, <1>6, <1>8, <1>9, <1>10, <1>11, <1>13

KeysInv == made \subseteq PrivateKeys

\* Whatever way keys are made, and derived, each is the same key after it was
\* stored or exported (KeyRepository, restorePrivateKey, FromJWK, PEM).
THEOREM KeysCorrect == Spec => []KeysSurviveStorage
<1>1. Init => KeysInv
  BY DEF Init, KeysInv
<1>2. KeysInv /\ [Next]_vars => KeysInv'
  <2> SUFFICES ASSUME KeysInv, [Next]_vars PROVE KeysInv'
    OBVIOUS
  <2>1. ASSUME NEW o \in Options, MakeKey(o)
        PROVE  KeysInv'
    BY <2>1, MadeType DEF MakeKey, Make, KeysInv
  <2>2. ASSUME NEW k \in made, NEW path \in Axes, DeriveKey(k, path)
        PROVE  KeysInv'
    BY <2>2, MadeType DEF DeriveKey, Make, KeysInv
  <2>3. ASSUME UNCHANGED made
        PROVE  KeysInv'
    BY <2>3 DEF KeysInv
  <2>4. CASE UNCHANGED vars
    BY <2>3, <2>4 DEF vars
  <2>5. ASSUME NEW p \in Payloads, CreateDID(p)
        PROVE  UNCHANGED made
    BY <2>5 DEF CreateDID
  <2>6. ASSUME NEW d \in dids, NEW form, NEW again, Publish(d, form, again)
        PROVE  UNCHANGED made
    BY <2>6 DEF Publish
  <2>7. ASSUME NEW issuer, NEW holder, NEW claims, NEW status, NEW given,
               IssueOwn(issuer, holder, claims) \/ IssueFramed(issuer, holder, claims, status, given)
        PROVE  UNCHANGED made
    BY <2>7 DEF IssueOwn, IssueFramed, Issue
  <2>8. ASSUME NEW thid, NEW request, RequestPresentation(thid, request)
        PROVE  UNCHANGED made
    BY <2>8 DEF RequestPresentation
  <2>9. ASSUME NEW token, NEW i, NEW frame, NEW oea, CreatePresentation(token, i, frame, oea)
        PROVE  UNCHANGED made
    BY <2>9 DEF CreatePresentation
  <2>10. ASSUME NEW s, Verify(s)
         PROVE  UNCHANGED made
    BY <2>10 DEF Verify
  <2> QED
    BY <2>1, <2>2, <2>3, <2>4, <2>5, <2>6, <2>7, <2>8, <2>9, <2>10 DEF Next
<1>3. KeysInv => KeysSurviveStorage
  BY KeySurvives DEF KeysInv, KeysSurviveStorage
<1> QED
  BY <1>1, <1>2, <1>3, PTL DEF Spec

-----------------------------------------------------------------------------
(* Documents                                                               *)

PublicEntries == [usage : STRING, list : Seq(PublicKeys) \ {<<>>}]
KeysIn(entries) == UNION {Range(entries[i].list) : i \in DOMAIN entries}
Protos == {CreateProtos(k, u, n) : k \in PublicKeys, u \in PrismDIDKeyUsage, n \in Nat}

\* An operation has a master key, and keys of the entries only.
LEMMA OperationKeys ==
  ASSUME NEW entries \in Seq(PublicEntries), NEW services,
         \E i \in DOMAIN entries : entries[i].usage = "MASTER_KEY",
         \A i \in DOMAIN entries : entries[i].usage \in PrismDIDKeyUsage
  PROVE  LET keys == CreateOperation(entries, services).public_keys
         IN  /\ keys \in Seq(Protos) /\ keys # <<>>
             /\ \A x \in Range(keys) : x.key \in KeysIn(entries)
<1> DEFINE S == {e \in PublicEntries : e.usage \in PrismDIDKeyUsage /\ Range(e.list) \subseteq KeysIn(entries)}
           M == {e \in S : e.usage = "MASTER_KEY"}
           N == {e \in S : e.usage # "MASTER_KEY"}
           T == {x \in Protos : x.key \in KeysIn(entries)}
<1>1. entries \in Seq(S)
  <2>1. \A i \in DOMAIN entries : entries[i] \in S
    BY DEF KeysIn
  <2>2. Len(entries) \in Nat /\ DOMAIN entries = 1 .. Len(entries)
    OBVIOUS
  <2>3. entries = [i \in 1 .. Len(entries) |-> entries[i]]
    BY <2>2
  <2> HIDE DEF S
  <2>4. [i \in 1 .. Len(entries) |-> entries[i]] \in [1 .. Len(entries) -> S]
    BY <2>1, <2>2
  <2> QED
    BY <2>2, <2>3, <2>4, Sequenced, Zenon
<1> DEFINE masters == Filtered(entries, LAMBDA e : e.usage = "MASTER_KEY")
           others == Filtered(entries, LAMBDA e : e.usage # "MASTER_KEY")
<1>2. masters \in Seq(S) /\ Range(masters) = Range(entries) \cap M
  <2>1. \A i \in DOMAIN entries : entries[i] \in S
    BY <1>1
  <2>2. masters = Gathered(Pick(S, M), entries)
    BY <2>1 DEF Filtered, Gathered, Mapped, Pick
  <2> HIDE DEF masters, S, M
  <2> QED
    BY <1>1, <2>2, PicksType
<1>3. others \in Seq(S) /\ Range(others) = Range(entries) \cap N
  <2>1. \A i \in DOMAIN entries : entries[i] \in S
    BY <1>1
  <2>2. others = Gathered(Pick(S, N), entries)
    BY <2>1 DEF Filtered, Gathered, Mapped, Pick
  <2> HIDE DEF others, S, N
  <2> QED
    BY <1>1, <2>2, PicksType
<1> DEFINE master == masters[1].list[1]
<1>4. master \in KeysIn(entries) /\ master \in PublicKeys
  <2>1. PICK i \in DOMAIN entries : entries[i].usage = "MASTER_KEY"
    OBVIOUS
  <2>2. entries[i] \in Range(masters)
    <3>1. entries[i] \in Range(entries) /\ entries[i] \in M
      BY <1>1, <2>1 DEF Range
    <3> QED
      BY <1>2, <3>1
  <2>3. masters[1] \in S
    <3> HIDE DEF masters, S
    <3>1. Len(masters) # 0
      BY <1>2, <2>2 DEF Range
    <3> QED
      BY <1>2, <3>1
  <2> HIDE DEF masters
  <2>4. masters[1].list \in Seq(PublicKeys) /\ Len(masters[1].list) # 0
    BY <2>3 DEF PublicEntries
  <2>5. master \in Range(masters[1].list)
    BY <2>4 DEF Range
  <2>6. master \in PublicKeys
    BY <2>4
  <2> QED
    BY <2>3, <2>5, <2>6
<1> DEFINE Each(e) == [j \in DOMAIN e.list |-> CreateProtos(e.list[j], e.usage, j - 1)]
           g == [e \in S |-> Each(e)]
<1>5. ASSUME NEW e \in S
      PROVE  Each(e) \in Seq(T)
  <2>1. /\ e.usage \in PrismDIDKeyUsage /\ e.list \in Seq(PublicKeys) /\ Len(e.list) \in Nat
        /\ DOMAIN e.list = 1 .. Len(e.list) /\ Range(e.list) \subseteq KeysIn(entries)
    BY DEF PublicEntries
  <2>2. ASSUME NEW j \in 1 .. Len(e.list)
        PROVE  CreateProtos(e.list[j], e.usage, j - 1) \in T
    <3>1. e.list[j] \in PublicKeys /\ e.list[j] \in KeysIn(entries) /\ j - 1 \in Nat
      BY <2>1 DEF Range
    <3>2. CreateProtos(e.list[j], e.usage, j - 1).key = e.list[j]
      BY DEF CreateProtos
    <3>3. CreateProtos(e.list[j], e.usage, j - 1) \in Protos
      BY <2>1, <3>1 DEF Protos
    <3> QED
      BY <3>1, <3>2, <3>3
  <2> HIDE DEF T
  <2>3. Each(e) \in [1 .. Len(e.list) -> T]
    BY <2>1, <2>2
  <2> QED
    BY <2>1, <2>3, Sequenced
<1> DEFINE first == CreateProtos(master, "MASTER_KEY", 0)
           rest == FlattenSeq(MapSeq(Each, others))
<1>6. first \in T
  <2>1. first.key = master
    BY DEF CreateProtos
  <2>2. "MASTER_KEY" \in PrismDIDKeyUsage /\ 0 \in Nat
    BY DEF PrismDIDKeyUsage, UsageWord
  <2> HIDE DEF master
  <2>3. first \in Protos
    BY <1>4, <2>2 DEF Protos
  <2> QED
    BY <1>4, <2>1, <2>3
<1>7. rest \in Seq(T)
  <2>1. g \in Maps(S, Seq(T))
    <3> HIDE DEF S, T
    <3> QED
      BY <1>5 DEF Maps
  <2>2. MapSeq(Each, others) = Mapped(g, others)
    <3> HIDE DEF others, S
    <3>1. \A i \in DOMAIN others : others[i] \in S
      BY <1>3
    <3> QED
      BY <3>1 DEF MapSeq, Mapped
  <2> HIDE DEF g, S, T, others
  <2> QED
    BY <1>3, <2>1, <2>2, GatheredType DEF Gathered
<1>8. CreateOperation(entries, services).public_keys = <<first>> \o rest
  BY DEF CreateOperation
<1> HIDE DEF first, rest, T, S
<1>9. <<first>> \o rest \in Seq(T) /\ <<first>> \o rest # <<>>
  BY <1>6, <1>7
<1>10. T \subseteq Protos /\ \A x \in T : x.key \in KeysIn(entries)
  BY DEF T
<1> DEFINE all == <<first>> \o rest
<1>11. all \in Seq(Protos) /\ Range(all) \subseteq T
  <2>1. all \in Seq(T)
    BY <1>9
  <2> HIDE DEF all
  <2> QED
    BY <1>10, <2>1 DEF Range
<1> QED
  BY <1>8, <1>9, <1>10, <1>11

\* The values of a kind, property by property.
Properties(W) == [kind : Kinds, values : Seq(W)]
Proper(doc) == \E W : doc.coreProperties \in Seq(Properties(W))
OfKind(W, kind) == [q \in Properties(W) |-> IF q.kind = kind THEN q.values ELSE <<>>]

LEMMA OfKindType ==
  ASSUME NEW W, NEW kind
  PROVE  OfKind(W, kind) \in Maps(Properties(W), Seq(W))
<1>1. ASSUME NEW q \in Properties(W)
      PROVE  (IF q.kind = kind THEN q.values ELSE <<>>) \in Seq(W)
  BY DEF Properties
<1> QED
  BY <1>1 DEF OfKind, Maps

LEMMA ValuesGathered ==
  ASSUME NEW W, NEW kind, NEW doc, doc.coreProperties \in Seq(Properties(W))
  PROVE  ValuesOf(doc, kind) = Gathered(OfKind(W, kind), doc.coreProperties)
<1> DEFINE ps == doc.coreProperties
<1>1. \A i \in DOMAIN ps : ps[i] \in Properties(W)
  OBVIOUS
<1> HIDE DEF ps
<1>2. MapSeq(LAMBDA q : IF q.kind = kind THEN q.values ELSE <<>>, ps) = Mapped(OfKind(W, kind), ps)
  BY <1>1 DEF MapSeq, Mapped, OfKind
<1> QED
  BY <1>2 DEF ValuesOf, Gathered, ps

LEMMA PropertyType ==
  ASSUME NEW W, NEW k \in Kinds, NEW values \in Seq(W)
  PROVE  /\ PropertyUnlessEmpty(k, values) \in Seq(Properties(W))
         /\ Property(k, values) \in Properties(W)
         /\ <<Property(k, values)>> \in Seq(Properties(W))
<1>1. Property(k, values) \in Properties(W)
  BY DEF Property, Properties
<1>2. <<Property(k, values)>> \in Seq(Properties(W)) /\ <<>> \in Seq(Properties(W))
  BY <1>1, One
<1> QED
  BY <1>1, <1>2 DEF PropertyUnlessEmpty

LEMMA KindConcat ==
  ASSUME NEW W, NEW kind, NEW ps \in Seq(Properties(W)), NEW qs \in Seq(Properties(W))
  PROVE  Gathered(OfKind(W, kind), ps \o qs)
           = Gathered(OfKind(W, kind), ps) \o Gathered(OfKind(W, kind), qs)
<1>1. OfKind(W, kind) \in Maps(Properties(W), Seq(W))
  BY OfKindType
<1> QED
  BY <1>1, GatheredConcat

LEMMA PropertyValues ==
  ASSUME NEW W, NEW kind, NEW k \in Kinds, NEW values \in Seq(W)
  PROVE  Gathered(OfKind(W, kind), <<Property(k, values)>>) = IF k = kind THEN values ELSE <<>>
<1>1. Property(k, values) \in Properties(W)
  BY PropertyType
<1>2. OfKind(W, kind)[Property(k, values)] = IF k = kind THEN values ELSE <<>>
  BY <1>1 DEF OfKind, Property
<1> QED
  BY <1>1, <1>2, OfKindType, GatheredOne

LEMMA UnlessEmptyValues ==
  ASSUME NEW W, NEW kind, NEW k \in Kinds, NEW values \in Seq(W)
  PROVE  Gathered(OfKind(W, kind), PropertyUnlessEmpty(k, values)) = IF k = kind THEN values ELSE <<>>
BY PropertyValues, GatheredEmpty DEF PropertyUnlessEmpty

LEMMA FlattenFive ==
  ASSUME NEW S, NEW ss \in Seq(Seq(S)), Len(ss) = 5
  PROVE  FlattenSeq(ss) = (((ss[1] \o ss[2]) \o ss[3]) \o ss[4]) \o ss[5]
<1> DEFINE T == Seq(S)
           a == ss[1]
           b == ss[2]
           c == ss[3]
           d == ss[4]
           e == ss[5]
<1>7. a \in T /\ b \in T /\ c \in T /\ d \in T /\ e \in T
  <2>1. ss \in Seq(T)
    OBVIOUS
  <2> HIDE DEF T
  <2>2. \A i \in 1 .. 5 : ss[i] \in T
    <3>1. \A s \in Seq(T) : \A i \in 1 .. Len(s) : s[i] \in T
      OBVIOUS
    <3> QED
      BY <2>1, <3>1
  <2>3. 1 \in 1 .. 5 /\ 2 \in 1 .. 5 /\ 3 \in 1 .. 5 /\ 4 \in 1 .. 5 /\ 5 \in 1 .. 5
    OBVIOUS
  <2> QED
    BY <2>2, <2>3
<1>8. ss = <<a, b, c, d, e>>
  OBVIOUS
<1> HIDE DEF a, b, c, d, e
<1>1. FlattenSeq(<<a>>) = a
  <2>1. <<a>> = Append(<<>>, a) /\ <<>> \in Seq(Seq(S))
    BY <1>7
  <2>2. FlattenSeq(Append(<<>>, a)) = FlattenSeq(<<>>) \o a
    BY <1>7, <2>1, FlattenAppend
  <2>3. <<>> \o a = a
    BY <1>7
  <2> QED
    BY <2>1, <2>2, <2>3, FlattenEmpty, Zenon
<1>2. FlattenSeq(<<a, b>>) = a \o b
  <2>1. <<a, b>> = Append(<<a>>, b) /\ <<a>> \in Seq(Seq(S))
    BY <1>7
  <2>2. FlattenSeq(Append(<<a>>, b)) = FlattenSeq(<<a>>) \o b
    BY <1>7, <2>1, FlattenAppend
  <2> QED
    BY <1>1, <2>1, <2>2, Zenon
<1>3. FlattenSeq(<<a, b, c>>) = (a \o b) \o c
  <2>1. <<a, b, c>> = Append(<<a, b>>, c) /\ <<a, b>> \in Seq(Seq(S))
    BY <1>7
  <2>2. FlattenSeq(Append(<<a, b>>, c)) = FlattenSeq(<<a, b>>) \o c
    BY <1>7, <2>1, FlattenAppend
  <2> QED
    BY <1>2, <2>1, <2>2, Zenon
<1>4. FlattenSeq(<<a, b, c, d>>) = ((a \o b) \o c) \o d
  <2>1. <<a, b, c, d>> = Append(<<a, b, c>>, d) /\ <<a, b, c>> \in Seq(Seq(S))
    BY <1>7
  <2>2. FlattenSeq(Append(<<a, b, c>>, d)) = FlattenSeq(<<a, b, c>>) \o d
    BY <1>7, <2>1, FlattenAppend
  <2> QED
    BY <1>3, <2>1, <2>2, Zenon
<1>5. <<a, b, c, d, e>> = Append(<<a, b, c, d>>, e) /\ <<a, b, c, d>> \in Seq(Seq(S))
  BY <1>7
<1>6. FlattenSeq(Append(<<a, b, c, d>>, e)) = FlattenSeq(<<a, b, c, d>>) \o e
  BY <1>5, <1>7, FlattenAppend
<1> QED
  BY <1>4, <1>5, <1>6, <1>8, Zenon DEF a, b, c, d, e

LEMMA FirstMethodsAre ==
  ASSUME NEW doc, NEW X, NEW values, doc.coreProperties \in Seq(X), Len(doc.coreProperties) >= 1,
         doc.coreProperties[1] = Property("verificationMethod", values)
  PROVE  FirstMethods(doc) = values
<1> DEFINE ps == doc.coreProperties
           I == {i \in 1 .. Len(ps) : ps[i].kind = "verificationMethod"}
<1>1. ps[1].kind = "verificationMethod" /\ ps[1].values = values
  BY DEF Property
<1>2. Len(ps) \in Nat
  OBVIOUS
<1> HIDE DEF ps
<1>3. 1 \in I /\ I \subseteq Nat /\ \A i \in I : 1 <= i
  BY <1>1, <1>2 DEF ps
<1>4. Min(I) = 1
  <2> HIDE DEF I
  <2> QED
    BY <1>3, MinIs
<1>5. SelectInSeq(doc.coreProperties, LAMBDA p : p.kind = "verificationMethod") = 1
  BY <1>3, <1>4 DEF SelectInSeq, ps
<1> QED
  BY <1>1, <1>5 DEF FirstMethods, With, ps

\* What a prism DID that carries its operation resolves to, kind by kind.
MethodsOf(did, keys) == [i \in DOMAIN keys |-> PrismMethod(did, keys[i])]
DecodedService(s) == Service(s.id, Type(TRUE, <<s.type>>), s.endpoints[1])
ServicesOf(services) == MapSeq(DecodedService, Filtered(services, LAMBDA s : s.endpoints # <<>>))
KeysUsedFor(keys, usage) == Filtered(keys, LAMBDA x : x.usage = usage)

LEMMA PrismDocument ==
  ASSUME NEW Z, NEW did, NEW answer, did.method = "prism", did.state # Absent,
         did.state.public_keys \in Seq(Protos), did.state.services \in Seq(Z),
         NEW doc, doc = ResolveDID(did, answer), doc # Thrown
  PROVE  LET keys == did.state.public_keys
         IN  /\ Proper(doc) /\ FirstMethods(doc) = MethodsOf(did, keys)
             /\ ValuesOf(doc, "verificationMethod") = MethodsOf(did, keys)
             /\ ValuesOf(doc, "service") = ServicesOf(did.state.services)
             /\ \A r \in Relationships :
                  ValuesOf(doc, r) = MethodsOf(did, KeysUsedFor(keys, UsageOf[r]))
<1> DEFINE keys == did.state.public_keys
           services == did.state.services
           W == {PrismMethod(did, x) : x \in Protos} \cup {DecodedService(s) : s \in Z}
           Used(u) == KeysUsedFor(keys, u)
           all == MethodsOf(did, keys)
           served == ServicesOf(services)
           Serving(r) == MethodsOf(did, Used(UsageOf[r]))
           Group(r) == PropertyUnlessEmpty(r, Serving(r))
           words == <<"authentication", "assertionMethod", "keyAgreement",
                      "capabilityDelegation", "capabilityInvocation">>
           related == FlattenSeq(MapSeq(Group, words))
<1>1. ASSUME NEW ks \in Seq(Protos)
      PROVE  MethodsOf(did, ks) \in Seq(W)
  <2>1. MethodsOf(did, ks) \in [1 .. Len(ks) -> W]
    BY DEF MethodsOf
  <2> HIDE DEF W
  <2>2. Len(ks) \in Nat
    OBVIOUS
  <2> QED
    BY <2>1, <2>2, Sequenced
<1>2. ASSUME NEW u
      PROVE  Used(u) \in Seq(Protos)
  <2> DEFINE P == {x \in Protos : x.usage = u}
  <2>1. \A i \in DOMAIN keys : keys[i] \in Protos
    OBVIOUS
  <2>2. Used(u) = Gathered(Pick(Protos, P), keys)
    BY <2>1 DEF KeysUsedFor, Filtered, Gathered, Mapped, Pick
  <2> HIDE DEF P
  <2> QED
    BY <2>2, PicksType
<1>3. served \in Seq(W)
  <2> DEFINE kept == Filtered(services, LAMBDA s : s.endpoints # <<>>)
             P == {x \in Z : x.endpoints # <<>>}
  <2>1. \A i \in DOMAIN services : services[i] \in Z
    OBVIOUS
  <2>2. kept = Gathered(Pick(Z, P), services)
    BY <2>1 DEF Filtered, Gathered, Mapped, Pick
  <2> HIDE DEF P
  <2>3. kept \in Seq(Z)
    BY <2>2, PicksType
  <2> HIDE DEF kept
  <2>4. MapSeq(DecodedService, kept) \in [1 .. Len(kept) -> W] /\ Len(kept) \in Nat
    BY <2>3 DEF MapSeq
  <2> HIDE DEF W
  <2> QED
    BY <2>4, Sequenced DEF ServicesOf, kept
<1>4. doc = Document(did, <<Property("verificationMethod", all)>>
                          \o PropertyUnlessEmpty("service", served) \o related)
  BY DEF ResolveDID, PrismResolve, LongFormResolve, LongFormDocument, MethodsOf, ServicesOf, KeysUsedFor, MapSeq, DecodedService
<1> HIDE DEF W, Used
<1>5. \A r \in Relationships : Serving(r) \in Seq(W)
  BY <1>1, <1>2
<1>6. all \in Seq(W)
  BY <1>1
<1> HIDE DEF all, served, Serving
<1> DEFINE X == Properties(W)
           P == Property("verificationMethod", all)
           S == PropertyUnlessEmpty("service", served)
<1>7. "verificationMethod" \in Kinds /\ "service" \in Kinds /\ Relationships \subseteq Kinds
  BY DEF Kinds
<1>8. /\ P \in X /\ <<P>> \in Seq(X) /\ S \in Seq(X)
      /\ \A r \in Relationships : Group(r) \in Seq(X)
  <2>1. P \in X /\ <<P>> \in Seq(X)
    BY <1>6, <1>7, PropertyType
  <2>2. \A r \in Relationships : Group(r) \in Seq(X)
    BY <1>5, <1>7, PropertyType
  <2>3. S \in Seq(X)
    BY <1>3, <1>7, PropertyType
  <2> QED
    BY <2>1, <2>2, <2>3
<1>9. related = (((Group("authentication") \o Group("assertionMethod")) \o Group("keyAgreement"))
                 \o Group("capabilityDelegation")) \o Group("capabilityInvocation")
  <2>1. MapSeq(Group, words) = <<Group("authentication"), Group("assertionMethod"), Group("keyAgreement"),
                                 Group("capabilityDelegation"), Group("capabilityInvocation")>>
    BY DEF MapSeq
  <2> HIDE DEF Group, X
  <2>2. /\ Group("authentication") \in Seq(X) /\ Group("assertionMethod") \in Seq(X)
        /\ Group("keyAgreement") \in Seq(X) /\ Group("capabilityDelegation") \in Seq(X)
        /\ Group("capabilityInvocation") \in Seq(X)
    BY <1>8 DEF Relationships
  <2>3. FlattenSeq(<<Group("authentication"), Group("assertionMethod"), Group("keyAgreement"),
                     Group("capabilityDelegation"), Group("capabilityInvocation")>>)
          = (((Group("authentication") \o Group("assertionMethod")) \o Group("keyAgreement"))
             \o Group("capabilityDelegation")) \o Group("capabilityInvocation")
    <3> DEFINE ss == <<Group("authentication"), Group("assertionMethod"), Group("keyAgreement"),
                       Group("capabilityDelegation"), Group("capabilityInvocation")>>
    <3>1. /\ ss \in Seq(Seq(X)) /\ Len(ss) = 5
          /\ ss[1] = Group("authentication") /\ ss[2] = Group("assertionMethod")
          /\ ss[3] = Group("keyAgreement") /\ ss[4] = Group("capabilityDelegation")
          /\ ss[5] = Group("capabilityInvocation")
      BY <2>2
    <3> HIDE DEF ss
    <3>2. FlattenSeq(ss) = (((ss[1] \o ss[2]) \o ss[3]) \o ss[4]) \o ss[5]
      BY <3>1, FlattenFive
    <3> QED
      BY <3>1, <3>2 DEF ss
  <2> QED
    BY <2>1, <2>3
<1>10. related \in Seq(X)
  <2> HIDE DEF Group, X, related
  <2>1. /\ Group("authentication") \in Seq(X) /\ Group("assertionMethod") \in Seq(X)
        /\ Group("keyAgreement") \in Seq(X) /\ Group("capabilityDelegation") \in Seq(X)
        /\ Group("capabilityInvocation") \in Seq(X)
    BY <1>8 DEF Relationships
  <2> QED
    BY <1>9, <2>1
<1> DEFINE ps == (<<P>> \o S) \o related
<1>11. doc.coreProperties = ps /\ ps \in Seq(X)
  <2>1. doc.coreProperties = ps
    <3>1. \A a, b : doc = Document(a, b) => doc.coreProperties = b
      BY DEF Document
    <3> QED
      BY <1>4, <3>1, Zenon
  <2> HIDE DEF P, S, related, X
  <2>2. ps \in Seq(X)
    BY <1>8, <1>10
  <2> QED
    BY <2>1, <2>2
<1>12. FirstMethods(doc) = all
  <2>1. ps[1] = P /\ Len(ps) >= 1
    <3> HIDE DEF P, S, related, X
    <3> QED
      BY <1>8, <1>10
  <2>2. ps[1] = Property("verificationMethod", all)
    BY <2>1
  <2>3. doc.coreProperties = ps /\ ps \in Seq(Properties(W))
    BY <1>11
  <2> HIDE DEF P, ps
  <2> QED
    BY <2>1, <2>2, <2>3, FirstMethodsAre
<1> DEFINE Gets(kind, some) == Gathered(OfKind(W, kind), some)
           Given(kind, k, values) == IF k = kind THEN values ELSE <<>>
<1>13. ASSUME NEW kind
       PROVE  /\ ValuesOf(doc, kind) = Gets(kind, ps)
              /\ \A u, v \in Seq(Properties(W)) : Gets(kind, u \o v) = Gets(kind, u) \o Gets(kind, v)
  <2> HIDE DEF P, S, related, Group, all, served, Serving
  <2>1. ValuesOf(doc, kind) = Gets(kind, ps)
    BY <1>11, ValuesGathered
  <2> HIDE DEF ps
  <2>2. \A u, v \in Seq(Properties(W)) : Gets(kind, u \o v) = Gets(kind, u) \o Gets(kind, v)
    BY KindConcat
  <2> QED
    BY <2>1, <2>2
<1> HIDE DEF Gets
<1>14. ASSUME NEW kind
       PROVE  Gets(kind, related) =
                (((Gets(kind, Group("authentication")) \o Gets(kind, Group("assertionMethod")))
                  \o Gets(kind, Group("keyAgreement"))) \o Gets(kind, Group("capabilityDelegation")))
                \o Gets(kind, Group("capabilityInvocation"))
  <2> DEFINE a == Group("authentication")
             b == Group("assertionMethod")
             c == Group("keyAgreement")
             d == Group("capabilityDelegation")
             e == Group("capabilityInvocation")
  <2>1. /\ a \in Seq(Properties(W)) /\ b \in Seq(Properties(W)) /\ c \in Seq(Properties(W))
        /\ d \in Seq(Properties(W)) /\ e \in Seq(Properties(W))
    BY <1>8 DEF Relationships
  <2>2. related = (((a \o b) \o c) \o d) \o e
    BY <1>9
  <2> HIDE DEF a, b, c, d, e, related
  <2>3. a \o b \in Seq(Properties(W))
    BY <2>1
  <2>4. (a \o b) \o c \in Seq(Properties(W))
    BY <2>1, <2>3
  <2>5. ((a \o b) \o c) \o d \in Seq(Properties(W))
    BY <2>1, <2>4
  <2>6. Gets(kind, a \o b) = Gets(kind, a) \o Gets(kind, b)
    BY <1>13, <2>1, Zenon
  <2>7. Gets(kind, (a \o b) \o c) = Gets(kind, a \o b) \o Gets(kind, c)
    BY <1>13, <2>1, <2>3, Zenon
  <2>8. Gets(kind, ((a \o b) \o c) \o d) = Gets(kind, (a \o b) \o c) \o Gets(kind, d)
    BY <1>13, <2>1, <2>4, Zenon
  <2>9. Gets(kind, (((a \o b) \o c) \o d) \o e) = Gets(kind, ((a \o b) \o c) \o d) \o Gets(kind, e)
    BY <1>13, <2>1, <2>5, Zenon
  <2>10. Gets(kind, related) = (((Gets(kind, a) \o Gets(kind, b)) \o Gets(kind, c)) \o Gets(kind, d)) \o Gets(kind, e)
    BY <2>2, <2>6, <2>7, <2>8, <2>9, Zenon
  <2> QED
    BY <2>10 DEF a, b, c, d, e
<1>15. ASSUME NEW kind
       PROVE  /\ Gets(kind, <<P>>) = Given(kind, "verificationMethod", all)
              /\ Gets(kind, S) = Given(kind, "service", served)
              /\ \A r \in Relationships : Gets(kind, Group(r)) = Given(kind, r, Serving(r))
  <2>1. Gets(kind, <<P>>) = Given(kind, "verificationMethod", all)
    BY <1>6, <1>7, PropertyValues DEF Gets
  <2>2. Gets(kind, S) = Given(kind, "service", served)
    BY <1>3, <1>7, UnlessEmptyValues DEF Gets
  <2>3. ASSUME NEW r \in Relationships
        PROVE  Gets(kind, Group(r)) = Given(kind, r, Serving(r))
    BY <1>5, <1>7, UnlessEmptyValues DEF Gets
  <2> QED
    BY <2>1, <2>2, <2>3
<1> HIDE DEF Group, P, S, related
<1>16. ASSUME NEW kind
       PROVE  ValuesOf(doc, kind) =
                (Given(kind, "verificationMethod", all) \o Given(kind, "service", served))
                \o ((((Given(kind, "authentication", Serving("authentication"))
                       \o Given(kind, "assertionMethod", Serving("assertionMethod")))
                      \o Given(kind, "keyAgreement", Serving("keyAgreement")))
                     \o Given(kind, "capabilityDelegation", Serving("capabilityDelegation")))
                    \o Given(kind, "capabilityInvocation", Serving("capabilityInvocation")))
  <2>1. \A r \in Relationships : Gets(kind, Group(r)) = Given(kind, r, Serving(r))
    BY <1>15
  <2> HIDE DEF Given
  <2>2. /\ Gets(kind, Group("authentication")) = Given(kind, "authentication", Serving("authentication"))
        /\ Gets(kind, Group("assertionMethod")) = Given(kind, "assertionMethod", Serving("assertionMethod"))
        /\ Gets(kind, Group("keyAgreement")) = Given(kind, "keyAgreement", Serving("keyAgreement"))
        /\ Gets(kind, Group("capabilityDelegation")) = Given(kind, "capabilityDelegation", Serving("capabilityDelegation"))
        /\ Gets(kind, Group("capabilityInvocation")) = Given(kind, "capabilityInvocation", Serving("capabilityInvocation"))
    BY <2>1 DEF Relationships
  <2>3. ValuesOf(doc, kind) = (Gets(kind, <<P>>) \o Gets(kind, S)) \o Gets(kind, related)
    <3> HIDE DEF all, served, Given, X
    <3>1. <<P>> \o S \in Seq(X) /\ <<P>> \in Seq(X) /\ S \in Seq(X) /\ related \in Seq(X)
      BY <1>8, <1>10
    <3>2. X = Properties(W)
      BY DEF X
    <3> HIDE DEF ps
    <3>3. Gets(kind, <<P>> \o S) = Gets(kind, <<P>>) \o Gets(kind, S)
      BY <1>13, <3>1, <3>2, Zenon
    <3>4. Gets(kind, (<<P>> \o S) \o related) = Gets(kind, <<P>> \o S) \o Gets(kind, related)
      BY <1>13, <3>1, <3>2, Zenon
    <3>5. ps = (<<P>> \o S) \o related
      BY DEF ps
    <3> QED
      BY <1>13, <3>3, <3>4, <3>5, Zenon
  <2> QED
    BY <1>14, <1>15, <2>2, <2>3 DEF Given
<1> DEFINE E == <<>>
<1>17. /\ E \o E = E
       /\ \A s \in Seq(W) : E \o s = s /\ s \o E = s
  OBVIOUS
<1>18. ValuesOf(doc, "verificationMethod") = all
  <2>1. ValuesOf(doc, "verificationMethod") = (all \o <<>>)
          \o ((((<<>> \o <<>>) \o <<>>) \o <<>>) \o <<>>)
    BY <1>16
  <2> QED
    BY <1>17, <1>6, <2>1, Zenon
<1>19. ValuesOf(doc, "service") = served
  <2>1. ValuesOf(doc, "service") = (<<>> \o served)
          \o ((((<<>> \o <<>>) \o <<>>) \o <<>>) \o <<>>)
    BY <1>16
  <2> QED
    BY <1>17, <1>3, <2>1, Zenon
<1>20. ASSUME NEW r \in Relationships
       PROVE  ValuesOf(doc, r) = Serving(r)
  <2>1. ValuesOf(doc, "authentication") = Serving("authentication")
    <3>1. Serving("authentication") \in Seq(W)
      BY <1>5 DEF Relationships
    <3>2. ValuesOf(doc, "authentication") = (<<>> \o <<>>)
            \o ((((Serving("authentication") \o <<>>) \o <<>>) \o <<>>) \o <<>>)
      BY <1>16
    <3> QED
      BY <1>17, <3>1, <3>2, Zenon
  <2>2. ValuesOf(doc, "assertionMethod") = Serving("assertionMethod")
    <3>1. Serving("assertionMethod") \in Seq(W)
      BY <1>5 DEF Relationships
    <3>2. ValuesOf(doc, "assertionMethod") = (<<>> \o <<>>)
            \o ((((<<>> \o Serving("assertionMethod")) \o <<>>) \o <<>>) \o <<>>)
      BY <1>16
    <3> QED
      BY <1>17, <3>1, <3>2, Zenon
  <2>3. ValuesOf(doc, "keyAgreement") = Serving("keyAgreement")
    <3>1. Serving("keyAgreement") \in Seq(W)
      BY <1>5 DEF Relationships
    <3>2. ValuesOf(doc, "keyAgreement") = (<<>> \o <<>>)
            \o ((((<<>> \o <<>>) \o Serving("keyAgreement")) \o <<>>) \o <<>>)
      BY <1>16
    <3> QED
      BY <1>17, <3>1, <3>2, Zenon
  <2>4. ValuesOf(doc, "capabilityDelegation") = Serving("capabilityDelegation")
    <3>1. Serving("capabilityDelegation") \in Seq(W)
      BY <1>5 DEF Relationships
    <3>2. ValuesOf(doc, "capabilityDelegation") = (<<>> \o <<>>)
            \o ((((<<>> \o <<>>) \o <<>>) \o Serving("capabilityDelegation")) \o <<>>)
      BY <1>16
    <3> QED
      BY <1>17, <3>1, <3>2, Zenon
  <2>5. ValuesOf(doc, "capabilityInvocation") = Serving("capabilityInvocation")
    <3>1. Serving("capabilityInvocation") \in Seq(W)
      BY <1>5 DEF Relationships
    <3>2. ValuesOf(doc, "capabilityInvocation") = (<<>> \o <<>>)
            \o ((((<<>> \o <<>>) \o <<>>) \o <<>>) \o Serving("capabilityInvocation"))
      BY <1>16
    <3> QED
      BY <1>17, <3>1, <3>2, Zenon
  <2> QED
    BY <2>1, <2>2, <2>3, <2>4, <2>5 DEF Relationships
<1>21. Proper(doc)
  <2>1. doc.coreProperties \in Seq(Properties(W))
    BY <1>11
  <2> HIDE DEF ps
  <2> QED
    BY <2>1 DEF Proper
<1> QED
  BY <1>12, <1>18, <1>19, <1>20, <1>21 DEF all, served, Serving, Used

\* Appending an element is joining it; the first of two joined is the first.
LEMMA Appended ==
  ASSUME NEW X, NEW s \in Seq(X), NEW e \in X
  PROVE  s \o <<e>> = Append(s, e)
<1>1. <<e>> \in Seq(X) /\ Len(<<e>>) = 1 /\ <<e>>[1] = e
  OBVIOUS
<1>2. /\ s \o <<e>> \in Seq(X) /\ Len(s \o <<e>>) = Len(s) + 1
      /\ Append(s, e) \in Seq(X) /\ Len(Append(s, e)) = Len(s) + 1
  BY <1>1
<1>3. ASSUME NEW i \in 1 .. Len(s) + 1
      PROVE  (s \o <<e>>)[i] = Append(s, e)[i]
  <2>1. CASE i \in 1 .. Len(s)
    BY <1>1, <2>1
  <2>2. CASE i = Len(s) + 1
    BY <1>1, <2>2
  <2> QED
    BY <2>1, <2>2
<1> QED
  BY <1>2, <1>3, SeqEqual

LEMMA JoinedFirst ==
  ASSUME NEW X, NEW s \in Seq(X), NEW t \in Seq(X), Len(s) >= 1
  PROVE  s \o t \in Seq(X) /\ Len(s \o t) >= 1 /\ (s \o t)[1] = s[1]
<1>1. Len(s) \in Nat /\ Len(t) \in Nat /\ 1 \in 1 .. Len(s)
  OBVIOUS
<1>2. s \o t \in Seq(X) /\ Len(s \o t) = Len(s) + Len(t)
  OBVIOUS
<1>3. (s \o t)[1] = s[1]
  BY <1>1, ConcatProperties
<1> QED
  BY <1>1, <1>2, <1>3

\* What a document of a peer DID lists, kind by kind.
Lists(doc, signing, agreement, services) ==
  /\ Proper(doc) /\ FirstMethods(doc) = signing \o agreement
  /\ ValuesOf(doc, "verificationMethod") = signing \o agreement
  /\ ValuesOf(doc, "authentication") = signing
  /\ ValuesOf(doc, "keyAgreement") = agreement
  /\ ValuesOf(doc, "service") = services
  /\ \A kind \in {"assertionMethod", "capabilityDelegation", "capabilityInvocation"} :
       ValuesOf(doc, kind) = <<>>

LEMMA PeerDocumentValues ==
  ASSUME NEW W, NEW did, NEW signing \in Seq(W), NEW agreement \in Seq(W), NEW services \in Seq(W)
  PROVE  Lists(PeerDocument(did, signing, agreement, services), signing, agreement, services)
<1> SUFFICES ASSUME NEW doc, doc = PeerDocument(did, signing, agreement, services)
             PROVE  Lists(doc, signing, agreement, services)
  OBVIOUS
<1> DEFINE all == signing \o agreement
           a == <<Property("verificationMethod", all)>>
           b == <<Property("authentication", signing)>>
           c == <<Property("keyAgreement", agreement)>>
           d == <<Property("service", services)>>
           ps == ((a \o b) \o c) \o d
           Given(kind, k, values) == IF k = kind THEN values ELSE <<>>
           Gets(kind, qs) == Gathered(OfKind(W, kind), qs)
<1>1. all \in Seq(W)
  OBVIOUS
<1>2. doc.coreProperties = ps
  <2>1. doc.coreProperties = <<Property("verificationMethod", all), Property("authentication", signing),
                               Property("keyAgreement", agreement), Property("service", services)>>
    BY DEF PeerDocument, Document
  <2> DEFINE w == Property("verificationMethod", all)
             x == Property("authentication", signing)
             y == Property("keyAgreement", agreement)
             z == Property("service", services)
  <2>2. doc.coreProperties = <<w, x, y, z>>
    BY <2>1
  <2> HIDE DEF w, x, y, z
  <2>3. <<w, x, y, z>> = ((<<w>> \o <<x>>) \o <<y>>) \o <<z>>
    <3> DEFINE X == {w, x, y, z}
    <3>1. w \in X /\ x \in X /\ y \in X /\ z \in X
      OBVIOUS
    <3> HIDE DEF X
    <3> QED
      <4>1. <<w>> \in Seq(X) /\ <<w, x>> \in Seq(X) /\ <<w, x, y>> \in Seq(X)
        BY <3>1
      <4>2. <<w>> \o <<x>> = <<w, x>>
        <5>1. <<w>> \o <<x>> = Append(<<w>>, x)
          BY <3>1, <4>1, Appended
        <5>2. <<w, x>> = Append(<<w>>, x)
          BY <4>1
        <5> QED
          BY <5>1, <5>2, Zenon
      <4>3. <<w, x>> \o <<y>> = <<w, x, y>>
        <5>1. <<w, x>> \o <<y>> = Append(<<w, x>>, y)
          BY <3>1, <4>1, Appended
        <5>2. <<w, x, y>> = Append(<<w, x>>, y)
          BY <4>1
        <5> QED
          BY <5>1, <5>2, Zenon
      <4>4. <<w, x, y>> \o <<z>> = <<w, x, y, z>>
        <5>1. <<w, x, y>> \o <<z>> = Append(<<w, x, y>>, z)
          BY <3>1, <4>1, Appended
        <5>2. <<w, x, y, z>> = Append(<<w, x, y>>, z)
          BY <4>1
        <5> QED
          BY <5>1, <5>2, Zenon
      <4> QED
        BY <4>2, <4>3, <4>4, Zenon
  <2>4. doc.coreProperties = ((<<w>> \o <<x>>) \o <<y>>) \o <<z>>
    BY <2>2, <2>3, Zenon
  <2> QED
    BY <2>4 DEF w, x, y, z
<1>3. {"verificationMethod", "authentication", "keyAgreement", "service"} \subseteq Kinds
  BY DEF Kinds, Relationships
<1> HIDE DEF all
<1>4. /\ a \in Seq(Properties(W)) /\ b \in Seq(Properties(W))
      /\ c \in Seq(Properties(W)) /\ d \in Seq(Properties(W))
  BY <1>1, <1>3, PropertyType
<1>5. ASSUME NEW kind
      PROVE  /\ Gets(kind, a) = Given(kind, "verificationMethod", all)
             /\ Gets(kind, b) = Given(kind, "authentication", signing)
             /\ Gets(kind, c) = Given(kind, "keyAgreement", agreement)
             /\ Gets(kind, d) = Given(kind, "service", services)
  <2>1. Gets(kind, a) = Given(kind, "verificationMethod", all)
    BY <1>1, <1>3, PropertyValues
  <2>2. Gets(kind, b) = Given(kind, "authentication", signing)
    BY <1>3, PropertyValues
  <2>3. Gets(kind, c) = Given(kind, "keyAgreement", agreement)
    BY <1>3, PropertyValues
  <2>4. Gets(kind, d) = Given(kind, "service", services)
    BY <1>3, PropertyValues
  <2> QED
    BY <2>1, <2>2, <2>3, <2>4
<1>6. a[1] = Property("verificationMethod", all) /\ Len(a) = 1
  OBVIOUS
<1> HIDE DEF a, b, c, d
<1>30. ASSUME NEW kind
      PROVE  \A u, v \in Seq(Properties(W)) : Gets(kind, u \o v) = Gets(kind, u) \o Gets(kind, v)
  <2> HIDE DEF Given
  <2> QED
    BY KindConcat
<1> DEFINE ab == a \o b
           abc == ab \o c
<1>7. /\ ab \in Seq(Properties(W))
      /\ Len(ab) >= 1 /\ ab[1] = a[1]
  <2>1. Len(a) >= 1
    BY <1>6
  <2> QED
    BY <1>4, <2>1, JoinedFirst
<1>8. ASSUME NEW kind
      PROVE  Gets(kind, ab) = Gets(kind, a) \o Gets(kind, b)
  <2> HIDE DEF Gets
  <2> QED
    BY <1>4, <1>30, Zenon
<1> HIDE DEF ab
<1>9. /\ abc \in Seq(Properties(W))
      /\ Len(abc) >= 1 /\ abc[1] = a[1]
  BY <1>4, <1>7, JoinedFirst
<1>10. ASSUME NEW kind
      PROVE  Gets(kind, abc) = Gets(kind, ab) \o Gets(kind, c)
  <2>1. ab \in Seq(Properties(W)) /\ c \in Seq(Properties(W))
    BY <1>4, <1>7
  <2> HIDE DEF Gets
  <2> QED
    BY <1>30, <2>1, Zenon
<1> HIDE DEF abc
<1>11. ps = abc \o d
  BY DEF abc, ab
<1> HIDE DEF ps
<1>12. ps \in Seq(Properties(W)) /\ Len(ps) >= 1 /\ ps[1] = a[1]
  BY <1>4, <1>9, <1>11, JoinedFirst
<1>13. ASSUME NEW kind
      PROVE  Gets(kind, ps) = Gets(kind, abc) \o Gets(kind, d)
  <2> HIDE DEF Gets
  <2> QED
    BY <1>4, <1>9, <1>11, <1>30, Zenon
<1>14. ASSUME NEW kind
       PROVE  ValuesOf(doc, kind) = ((Gets(kind, a) \o Gets(kind, b)) \o Gets(kind, c)) \o Gets(kind, d)
  <2>1. ValuesOf(doc, kind) = Gets(kind, ps)
    BY <1>2, <1>12, ValuesGathered
  <2> HIDE DEF Gets
  <2> QED
    BY <2>1, <1>8, <1>10, <1>13, Zenon
<1> HIDE DEF Gets
<1>15. ASSUME NEW kind
      PROVE  ValuesOf(doc, kind) =
               ((Given(kind, "verificationMethod", all) \o Given(kind, "authentication", signing))
                \o Given(kind, "keyAgreement", agreement)) \o Given(kind, "service", services)
  BY <1>5, <1>14, Zenon
<1> DEFINE E == <<>>
<1>16. E \o E = E /\ \A s \in Seq(W) : E \o s = s /\ s \o E = s
  OBVIOUS
<1>17. ValuesOf(doc, "verificationMethod") = all
  <2>1. ValuesOf(doc, "verificationMethod") = ((all \o E) \o E) \o E
    BY <1>15
  <2> QED
    BY <1>1, <1>16, <2>1, Zenon
<1>18. ValuesOf(doc, "authentication") = signing
  <2>1. ValuesOf(doc, "authentication") = ((E \o signing) \o E) \o E
    BY <1>15
  <2> QED
    BY <1>16, <2>1, Zenon
<1>19. ValuesOf(doc, "keyAgreement") = agreement
  <2>1. ValuesOf(doc, "keyAgreement") = ((E \o E) \o agreement) \o E
    BY <1>15
  <2> QED
    BY <1>16, <2>1, Zenon
<1>20. ValuesOf(doc, "service") = services
  <2>1. ValuesOf(doc, "service") = ((E \o E) \o E) \o services
    BY <1>15
  <2> QED
    BY <1>16, <2>1, Zenon
<1>21. ASSUME NEW kind \in {"assertionMethod", "capabilityDelegation", "capabilityInvocation"}
       PROVE  ValuesOf(doc, kind) = <<>>
  <2>1. ValuesOf(doc, kind) = ((E \o E) \o E) \o E
    BY <1>15
  <2> QED
    BY <1>16, <2>1, Zenon
<1>22. FirstMethods(doc) = all
  BY <1>2, <1>6, <1>12, FirstMethodsAre
<1>23. Proper(doc)
  BY <1>2, <1>12 DEF Proper
<1> QED
  BY <1>17, <1>18, <1>19, <1>20, <1>21, <1>22, <1>23 DEF all, Lists

\* A filter that all elements pass, or none.
LEMMA GatheredAppend ==
  ASSUME NEW S, NEW T, NEW f \in Maps(S, Seq(T)), NEW s \in Seq(S), NEW e \in S
  PROVE  Gathered(f, Append(s, e)) = Gathered(f, s) \o f[e]
<1> DEFINE one == <<e>>
<1>1. one \in Seq(S)
  OBVIOUS
<1> HIDE DEF one
<1>2. Gathered(f, s \o one) = Gathered(f, s) \o Gathered(f, one)
  BY <1>1, GatheredConcat
<1> USE DEF one
<1>3. Gathered(f, <<e>>) = f[e]
  BY GatheredOne
<1>4. s \o <<e>> = Append(s, e)
  BY Appended
<1> QED
  BY <1>2, <1>3, <1>4, Zenon

LEMMA PickAll ==
  ASSUME NEW S, NEW P, NEW s \in Seq(S), Range(s) \subseteq P
  PROVE  Gathered(Pick(S, P), s) = s
<1> DEFINE T == {t \in Seq(S) : Range(t) \subseteq P => Gathered(Pick(S, P), t) = t}
<1>1. <<>> \in T
  <2>1. Gathered(Pick(S, P), <<>>) = <<>>
    BY GatheredEmpty
  <2> QED
    BY <2>1
<1>2. ASSUME NEW t \in Seq(S), NEW e \in S, t \in T
      PROVE  Append(t, e) \in T
  <2>1. Append(t, e) \in Seq(S)
    OBVIOUS
  <2>2. ASSUME Range(Append(t, e)) \subseteq P
        PROVE  Gathered(Pick(S, P), Append(t, e)) = Append(t, e)
    <3>1. /\ Len(Append(t, e)) = Len(t) + 1 /\ Append(t, e)[Len(t) + 1] = e
          /\ \A i \in 1 .. Len(t) : Append(t, e)[i] = t[i]
      OBVIOUS
    <3>2. e \in P /\ Range(t) \subseteq P
      BY <2>2, <3>1 DEF Range
    <3>3. Gathered(Pick(S, P), t) = t
      BY <1>2, <3>2
    <3>4. Pick(S, P)[e] = <<e>>
      BY <3>2 DEF Pick
    <3>5. Gathered(Pick(S, P), Append(t, e)) = Gathered(Pick(S, P), t) \o Pick(S, P)[e]
      BY PickType, GatheredAppend
    <3>6. t \o <<e>> = Append(t, e)
      BY Appended
    <3> QED
      BY <3>3, <3>4, <3>5, <3>6, Zenon
  <2> QED
    BY <2>1, <2>2
<1> HIDE DEF T
<1>3. Seq(S) \subseteq T
  BY <1>1, <1>2, SeqInduction
<1>4. s \in T
  BY <1>3
<1> QED
  BY <1>4 DEF T

LEMMA PickNone ==
  ASSUME NEW S, NEW P, NEW s \in Seq(S), Range(s) \cap P = {}
  PROVE  Gathered(Pick(S, P), s) = <<>>
<1> DEFINE g == Gathered(Pick(S, P), s)
<1>1. g \in Seq(S) /\ Range(g) = {}
  BY PicksType
<1> HIDE DEF g
<1>2. Len(g) = 0
  <2>1. Len(g) \in Nat /\ DOMAIN g = 1 .. Len(g)
    BY <1>1
  <2>2. Len(g) # 0 => g[1] \in Range(g)
    BY <2>1 DEF Range
  <2> QED
    BY <1>1, <2>2, Zenon
<1>3. g = <<>>
  BY <1>1, <1>2
<1> QED
  BY <1>3 DEF g

\* The positions, of n, that a filter keeps when it keeps k after the first m.
Upto(m, k) == [j \in 1 .. k |-> m + j]

LEMMA UptoType ==
  ASSUME NEW m \in Nat, NEW k \in Nat
  PROVE  /\ Upto(m, k) \in Seq(Nat) /\ Len(Upto(m, k)) = k
         /\ DOMAIN Upto(m, k) = 1 .. k
         /\ \A j \in 1 .. k : Upto(m, k)[j] = m + j
<1>1. Upto(m, k) \in [1 .. k -> Nat]
  BY DEF Upto
<1> QED
  BY <1>1, Sequenced DEF Upto

LEMMA UptoConcat ==
  ASSUME NEW m \in Nat, NEW k \in Nat, NEW l \in Nat
  PROVE  Upto(m, k) \o Upto(m + k, l) = Upto(m, k + l)
<1> DEFINE s == Upto(m, k)
           t == Upto(m + k, l)
           u == Upto(m, k + l)
<1>1. /\ s \in Seq(Nat) /\ Len(s) = k
      /\ \A j \in 1 .. k : s[j] = m + j
  BY UptoType
<1>2. /\ t \in Seq(Nat) /\ Len(t) = l
      /\ \A j \in 1 .. l : t[j] = m + k + j
  <2>1. m + k \in Nat
    OBVIOUS
  <2> QED
    BY <2>1, UptoType
<1>3. /\ u \in Seq(Nat) /\ Len(u) = k + l
      /\ \A j \in 1 .. k + l : u[j] = m + j
  <2>1. k + l \in Nat
    OBVIOUS
  <2> QED
    BY <2>1, UptoType
<1> HIDE DEF s, t, u
<1>4. s \o t \in Seq(Nat) /\ Len(s \o t) = k + l
  BY <1>1, <1>2
<1>5. ASSUME NEW j \in 1 .. k + l
      PROVE  (s \o t)[j] = u[j]
  <2>1. CASE j \in 1 .. k
    BY <1>1, <1>2, <1>3, <2>1
  <2>2. CASE j \in k + 1 .. k + l
    <3>1. (s \o t)[j] = t[j - k] /\ j - k \in 1 .. l
      BY <1>1, <1>2, <2>2
    <3> QED
      BY <1>2, <1>3, <3>1
  <2>3. j \in 1 .. k \/ j \in k + 1 .. k + l
    OBVIOUS
  <2> QED
    BY <2>1, <2>2, <2>3
<1>6. s \o t = u
  BY <1>3, <1>4, <1>5, SeqEqual
<1> QED
  BY <1>6 DEF s, t, u

LEMMA Positioned ==
  ASSUME NEW m \in Nat, NEW k \in Nat, NEW l \in Nat, NEW P,
         \A i \in 1 .. m + k + l : i \in P <=> m < i /\ i <= m + k
  PROVE  Gathered(Pick(Nat, P), Upto(0, m + k + l)) = Upto(m, k)
<1> DEFINE f == Pick(Nat, P)
           a == Upto(0, m)
           b == Upto(m, k)
           c == Upto(m + k, l)
<1>1. f \in Maps(Nat, Seq(Nat))
  BY PickType
<1>2. /\ a \in Seq(Nat) /\ b \in Seq(Nat) /\ c \in Seq(Nat)
      /\ Range(a) = 1 .. m /\ Range(b) = m + 1 .. m + k /\ Range(c) = m + k + 1 .. m + k + l
  <2>1. a \in Seq(Nat) /\ Range(a) = 1 .. m
    <3>1. a \in Seq(Nat) /\ DOMAIN a = 1 .. m /\ \A j \in 1 .. m : a[j] = 0 + j
      BY UptoType
    <3> HIDE DEF a
    <3> QED
      BY <3>1 DEF Range
  <2>2. b \in Seq(Nat) /\ Range(b) = m + 1 .. m + k
    <3>1. b \in Seq(Nat) /\ DOMAIN b = 1 .. k /\ \A j \in 1 .. k : b[j] = m + j
      BY UptoType
    <3>2. \A i \in m + 1 .. m + k : i - m \in 1 .. k /\ m + (i - m) = i
      OBVIOUS
    <3> HIDE DEF b
    <3>3. \A i \in m + 1 .. m + k : i \in Range(b)
      BY <3>1, <3>2 DEF Range
    <3>4. \A i \in Range(b) : i \in m + 1 .. m + k
      BY <3>1 DEF Range
    <3> QED
      BY <3>1, <3>3, <3>4
  <2>3. c \in Seq(Nat) /\ Range(c) = m + k + 1 .. m + k + l
    <3>1. c \in Seq(Nat) /\ DOMAIN c = 1 .. l /\ \A j \in 1 .. l : c[j] = m + k + j
      <4>1. m + k \in Nat
        OBVIOUS
      <4> QED
        BY <4>1, UptoType
    <3>2. \A i \in m + k + 1 .. m + k + l : i - (m + k) \in 1 .. l /\ m + k + (i - (m + k)) = i
      OBVIOUS
    <3> HIDE DEF c
    <3>3. \A i \in m + k + 1 .. m + k + l : i \in Range(c)
      BY <3>1, <3>2 DEF Range
    <3>4. \A i \in Range(c) : i \in m + k + 1 .. m + k + l
      BY <3>1 DEF Range
    <3> QED
      BY <3>1, <3>3, <3>4
  <2> QED
    BY <2>1, <2>2, <2>3
<1>3. Upto(0, m + k + l) = (a \o b) \o c
  <2>1. a \o b = Upto(0, m + k)
    <3>1. Upto(0, m) \o Upto(0 + m, k) = Upto(0, m + k)
      BY UptoConcat
    <3> QED
      BY <3>1
  <2>2. Upto(0, m + k) \o Upto(0 + (m + k), l) = Upto(0, (m + k) + l)
    <3>1. m + k \in Nat
      OBVIOUS
    <3> QED
      BY <3>1, UptoConcat
  <2>3. 0 + (m + k) = m + k /\ (m + k) + l = m + k + l
    OBVIOUS
  <2> QED
    BY <2>1, <2>2, <2>3
<1>4. Range(a) \cap P = {} /\ Range(b) \subseteq P /\ Range(c) \cap P = {}
  BY <1>2
<1> HIDE DEF f, a, b, c
<1>5. Gathered(f, a) = <<>>
  BY <1>2, <1>4, PickNone DEF f
<1>6. Gathered(f, b) = b
  BY <1>2, <1>4, PickAll DEF f
<1>7. Gathered(f, c) = <<>>
  BY <1>2, <1>4, PickNone DEF f
<1>8. a \o b \in Seq(Nat)
  BY <1>2
<1>9. Gathered(f, a \o b) = Gathered(f, a) \o Gathered(f, b)
  BY <1>1, <1>2, GatheredConcat
<1>10. Gathered(f, (a \o b) \o c) = Gathered(f, a \o b) \o Gathered(f, c)
  <2> DEFINE ab == a \o b
  <2>1. ab \in Seq(Nat) /\ c \in Seq(Nat)
    BY <1>2, <1>8
  <2> HIDE DEF ab
  <2>2. Gathered(f, ab \o c) = Gathered(f, ab) \o Gathered(f, c)
    BY <1>1, <2>1, GatheredConcat
  <2> QED
    BY <2>2 DEF ab
<1>11. <<>> \o b = b /\ b \o <<>> = b
  BY <1>2
<1>12. Gathered(f, (a \o b) \o c) = b
  BY <1>5, <1>6, <1>7, <1>9, <1>10, <1>11, Zenon
<1> QED
  BY <1>3, <1>12 DEF f, b

\* The parts of a peer DID: the encryption keys, the signing keys, the services.
LEMMA OfType ==
  ASSUME NEW keys \in Seq(PublicKeys), NEW curve
  PROVE  /\ Of(keys, curve) \in Seq(PublicKeys) /\ Len(Of(keys, curve)) \in Nat
         /\ \A i \in 1 .. Len(Of(keys, curve)) :
              Of(keys, curve)[i] \in Range(keys) /\ Of(keys, curve)[i].curve = curve
<1> DEFINE P == {k \in PublicKeys : k.curve = curve}
           s == Of(keys, curve)
<1>1. \A i \in DOMAIN keys : keys[i] \in PublicKeys
  OBVIOUS
<1>2. s = Gathered(Pick(PublicKeys, P), keys)
  BY <1>1 DEF Of, Filtered, Gathered, Mapped, Pick
<1> HIDE DEF P, s
<1>3. s \in Seq(PublicKeys) /\ Range(s) = Range(keys) \cap P
  BY <1>2, PicksType
<1>4. Len(s) \in Nat /\ \A i \in 1 .. Len(s) : s[i] \in Range(s)
  BY <1>3 DEF Range
<1> QED
  BY <1>3, <1>4 DEF P, s

LEMMA PeerParts ==
  ASSUME NEW keys \in Seq(PublicKeys), NEW services, NEW did,
         did = CreatePeerDID(keys, services), did # Thrown
  PROVE  LET e == Of(keys, "X25519")
             v == Of(keys, "Ed25519")
         IN  /\ did.method = "peer" /\ did.numalgo = 2
             /\ DOMAIN did.parts = 1 .. Len(e) + Len(v) + 1 /\ Len(did.parts) = Len(e) + Len(v) + 1
             /\ \A i \in 1 .. Len(e) : did.parts[i] = Part("E", e[i])
             /\ \A i \in 1 .. Len(v) : did.parts[Len(e) + i] = Part("V", v[i])
             /\ did.parts[Len(e) + Len(v) + 1] = Part("S", EncodeService(services))
<1> DEFINE e == Of(keys, "X25519")
           v == Of(keys, "Ed25519")
           es == [i \in DOMAIN e |-> Part("E", e[i])]
           vs == [i \in DOMAIN v |-> Part("V", v[i])]
           last == Part("S", EncodeService(services))
           X == {Part(p, k) : p \in {"E", "V"}, k \in PublicKeys} \cup {last}
<1>1. did = PeerDID(es \o vs, EncodeService(services))
  BY DEF CreatePeerDID, MapSeq, Of
<1>2. e \in Seq(PublicKeys) /\ v \in Seq(PublicKeys)
  BY OfType
<1>3. /\ did.method = "peer" /\ did.numalgo = 2
      /\ did.parts = Append(es \o vs, last)
  BY <1>1 DEF PeerDID
<1> HIDE DEF e, v, last
<1>4. es \in Seq(X) /\ Len(es) = Len(e) /\ Len(e) \in Nat
  <2>1. es \in [1 .. Len(e) -> X] /\ Len(e) \in Nat
    BY <1>2
  <2> HIDE DEF es, X
  <2> QED
    BY <2>1, Sequenced
<1>5. vs \in Seq(X) /\ Len(vs) = Len(v) /\ Len(v) \in Nat
  <2>1. vs \in [1 .. Len(v) -> X] /\ Len(v) \in Nat
    BY <1>2
  <2> HIDE DEF vs, X
  <2> QED
    BY <2>1, Sequenced
<1>6. last \in X
  OBVIOUS
<1>7. /\ \A i \in 1 .. Len(e) : es[i] = Part("E", e[i])
      /\ \A i \in 1 .. Len(v) : vs[i] = Part("V", v[i])
  BY <1>2
<1> DEFINE ks == es \o vs
           all == Append(ks, last)
<1> HIDE DEF es, vs, X
<1>8. ks \in Seq(X) /\ Len(ks) = Len(e) + Len(v)
  BY <1>4, <1>5
<1>9. \A i \in 1 .. Len(e) : ks[i] = Part("E", e[i])
  BY <1>4, <1>5, <1>7
<1>10. ASSUME NEW i \in 1 .. Len(v)
       PROVE  ks[Len(e) + i] = Part("V", v[i])
  <2>1. ks[Len(e) + i] = vs[i]
    BY <1>4, <1>5
  <2> QED
    BY <1>7, <2>1
<1> HIDE DEF ks
<1>11. /\ all \in Seq(X) /\ Len(all) = Len(e) + Len(v) + 1
       /\ all[Len(e) + Len(v) + 1] = last
       /\ \A i \in 1 .. Len(e) + Len(v) : all[i] = ks[i]
  <2>1. all \in Seq(X) /\ Len(all) = Len(ks) + 1
    BY <1>6, <1>8
  <2>2. all[Len(ks) + 1] = last
    BY <1>6, <1>8
  <2>3. \A i \in 1 .. Len(ks) : all[i] = ks[i]
    BY <1>6, <1>8
  <2> HIDE DEF all
  <2> QED
    BY <1>8, <2>1, <2>2, <2>3
<1> HIDE DEF all
<1>12. DOMAIN all = 1 .. Len(e) + Len(v) + 1
  BY <1>11
<1>13. \A i \in 1 .. Len(e) : i \in 1 .. Len(e) + Len(v)
  BY <1>4, <1>5
<1>14. \A i \in 1 .. Len(v) : Len(e) + i \in 1 .. Len(e) + Len(v)
  BY <1>4, <1>5
<1>15. did.parts = all
  BY <1>3 DEF all, ks
<1> QED
  BY <1>3, <1>9, <1>10, <1>11, <1>12, <1>13, <1>14, <1>15 DEF e, v, last

\* What a peer DID resolves to: its keys by curve, each named by its position.
KeyMethod(did, k, i) ==
  LET id == Id(did, <<"key", i>>)
  IN  VerificationMethod(id, did, "JsonWebKey2020",
        [kty |-> "OKP", crv |-> k.curve, x |-> k.pair, y |-> Absent, kid |-> id], Absent)
KeyMethods(did, keys, n) == [j \in DOMAIN keys |-> KeyMethod(did, keys[j], n + j)]

LEMMA PeerIsDocument ==
  ASSUME NEW Z, NEW keys \in Seq(PublicKeys), NEW services \in Seq(Z), NEW did,
         did = CreatePeerDID(keys, services), did # Thrown, NEW answer
  PROVE  LET e == Of(keys, "X25519")
             v == Of(keys, "Ed25519")
         IN  Lists(ResolveDID(did, answer), KeyMethods(did, v, Len(e)), KeyMethods(did, e, 0),
                   DecodeService(did, did.parts[Len(e) + Len(v) + 1]))
<1> DEFINE e == Of(keys, "X25519")
           v == Of(keys, "Ed25519")
           n == Len(e) + Len(v) + 1
           parts == did.parts
           Kept(prefix) == {i \in Nat : parts[i].prefix = prefix}
           ids == [i \in DOMAIN parts |-> i]
           Positions(prefix) == Filtered(ids, LAMBDA i : parts[i].prefix = prefix)
           es == KeyMethods(did, e, 0)
           vs == KeyMethods(did, v, Len(e))
           served == DecodeService(did, parts[n])
<1>1. /\ did.method = "peer" /\ did.numalgo = 2
      /\ DOMAIN parts = 1 .. n
      /\ \A i \in 1 .. Len(e) : parts[i] = Part("E", e[i])
      /\ \A i \in 1 .. Len(v) : parts[Len(e) + i] = Part("V", v[i])
      /\ parts[n] = Part("S", EncodeService(services))
  BY PeerParts
<1>2. /\ e \in Seq(PublicKeys) /\ Len(e) \in Nat /\ \A i \in 1 .. Len(e) : e[i].curve = "X25519"
      /\ v \in Seq(PublicKeys) /\ Len(v) \in Nat /\ \A i \in 1 .. Len(v) : v[i].curve = "Ed25519"
  BY OfType
<1> HIDE DEF e, v, parts
<1>3. ids = Upto(0, n)
  BY <1>1, <1>2 DEF Upto
<1>4. ASSUME NEW prefix
      PROVE  Positions(prefix) = Gathered(Pick(Nat, Kept(prefix)), Upto(0, n))
  <2>1. \A i \in DOMAIN ids : ids[i] \in Nat
    BY <1>1, <1>2
  <2>2. Positions(prefix) = Gathered(Pick(Nat, Kept(prefix)), ids)
    BY <2>1 DEF Filtered, Gathered, Mapped, Pick
  <2> QED
    BY <1>3, <2>2
<1>5. ASSUME NEW i \in 1 .. n
      PROVE  /\ parts[i].prefix = "E" <=> i <= Len(e)
             /\ parts[i].prefix = "V" <=> Len(e) < i /\ i <= Len(e) + Len(v)
             /\ parts[i].prefix = "S" <=> Len(e) + Len(v) < i
  <2>1. CASE i \in 1 .. Len(e)
    <3>1. parts[i].prefix = "E"
      <4>1. parts[i] = Part("E", e[i])
        BY <1>1, <2>1
      <4> QED
        BY <4>1 DEF Part
    <3>2. i <= Len(e) /\ ~(Len(e) < i) /\ ~(Len(e) + Len(v) < i)
      BY <1>2, <2>1
    <3> QED
      BY <3>1, <3>2
  <2>2. CASE i \in Len(e) + 1 .. Len(e) + Len(v)
    <3>1. i - Len(e) \in 1 .. Len(v) /\ Len(e) + (i - Len(e)) = i
      BY <1>2, <2>2
    <3>2. parts[i] = Part("V", v[i - Len(e)])
      BY <1>1, <3>1
    <3>3. parts[i].prefix = "V"
      BY <3>2 DEF Part
    <3>4. ~(i <= Len(e)) /\ Len(e) < i /\ i <= Len(e) + Len(v) /\ ~(Len(e) + Len(v) < i)
      BY <1>2, <2>2
    <3> QED
      BY <3>3, <3>4
  <2>3. CASE i = n
    <3>1. parts[i].prefix = "S"
      BY <1>1, <2>3 DEF Part
    <3>2. ~(i <= Len(e)) /\ ~(i <= Len(e) + Len(v)) /\ Len(e) + Len(v) < i
      BY <1>2, <2>3
    <3> QED
      BY <3>1, <3>2
  <2>4. i \in 1 .. Len(e) \/ i \in Len(e) + 1 .. Len(e) + Len(v) \/ i = n
    BY <1>2
  <2> QED
    BY <2>1, <2>2, <2>3, <2>4
<1> HIDE DEF Positions, ids
<1>6. Positions("E") = Upto(0, Len(e))
  <2> DEFINE K == Kept("E")
             l == Len(v) + 1
  <2>1. /\ l \in Nat /\ 0 + Len(e) + l = n /\ Len(e) \in Nat
        /\ \A i \in 1 .. 0 + Len(e) + l : i \in K <=> 0 < i /\ i <= 0 + Len(e)
    BY <1>2, <1>5
  <2> HIDE DEF K, l
  <2>2. Gathered(Pick(Nat, K), Upto(0, 0 + Len(e) + l)) = Upto(0, Len(e))
    BY <2>1, Positioned
  <2> QED
    BY <1>4, <2>1, <2>2 DEF K
<1>7. Positions("V") = Upto(Len(e), Len(v))
  <2> DEFINE K == Kept("V")
  <2>1. \A i \in 1 .. Len(e) + Len(v) + 1 : i \in K <=> Len(e) < i /\ i <= Len(e) + Len(v)
    BY <1>2, <1>5
  <2> HIDE DEF K
  <2>2. Gathered(Pick(Nat, K), Upto(0, Len(e) + Len(v) + 1)) = Upto(Len(e), Len(v))
    BY <1>2, <2>1, Positioned
  <2> QED
    BY <1>4, <2>2 DEF K
<1>8. Positions("S") = <<n>>
  <2> DEFINE K == Kept("S")
             m == Len(e) + Len(v)
  <2>1. /\ m \in Nat /\ m + 1 + 0 = n
        /\ \A i \in 1 .. m + 1 + 0 : i \in K <=> m < i /\ i <= m + 1
    BY <1>2, <1>5
  <2> HIDE DEF K, m
  <2>2. Gathered(Pick(Nat, K), Upto(0, m + 1 + 0)) = Upto(m, 1)
    BY <2>1, Positioned
  <2>3. Upto(m, 1) = <<n>>
    BY <2>1 DEF Upto
  <2> QED
    BY <1>4, <2>1, <2>2, <2>3 DEF K
<1>9. MapSeq(LAMBDA i : PeerMethod(did, i), Positions("E")) = es
  <2>1. DOMAIN Upto(0, Len(e)) = 1 .. Len(e) /\ \A j \in 1 .. Len(e) : Upto(0, Len(e))[j] = 0 + j
    BY <1>2, UptoType
  <2>2. DOMAIN e = 1 .. Len(e)
    BY <1>2
  <2>3. ASSUME NEW j \in 1 .. Len(e)
        PROVE  PeerMethod(did, 0 + j) = KeyMethod(did, e[j], 0 + j)
    <3>1. parts[j] = Part("E", e[j]) /\ e[j].curve = "X25519" /\ 0 + j = j
      BY <1>1, <1>2
    <3> QED
      BY <3>1 DEF PeerMethod, KeyMethod, Part, DecodedCurve, parts
  <2> QED
    BY <1>6, <2>1, <2>2, <2>3 DEF MapSeq, KeyMethods
<1>10. MapSeq(LAMBDA i : PeerMethod(did, i), Positions("V")) = vs
  <2>1. /\ DOMAIN Upto(Len(e), Len(v)) = 1 .. Len(v)
        /\ \A j \in 1 .. Len(v) : Upto(Len(e), Len(v))[j] = Len(e) + j
    BY <1>2, UptoType
  <2>2. DOMAIN v = 1 .. Len(v)
    BY <1>2
  <2>3. ASSUME NEW j \in 1 .. Len(v)
        PROVE  PeerMethod(did, Len(e) + j) = KeyMethod(did, v[j], Len(e) + j)
    <3>1. parts[Len(e) + j] = Part("V", v[j]) /\ v[j].curve = "Ed25519"
      BY <1>1, <1>2
    <3> QED
      BY <3>1 DEF PeerMethod, KeyMethod, Part, DecodedCurve, parts
  <2> QED
    BY <1>7, <2>1, <2>2, <2>3 DEF MapSeq, KeyMethods
<1> DEFINE W == Range(es) \cup Range(vs) \cup Range(served)
<1>11. es \in Seq(W)
  <2>1. es \in [1 .. Len(e) -> W]
    BY <1>2 DEF KeyMethods, Range
  <2> HIDE DEF es, W
  <2> QED
    BY <1>2, <2>1, Sequenced
<1>12. vs \in Seq(W)
  <2>1. vs = [i \in 1 .. Len(v) |-> vs[i]] /\ DOMAIN vs = 1 .. Len(v)
    BY <1>2 DEF KeyMethods
  <2>2. Range(vs) \subseteq W
    OBVIOUS
  <2> HIDE DEF vs, W
  <2>3. vs \in [1 .. Len(v) -> W]
    BY <2>1, <2>2 DEF Range
  <2> QED
    BY <1>2, <2>3, Sequenced
<1>13. served \in Seq(W)
  <2> DEFINE typed == Filtered(services, LAMBDA s : FirstType(s.type) # Absent)
             P == {s \in Z : FirstType(s.type) # Absent}
  <2>1. \A i \in DOMAIN services : services[i] \in Z
    OBVIOUS
  <2>2. typed = Gathered(Pick(Z, P), services)
    BY <2>1 DEF Filtered, Gathered, Mapped, Pick
  <2> HIDE DEF P
  <2>3. typed \in Seq(Z)
    BY <2>2, PicksType
  <2> HIDE DEF typed
  <2>4. DOMAIN EncodeService(services).of = DOMAIN typed
    BY DEF EncodeService, With, MapSeq, typed
  <2>5. DOMAIN served = 1 .. Len(typed) /\ Len(typed) \in Nat
    BY <1>1, <2>3, <2>4 DEF DecodeService, Part
  <2>6. served = [i \in 1 .. Len(typed) |-> served[i]]
    BY <2>5 DEF DecodeService
  <2>7. \A i \in 1 .. Len(typed) : served[i] \in W
    BY <2>5 DEF Range
  <2> HIDE DEF served, W
  <2>8. served \in [1 .. Len(typed) -> W]
    BY <2>6, <2>7
  <2> QED
    BY <2>5, <2>8, Sequenced
<1>14. FlattenSeq(MapSeq(LAMBDA i : DecodeService(did, parts[i]), Positions("S"))) = served
  <2>1. MapSeq(LAMBDA i : DecodeService(did, parts[i]), <<n>>) = <<served>>
    BY DEF MapSeq
  <2> HIDE DEF served, W
  <2>2. <<served>> = Append(<<>>, served) /\ <<>> \in Seq(Seq(W))
    BY <1>13
  <2>3. FlattenSeq(Append(<<>>, served)) = FlattenSeq(<<>>) \o served
    BY <1>13, <2>2, FlattenAppend
  <2>4. <<>> \o served = served
    BY <1>13
  <2> QED
    BY <1>8, <2>1, <2>2, <2>3, <2>4, FlattenEmpty, Zenon
<1>15. ResolveDID(did, answer) = PeerDocument(did, vs, es, served)
  <2>1. ResolveDID(did, answer) = PeerResolve(did)
    BY <1>1 DEF ResolveDID
  <2> HIDE DEF vs, es, served
  <2>2. PeerResolve(did) = PeerDocument(did, vs, es, served)
    BY <1>1, <1>9, <1>10, <1>14 DEF PeerResolve, PartsDocument, Positions, ids, parts
  <2> QED
    BY <2>1, <2>2
<1> HIDE DEF vs, es, served, W
<1> QED
  <2>1. vs \in Seq(W) /\ es \in Seq(W) /\ served \in Seq(W)
    BY <1>11, <1>12, <1>13
  <2>2. Lists(PeerDocument(did, vs, es, served), vs, es, served)
    BY <2>1, PeerDocumentValues
  <2>3. Lists(ResolveDID(did, answer), vs, es, served)
    BY <1>15, <2>2, Zenon
  <2> QED
    BY <2>3 DEF vs, es, served, n, e, v, parts

-----------------------------------------------------------------------------
(* What a verifier accepts                                                 *)

\* A map of what was flattened is what the maps flatten to.
Each(f, S) == [s \in Seq(S) |-> Mapped(f, s)]

LEMMA MappedFlatten ==
  ASSUME NEW S, NEW T, NEW f \in Maps(S, T), NEW ss \in Seq(Seq(S))
  PROVE  Mapped(f, FlattenSeq(ss)) = Gathered(Each(f, S), ss)
<1> DEFINE g == Each(f, S)
           N == {tt \in Seq(Seq(S)) : Mapped(f, FlattenSeq(tt)) = Gathered(g, tt)}
<1>1. g \in Maps(Seq(S), Seq(T))
  <2>1. \A s \in Seq(S) : Mapped(f, s) \in Seq(T)
    BY MappedType
  <2> QED
    BY <2>1 DEF Each, Maps
<1>2. <<>> \in N
  <2>1. FlattenSeq(<<>>) = <<>> /\ Gathered(g, <<>>) = <<>>
    BY FlattenEmpty, GatheredEmpty
  <2>2. Mapped(f, <<>>) = <<>>
    BY DEF Mapped
  <2>3. Mapped(f, FlattenSeq(<<>>)) = Gathered(g, <<>>)
    BY <2>1, <2>2, Zenon
  <2> QED
    BY <2>3
<1>3. ASSUME NEW tt \in Seq(Seq(S)), NEW s \in Seq(S), tt \in N
      PROVE  Append(tt, s) \in N
  <2>1. Append(tt, s) \in Seq(Seq(S))
    OBVIOUS
  <2>2. FlattenSeq(Append(tt, s)) = FlattenSeq(tt) \o s
    BY FlattenAppend
  <2>3. FlattenSeq(tt) \in Seq(S)
    BY FlattenType
  <2>4. Mapped(f, FlattenSeq(tt) \o s) = Mapped(f, FlattenSeq(tt)) \o Mapped(f, s)
    BY <2>3, MappedConcat
  <2>5. g[s] = Mapped(f, s)
    BY DEF Each
  <2>6. Mapped(f, FlattenSeq(tt)) = Gathered(g, tt)
    BY <1>3
  <2> HIDE DEF g
  <2>7. Gathered(g, Append(tt, s)) = Gathered(g, tt) \o g[s]
    BY <1>1, GatheredAppend
  <2>8. Mapped(f, FlattenSeq(Append(tt, s))) = Gathered(g, Append(tt, s))
    BY <2>2, <2>4, <2>5, <2>6, <2>7, Zenon
  <2> QED
    BY <2>1, <2>8
<1> HIDE DEF N, g
<1>4. Seq(Seq(S)) \subseteq N
  BY <1>2, <1>3, SeqInduction
<1>5. ss \in N
  BY <1>4
<1> QED
  BY <1>5 DEF N, g

\* The public keys of what a DID is created with.
KeysFrom(payload) == MapSeq(PublicKey, KeysOf(payload))
Public == [k \in PrivateKeys |-> PublicKey(k)]
Entries == [usage : STRING, list : Seq(PrivateKeys) \ {<<>>}]

LEMMA PayloadKeys ==
  ASSUME NEW p \in PayloadType
  PROVE  /\ p.keys \in Seq(Entries) /\ KeysOf(p) \in Seq(PrivateKeys)
         /\ PublicPayload(p) \in Seq(PublicEntries) /\ DOMAIN PublicPayload(p) = DOMAIN p.keys
         /\ \A i \in DOMAIN p.keys : /\ PublicPayload(p)[i].usage = p.keys[i].usage
                                     /\ PublicPayload(p)[i].list = Mapped(Public, p.keys[i].list)
         /\ KeysFrom(p) = Mapped(Public, KeysOf(p)) /\ KeysFrom(p) \in Seq(PublicKeys)
         /\ FlattenSeq([i \in DOMAIN PublicPayload(p) |-> PublicPayload(p)[i].list]) = KeysFrom(p)
         /\ KeysIn(PublicPayload(p)) = Range(KeysFrom(p))
<1> DEFINE keys == p.keys
           n == Len(keys)
           lists == [i \in 1 .. n |-> keys[i].list]
           public == PublicPayload(p)
<1>1. keys \in Seq(Entries)
  BY DEF PayloadType, Entries
<1>2. n \in Nat /\ DOMAIN keys = 1 .. n
  BY <1>1
<1>3. \A i \in 1 .. n : /\ keys[i] = [usage |-> keys[i].usage, list |-> keys[i].list]
                        /\ keys[i].usage \in STRING
                        /\ keys[i].list \in Seq(PrivateKeys) /\ keys[i].list # <<>>
  <2>1. \A i \in 1 .. n : keys[i] \in Entries
    BY <1>1
  <2> QED
    BY <2>1 DEF Entries
<1> HIDE DEF keys
<1>4. lists \in Seq(Seq(PrivateKeys)) /\ Len(lists) = n /\ DOMAIN lists = 1 .. n
  <2>1. lists \in [1 .. n -> Seq(PrivateKeys)]
    BY <1>3
  <2> HIDE DEF lists
  <2> QED
    BY <1>2, <2>1, Sequenced
<1>5. KeysOf(p) = FlattenSeq(lists)
  BY <1>2 DEF KeysOf, keys
<1>6. Public \in Maps(PrivateKeys, PublicKeys)
  BY DEF Public, Maps, PublicKey, Key, PrivateKeys, PublicKeys
<1>7. KeysOf(p) \in Seq(PrivateKeys)
  <2> HIDE DEF lists
  <2> QED
    BY <1>4, <1>5, FlattenType
<1>8. ASSUME NEW s \in Seq(PrivateKeys)
      PROVE  MapSeq(PublicKey, s) = Mapped(Public, s)
  BY DEF MapSeq, Mapped, Public
<1>9. ASSUME NEW i \in 1 .. n
      PROVE  /\ public[i].usage = keys[i].usage
             /\ public[i].list = Mapped(Public, keys[i].list)
             /\ public[i] \in PublicEntries
  <2> DEFINE l == keys[i].list
             u == keys[i].usage
             e == public[i]
  <2>1. keys[i] = [usage |-> u, list |-> l] /\ u \in STRING /\ l \in Seq(PrivateKeys) /\ l # <<>>
    BY <1>3
  <2>2. e = [keys[i] EXCEPT !.list = MapSeq(PublicKey, l)]
    BY <1>2 DEF PublicPayload, keys
  <2> HIDE DEF l, u, e
  <2>3. MapSeq(PublicKey, l) = Mapped(Public, l)
    BY <1>8, <2>1
  <2>4. Mapped(Public, l) \in Seq(PublicKeys) /\ Len(Mapped(Public, l)) = Len(l)
    BY <1>6, <2>1, MappedType
  <2>5. Len(l) # 0
    BY <2>1
  <2>6. Mapped(Public, l) # <<>>
    BY <2>4, <2>5
  <2>7. e = [usage |-> u, list |-> Mapped(Public, l)]
    BY <2>1, <2>2, <2>3
  <2>8. e \in PublicEntries
    BY <2>1, <2>4, <2>6, <2>7 DEF PublicEntries
  <2>9. e.usage = u /\ e.list = Mapped(Public, l)
    BY <2>7
  <2> QED
    BY <2>8, <2>9 DEF e, u, l
<1>10. DOMAIN public = 1 .. n /\ public = [i \in 1 .. n |-> public[i]]
  BY <1>2 DEF PublicPayload, keys
<1> HIDE DEF public
<1>11. public \in Seq(PublicEntries)
  <2>1. [i \in 1 .. n |-> public[i]] \in [1 .. n -> PublicEntries]
    BY <1>9
  <2> QED
    BY <1>2, <1>10, <2>1, Sequenced, Zenon
<1>12. KeysFrom(p) = Mapped(Public, KeysOf(p))
  BY <1>7, <1>8 DEF KeysFrom
<1>13. KeysFrom(p) \in Seq(PublicKeys)
  BY <1>6, <1>7, <1>12, MappedType
<1> DEFINE plists == [i \in 1 .. n |-> public[i].list]
<1>14. plists \in Seq(Seq(PublicKeys)) /\ DOMAIN plists = 1 .. n
  <2>1. plists \in [1 .. n -> Seq(PublicKeys)]
    BY <1>9 DEF PublicEntries
  <2> HIDE DEF plists
  <2> QED
    BY <1>2, <2>1, Sequenced
<1>15. FlattenSeq(plists) = KeysFrom(p)
  <2>1. plists = Mapped(Each(Public, PrivateKeys), lists)
    BY <1>3, <1>4, <1>9 DEF Mapped, Each
  <2> HIDE DEF plists, lists
  <2>2. Mapped(Public, FlattenSeq(lists)) = Gathered(Each(Public, PrivateKeys), lists)
    BY <1>4, <1>6, MappedFlatten
  <2> QED
    BY <1>5, <1>12, <2>1, <2>2 DEF Gathered
<1>16. KeysIn(public) = Range(KeysFrom(p))
  <2>1. \A i \in 1 .. n : plists[i] = public[i].list
    OBVIOUS
  <2> HIDE DEF plists
  <2>2. Range(FlattenSeq(plists)) = UNION {Range(plists[i]) : i \in DOMAIN plists}
    BY <1>14, FlattenType
  <2>3. KeysIn(public) = UNION {Range(plists[i]) : i \in 1 .. n}
    BY <1>10, <2>1 DEF KeysIn
  <2> QED
    BY <1>14, <1>15, <2>2, <2>3
<1> QED
  BY <1>1, <1>2, <1>7, <1>9, <1>10, <1>11, <1>12, <1>13, <1>15, <1>16, Zenon DEF keys, public

\* The key of a method of a created DID is one that the DID was created with.
LEMMA PrismMethodKeys ==
  ASSUME NEW p \in PayloadType, p.method = "prism", NEW did, did = Created(p).did, did # Thrown,
         NEW methods, methods = MethodsForTokens(did, Absent), methods # Thrown
  PROVE  /\ methods \in Seq(Range(methods))
         /\ \A m \in Range(methods) : PKInstance(m) \in Range(KeysFrom(p))
<1> DEFINE entries == PublicPayload(p)
           op == CreateOperation(entries, p.services)
           protos == op.public_keys
           doc == ResolveDID(did, Absent)
<1>1. entries \in Seq(PublicEntries) /\ KeysIn(entries) = Range(KeysFrom(p))
  BY PayloadKeys
<1>2. /\ did = LongForm(op)
      /\ \E i \in DOMAIN entries : entries[i].usage = "MASTER_KEY"
      /\ \A i \in DOMAIN entries : entries[i].usage \in PrismDIDKeyUsage
  <2>1. did = PrismCreate(entries, p.services)
    BY DEF Created, Create
  <2> HIDE DEF entries, op
  <2> QED
    BY <2>1 DEF PrismCreate, op
<1> HIDE DEF entries
<1>3. protos \in Seq(Protos) /\ \A x \in Range(protos) : x.key \in Range(KeysFrom(p))
  BY <1>1, <1>2, OperationKeys
<1>4. op.services \in Seq(Range(op.services))
  <2>1. p.services \in Seq([id : [did : {Absent}, fragment : STRING \X Nat],
                            type : [list : BOOLEAN, words : Seq(STRING \ {"dm"})], uri : STRING])
    BY DEF PayloadType
  <2>2. DOMAIN p.services = 1 .. Len(p.services) /\ Len(p.services) \in Nat
    BY <2>1
  <2>3. op.services = [i \in 1 .. Len(p.services) |-> ProtoService(p.services[i])]
    BY <2>2 DEF CreateOperation, MapSeq
  <2> DEFINE f == op.services
             n == Len(p.services)
  <2>4. n \in Nat /\ f = [i \in 1 .. n |-> f[i]]
    BY <2>2, <2>3
  <2> HIDE DEF f, n
  <2>5. f \in [1 .. n -> Range(f)]
    BY <2>4 DEF Range
  <2>6. f \in Seq(Range(f))
    BY <2>4, <2>5, Sequenced
  <2> QED
    BY <2>6 DEF f
<1> HIDE DEF op
<1>5. did.method = "prism" /\ did.state = op
  BY <1>2 DEF LongForm
<1>6. did.state # Absent
  <2> SUFFICES ASSUME did.state = Absent PROVE FALSE
    OBVIOUS
  <2>1. doc = Thrown
    BY <1>5 DEF ResolveDID, PrismResolve, HttpProxyResolve
  <2> QED
    BY <2>1 DEF MethodsForTokens, Then
<1>7. doc # Thrown
  BY DEF MethodsForTokens, Then
<1>8. FirstMethods(doc) = MethodsOf(did, protos)
  <2>1. did.state.public_keys \in Seq(Protos) /\ did.state.services \in Seq(Range(op.services))
    BY <1>3, <1>4, <1>5
  <2>2. FirstMethods(doc) = MethodsOf(did, did.state.public_keys)
    BY <1>5, <1>6, <1>7, <2>1, PrismDocument
  <2> QED
    BY <1>5, <2>2
<1> HIDE DEF doc, protos
<1>9. methods = [i \in DOMAIN protos |-> Normal(PrismMethod(did, protos[i]))]
  <2>1. methods = MapSeq(Normal, FirstMethods(doc))
    BY <1>7 DEF MethodsForTokens, Then, With, doc
  <2> QED
    BY <1>8, <2>1 DEF MapSeq, MethodsOf
<1>10. methods \in Seq(Range(methods))
  <2>1. DOMAIN protos = 1 .. Len(protos) /\ Len(protos) \in Nat
    BY <1>3
  <2>2. methods \in [1 .. Len(protos) -> Range(methods)]
    BY <1>9, <2>1 DEF Range
  <2> QED
    BY <2>1, <2>2, Sequenced
<1> SUFFICES ASSUME NEW m \in Range(methods)
             PROVE  PKInstance(m) \in Range(KeysFrom(p))
  BY <1>10
<1>11. PICK i \in DOMAIN protos : m = Normal(PrismMethod(did, protos[i]))
  BY <1>9 DEF Range
<1>12. protos[i] \in Protos /\ protos[i] \in Range(protos)
  BY <1>3 DEF Range
<1>13. PICK k \in PublicKeys, u \in PrismDIDKeyUsage, n \in Nat : protos[i] = CreateProtos(k, u, n)
  BY <1>12 DEF Protos
<1>14. /\ protos[i].key = k /\ protos[i].id = UsageId(u, n)
       /\ MapToPublicKey(protos[i]) = k
  <2>1. protos[i].key = k /\ protos[i].id = UsageId(u, n)
    BY <1>13 DEF CreateProtos
  <2> DEFINE c == k.curve # "secp256k1"
  <2>2. protos[i] = [id |-> UsageId(u, n), usage |-> u, key |-> k, compressed |-> c]
    BY <1>13 DEF CreateProtos
  <2> HIDE DEF c
  <2>4. protos[i].compressed = c
    BY <2>2
  <2>3. protos[i].key.curve # "secp256k1" => protos[i].compressed
    BY <2>1, <2>4, Zenon DEF c
  <2> QED
    BY <2>1, <2>3 DEF MapToPublicKey
<1>15. k # Absent /\ k.curve \in Curves /\ k = Key(k.curve, k.pair)
  BY OutcomesAssumption DEF PublicKeys, Key
<1>16. m = [VerificationMethod(Id(did, UsageId(u, n)), did, MethodType[k.curve], Absent, k)
              EXCEPT !.publicKeyJwk = Absent]
  BY <1>11, <1>14, <1>15 DEF PrismMethod, Normal, VerificationMethod
<1>17. m.publicKeyMultibase = k /\ m.type = MethodType[k.curve]
  BY <1>16 DEF VerificationMethod
<1>18. m.type \in DOMAIN MultibaseCurve /\ MultibaseCurve[m.type] = k.curve
  BY <1>15, <1>17 DEF MethodType, MultibaseCurve, Curves
<1>19. PKInstance(m) = k
  BY <1>15, <1>17, <1>18 DEF PKInstance
<1> QED
  BY <1>3, <1>12, <1>14, <1>19

LEMMA PeerMethodKeys ==
  ASSUME NEW p \in PayloadType, p.method # "prism", NEW did, did = Created(p).did, did # Thrown,
         NEW methods, methods = MethodsForTokens(did, Absent), methods # Thrown
  PROVE  /\ methods \in Seq(Range(methods))
         /\ \A m \in Range(methods) : PKInstance(m) \in Range(KeysFrom(p)) \cup {Thrown}
<1> DEFINE keys == KeysFrom(p)
           e == Of(keys, "X25519")
           v == Of(keys, "Ed25519")
           doc == ResolveDID(did, Absent)
           es == KeyMethods(did, e, 0)
           vs == KeyMethods(did, v, Len(e))
           K == {KeyMethod(did, k, i) : k \in {x \in Range(keys) : x.curve \in {"X25519", "Ed25519"}}, i \in Nat}
<1>1. keys \in Seq(PublicKeys) /\ did = CreatePeerDID(keys, p.services)
  <2>1. did = PeerCreate(PublicPayload(p), p.services)
    BY DEF Created, Create
  <2>2. did = CreatePeerDID(FlattenSeq([i \in DOMAIN PublicPayload(p) |-> PublicPayload(p)[i].list]), p.services)
    BY <2>1 DEF PeerCreate
  <2> QED
    BY <2>2, PayloadKeys
<1>2. p.services \in Seq([id : [did : {Absent}, fragment : STRING \X Nat],
                          type : [list : BOOLEAN, words : Seq(STRING \ {"dm"})], uri : STRING])
  BY DEF PayloadType
<1> HIDE DEF keys
<1>3. Lists(doc, vs, es, DecodeService(did, did.parts[Len(e) + Len(v) + 1]))
  BY <1>1, <1>2, PeerIsDocument
<1>4. FirstMethods(doc) = vs \o es
  BY <1>3 DEF Lists
<1>5. /\ e \in Seq(PublicKeys) /\ Len(e) \in Nat
      /\ \A i \in 1 .. Len(e) : e[i] \in Range(keys) /\ e[i].curve = "X25519"
      /\ v \in Seq(PublicKeys) /\ Len(v) \in Nat
      /\ \A i \in 1 .. Len(v) : v[i] \in Range(keys) /\ v[i].curve = "Ed25519"
  BY <1>1, OfType
<1> HIDE DEF e, v
<1>6. vs \in Seq(K)
  <2>1. vs \in [1 .. Len(v) -> K]
    BY <1>5 DEF KeyMethods
  <2> HIDE DEF vs, K
  <2> QED
    BY <1>5, <2>1, Sequenced
<1>7. es \in Seq(K)
  <2>1. es \in [1 .. Len(e) -> K]
    BY <1>5 DEF KeyMethods
  <2> HIDE DEF es, K
  <2> QED
    BY <1>5, <2>1, Sequenced
<1> HIDE DEF vs, es, K
<1>8. vs \o es \in Seq(K)
  BY <1>6, <1>7
<1>9. methods = MapSeq(Normal, vs \o es) /\ Thrown \notin Range(methods)
  BY <1>4 DEF MethodsForTokens, Then, With
<1>10. methods \in Seq(Range(methods))
  <2> DEFINE all == vs \o es
  <2>1. DOMAIN all = 1 .. Len(all) /\ Len(all) \in Nat
    BY <1>8
  <2>2. methods = [i \in DOMAIN all |-> Normal(all[i])]
    BY <1>9 DEF MapSeq
  <2> HIDE DEF all
  <2>3. methods \in [1 .. Len(all) -> Range(methods)]
    BY <2>1, <2>2 DEF Range
  <2> QED
    BY <2>1, <2>3, Sequenced
<1> SUFFICES ASSUME NEW m \in Range(methods)
             PROVE  PKInstance(m) \in Range(keys) \cup {Thrown}
  BY <1>10 DEF keys
<1>11. PICK i \in DOMAIN (vs \o es) : m = Normal((vs \o es)[i])
  BY <1>9 DEF MapSeq, Range
<1>12. (vs \o es)[i] \in K
  BY <1>8
<1>13. PICK k \in Range(keys), n \in Nat :
         k.curve \in {"X25519", "Ed25519"} /\ (vs \o es)[i] = KeyMethod(did, k, n)
  BY <1>12 DEF K
<1>14. m # Thrown
  BY <1>9
<1>15. k \in PublicKeys
  BY <1>1 DEF Range
<1>16. m = Normal(KeyMethod(did, k, n))
  BY <1>11, <1>13
<1> DEFINE jwk == [kty |-> "OKP", crv |-> k.curve, x |-> k.pair, y |-> Absent,
                   kid |-> Id(did, <<"key", n>>)]
<1>17. m.publicKeyMultibase = Absent /\ m.publicKeyJwk = jwk /\ jwk # Absent
  BY <1>14, <1>16 DEF Normal, KeyMethod, VerificationMethod
<1> DEFINE given == [kty |-> m.publicKeyJwk.kty, crv |-> m.publicKeyJwk.crv,
                     x |-> m.publicKeyJwk.x, y |-> m.publicKeyJwk.y, d |-> Absent]
<1>18. given = [kty |-> "OKP", crv |-> k.curve, x |-> k.pair, y |-> Absent, d |-> Absent]
  BY <1>17
<1>19. /\ k.pair # Absent /\ k # Thrown /\ k = Key(k.curve, k.pair) /\ k.curve \in Curves
  BY <1>15, OutcomesAssumption DEF PublicKeys, Key
<1>20. FromJWK(given) = [public |-> k, private |-> Absent]
  <2> HIDE DEF given
  <2>1. given.kty = "OKP" /\ given.crv = k.curve /\ given.x = k.pair /\ given.d = Absent
    BY <1>18
  <2>2. CreatePublicKey(k.curve, k.pair, Absent, Absent) = k
    BY <1>19 DEF CreatePublicKey
  <2> QED
    BY <1>19, <2>1, <2>2 DEF FromJWK
<1> HIDE DEF given, jwk
<1>21. PKInstance(m) = Then(FromJWK(given), LAMBDA half : half.public)
  BY <1>17 DEF PKInstance, given
<1>22. PKInstance(m) \in {k, Thrown}
  BY <1>20, <1>21 DEF Then
<1> QED
  BY <1>22

\* Whoever a token is accepted from, a key of that DID signed it.
LEMMA MethodKeys ==
  ASSUME NEW p \in PayloadType, NEW did, did = Created(p).did, did # Thrown,
         NEW methods, methods = MethodsForTokens(did, Absent), methods # Thrown
  PROVE  /\ methods \in Seq(Range(methods))
         /\ \A m \in Range(methods) : PKInstance(m) \in Range(KeysFrom(p)) \cup {Thrown}
<1>1. CASE p.method = "prism"
  BY <1>1, PrismMethodKeys
<1>2. CASE p.method # "prism"
  BY <1>2, PeerMethodKeys
<1> QED
  BY <1>1, <1>2

LEMMA SignedByKeyOf ==
  ASSUME NEW p \in PayloadType, NEW did, did = Created(p).did, did # Thrown,
         NEW methods, methods = MethodsForTokens(did, Absent), methods # Thrown, NEW m \in Range(methods),
         NEW token, SignedBy(m, token) = TRUE
  PROVE  token.signature.by \in Range(KeysFrom(p))
<1>1. PKInstance(m) \in Range(KeysFrom(p)) \cup {Thrown}
  BY MethodKeys
<1>2. PKInstance(m) # Thrown
  BY OutcomesAssumption DEF SignedBy, Then
<1>3. token.signature = Signature(PKInstance(m), token.payload)
  BY <1>2 DEF SignedBy, Then, Verifies
<1> QED
  BY <1>1, <1>2, <1>3 DEF Signature

LEMMA JWTIsOfIssuer ==
  ASSUME NEW p \in PayloadType, NEW did, did = Created(p).did, did # Thrown,
         NEW token, NEW holder, JWTVerify(token, did, holder, Absent)
  PROVE  /\ JWTCredential(token) # Thrown /\ JWTCredential(token).issuer = did
         /\ token.signature.by \in Range(KeysFrom(p))
<1>1. /\ JWTCredential(token) # Thrown /\ JWTCredential(token).issuer = did
      /\ IsSigned(token, MethodsForTokens(did, Absent))
  BY DEF JWTVerify, With
<1>2. PICK m \in Range(MethodsForTokens(did, Absent)) : SignedBy(m, token) = TRUE
  BY <1>1 DEF IsSigned
<1>3. MethodsForTokens(did, Absent) # Thrown
  BY <1>1 DEF IsSigned
<1> QED
  BY <1>1, <1>2, <1>3, SignedByKeyOf

LEMMA SDJWTIsOfIssuer ==
  ASSUME NEW p \in PayloadType, NEW did, did = Created(p).did, did # Thrown,
         NEW token, SDJWTVerify(token, did, Absent) = TRUE
  PROVE  token.signature.by \in Range(KeysFrom(p))
<1> DEFINE methods == MethodsForTokens(did, Absent)
           Named(m) == token.kid # Absent => m.id = token.kid
           named == Filtered(methods, LAMBDA m : Named(m))
           answers == MapSeq(LAMBDA m : SignedBy(m, token), named)
           X == Range(methods)
           P == {m \in X : Named(m)}
<1>1. Thrown # TRUE
  BY OutcomesAssumption
<1>2. methods # Thrown /\ FirstAnswer(answers) = TRUE
  BY <1>1 DEF SDJWTVerify, Then
<1>3. methods \in Seq(X)
  BY <1>2, MethodKeys
<1>4. named = Gathered(Pick(X, P), methods)
  <2>1. \A i \in DOMAIN methods : methods[i] \in X
    BY DEF Range
  <2> HIDE DEF methods, X
  <2> QED
    BY <2>1 DEF Filtered, Gathered, Mapped, Pick
<1> HIDE DEF methods, X, P, named
<1>5. named \in Seq(X)
  BY <1>3, <1>4, PicksType
<1>6. /\ Len(answers) = Len(named) /\ Len(named) \in Nat
      /\ \A i \in 1 .. Len(named) : named[i] \in X /\ answers[i] = SignedBy(named[i], token)
  <2>1. DOMAIN answers = DOMAIN named /\ DOMAIN named = 1 .. Len(named) /\ Len(named) \in Nat
    BY <1>5 DEF MapSeq
  <2>2. Len(answers) = Len(named)
    BY <2>1
  <2> QED
    BY <1>5, <2>1, <2>2 DEF MapSeq
<1> HIDE DEF answers
<1>11. Len(answers) \in Nat
  BY <1>6
<1> DEFINE Stops(i) == answers[i] # FALSE
           I == {i \in 1 .. Len(answers) : Stops(i)}
<1>7. I # {} /\ answers[Min(I)] = TRUE
  <2>1. SelectInSeq(answers, LAMBDA a : a # FALSE) = IF I # {} THEN Min(I) ELSE 0
    BY DEF SelectInSeq
  <2>2. I \in SUBSET Nat /\ 0 \notin I
    <3> HIDE DEF Stops
    <3> QED
      BY <1>11
  <2> HIDE DEF I
  <2>3. Min(I) # 0 \/ I = {}
    BY <2>2, MinIsLeast
  <2> QED
    BY <1>2, <2>1, <2>3 DEF FirstAnswer, With
<1>8. Min(I) \in I
  <2>1. I \in SUBSET Nat
    <3> HIDE DEF Stops
    <3> QED
      BY <1>11
  <2> HIDE DEF I
  <2> QED
    BY <1>7, <2>1, MinIsLeast
<1>9. PICK i \in 1 .. Len(named) : SignedBy(named[i], token) = TRUE
  BY <1>6, <1>7, <1>8
<1>10. named[i] \in X
  BY <1>6
<1> QED
  BY <1>2, <1>9, <1>10, SignedByKeyOf DEF methods, X

\* A path leads from node to node, and what it leads to, if to anything, is
\* member of member of the tree.
Walks(node, tree, path, n) ==
  node = [i \in 0 .. n |->
            IF i = 0 THEN tree
            ELSE IF node[i - 1] # Absent /\ path[i] \in DOMAIN node[i - 1] THEN node[i - 1][path[i]]
            ELSE Absent]

LEMMA WalkExists ==
  ASSUME NEW tree, NEW path, NEW n \in Nat
  PROVE  \E node : Walks(node, tree, path, n)
<1> DEFINE N == {m \in Nat : \E node : Walks(node, tree, path, m)}
           Step(node, i) == IF node[i - 1] # Absent /\ path[i] \in DOMAIN node[i - 1]
                            THEN node[i - 1][path[i]] ELSE Absent
<1>1. 0 \in N
  <2> DEFINE node == [i \in 0 .. 0 |-> tree]
  <2>1. Walks(node, tree, path, 0)
    BY DEF Walks
  <2> QED
    BY <2>1
<1>2. ASSUME NEW m \in Nat, m \in N
      PROVE  m + 1 \in N
  <2>1. PICK node : Walks(node, tree, path, m)
    BY <1>2
  <2> DEFINE next == [i \in 0 .. m + 1 |->
                        IF i <= m THEN node[i] ELSE IF i = 0 THEN tree ELSE Step(node, i)]
  <2>2. ASSUME NEW i \in 0 .. m + 1
        PROVE  next[i] = IF i = 0 THEN tree ELSE Step(next, i)
    <3>1. i = 0 \/ (i - 1 \in 0 .. m /\ i - 1 \in 0 .. m + 1 /\ i - 1 <= m)
      OBVIOUS
    <3>2. i <= m => node[i] = IF i = 0 THEN tree ELSE Step(node, i)
      <4>1. \A j \in 0 .. m : node[j] = IF j = 0 THEN tree ELSE Step(node, j)
        BY <2>1 DEF Walks
      <4>2. i <= m => i \in 0 .. m
        OBVIOUS
      <4> HIDE DEF Step
      <4> QED
        BY <4>1, <4>2
    <3>3. next[i] = IF i = 0 THEN tree ELSE Step(node, i)
      <4> HIDE DEF Step
      <4> QED
        BY <3>2
    <3>4. i # 0 => next[i - 1] = node[i - 1]
      BY <3>1
    <3> HIDE DEF next
    <3> QED
      BY <3>3, <3>4
  <2>3. Walks(next, tree, path, m + 1)
    <3>1. next = [i \in 0 .. m + 1 |-> next[i]]
      OBVIOUS
    <3> HIDE DEF next
    <3> QED
      BY <2>2, <3>1 DEF Walks
  <2> QED
    BY <2>3
<1> HIDE DEF N
<1>3. Nat \subseteq N
  BY <1>1, <1>2, Induction
<1> QED
  BY <1>3 DEF N

LEMMA Walk ==
  ASSUME NEW tree, NEW path, Len(path) \in Nat
  PROVE  \E node : Walks(node, tree, path, Len(path)) /\ GetValue(tree, path) = node[Len(path)]
<1>1. \E node : Walks(node, tree, path, Len(path))
  BY WalkExists
<1> DEFINE node == CHOOSE f : Walks(f, tree, path, Len(path))
<1>2. Walks(node, tree, path, Len(path))
  BY <1>1
<1>3. GetValue(tree, path) = node[Len(path)]
  BY DEF GetValue, Walks
<1> QED
  BY <1>2, <1>3

LEMMA WalkOne ==
  ASSUME NEW tree, NEW a, GetValue(tree, <<a>>) # Absent
  PROVE  a \in DOMAIN tree /\ GetValue(tree, <<a>>) = tree[a]
<1> DEFINE path == <<a>>
<1>1. Len(path) = 1 /\ path[1] = a
  OBVIOUS
<1> HIDE DEF path
<1>2. PICK node : Walks(node, tree, path, 1) /\ GetValue(tree, path) = node[1]
  <2>1. Len(path) \in Nat
    BY <1>1
  <2>2. \E node : Walks(node, tree, path, Len(path)) /\ GetValue(tree, path) = node[Len(path)]
    BY <2>1, Walk
  <2> QED
    BY <1>1, <2>2
<1>3. node[0] = tree
  BY <1>2 DEF Walks
<1>4. node[1] = IF node[0] # Absent /\ a \in DOMAIN node[0] THEN node[0][a] ELSE Absent
  BY <1>1, <1>2 DEF Walks
<1> QED
  BY <1>2, <1>3, <1>4 DEF path

LEMMA WalkTwo ==
  ASSUME NEW tree, NEW a, NEW b, GetValue(tree, <<a, b>>) # Absent
  PROVE  /\ a \in DOMAIN tree /\ b \in DOMAIN tree[a]
         /\ GetValue(tree, <<a, b>>) = tree[a][b]
<1> DEFINE path == <<a, b>>
<1>1. Len(path) = 2 /\ path[1] = a /\ path[2] = b
  OBVIOUS
<1> HIDE DEF path
<1>2. PICK node : Walks(node, tree, path, 2) /\ GetValue(tree, path) = node[2]
  <2>1. Len(path) \in Nat
    BY <1>1
  <2>2. \E node : Walks(node, tree, path, Len(path)) /\ GetValue(tree, path) = node[Len(path)]
    BY <2>1, Walk
  <2> QED
    BY <1>1, <2>2
<1>3. node[0] = tree
  BY <1>2 DEF Walks
<1>4. node[1] = IF node[0] # Absent /\ a \in DOMAIN node[0] THEN node[0][a] ELSE Absent
  BY <1>1, <1>2 DEF Walks
<1>5. node[2] = IF node[1] # Absent /\ b \in DOMAIN node[1] THEN node[1][b] ELSE Absent
  BY <1>1, <1>2 DEF Walks
<1> QED
  BY <1>2, <1>3, <1>4, <1>5 DEF path

LEMMA WalkThree ==
  ASSUME NEW tree, NEW a, NEW b, NEW c, GetValue(tree, <<a, b, c>>) # Absent
  PROVE  /\ a \in DOMAIN tree /\ b \in DOMAIN tree[a] /\ c \in DOMAIN tree[a][b]
         /\ GetValue(tree, <<a, b, c>>) = tree[a][b][c]
<1> DEFINE path == <<a, b, c>>
<1>1. Len(path) = 3 /\ path[1] = a /\ path[2] = b /\ path[3] = c
  OBVIOUS
<1> HIDE DEF path
<1>2. PICK node : Walks(node, tree, path, 3) /\ GetValue(tree, path) = node[3]
  <2>1. Len(path) \in Nat
    BY <1>1
  <2>2. \E node : Walks(node, tree, path, Len(path)) /\ GetValue(tree, path) = node[Len(path)]
    BY <2>1, Walk
  <2> QED
    BY <1>1, <2>2
<1>3. node[0] = tree
  BY <1>2 DEF Walks
<1>4. node[1] = IF node[0] # Absent /\ a \in DOMAIN node[0] THEN node[0][a] ELSE Absent
  BY <1>1, <1>2 DEF Walks
<1>5. node[2] = IF node[1] # Absent /\ b \in DOMAIN node[1] THEN node[1][b] ELSE Absent
  BY <1>1, <1>2 DEF Walks
<1>6. node[3] = IF node[2] # Absent /\ c \in DOMAIN node[2] THEN node[2][c] ELSE Absent
  BY <1>1, <1>2 DEF Walks
<1> QED
  BY <1>2, <1>3, <1>4, <1>5, <1>6 DEF path

\* What a definition asks of a tree, field by field.
LEMMA FieldsOfDefinition ==
  ASSUME NEW id, NEW asked, NEW issuer, NEW tree, NEW descriptor,
         descriptor = CreatePresentationDefinition(id, asked, issuer).input_descriptors[1],
         ConstraintsHold(tree, descriptor)
  PROVE  /\ \A n \in DOMAIN asked :
              \E path \in {<<"vc", "credentialSubject", n>>, <<"credentialSubject", n>>, <<n>>} :
                /\ GetValue(tree, path) # Absent
                /\ asked[n].kind \in {"pattern", "enum"} /\ GetValue(tree, path).leaf \in asked[n].passes
         /\ issuer # Absent =>
              \E path \in {<<"vc", "issuer">>, <<"issuer">>, <<"iss">>, <<"vc", "iss">>} :
                GetValue(tree, path) # Absent /\ GetValue(tree, path).leaf = issuer
<1> DEFINE PathsOf(n) == {<<"vc", "credentialSubject", n>>, <<"credentialSubject", n>>, <<n>>}
           IssuerPaths == {<<"vc", "issuer">>, <<"issuer">>, <<"iss">>, <<"vc", "iss">>}
           OfClaim(n) == Field(PathsOf(n), asked[n])
           OfIssuer == Field(IssuerPaths, Filter("pattern", {issuer}))
           fields == {OfClaim(n) : n \in DOMAIN asked} \cup (IF issuer = Absent THEN {} ELSE {OfIssuer})
<1>1. descriptor = [id |-> id, limit_disclosure |-> "required", fields |-> fields]
  BY DEF CreatePresentationDefinition
<1> HIDE DEF PathsOf, IssuerPaths
<1>2. ASSUME NEW f \in fields
      PROVE  f.optional \/ FieldHolds(tree, f)
  <2> HIDE DEF fields
  <2>1. descriptor.limit_disclosure = "required" /\ descriptor.fields = fields
    BY <1>1
  <2> QED
    BY <2>1 DEF ConstraintsHold
<1>3. ASSUME NEW n \in DOMAIN asked
      PROVE  \E path \in PathsOf(n) :
                /\ GetValue(tree, path) # Absent
                /\ asked[n].kind \in {"pattern", "enum"} /\ GetValue(tree, path).leaf \in asked[n].passes
  <2>1. OfClaim(n) \in fields
    OBVIOUS
  <2>2. /\ OfClaim(n).paths = PathsOf(n) /\ OfClaim(n).filter = asked[n] /\ ~OfClaim(n).optional
    BY DEF Field
  <2> HIDE DEF OfClaim, fields
  <2>3. FieldHolds(tree, OfClaim(n))
    BY <1>2, <2>1, <2>2
  <2> QED
    BY <2>2, <2>3 DEF FieldHolds
<1>4. ASSUME issuer # Absent
      PROVE  \E path \in IssuerPaths : GetValue(tree, path) # Absent /\ GetValue(tree, path).leaf = issuer
  <2>1. OfIssuer \in fields
    BY <1>4
  <2>2. /\ OfIssuer.paths = IssuerPaths /\ OfIssuer.filter.passes = {issuer} /\ ~OfIssuer.optional
    BY DEF Field, Filter
  <2> HIDE DEF OfIssuer, fields
  <2>3. FieldHolds(tree, OfIssuer)
    BY <1>2, <2>1, <2>2
  <2> QED
    BY <2>2, <2>3 DEF FieldHolds
<1> QED
  BY <1>3, <1>4 DEF PathsOf, IssuerPaths

LEMMA JWTSatisfies ==
  ASSUME NEW credential, credential.isCredential, NEW claims \in Claims,
         credential.vc.credentialSubject = claims,
         NEW id, NEW asked, DOMAIN asked \cap Members = {}, NEW issuer, NEW descriptor,
         descriptor = CreatePresentationDefinition(id, asked, issuer).input_descriptors[1],
         ConstraintsHold(TreeOfJWT(credential), descriptor)
  PROVE  Satisfied(claims, asked) /\ issuer \in {Absent, credential.issuer}
<1> DEFINE tree == TreeOfJWT(credential)
           branches == Branches(claims)
<1>1. /\ DOMAIN tree = {"issuer", "id", "credentialSubject", "vc"}
      /\ tree["issuer"] = Leaf(credential.issuer)
      /\ tree["credentialSubject"] = branches
      /\ DOMAIN tree["vc"] = {"credentialSubject"}
      /\ tree["vc"]["credentialSubject"] = branches
  BY DEF TreeOfJWT
<1>2. DOMAIN branches = DOMAIN claims /\ \A n \in DOMAIN claims : branches[n].leaf = claims[n]
  BY DEF Branches, Leaf
<1> HIDE DEF tree, branches
<1>3. ASSUME NEW n \in DOMAIN asked
      PROVE  asked[n].kind # "const" /\ n \in DOMAIN claims /\ claims[n] \in asked[n].passes
  <2>1. PICK path \in {<<"vc", "credentialSubject", n>>, <<"credentialSubject", n>>, <<n>>} :
          /\ GetValue(tree, path) # Absent
          /\ asked[n].kind \in {"pattern", "enum"} /\ GetValue(tree, path).leaf \in asked[n].passes
    BY FieldsOfDefinition DEF tree
  <2>2. CASE path = <<"vc", "credentialSubject", n>>
    <3>1. GetValue(tree, <<"vc", "credentialSubject", n>>) # Absent
      BY <2>1, <2>2
    <3>2. /\ n \in DOMAIN tree["vc"]["credentialSubject"]
          /\ GetValue(tree, <<"vc", "credentialSubject", n>>) = tree["vc"]["credentialSubject"][n]
      BY <3>1, WalkThree
    <3> QED
      BY <1>1, <1>2, <2>1, <2>2, <3>2
  <2>3. CASE path = <<"credentialSubject", n>>
    <3>1. GetValue(tree, <<"credentialSubject", n>>) # Absent
      BY <2>1, <2>3
    <3>2. /\ n \in DOMAIN tree["credentialSubject"]
          /\ GetValue(tree, <<"credentialSubject", n>>) = tree["credentialSubject"][n]
      BY <3>1, WalkTwo
    <3> QED
      BY <1>1, <1>2, <2>1, <2>3, <3>2
  <2>4. CASE path = <<n>>
    <3>1. GetValue(tree, <<n>>) # Absent
      BY <2>1, <2>4
    <3>2. n \in DOMAIN tree
      BY <3>1, WalkOne
    <3> QED
      BY <1>1, <3>2 DEF Members
  <2> QED
    BY <2>1, <2>2, <2>3, <2>4
<1>4. ASSUME issuer # Absent
      PROVE  issuer = credential.issuer
  <2>1. PICK path \in {<<"vc", "issuer">>, <<"issuer">>, <<"iss">>, <<"vc", "iss">>} :
          GetValue(tree, path) # Absent /\ GetValue(tree, path).leaf = issuer
    BY <1>4, FieldsOfDefinition DEF tree
  <2>2. CASE path = <<"vc", "issuer">> \/ path = <<"vc", "iss">>
    <3>1. PICK b \in {"issuer", "iss"} : GetValue(tree, <<"vc", b>>) # Absent
      BY <2>1, <2>2
    <3>2. b \in DOMAIN tree["vc"]
      BY <3>1, WalkTwo
    <3> QED
      BY <1>1, <3>2
  <2>3. CASE path = <<"issuer">>
    <3>1. GetValue(tree, <<"issuer">>) # Absent
      BY <2>1, <2>3
    <3>2. GetValue(tree, <<"issuer">>) = tree["issuer"]
      BY <3>1, WalkOne
    <3> QED
      BY <1>1, <2>1, <2>3, <3>2 DEF Leaf
  <2>4. CASE path = <<"iss">>
    <3>1. GetValue(tree, <<"iss">>) # Absent
      BY <2>1, <2>4
    <3>2. "iss" \in DOMAIN tree
      BY <3>1, WalkOne
    <3> QED
      BY <1>1, <3>2
  <2> QED
    BY <2>1, <2>2, <2>3, <2>4
<1> QED
  BY <1>3, <1>4 DEF Satisfied

LEMMA SDJWTSatisfies ==
  ASSUME NEW credential, NEW claims \in Claims, credential.claims = claims,
         NEW id, NEW asked, DOMAIN asked \cap Members = {}, NEW issuer, NEW descriptor,
         descriptor = CreatePresentationDefinition(id, asked, issuer).input_descriptors[1],
         ConstraintsHold(TreeOfSDJWT(credential), descriptor)
  PROVE  Satisfied(claims, asked) /\ issuer \in {Absent, credential.issuer}
<1> DEFINE tree == TreeOfSDJWT(credential)
<1>1. DOMAIN claims \cap Members = {}
  BY ClaimsAssumption
<1>2. /\ DOMAIN tree \subseteq DOMAIN claims \cup {"iss"} /\ "iss" \in DOMAIN tree
      /\ tree["iss"] = Leaf(credential.issuer)
      /\ \A n \in DOMAIN tree : n # "iss" => tree[n] = Leaf(claims[n])
  BY DEF TreeOfSDJWT, Reveal
<1> HIDE DEF tree
<1>3. ASSUME NEW a \in Members \ {"iss"}
      PROVE  a \notin DOMAIN tree
  BY <1>1, <1>2
<1>4. "vc" \notin DOMAIN tree /\ "credentialSubject" \notin DOMAIN tree /\ "issuer" \notin DOMAIN tree
  BY <1>3 DEF Members
<1>5. ASSUME NEW n \in DOMAIN asked
      PROVE  asked[n].kind # "const" /\ n \in DOMAIN claims /\ claims[n] \in asked[n].passes
  <2>1. PICK path \in {<<"vc", "credentialSubject", n>>, <<"credentialSubject", n>>, <<n>>} :
          /\ GetValue(tree, path) # Absent
          /\ asked[n].kind \in {"pattern", "enum"} /\ GetValue(tree, path).leaf \in asked[n].passes
    BY FieldsOfDefinition DEF tree
  <2>2. CASE path = <<"vc", "credentialSubject", n>>
    <3>1. GetValue(tree, <<"vc", "credentialSubject", n>>) # Absent
      BY <2>1, <2>2
    <3>2. "vc" \in DOMAIN tree
      BY <3>1, WalkThree
    <3> QED
      BY <1>4, <3>2
  <2>3. CASE path = <<"credentialSubject", n>>
    <3>1. GetValue(tree, <<"credentialSubject", n>>) # Absent
      BY <2>1, <2>3
    <3>2. "credentialSubject" \in DOMAIN tree
      BY <3>1, WalkTwo
    <3> QED
      BY <1>4, <3>2
  <2>4. CASE path = <<n>>
    <3>1. GetValue(tree, <<n>>) # Absent
      BY <2>1, <2>4
    <3>2. n \in DOMAIN tree /\ GetValue(tree, <<n>>) = tree[n]
      BY <3>1, WalkOne
    <3>3. n # "iss"
      BY DEF Members
    <3>4. tree[n].leaf = claims[n]
      BY <1>2, <3>2, <3>3 DEF Leaf
    <3> QED
      BY <1>2, <2>1, <2>4, <3>2, <3>3, <3>4
  <2> QED
    BY <2>1, <2>2, <2>3, <2>4
<1>6. ASSUME issuer # Absent
      PROVE  issuer = credential.issuer
  <2>1. PICK path \in {<<"vc", "issuer">>, <<"issuer">>, <<"iss">>, <<"vc", "iss">>} :
          GetValue(tree, path) # Absent /\ GetValue(tree, path).leaf = issuer
    BY <1>6, FieldsOfDefinition DEF tree
  <2>2. CASE path = <<"vc", "issuer">> \/ path = <<"vc", "iss">>
    <3>1. PICK b \in {"issuer", "iss"} : GetValue(tree, <<"vc", b>>) # Absent
      BY <2>1, <2>2
    <3>2. "vc" \in DOMAIN tree
      BY <3>1, WalkTwo
    <3> QED
      BY <1>4, <3>2
  <2>3. CASE path = <<"issuer">>
    <3>1. GetValue(tree, <<"issuer">>) # Absent
      BY <2>1, <2>3
    <3>2. "issuer" \in DOMAIN tree
      BY <3>1, WalkOne
    <3> QED
      BY <1>4, <3>2
  <2>4. CASE path = <<"iss">>
    <3>1. GetValue(tree, <<"iss">>) # Absent
      BY <2>1, <2>4
    <3>2. GetValue(tree, <<"iss">>) = tree["iss"]
      BY <3>1, WalkOne
    <3> QED
      BY <1>2, <2>1, <2>4, <3>2 DEF Leaf
  <2> QED
    BY <2>1, <2>2, <2>3, <2>4
<1> QED
  BY <1>5, <1>6 DEF Satisfied

-----------------------------------------------------------------------------
(* Accepted presentations                                                  *)

\* A token is of the issuer, with the claims and the status it was given.
IsToken(token, did) ==
  /\ token = [form |-> token.form, payload |-> token.payload, kid |-> token.kid,
              signature |-> token.signature, disclosed |-> token.disclosed]
  /\ token.payload.iss = did
  /\ \/ token.form = "jwt" /\ token.payload.vc \in Credentials
     \/ token.form = "sd_jwt" /\ token.payload.claims \in Claims

\* A presentation holds the token, for the subject of it.
Holds(submission, token) ==
  \/ /\ submission.format = "sd_jwt" /\ token.form = "sd_jwt"
     /\ \E revealed \in {submission.presentation.disclosed} :
          submission.presentation = [token EXCEPT !.disclosed = revealed]
  \/ /\ submission.format = "jwt_vp" /\ token.form = "jwt"
     /\ submission.presentation.payload
          = Payload(token.payload.sub, Absent, Absent, Presentation(<<token>>), <<>>, {})

IsMessage(message, i, did) ==
  \E r \in Requests(did) :
    /\ message.asked = r.asked /\ message.issuer = r.issuer
    /\ message.definition = CreatePresentationDefinition(i - 1, r.asked, r.issuer)
AreMessages(ms, did) ==
  ms \in Seq(Range(ms)) /\ \A i \in DOMAIN ms : IsMessage(ms[i], i, did)

IsSubmission(s, ms, did) ==
  /\ s.request \in DOMAIN ms /\ s.thid = ms[s.request].thid
  /\ IsToken(s.token, did)
  /\ s.submission.protocol = "dif" =>
       Holds(s.submission, s.token) /\ 1 \in DOMAIN s.submission.descriptor_map

\* Proofs begin with the DIDs of the parties, and nothing is published then;
\* all that is issued, asked for and presented is of the issuer's DID.
Issuer == wallet[1].did
Began ==
  /\ registry = <<>>
  /\ \E p \in Parties : dids = {Created(p.issuer), Created(p.holder)} /\ Issuer = Created(p.issuer).did

ProofsInv ==
  /\ setup # "proofs" => tokens = {} /\ submissions = {} /\ verdicts = {} /\ messages = <<>>
  /\ setup = "proofs" => Began
  /\ AreMessages(messages, Issuer)
  /\ \A t \in tokens : IsToken(t.token, Issuer)
  /\ \A s \in submissions : IsSubmission(s, messages, Issuer)
  /\ \A v \in verdicts : IsSubmission(v.of, messages, Issuer)

\* The request that a presentation is judged by is the first of its thread.
First(ms, thid) == SelectInSeq(ms, LAMBDA m : m.thid = thid)
AskedIn(ms, s) ==
  ms[CHOOSE i \in DOMAIN ms : ms[i].thid = s.thid /\ \A j \in 1 .. i - 1 : ms[j].thid # s.thid]

LEMMA FirstOfThread ==
  ASSUME NEW ms, ms \in Seq(Range(ms)), NEW s, s.request \in DOMAIN ms,
         s.thid = ms[s.request].thid, NEW i, i = First(ms, s.thid)
  PROVE  /\ i # 0 /\ i \in DOMAIN ms /\ AskedIn(ms, s) = ms[i]
         /\ ms[i].thid = s.thid /\ \A k \in 1 .. i - 1 : ms[k].thid # s.thid
<1> DEFINE OfThread(j) == ms[j].thid = s.thid
           I == {j \in 1 .. Len(ms) : OfThread(j)}
<1>1. Len(ms) \in Nat /\ DOMAIN ms = 1 .. Len(ms)
  OBVIOUS
<1>2. s.request \in I
  BY <1>1
<1>3. i = IF I # {} THEN Min(I) ELSE 0
  BY DEF SelectInSeq, First
<1>4. I \in SUBSET Nat
  <2> HIDE DEF OfThread
  <2> QED
    BY <1>1
<1>5. i \in I /\ \A j \in I : i <= j
  <2> HIDE DEF I
  <2>1. I # {} /\ i = Min(I)
    BY <1>2, <1>3
  <2>2. Min(I) \in I /\ \A j \in I : Min(I) <= j
    BY <1>4, <2>1, MinIsLeast
  <2> QED
    BY <2>1, <2>2
<1>6. i \in DOMAIN ms /\ i # 0 /\ OfThread(i)
  <2> HIDE DEF OfThread
  <2> QED
    BY <1>1, <1>5
<1>7. ASSUME NEW j \in DOMAIN ms, OfThread(j), \A k \in 1 .. j - 1 : ~OfThread(k)
      PROVE  j = i
  <2> HIDE DEF OfThread
  <2>1. j \in I
    BY <1>1, <1>7
  <2>2. i <= j /\ i \in Nat /\ j \in Nat
    BY <1>1, <1>5, <2>1, <1>4
  <2>3. ~(i < j)
    BY <1>5, <1>6, <1>7, <1>1, <2>2
  <2> QED
    BY <2>2, <2>3
<1>8. ASSUME NEW k \in 1 .. i - 1
      PROVE  ~OfThread(k)
  <2> HIDE DEF OfThread
  <2>1. k \in 1 .. Len(ms) /\ ~(i <= k)
    BY <1>1, <1>6
  <2> QED
    BY <1>5, <2>1
<1>9. (CHOOSE j \in DOMAIN ms :
         ms[j].thid = s.thid /\ \A k \in 1 .. j - 1 : ms[k].thid # s.thid) = i
  BY <1>6, <1>7, <1>8
<1> QED
  BY <1>6, <1>8, <1>9 DEF AskedIn

\* A later request does not take the place of an earlier one.
LEMMA AskedBefore ==
  ASSUME NEW ms, ms \in Seq(Range(ms)), NEW m, NEW s, s.request \in DOMAIN ms,
         s.thid = ms[s.request].thid
  PROVE  AskedIn(Append(ms, m), s) = AskedIn(ms, s)
<1> DEFINE next == Append(ms, m)
           i == First(ms, s.thid)
           j == First(next, s.thid)
<1>1. Len(ms) \in Nat /\ DOMAIN ms = 1 .. Len(ms)
  OBVIOUS
<1>2. /\ next \in Seq(Range(next)) /\ DOMAIN next = 1 .. Len(ms) + 1
      /\ \A k \in DOMAIN ms : next[k] = ms[k]
  <2> DEFINE T == Range(ms) \cup {m}
  <2>1. ms \in Seq(T)
    <3>1. Range(ms) \subseteq T
      OBVIOUS
    <3> HIDE DEF T
    <3> QED
      BY <3>1
  <2>2. m \in T
    OBVIOUS
  <2> HIDE DEF T
  <2>3. next \in Seq(T) /\ DOMAIN next = 1 .. Len(ms) + 1 /\ \A k \in DOMAIN ms : next[k] = ms[k]
    BY <2>1, <2>2
  <2> HIDE DEF next
  <2>4. next \in Seq(Range(next))
    BY <2>3 DEF Range
  <2> QED
    BY <2>3, <2>4
<1> HIDE DEF next, i, j
<1>3. /\ i \in DOMAIN ms /\ AskedIn(ms, s) = ms[i]
      /\ ms[i].thid = s.thid /\ \A k \in 1 .. i - 1 : ms[k].thid # s.thid
  BY FirstOfThread DEF i
<1>4. s.request \in DOMAIN next /\ s.thid = next[s.request].thid
  BY <1>1, <1>2
<1>5. /\ j \in DOMAIN next /\ AskedIn(next, s) = next[j]
      /\ next[j].thid = s.thid /\ \A k \in 1 .. j - 1 : next[k].thid # s.thid
  BY <1>2, <1>4, FirstOfThread DEF j
<1>6. i = j
  <2>1. ~(i < j)
    BY <1>1, <1>2, <1>3, <1>5
  <2>2. ~(j < i)
    BY <1>1, <1>2, <1>3, <1>5
  <2> QED
    BY <1>1, <1>2, <1>3, <1>5, <2>1, <2>2
<1> QED
  BY <1>2, <1>3, <1>5, <1>6 DEF next

\* Of a definition's one descriptor, whichever the submission names.
LEMMA OneDescriptor ==
  ASSUME NEW submission, 1 \in DOMAIN submission.descriptor_map, NEW lists, NEW answers,
         NEW id, NEW asked, NEW issuer,
         NEW definition, definition = CreatePresentationDefinition(id, asked, issuer),
         PresentationVerify(submission, definition, answers, lists) = TRUE
  PROVE  ProcessDescriptorItem(submission, definition.input_descriptors[1], answers, lists) = TRUE
<1> DEFINE descriptors == definition.input_descriptors
           name == submission.descriptor_map[1]
           Judge(i) == ProcessDescriptorItem(submission, descriptors[i], answers, lists)
           Named(j) == descriptors[j].id = name
           I == {j \in 1 .. Len(descriptors) : Named(j)}
<1>1. Thrown # TRUE
  BY OutcomesAssumption
<1>2. Len(descriptors) = 1
  BY DEF CreatePresentationDefinition
<1>3. PICK i : /\ i = SelectInSeq(descriptors, LAMBDA d : d.id = name)
               /\ (IF i = 0 THEN Thrown ELSE Judge(i)) = TRUE
  <2> HIDE DEF Judge
  <2> QED
    BY <1>1 DEF PresentationVerify, With, Judge
<1>4. i # 0 /\ Judge(i) = TRUE
  <2> HIDE DEF Judge
  <2> QED
    BY <1>1, <1>3
<1>5. i = IF I # {} THEN Min(I) ELSE 0
  BY <1>3 DEF SelectInSeq
<1>6. I \subseteq {1}
  <2> HIDE DEF Named, descriptors
  <2> QED
    BY <1>2
<1>7. i = 1
  <2> HIDE DEF I
  <2>1. I \in SUBSET Nat /\ I # {} /\ i = Min(I)
    BY <1>4, <1>5, <1>6
  <2> QED
    BY <1>6, <2>1, MinIsLeast
<1> QED
  BY <1>4, <1>7

\* What is judged is accepted because of a credential that is not revoked and
\* has what is asked for.
LEMMA AcceptedCredential ==
  ASSUME NEW submission, NEW descriptor, NEW answers, NEW lists,
         ProcessDescriptorItem(submission, descriptor, answers, lists) = TRUE,
         NEW credential, credential = PresentedCredential(submission, answers)
  PROVE  /\ credential # Thrown
         /\ submission.format # "sd_jwt" => /\ IsCredentialRevoked(credential, lists) = FALSE
                                            /\ ConstraintsHold(TreeOfJWT(credential), descriptor)
         /\ submission.format = "sd_jwt" => ConstraintsHold(TreeOfSDJWT(credential), descriptor)
<1>1. Thrown # TRUE
  BY OutcomesAssumption
<1>2. credential # Thrown
  BY <1>1 DEF ProcessDescriptorItem, Then
<1> DEFINE Meets(tree) == ConstraintsHold(tree, descriptor)
           Revoked == IsCredentialRevoked(credential, lists)
           tree == IF submission.format = "sd_jwt" THEN TreeOfSDJWT(credential) ELSE TreeOfJWT(credential)
<1>3. (IF submission.format # "sd_jwt" /\ Revoked # FALSE THEN Thrown
       ELSE IF Meets(tree) THEN TRUE ELSE Thrown) = TRUE
  BY <1>2 DEF ProcessDescriptorItem, Then
<1> HIDE DEF Meets, Revoked
<1>4. /\ ~(submission.format # "sd_jwt" /\ Revoked # FALSE) /\ Meets(tree)
  BY <1>1, <1>3
<1> QED
  BY <1>2, <1>4 DEF Meets, Revoked

\* A credential that verifies is the one that was parsed.
LEMMA VerifiedSDJWT ==
  ASSUME NEW token, NEW answers, NEW credential,
         credential = VerifiedCredential(token, "sd_jwt", answers), credential # Thrown
  PROVE  /\ credential = SDJWTCredential(token)
         /\ SDJWTVerify(token, credential.issuer, answers[credential.issuer]) = TRUE
<1> DEFINE parsed == SDJWTCredential(token)
           Good == SDJWTVerify(token, parsed.issuer, answers[parsed.issuer]) = TRUE
<1>1. credential = IF parsed = Thrown THEN Thrown ELSE IF Good THEN parsed ELSE Thrown
  BY DEF VerifiedCredential, Then
<1> HIDE DEF parsed, Good
<1>2. credential = parsed /\ Good
  BY <1>1
<1> QED
  BY <1>2 DEF parsed, Good

LEMMA VerifiedJWT ==
  ASSUME NEW token, NEW answers, NEW credential, NEW format, format # "sd_jwt",
         credential = VerifiedCredential(token, format, answers), credential # Thrown
  PROVE  /\ credential = JWTCredential(token)
         /\ format = "jwt_vc" => Subject(credential) # Thrown
         /\ \E holder : JWTVerify(token, credential.issuer, holder, answers[credential.issuer])
<1> DEFINE parsed == JWTCredential(token)
           holder == IF format = "jwt_vc" THEN Subject(parsed) ELSE Absent
           Good == JWTVerify(token, parsed.issuer, holder, answers[parsed.issuer])
<1>1. Thrown # TRUE
  BY OutcomesAssumption
<1>2. credential = IF parsed = Thrown THEN Thrown
                   ELSE IF (IF holder = Thrown THEN Thrown ELSE Good) = TRUE THEN parsed ELSE Thrown
  BY DEF VerifiedCredential, Then
<1> HIDE DEF parsed, Good, holder
<1>3. credential = parsed /\ holder # Thrown /\ Good = TRUE
  BY <1>1, <1>2
<1> QED
  BY <1>3 DEF parsed, Good, holder

\* A submission that passes for what is asked, as an issuer's that is not published.
Passes(p, did, submission, asked, issuer, answers, lists) ==
  /\ p \in PayloadType /\ did = Created(p).did /\ did # Thrown /\ answers[did] = Absent
  /\ DOMAIN asked \cap Members = {}
  /\ \E id :
       LET definition == CreatePresentationDefinition(id, asked, issuer)
       IN  ProcessDescriptorItem(submission, definition.input_descriptors[1], answers, lists) = TRUE

HoldsSDJWT(presented, did) == presented.payload.iss = did /\ presented.payload.claims \in Claims
HoldsJWT(submission, token, did) ==
  /\ submission.format = "jwt_vp"
  /\ token.payload.iss = did /\ token.payload.vc \in Credentials
  /\ submission.presentation.payload
       = Payload(token.payload.sub, Absent, Absent, Presentation(<<token>>), <<>>, {})

LEMMA SDJWTIsBacked ==
  ASSUME NEW p, NEW did, NEW submission, NEW asked, NEW issuer, NEW answers, NEW lists,
         Passes(p, did, submission, asked, issuer, answers, lists), submission.format = "sd_jwt",
         NEW presented, presented = submission.presentation, HoldsSDJWT(presented, did)
  PROVE  /\ presented.signature.by \in Range(KeysFrom(p))
         /\ Satisfied(presented.payload.claims, asked) /\ issuer \in {Absent, did}
<1>20. p \in PayloadType /\ did = Created(p).did /\ did # Thrown /\ answers[did] = Absent
  BY DEF Passes
<1>21. DOMAIN asked \cap Members = {}
  BY DEF Passes
<1>22. PICK id :
         LET definition == CreatePresentationDefinition(id, asked, issuer)
         IN  ProcessDescriptorItem(submission, definition.input_descriptors[1], answers, lists) = TRUE
  BY DEF Passes
<1> DEFINE descriptor == CreatePresentationDefinition(id, asked, issuer).input_descriptors[1]
<1>23. ProcessDescriptorItem(submission, descriptor, answers, lists) = TRUE
  BY <1>22
<1> DEFINE credential == PresentedCredential(submission, answers)
<1>1. credential = VerifiedCredential(presented, "sd_jwt", answers)
  BY DEF PresentedCredential, Then
<1> HIDE DEF credential
<1>2. credential # Thrown /\ ConstraintsHold(TreeOfSDJWT(credential), descriptor)
  BY <1>23, AcceptedCredential DEF credential
<1>3. /\ credential = SDJWTCredential(presented)
      /\ SDJWTVerify(presented, credential.issuer, answers[credential.issuer]) = TRUE
  BY <1>1, <1>2, VerifiedSDJWT
<1>4. credential.issuer = did /\ credential.claims = presented.payload.claims
  BY <1>3 DEF SDJWTCredential, HoldsSDJWT
<1>5. SDJWTVerify(presented, did, Absent) = TRUE
  BY <1>3, <1>4, <1>20
<1>6. presented.signature.by \in Range(KeysFrom(p))
  BY <1>5, <1>20, SDJWTIsOfIssuer
<1>24. presented.payload.claims \in Claims
  BY DEF HoldsSDJWT
<1>7. Satisfied(presented.payload.claims, asked) /\ issuer \in {Absent, credential.issuer}
  BY <1>2, <1>4, <1>21, <1>24, SDJWTSatisfies
<1> QED
  BY <1>4, <1>6, <1>7

\* What the nested path of a presentation leads to is the token it is made of.
LEMMA Nested ==
  ASSUME NEW outer, ~outer.isCredential, NEW token, outer.vp = Presentation(<<token>>),
         NEW nested, nested = GetValue(TreeOfJWT(outer), <<"vp", "verifiableCredential", "0">>),
         nested # Absent
  PROVE  nested.leaf = token
<1> DEFINE tree == TreeOfJWT(outer)
<1>2. GetValue(tree, <<"vp", "verifiableCredential", "0">>) # Absent
  OBVIOUS
<1>3. /\ "verifiableCredential" \in DOMAIN tree["vp"]
      /\ GetValue(tree, <<"vp", "verifiableCredential", "0">>) = tree["vp"]["verifiableCredential"]["0"]
  <2> HIDE DEF tree
  <2> QED
    BY <1>2, WalkThree
<1>1. tree["vp"]["verifiableCredential"]["0"] = Leaf(token)
  <2>6. outer.vp # Absent
    <3>1. outer.vp = Absent => tree["vp"] = <<>>
      BY DEF TreeOfJWT
    <3> HIDE DEF tree
    <3> QED
      BY <1>3, <3>1
  <2>1. outer.vp.verifiableCredential = <<token>>
    BY DEF Presentation
  <2>2. outer.vp # Absent /\ outer.vp.verifiableCredential # <<>> /\ outer.vp.verifiableCredential[1] = token
    BY <2>1, <2>6
  <2> DEFINE one == [n \in {"0"} |-> Leaf(outer.vp.verifiableCredential[1])]
  <2>3. tree["vp"] = [verifiableCredential |-> one]
    BY <2>2 DEF TreeOfJWT
  <2>4. one["0"] = Leaf(token)
    BY <2>2
  <2> HIDE DEF one, tree
  <2>5. tree["vp"]["verifiableCredential"] = one
    BY <2>3
  <2> QED
    BY <2>4, <2>5
<1>4. nested = Leaf(token)
  BY <1>1, <1>3
<1> QED
  BY <1>4 DEF Leaf

\* What an accepted JWT of the issuer did, whose keys p offers, is known to be.
BackedJWT(p, did, token, asked, issuer, lists) ==
  /\ token.signature.by \in Range(KeysFrom(p))
  /\ Satisfied(token.payload.vc.credentialSubject, asked) /\ issuer \in {Absent, did}
  /\ JWTCredential(token) # Thrown
  /\ IsCredentialRevoked(JWTCredential(token), lists) = FALSE

LEMMA JWTIsBacked ==
  ASSUME NEW p, NEW did, NEW submission, NEW asked, NEW issuer, NEW answers, NEW lists,
         Passes(p, did, submission, asked, issuer, answers, lists),
         NEW token, HoldsJWT(submission, token, did)
  PROVE  BackedJWT(p, did, token, asked, issuer, lists)
<1>20. p \in PayloadType /\ did = Created(p).did /\ did # Thrown /\ answers[did] = Absent
  BY DEF Passes
<1>21. DOMAIN asked \cap Members = {}
  BY DEF Passes
<1>22. PICK id :
         LET definition == CreatePresentationDefinition(id, asked, issuer)
         IN  ProcessDescriptorItem(submission, definition.input_descriptors[1], answers, lists) = TRUE
  BY DEF Passes
<1> DEFINE descriptor == CreatePresentationDefinition(id, asked, issuer).input_descriptors[1]
<1>23. ProcessDescriptorItem(submission, descriptor, answers, lists) = TRUE
  BY <1>22
<1>24. submission.format = "jwt_vp"
  BY DEF HoldsJWT
<1> DEFINE credential == PresentedCredential(submission, answers)
           presented == submission.presentation
           outer == VerifiedCredential(presented, "jwt_vp", answers)
           nested == GetValue(TreeOfJWT(outer), <<"vp", "verifiableCredential", "0">>)
           inner == VerifiedCredential(nested.leaf, "jwt_vc", answers)
<1>1. credential = IF outer = Thrown THEN Thrown ELSE IF nested = Absent THEN Thrown ELSE inner
  BY <1>24 DEF PresentedCredential, Then, With
<1> HIDE DEF outer, nested, inner, credential
<1>2. /\ credential # Thrown /\ IsCredentialRevoked(credential, lists) = FALSE
      /\ ConstraintsHold(TreeOfJWT(credential), descriptor)
  BY <1>23, AcceptedCredential DEF credential, HoldsJWT
<1>3. outer # Thrown /\ nested # Absent /\ inner # Thrown /\ credential = inner
  BY <1>1, <1>2
<1>4. outer = JWTCredential(presented)
  BY <1>3, VerifiedJWT DEF outer
<1>5. ~outer.isCredential /\ outer.vp = Presentation(<<token>>)
  <2>1. presented.payload.vc = Absent /\ presented.payload.vp = Presentation(<<token>>)
    BY DEF Payload, HoldsJWT
  <2>2. IsCredentialPayload(presented.payload) \in {Thrown, FALSE}
    BY <2>1 DEF IsCredentialPayload
  <2>3. IsCredentialPayload(presented.payload) = FALSE
    BY <1>3, <1>4, <2>2 DEF JWTCredential, Then
  <2>4. outer = [id |-> presented, isCredential |-> FALSE, issuer |-> presented.payload.iss,
                 sub |-> Absent, vc |-> Absent, vp |-> Presentation(<<token>>)]
    <3>1. FALSE # Thrown
      BY OutcomesAssumption
    <3> QED
      BY <1>4, <2>1, <2>3, <3>1 DEF JWTCredential, Then
  <2> QED
    BY <2>4
<1>6. nested.leaf = token
  BY <1>3, <1>5, Nested DEF nested
<1>7. /\ inner = JWTCredential(token) /\ Subject(inner) # Thrown
      /\ \E holder : JWTVerify(token, inner.issuer, holder, answers[inner.issuer])
  <2>1. inner = VerifiedCredential(token, "jwt_vc", answers)
    BY <1>6 DEF inner
  <2> QED
    BY <1>3, <2>1, VerifiedJWT
<1>8. inner.isCredential /\ inner.issuer = did /\ inner.vc = token.payload.vc
  <2>1. inner.issuer = did /\ inner.vc = token.payload.vc
    BY <1>3, <1>7 DEF JWTCredential, Then, HoldsJWT
  <2> QED
    BY <1>7, <2>1 DEF Subject
<1>9. PICK holder : JWTVerify(token, did, holder, Absent)
  BY <1>7, <1>8, <1>20
<1>10. token.signature.by \in Range(KeysFrom(p))
  BY <1>9, <1>20, JWTIsOfIssuer
<1>11. Satisfied(token.payload.vc.credentialSubject, asked) /\ issuer \in {Absent, inner.issuer}
  <2> DEFINE claims == token.payload.vc.credentialSubject
  <2>1. claims \in Claims
    BY DEF Credentials, HoldsJWT
  <2>2. inner.vc.credentialSubject = claims
    BY <1>8
  <2>3. ConstraintsHold(TreeOfJWT(inner), descriptor)
    BY <1>2, <1>3
  <2> HIDE DEF claims
  <2>4. Satisfied(claims, asked) /\ issuer \in {Absent, inner.issuer}
    BY <1>8, <1>21, <2>1, <2>2, <2>3, JWTSatisfies
  <2> QED
    BY <2>4 DEF claims
<1> QED
  BY <1>2, <1>3, <1>7, <1>8, <1>10, <1>11 DEF BackedJWT

LEMMA NotRevoked ==
  ASSUME NEW token, token.payload.vc \in Credentials,
         IsCredentialRevoked(JWTCredential(token), StatusLists) = FALSE, JWTCredential(token) # Thrown
  PROVE  ~RevokedAt(token)
<1> DEFINE vc == token.payload.vc
           status == vc.credentialStatus
           bit == BitOf(StatusLists[status.list].bits, status.index)
<1>1. Thrown # FALSE /\ vc # Absent
  BY OutcomesAssumption
<1>2. JWTCredential(token).vc = vc
  BY DEF JWTCredential, Then
<1>3. status # Absent => bit \in {Thrown, FALSE} /\ bit # Thrown
  <2> SUFFICES ASSUME status # Absent
               PROVE  bit = FALSE /\ bit # Thrown
    OBVIOUS
  <2> DEFINE list == StatusLists[status.list]
             Listed1 == list.type # "StatusList2021" \/ ~ProofHolds(list)
  <2>1. (IF status.type # "StatusList2021Entry" THEN Thrown
         ELSE IF list.httpStatus # 200 THEN Thrown
         ELSE IF Listed1 THEN Thrown
         ELSE bit) = FALSE
    BY <1>1, <1>2 DEF IsCredentialRevoked
  <2> HIDE DEF bit, list, status, Listed1
  <2> QED
    BY <1>1, <2>1
<1>4. status # Absent => bit # TRUE
  <2> HIDE DEF bit, status
  <2> QED
    BY <1>3
<1> QED
  BY <1>4 DEF RevokedAt

\* A submission that the verifier accepts is backed.
LEMMA Judged ==
  ASSUME ProofsInv, NEW s, IsSubmission(s, messages, Issuer),
         HandlePresentation(messages, s.submission, s.thid, Answers, StatusLists) = TRUE
  PROVE  Backed(s)
<1> DEFINE i == First(messages, s.thid)
           token == s.token
           submission == s.submission
<1>1. i # 0 /\ i \in DOMAIN messages /\ Asked(s) = messages[i]
  BY FirstOfThread DEF ProofsInv, AreMessages, IsSubmission, Asked, AskedIn
<1>2. setup = "proofs" /\ messages # <<>> /\ IsMessage(messages[i], i, Issuer)
  BY <1>1 DEF ProofsInv, AreMessages
<1>3. Thrown # TRUE
  BY OutcomesAssumption
<1>4. /\ submission.protocol = "dif"
      /\ PresentationVerify(submission, messages[i].definition, Answers, StatusLists) = TRUE
  BY <1>3 DEF HandlePresentation, First
<1>5. registry = <<>>
  BY <1>2 DEF ProofsInv, Began
<1>6. PICK p \in Parties : /\ dids = {Created(p.issuer), Created(p.holder)}
                           /\ Issuer = Created(p.issuer).did
  BY <1>2 DEF ProofsInv, Began
<1> DEFINE did == Created(p.issuer).did
<1> HIDE DEF i, did
<1>7. did # Thrown /\ p.issuer \in PayloadType
  BY PartiesAssumption, PayloadsAssumption DEF Offered, did
<1>8. Created(p.issuer) \in dids /\ did = Created(p.issuer).did /\ Issuer = did
  BY <1>6 DEF did
<1>9. Answers[did] = Absent
  <2>1. did \in Known
    BY <1>8 DEF Known
  <2>2. did \notin DOMAIN registry
    BY <1>5
  <2> QED
    BY <2>1, <2>2 DEF Answers
<1> DEFINE id == i - 1
<1>10. PICK r \in Requests(did) :
         /\ messages[i].asked = r.asked /\ messages[i].issuer = r.issuer
         /\ messages[i].definition = CreatePresentationDefinition(id, r.asked, r.issuer)
  BY <1>2, <1>8 DEF IsMessage
<1> HIDE DEF id
<1>11. DOMAIN r.asked \cap Members = {}
  BY <1>10, PartiesAssumption DEF did
<1> DEFINE asked == r.asked
           issuer == r.issuer
           payload == p.issuer
           answers == Answers
           definition == messages[i].definition
           descriptor == definition.input_descriptors[1]
<1> HIDE DEF definition
<1>12. definition = CreatePresentationDefinition(id, r.asked, r.issuer)
  BY <1>10 DEF definition
<1> HIDE DEF asked, issuer, payload, answers
<1>13. ProcessDescriptorItem(submission, descriptor, answers, StatusLists) = TRUE
  <2>1. 1 \in DOMAIN submission.descriptor_map
    BY <1>4 DEF IsSubmission
  <2>2. PresentationVerify(submission, definition, answers, StatusLists) = TRUE
    BY <1>4 DEF definition, answers
  <2> QED
    BY <1>12, <2>1, <2>2, OneDescriptor
<1>14. Passes(payload, did, submission, asked, issuer, answers, StatusLists)
  BY <1>7, <1>8, <1>9, <1>11, <1>12, <1>13 DEF payload, answers, asked, issuer, Passes
<1>15. IsToken(token, did) /\ token.payload.iss = did /\ Holds(submission, token)
  BY <1>4, <1>8 DEF IsSubmission, IsToken
<1>16. /\ token.signature.by \in Range(KeysFrom(payload))
       /\ Satisfied(ClaimsOf(token), asked) /\ issuer \in {Absent, did}
       /\ ~RevokedAt(token)
       /\ submission.format = "jwt_vp" => submission.presentation.payload.iss = token.payload.sub
  <2>1. CASE submission.format = "sd_jwt"
    <3>1. token.form = "sd_jwt" /\ \E revealed \in {submission.presentation.disclosed} :
            submission.presentation = [token EXCEPT !.disclosed = revealed]
      BY <1>15, <2>1 DEF Holds
    <3> DEFINE presented == submission.presentation
    <3>2. presented.payload = token.payload /\ presented.signature = token.signature
      BY <1>15, <3>1 DEF IsToken
    <3>3. token.payload.claims \in Claims
      BY <1>15, <3>1 DEF IsToken
    <3>4. HoldsSDJWT(presented, did)
      BY <1>15, <3>2, <3>3 DEF HoldsSDJWT
    <3> HIDE DEF presented, submission, token
    <3>6. presented = submission.presentation
      BY DEF presented
    <3>5. /\ presented.signature.by \in Range(KeysFrom(payload))
          /\ Satisfied(presented.payload.claims, asked) /\ issuer \in {Absent, did}
      BY <1>14, <2>1, <3>4, <3>6, SDJWTIsBacked
    <3> QED
      BY <2>1, <3>1, <3>2, <3>5 DEF ClaimsOf, RevokedAt
  <2>2. CASE submission.format = "jwt_vp"
    <3>1. /\ token.form = "jwt"
          /\ submission.presentation.payload
               = Payload(token.payload.sub, Absent, Absent, Presentation(<<token>>), <<>>, {})
      BY <1>15, <2>2 DEF Holds
    <3>2. token.payload.vc \in Credentials
      BY <1>15, <3>1 DEF IsToken
    <3>6. HoldsJWT(submission, token, did)
      BY <1>15, <2>2, <3>1, <3>2 DEF HoldsJWT
    <3> HIDE DEF submission, token, descriptor
    <3>3. BackedJWT(payload, did, token, asked, issuer, StatusLists)
      BY <1>14, <3>6, JWTIsBacked
    <3>4. ~RevokedAt(token)
      BY <3>2, <3>3, NotRevoked DEF BackedJWT
    <3>5. submission.presentation.payload.iss = token.payload.sub
      BY <3>1 DEF Payload
    <3> QED
      BY <3>1, <3>3, <3>4, <3>5 DEF ClaimsOf, BackedJWT
  <2> QED
    BY <1>15, <2>1, <2>2 DEF Holds
<1>17. \E d \in dids : /\ d.did = token.payload.iss
                       /\ token.signature.by \in Range(MapSeq(PublicKey, KeysOf(d.of)))
  <2> DEFINE d == Created(p.issuer)
  <2>1. d.of = payload
    BY DEF Created, payload
  <2>2. token.signature.by \in Range(MapSeq(PublicKey, KeysOf(d.of)))
    BY <1>16, <2>1 DEF KeysFrom
  <2>3. d \in dids /\ d.did = token.payload.iss
    BY <1>8, <1>15
  <2> HIDE DEF d
  <2> QED
    BY <2>2, <2>3
<1> QED
  BY <1>1, <1>10, <1>15, <1>16, <1>17 DEF Backed, asked, issuer

\* What is signed is the payload, with the signer as the issuer of a JWT.
LEMMA SignedJWT ==
  ASSUME NEW rows, NEW answer, NEW did, NEW payload, NEW given, NEW purpose,
         NEW token, token = CreateJWT(rows, answer, did, payload, given, purpose), token # Thrown
  PROVE  /\ token = [form |-> "jwt", payload |-> [payload EXCEPT !.iss = did], kid |-> token.kid,
                     signature |-> token.signature, disclosed |-> {}]
         /\ token.form = "jwt"
<1> DEFINE found == FindSigningKeys(rows, answer, did, given, purpose)
           key == IF found # <<>> THEN found[1].key ELSE given
           kid == IF found # <<>> THEN found[1].kid ELSE Absent
           Bad == key = Absent \/ ~IsSignable(key)
           signed == Token("jwt", [payload EXCEPT !.iss = did], kid, key, {})
<1>1. token = IF found = Thrown THEN Thrown ELSE IF Bad THEN Thrown ELSE signed
  BY DEF CreateJWT, Then
<1> HIDE DEF found, Bad, signed
<1>2. token = signed
  BY <1>1
<1> QED
  BY <1>2 DEF signed, Token

LEMMA SignedSDJWT ==
  ASSUME NEW rows, NEW answer, NEW did, NEW payload, NEW given, NEW purpose,
         NEW token, token = CreateSDJWT(rows, answer, did, payload, given, purpose), token # Thrown
  PROVE  /\ token = [form |-> "sd_jwt", payload |-> payload, kid |-> token.kid,
                     signature |-> token.signature, disclosed |-> token.disclosed]
         /\ token.form = "sd_jwt"
<1> DEFINE found == FindSigningKeys(rows, answer, did, given, purpose)
           Bad == found = <<>> \/ ~IsSignable(found[1].key)
           signed == Token("sd_jwt", payload, found[1].kid, found[1].key, DOMAIN payload.claims)
<1>1. token = IF found = Thrown THEN Thrown ELSE IF Bad THEN Thrown ELSE signed
  BY DEF CreateSDJWT, Then
<1> HIDE DEF found, Bad, signed
<1>2. token = signed
  BY <1>1
<1> QED
  BY <1>2 DEF signed, Token

\* Whatever the issuer signs is a token of its own.
LEMMA IssuedOwn ==
  ASSUME NEW holder, NEW claims \in Claims, NEW did, NEW token, token # Thrown,
         token = OwnJWT(did, holder, claims) \/ token = OwnSDJWT(did, holder, claims)
  PROVE  IsToken(token, did)
<1>1. CASE token = OwnJWT(did, holder, claims)
  <2> DEFINE payload == Payload(did, holder, Credential(FALSE, claims, Absent), Absent, <<>>, {})
  <2>1. Credential(FALSE, claims, Absent) \in Credentials
    BY DEF Credential, Credentials
  <2>2. [payload EXCEPT !.iss = did].vc \in Credentials /\ [payload EXCEPT !.iss = did].iss = did
    BY <2>1 DEF Payload
  <2> HIDE DEF payload
  <2>3. token = CreateJWT(wallet, Answers[did], did, payload, Absent, "ISSUING_KEY")
    BY <1>1 DEF OwnJWT, payload
  <2>4. /\ token = [form |-> "jwt", payload |-> [payload EXCEPT !.iss = did], kid |-> token.kid,
                    signature |-> token.signature, disclosed |-> {}]
        /\ token.form = "jwt"
    BY <2>3, SignedJWT
  <2>5. token.payload = [payload EXCEPT !.iss = did] /\ token.disclosed = {}
    BY <2>4
  <2> QED
    BY <2>2, <2>4, <2>5 DEF IsToken
<1>2. CASE token = OwnSDJWT(did, holder, claims)
  <2> DEFINE payload == Payload(did, holder, Absent, Absent, claims, {})
  <2>1. payload.claims \in Claims /\ payload.iss = did
    BY DEF Payload
  <2> HIDE DEF payload
  <2>2. token = CreateSDJWT(wallet, Answers[did], did, payload, Absent, "ISSUING_KEY")
    BY <1>2 DEF OwnSDJWT, payload
  <2>3. /\ token = [form |-> "sd_jwt", payload |-> payload, kid |-> token.kid,
                    signature |-> token.signature, disclosed |-> token.disclosed]
        /\ token.form = "sd_jwt"
    BY <2>2, SignedSDJWT
  <2>4. token.payload = payload
    BY <2>3
  <2> QED
    BY <2>1, <2>3, <2>4 DEF IsToken
<1> QED
  BY <1>1, <1>2

LEMMA IssuedFramed ==
  ASSUME NEW holder, NEW claims \in Claims, NEW status \in Statuses, NEW given,
         NEW did, NEW token, token # Thrown,
         token = FramedJWT(did, holder, claims, status, given)
  PROVE  IsToken(token, did)
<1> DEFINE payload == Payload(did, holder, Credential(TRUE, claims, status), Absent, <<>>, {})
<1>1. Credential(TRUE, claims, status) \in Credentials
  BY DEF Credential, Credentials
<1>2. [payload EXCEPT !.iss = did].vc \in Credentials /\ [payload EXCEPT !.iss = did].iss = did
  BY <1>1 DEF Payload
<1> HIDE DEF payload
<1>3. token = CreateJWT(wallet, Answers[did], did, payload, given, "ISSUING_KEY")
  BY DEF FramedJWT, payload
<1>4. /\ token = [form |-> "jwt", payload |-> [payload EXCEPT !.iss = did], kid |-> token.kid,
                  signature |-> token.signature, disclosed |-> {}]
      /\ token.form = "jwt"
  BY <1>3, SignedJWT
<1>5. token.payload = [payload EXCEPT !.iss = did] /\ token.disclosed = {}
  BY <1>4
<1> QED
  BY <1>2, <1>4, <1>5 DEF IsToken

\* A presentation that goes by a definition holds the token that it is made of.
LEMMA PresentedFor ==
  ASSUME NEW did, NEW token, IsToken(token, did), NEW credential, credential = Held(token), credential # Thrown,
         NEW answer, NEW definition, NEW frame,
         NEW id, NEW asked, NEW issuer, definition = CreatePresentationDefinition(id, asked, issuer),
         NEW submission, submission # Thrown,
         submission = CreatePresentationFor(wallet, answer, credential, definition, frame)
  PROVE  Holds(submission, token) /\ 1 \in DOMAIN submission.descriptor_map
<1> DEFINE keys == KeysOfDID(wallet, credential.sub)
           Bad == keys = <<>> \/ ~IsSignable(keys[1])
           sd == credential.id.form = "sd_jwt"
           signed == IF sd THEN Present(credential.id, frame)
                     ELSE PresentedJWT(wallet, answer, credential, keys[1])
           result == [protocol |-> "dif", format |-> IF sd THEN "sd_jwt" ELSE "jwt_vp",
                      presentation |-> signed,
                      descriptor_map |-> MapSeq(LAMBDA d : d.id, definition.input_descriptors)]
<1>1. submission = IF Bad THEN Thrown ELSE IF signed = Thrown THEN Thrown ELSE result
  BY DEF CreatePresentationFor, With, Then
<1> HIDE DEF Bad, signed, result
<1>2. submission = result /\ signed # Thrown
  BY <1>1
<1>3. /\ submission.format = (IF sd THEN "sd_jwt" ELSE "jwt_vp") /\ submission.presentation = signed
      /\ submission.descriptor_map = MapSeq(LAMBDA d : d.id, definition.input_descriptors)
  BY <1>2 DEF result
<1>4. 1 \in DOMAIN submission.descriptor_map
  BY <1>3 DEF MapSeq, CreatePresentationDefinition
<1>5. CASE token.form = "sd_jwt"
  <2>1. credential.id = token
    BY <1>5 DEF Held, SDJWTCredential
  <2>2. signed = [token EXCEPT !.disclosed = IF frame = Absent THEN @ ELSE @ \cap frame]
    BY <1>5, <2>1 DEF signed, Present
  <2>3. signed = [token EXCEPT !.disclosed = signed.disclosed]
    BY <2>2 DEF IsToken
  <2> QED
    BY <1>3, <1>4, <1>5, <2>1, <2>3 DEF Holds
<1>6. CASE token.form = "jwt"
  <2>1. /\ IsCredentialPayload(token.payload) \in {Thrown, TRUE} /\ credential = JWTCredential(token)
        /\ TRUE # Thrown
    <3>1. token.payload.vc # Absent /\ TRUE # Thrown
      BY <1>6, OutcomesAssumption DEF IsToken
    <3> QED
      BY <1>6, <3>1 DEF IsCredentialPayload, Held
  <2>2. IsCredentialPayload(token.payload) = TRUE
    BY <2>1 DEF JWTCredential, Then
  <2>3. credential.id = token /\ credential.isCredential /\ credential.sub = token.payload.sub
    BY <2>1, <2>2 DEF JWTCredential, Then
  <2> DEFINE sub == token.payload.sub
             payload == Payload(sub, Absent, Absent, Presentation(<<token>>), <<>>, {})
  <2>4. signed = CreateJWT(wallet, answer, sub, payload, keys[1], "AUTHENTICATION_KEY")
    BY <1>6, <2>3 DEF signed, PresentedJWT, PresentationOf
  <2>5. [payload EXCEPT !.iss = sub] = payload
    <3> DEFINE vp == Presentation(<<token>>)
    <3> HIDE DEF vp
    <3>1. payload = [iss |-> sub, sub |-> Absent, vc |-> Absent, vp |-> vp, claims |-> <<>>, illTyped |-> {}]
      BY DEF Payload, vp
    <3>2. payload.iss = sub /\ payload = [n \in DOMAIN payload |-> payload[n]]
      BY <3>1
    <3> HIDE DEF payload, sub
    <3> QED
      BY <3>2
  <2> HIDE DEF payload, sub
  <2>6. signed.payload = [payload EXCEPT !.iss = sub]
    BY <1>2, <2>4, SignedJWT
  <2> QED
    BY <1>3, <1>4, <1>6, <2>3, <2>5, <2>6 DEF Holds, payload, sub
<1> QED
  BY <1>5, <1>6 DEF IsToken

Accepted == ProofsInv /\ AcceptedIsBacked

\* Before anything is proved there is nothing to judge.
LEMMA AcceptedElsewhere ==
  ASSUME Accepted, setup # "proofs", UNCHANGED <<setup, tokens, messages, submissions, verdicts>>
  PROVE  Accepted'
<1>1. /\ tokens' = {} /\ submissions' = {} /\ verdicts' = {} /\ setup' # "proofs"
      /\ messages' = <<>>
  BY DEF Accepted, ProofsInv
<1>2. AreMessages(messages', Issuer')
  BY <1>1 DEF AreMessages
<1> QED
  BY <1>1, <1>2 DEF Accepted, ProofsInv, AcceptedIsBacked

LEMMA AcceptedIssue ==
  ASSUME Accepted, NEW token, NEW own, Issue(token, own), IsToken(token, Issuer)
  PROVE  Accepted'
<1>1. /\ setup = "proofs" /\ tokens' = tokens \cup {[token |-> token, own |-> own]}
      /\ UNCHANGED <<setup, made, wallet, dids, registry, messages, submissions, verdicts>>
  BY DEF Issue
<1>2. Issuer' = Issuer /\ Began'
  BY <1>1 DEF Accepted, ProofsInv, Began, Issuer
<1>3. \A t \in tokens' : IsToken(t.token, Issuer)
  BY <1>1 DEF Accepted, ProofsInv
<1>4. AcceptedIsBacked'
  BY <1>1 DEF Accepted, AcceptedIsBacked, Backed, Asked
<1> QED
  BY <1>1, <1>2, <1>3, <1>4 DEF Accepted, ProofsInv

LEMMA AcceptedRequest ==
  ASSUME Accepted, NEW thid, NEW request \in Requests(Issuer), RequestPresentation(thid, request)
  PROVE  Accepted'
<1> DEFINE asked == request.asked
           issuer == request.issuer
           message == [thid |-> thid, format |-> RequestFormat("prism/jwt"),
                       asked |-> asked, issuer |-> issuer,
                       definition |-> CreatePresentationDefinition(Len(messages), asked, issuer)]
<1>1. /\ setup = "proofs" /\ messages' = Append(messages, message)
      /\ UNCHANGED <<setup, made, wallet, dids, registry, tokens, submissions, verdicts>>
  BY DEF RequestPresentation
<1>2. /\ message.asked = asked /\ message.issuer = issuer
      /\ message.definition = CreatePresentationDefinition(Len(messages), asked, issuer)
  OBVIOUS
<1> HIDE DEF message
<1>3. messages \in Seq(Range(messages))
  BY DEF Accepted, ProofsInv, AreMessages
<1>4. Len(messages) \in Nat /\ DOMAIN messages = 1 .. Len(messages)
  BY <1>3
<1>5. /\ messages' \in Seq(Range(messages')) /\ DOMAIN messages' = 1 .. Len(messages) + 1
      /\ \A i \in DOMAIN messages : messages'[i] = messages[i]
      /\ messages'[Len(messages) + 1] = message
  <2> DEFINE T == Range(messages) \cup {message}
  <2>1. messages \in Seq(T)
    <3>1. Range(messages) \subseteq T
      OBVIOUS
    <3> HIDE DEF T
    <3> QED
      BY <1>3, <3>1
  <2>2. message \in T
    OBVIOUS
  <2> HIDE DEF T
  <2>3. /\ messages' \in Seq(T) /\ DOMAIN messages' = 1 .. Len(messages) + 1
        /\ \A i \in DOMAIN messages : messages'[i] = messages[i]
        /\ messages'[Len(messages) + 1] = message
    BY <1>1, <1>4, <2>1, <2>2
  <2>4. messages' \in Seq(Range(messages'))
    BY <2>3 DEF Range
  <2> QED
    BY <2>3, <2>4
<1>6. Issuer' = Issuer /\ Began'
  BY <1>1 DEF Accepted, ProofsInv, Began, Issuer
<1>7. ASSUME NEW i \in DOMAIN messages'
      PROVE  IsMessage(messages'[i], i, Issuer)
  <2>1. CASE i \in DOMAIN messages
    BY <1>5, <2>1 DEF Accepted, ProofsInv, AreMessages
  <2>2. CASE i = Len(messages) + 1
    <3>1. i - 1 = Len(messages)
      BY <1>4, <2>2
    <3>2. /\ messages'[i].asked = asked /\ messages'[i].issuer = issuer
          /\ messages'[i].definition = CreatePresentationDefinition(i - 1, asked, issuer)
      BY <1>2, <1>5, <2>2, <3>1
    <3> QED
      BY <3>2 DEF IsMessage
  <2> QED
    BY <1>4, <1>5, <2>1, <2>2
<1>8. AreMessages(messages', Issuer)
  BY <1>5, <1>7 DEF AreMessages
<1>9. ASSUME NEW s, IsSubmission(s, messages, Issuer)
      PROVE  IsSubmission(s, messages', Issuer) /\ Asked(s)' = Asked(s)
  <2>1. s.request \in DOMAIN messages /\ s.thid = messages[s.request].thid
    BY <1>9 DEF IsSubmission
  <2>2. s.request \in DOMAIN messages' /\ s.thid = messages'[s.request].thid
    BY <1>4, <1>5, <2>1
  <2>3. AskedIn(Append(messages, message), s) = AskedIn(messages, s)
    BY <1>3, <2>1, AskedBefore
  <2> QED
    BY <1>1, <1>9, <2>2, <2>3 DEF Asked, AskedIn, IsSubmission
<1>10. AcceptedIsBacked'
  <2> SUFFICES ASSUME NEW v \in verdicts, v.verdict = TRUE
               PROVE  Backed(v.of)'
    BY <1>1 DEF AcceptedIsBacked
  <2>1. IsSubmission(v.of, messages, Issuer) /\ Backed(v.of)
    BY DEF Accepted, AcceptedIsBacked, ProofsInv
  <2>2. Asked(v.of)' = Asked(v.of)
    BY <1>9, <2>1
  <2> QED
    BY <1>1, <2>1, <2>2 DEF Backed
<1>11. /\ \A s \in submissions' : IsSubmission(s, messages', Issuer)
       /\ \A v \in verdicts' : IsSubmission(v.of, messages', Issuer)
  BY <1>1, <1>9 DEF Accepted, ProofsInv
<1>12. \A t \in tokens' : IsToken(t.token, Issuer)
  BY <1>1 DEF Accepted, ProofsInv
<1> QED
  BY <1>1, <1>6, <1>8, <1>10, <1>11, <1>12 DEF Accepted, ProofsInv

LEMMA AcceptedPresentation ==
  ASSUME Accepted, NEW t \in tokens, NEW i \in DOMAIN messages, NEW frame, NEW oea \in BOOLEAN,
         CreatePresentation(t.token, i, frame, oea)
  PROVE  Accepted'
<1> DEFINE token == t.token
           Presented(credential) ==
             IF oea THEN CreateOEAPresentation(wallet, Answers[credential.sub], credential, frame)
             ELSE CreatePresentationFor(wallet, Answers[credential.sub], credential,
                                        messages[i].definition, frame)
<1>1. PICK presentation \in {Then(Held(token), Presented)} \ {Thrown} :
        submissions' = {[submission |-> presentation, thid |-> messages[i].thid, request |-> i,
                         token |-> token, frame |-> frame]}
  BY DEF CreatePresentation
<1>2. UNCHANGED <<setup, made, wallet, dids, registry, tokens, messages, verdicts>>
  BY DEF CreatePresentation
<1>3. IsToken(token, Issuer) /\ IsMessage(messages[i], i, Issuer) /\ setup = "proofs"
  BY DEF Accepted, ProofsInv, AreMessages
<1> HIDE DEF token
<1>4. presentation.protocol = "dif" =>
        Holds(presentation, token) /\ 1 \in DOMAIN presentation.descriptor_map
  <2> DEFINE credential == Held(token)
             answer == Answers[credential.sub]
             definition == messages[i].definition
  <2>1. credential # Thrown /\ presentation # Thrown /\ presentation = Presented(credential)
    BY <1>1 DEF Then
  <2> HIDE DEF credential, answer, definition
  <2>2. CASE oea
    <3>1. presentation = CreateOEAPresentation(wallet, answer, credential, frame)
      BY <2>1, <2>2 DEF answer
    <3>2. presentation.protocol = "oea"
      BY <2>1, <3>1 DEF CreateOEAPresentation, Then
    <3> QED
      BY <3>2
  <2>3. CASE ~oea
    <3>1. presentation = CreatePresentationFor(wallet, answer, credential, definition, frame)
      BY <2>1, <2>3 DEF answer, definition
    <3> DEFINE id == i - 1
    <3>2. PICK r : definition = CreatePresentationDefinition(id, r.asked, r.issuer)
      BY <1>3 DEF IsMessage, definition
    <3> HIDE DEF id
    <3> QED
      BY <1>3, <2>1, <3>1, <3>2, PresentedFor DEF credential
  <2> QED
    BY <2>2, <2>3
<1>5. ASSUME NEW s \in submissions'
      PROVE  IsSubmission(s, messages, Issuer)
  <2>1. /\ s.request = i /\ s.thid = messages[i].thid /\ s.token = token
        /\ s.submission = presentation
    BY <1>1
  <2> QED
    BY <1>3, <1>4, <2>1 DEF IsSubmission
<1>6. Issuer' = Issuer /\ Began'
  BY <1>2, <1>3 DEF Accepted, ProofsInv, Began, Issuer
<1>7. AcceptedIsBacked'
  BY <1>2 DEF Accepted, AcceptedIsBacked, Backed, Asked
<1> QED
  BY <1>2, <1>3, <1>5, <1>6, <1>7 DEF Accepted, ProofsInv

LEMMA AcceptedVerify ==
  ASSUME Accepted, NEW s \in submissions, Verify(s)
  PROVE  Accepted'
<1> DEFINE verdict == HandlePresentation(messages, s.submission, s.thid, Answers, StatusLists)
<1>1. /\ verdicts' = verdicts \cup {[of |-> s, verdict |-> verdict]}
      /\ UNCHANGED <<setup, made, wallet, dids, registry, tokens, messages, submissions>>
  BY DEF Verify
<1>2. IsSubmission(s, messages, Issuer) /\ setup = "proofs"
  BY DEF Accepted, ProofsInv
<1>3. verdict = TRUE => Backed(s)
  BY <1>2, Judged DEF Accepted
<1> HIDE DEF verdict
<1>4. \A v \in verdicts' : /\ IsSubmission(v.of, messages, Issuer)
                           /\ v.verdict = TRUE => Backed(v.of)
  BY <1>1, <1>2, <1>3 DEF Accepted, ProofsInv, AcceptedIsBacked
<1>5. AcceptedIsBacked'
  BY <1>1, <1>4 DEF AcceptedIsBacked, Backed, Asked
<1>6. Issuer' = Issuer /\ Began'
  BY <1>1, <1>2 DEF Accepted, ProofsInv, Began, Issuer
<1> QED
  BY <1>1, <1>2, <1>4, <1>5, <1>6 DEF Accepted, ProofsInv

\* A presentation is only accepted if the issuer that its credential names signed
\* it, it is for the holder who presents it, has what is asked for and is not
\* revoked, whatever the keys, the requests, the claims and the status lists.
THEOREM AcceptedCorrect == Spec => []AcceptedIsBacked
<1>1. Init => Accepted
  <2> SUFFICES ASSUME Init
               PROVE  Accepted
    OBVIOUS
  <2>1. tokens = {} /\ submissions = {} /\ verdicts = {} /\ messages = <<>>
    BY DEF Init
  <2>2. AreMessages(messages, Issuer)
    BY <2>1 DEF AreMessages
  <2>3. setup = "proofs" => Began
    <3> SUFFICES ASSUME setup = "proofs"
                 PROVE  Began
      OBVIOUS
    <3>1. PICK p \in Parties, reversed \in BOOLEAN :
            /\ dids = {Created(p.issuer), Created(p.holder)}
            /\ wallet = <<Listed(Created(p.issuer).did, KeysOf(p.issuer), FALSE),
                          Listed(Created(p.holder).did, KeysOf(p.holder), reversed)>>
      BY DEF Init
    <3>2. wallet[1] = Listed(Created(p.issuer).did, KeysOf(p.issuer), FALSE)
      BY <3>1
    <3>3. wallet[1].did = Created(p.issuer).did
      BY <3>2 DEF Listed
    <3>4. registry = <<>>
      BY DEF Init
    <3> QED
      BY <3>1, <3>3, <3>4 DEF Began, Issuer
  <2> QED
    BY <2>1, <2>2, <2>3 DEF Accepted, ProofsInv, AcceptedIsBacked
<1>2. Accepted /\ [Next]_vars => Accepted'
  <2> SUFFICES ASSUME Accepted, [Next]_vars
               PROVE  Accepted'
    OBVIOUS
  <2>1. ASSUME NEW key, Make(key)
        PROVE  Accepted'
    BY <2>1, AcceptedElsewhere DEF Make
  <2>2. ASSUME NEW p \in Payloads, CreateDID(p)
        PROVE  Accepted'
    BY <2>2, AcceptedElsewhere DEF CreateDID
  <2>3. ASSUME NEW d \in dids, NEW form, NEW again, Publish(d, form, again)
        PROVE  Accepted'
    BY <2>3, AcceptedElsewhere DEF Publish
  <2>4. ASSUME NEW claims \in Claims, NEW holder, IssueOwn(Issuer, holder, claims)
        PROVE  Accepted'
    <3> DEFINE jwt == OwnJWT(Issuer, holder, claims)
               sd == OwnSDJWT(Issuer, holder, claims)
    <3>1. PICK token \in {jwt, sd} : Issue(token, TRUE)
      BY <2>4 DEF IssueOwn
    <3>2. token # Thrown
      BY <3>1 DEF Issue
    <3>3. IsToken(token, Issuer)
      BY <3>1, <3>2, IssuedOwn
    <3> QED
      BY <3>1, <3>3, AcceptedIssue
  <2>5. ASSUME NEW claims \in Claims, NEW holder, NEW status \in Statuses, NEW given,
               IssueFramed(Issuer, holder, claims, status, given)
        PROVE  Accepted'
    <3> DEFINE token == FramedJWT(Issuer, holder, claims, status, given)
    <3>1. Issue(token, FALSE) /\ token # Thrown
      BY <2>5 DEF IssueFramed, Issue
    <3>2. IsToken(token, Issuer)
      BY <3>1, IssuedFramed
    <3> HIDE DEF token
    <3> QED
      BY <3>1, <3>2, AcceptedIssue
  <2>6. ASSUME NEW thid, NEW request \in Requests(Issuer), RequestPresentation(thid, request)
        PROVE  Accepted'
    BY <2>6, AcceptedRequest
  <2>7. ASSUME NEW t \in tokens, NEW i \in DOMAIN messages, NEW frame, NEW oea \in BOOLEAN,
               CreatePresentation(t.token, i, frame, oea)
        PROVE  Accepted'
    BY <2>7, AcceptedPresentation
  <2>8. ASSUME NEW s \in submissions, Verify(s)
        PROVE  Accepted'
    BY <2>8, AcceptedVerify
  <2>9. CASE UNCHANGED vars
    <3>1. Issuer' = Issuer /\ (Began <=> Began')
      BY <2>9 DEF vars, Began, Issuer
    <3>2. ProofsInv'
      BY <2>9, <3>1 DEF vars, Accepted, ProofsInv
    <3>3. AcceptedIsBacked'
      BY <2>9, <3>1 DEF vars, Accepted, AcceptedIsBacked, Backed, Asked
    <3> QED
      BY <3>2, <3>3 DEF Accepted
  <2>10. ASSUME NEW claims \in Claims, NEW holder,
                \/ IssueOwn(Issuer, holder, claims)
                \/ \E status \in Statuses, given \in {Absent, Stray} :
                     IssueFramed(Issuer, holder, claims, status, given)
         PROVE  Accepted'
    BY <2>4, <2>5, <2>10
  <2>11. ASSUME NEW t \in tokens, NEW i \in DOMAIN messages, NEW frame \in Frames,
                \/ CreatePresentation(t.token, i, frame, FALSE)
                \/ i = 1 /\ CreatePresentation(t.token, i, frame, TRUE)
         PROVE  Accepted'
    BY <2>7, <2>11
  <2>12. CASE Next
    <3>1. CASE (\E o \in Options : MakeKey(o)) \/ (\E k \in made, path \in Axes : DeriveKey(k, path))
      BY <2>1, <3>1 DEF MakeKey, DeriveKey
    <3>2. CASE \/ \E p \in Payloads : CreateDID(p)
               \/ \E d \in dids, form \in Forms, again \in BOOLEAN :
                    Publish(d, form, again)
      BY <2>2, <2>3, <3>2
    <3>3. CASE \E claims \in Claims, holder \in {wallet[2].did} :
                 \/ IssueOwn(Issuer, holder, claims)
                 \/ \E status \in Statuses, given \in {Absent, Stray} :
                      IssueFramed(Issuer, holder, claims, status, given)
      BY <2>10, <3>3
    <3>4. CASE \E thid \in {1, 2}, request \in Requests(Issuer) : RequestPresentation(thid, request)
      BY <2>6, <3>4
    <3>5. CASE \E t \in tokens, i \in DOMAIN messages, frame \in Frames :
                 /\ t.token.form = "jwt" => frame = Absent
                 /\ \/ CreatePresentation(t.token, i, frame, FALSE)
                    \/ i = 1 /\ CreatePresentation(t.token, i, frame, TRUE)
      BY <2>11, <3>5
    <3>6. CASE \E s \in submissions : Verify(s)
      BY <2>8, <3>6
    <3> QED
      BY <2>12, <3>1, <3>2, <3>3, <3>4, <3>5, <3>6, Zenon DEF Next, Issuer
  <2> QED
    BY <2>9, <2>12
<1>3. Accepted => AcceptedIsBacked
  BY DEF Accepted
<1> QED
  BY <1>1, <1>2, <1>3, PTL DEF Spec

-----------------------------------------------------------------------------
(* What a DID resolves to                                                  *)

\* Gathering what was gathered is gathering once.
LEMMA GatherGathered ==
  ASSUME NEW S, NEW T, NEW U, NEW f \in Maps(S, Seq(T)), NEW g \in Maps(T, Seq(U)),
         NEW h \in Maps(S, Seq(U)), \A e \in S : h[e] = Gathered(g, f[e]), NEW s \in Seq(S)
  PROVE  Gathered(g, Gathered(f, s)) = Gathered(h, s)
<1> DEFINE N == {t \in Seq(S) : Gathered(g, Gathered(f, t)) = Gathered(h, t)}
<1>1. <<>> \in N
  <2>1. Gathered(f, <<>>) = <<>> /\ Gathered(g, <<>>) = <<>> /\ Gathered(h, <<>>) = <<>>
    BY GatheredEmpty
  <2>2. Gathered(g, Gathered(f, <<>>)) = Gathered(h, <<>>)
    BY <2>1, Zenon
  <2> QED
    BY <2>2
<1>2. ASSUME NEW t \in Seq(S), NEW e \in S, t \in N
      PROVE  Append(t, e) \in N
  <2>1. Gathered(f, Append(t, e)) = Gathered(f, t) \o f[e] /\ Gathered(h, Append(t, e)) = Gathered(h, t) \o h[e]
    BY GatheredAppend
  <2>2. Gathered(f, t) \in Seq(T) /\ f[e] \in Seq(T)
    BY GatheredType DEF Maps
  <2>3. Gathered(g, Gathered(f, t) \o f[e]) = Gathered(g, Gathered(f, t)) \o Gathered(g, f[e])
    BY <2>2, GatheredConcat
  <2>4. Gathered(g, Gathered(f, t)) = Gathered(h, t) /\ h[e] = Gathered(g, f[e])
    BY <1>2
  <2>5. Gathered(g, Gathered(f, Append(t, e))) = Gathered(h, Append(t, e))
    BY <2>1, <2>3, <2>4, Zenon
  <2>6. Append(t, e) \in Seq(S)
    OBVIOUS
  <2> QED
    BY <2>5, <2>6
<1> HIDE DEF N
<1>3. Seq(S) \subseteq N
  BY <1>1, <1>2, SeqInduction
<1>4. s \in N
  BY <1>3
<1> QED
  BY <1>4 DEF N

\* And so is mapping it.
LEMMA MapGathered ==
  ASSUME NEW S, NEW T, NEW U, NEW f \in Maps(S, Seq(T)), NEW g \in Maps(T, U),
         NEW h \in Maps(S, Seq(U)), \A e \in S : h[e] = Mapped(g, f[e]), NEW s \in Seq(S)
  PROVE  Mapped(g, Gathered(f, s)) = Gathered(h, s)
<1> DEFINE N == {t \in Seq(S) : Mapped(g, Gathered(f, t)) = Gathered(h, t)}
<1>1. <<>> \in N
  <2>1. Gathered(f, <<>>) = <<>> /\ Mapped(g, <<>>) = <<>> /\ Gathered(h, <<>>) = <<>>
    BY GatheredEmpty DEF Mapped
  <2>2. Mapped(g, Gathered(f, <<>>)) = Gathered(h, <<>>)
    BY <2>1, Zenon
  <2> QED
    BY <2>2
<1>2. ASSUME NEW t \in Seq(S), NEW e \in S, t \in N
      PROVE  Append(t, e) \in N
  <2>1. Gathered(f, Append(t, e)) = Gathered(f, t) \o f[e] /\ Gathered(h, Append(t, e)) = Gathered(h, t) \o h[e]
    BY GatheredAppend
  <2>2. Gathered(f, t) \in Seq(T) /\ f[e] \in Seq(T)
    BY GatheredType DEF Maps
  <2>3. Mapped(g, Gathered(f, t) \o f[e]) = Mapped(g, Gathered(f, t)) \o Mapped(g, f[e])
    BY <2>2, MappedConcat
  <2>4. Mapped(g, Gathered(f, t)) = Gathered(h, t) /\ h[e] = Mapped(g, f[e])
    BY <1>2
  <2>5. Mapped(g, Gathered(f, Append(t, e))) = Gathered(h, Append(t, e))
    BY <2>1, <2>3, <2>4, Zenon
  <2>6. Append(t, e) \in Seq(S)
    OBVIOUS
  <2> QED
    BY <2>5, <2>6
<1> HIDE DEF N
<1>3. Seq(S) \subseteq N
  BY <1>1, <1>2, SeqInduction
<1>4. s \in N
  BY <1>3
<1> QED
  BY <1>4 DEF N

\* Two sequences that repeat nothing, and share nothing, repeat nothing together.
LEMMA DistinctConcat ==
  ASSUME NEW X, NEW s \in Seq(X), NEW t \in Seq(X), IsInjective(s), IsInjective(t),
         Range(s) \cap Range(t) = {}
  PROVE  IsInjective(s \o t) /\ Range(s \o t) = Range(s) \cup Range(t)
<1> DEFINE st == s \o t
<1>1. /\ Len(s) \in Nat /\ Len(t) \in Nat /\ DOMAIN s = 1 .. Len(s) /\ DOMAIN t = 1 .. Len(t)
      /\ DOMAIN st = 1 .. Len(s) + Len(t)
  OBVIOUS
<1>2. /\ \A i \in 1 .. Len(s) : st[i] = s[i]
      /\ \A i \in 1 .. Len(t) : st[Len(s) + i] = t[i]
  OBVIOUS
<1>3. \A i \in 1 .. Len(s) + Len(t) :
        \/ i \in 1 .. Len(s)
        \/ i - Len(s) \in 1 .. Len(t) /\ Len(s) + (i - Len(s)) = i
  BY <1>1
<1> HIDE DEF st
<1>4. \A i \in 1 .. Len(s) + Len(t) :
        \/ i \in 1 .. Len(s) /\ st[i] = s[i] /\ s[i] \in Range(s)
        \/ i - Len(s) \in 1 .. Len(t) /\ st[i] = t[i - Len(s)] /\ t[i - Len(s)] \in Range(t)
  BY <1>1, <1>2, <1>3 DEF Range
<1>5. IsInjective(st)
  <2> SUFFICES ASSUME NEW a \in DOMAIN st, NEW b \in DOMAIN st, st[a] = st[b]
               PROVE  a = b
    BY DEF IsInjective
  <2>1. CASE a \in 1 .. Len(s) /\ st[a] = s[a]
    <3>1. b \in 1 .. Len(s) /\ st[b] = s[b]
      BY <1>1, <1>4, <2>1 DEF Range
    <3> QED
      BY <1>1, <2>1, <3>1 DEF IsInjective
  <2>2. CASE a - Len(s) \in 1 .. Len(t) /\ st[a] = t[a - Len(s)]
    <3>1. b - Len(s) \in 1 .. Len(t) /\ st[b] = t[b - Len(s)]
      BY <1>1, <1>4, <2>2 DEF Range
    <3>2. a - Len(s) = b - Len(s)
      BY <1>1, <2>2, <3>1 DEF IsInjective
    <3> QED
      BY <1>1, <3>2
  <2> QED
    BY <1>1, <1>4, <2>1, <2>2
<1>6. Range(st) = Range(s) \cup Range(t)
  <2>1. Range(st) \subseteq Range(s) \cup Range(t)
    BY <1>1, <1>4 DEF Range
  <2>2. Range(s) \subseteq Range(st)
    BY <1>1, <1>2 DEF Range
  <2>3. Range(t) \subseteq Range(st)
    <3>1. \A i \in 1 .. Len(t) : Len(s) + i \in DOMAIN st
      BY <1>1
    <3> QED
      BY <1>1, <1>2, <3>1 DEF Range
  <2> QED
    BY <2>1, <2>2, <2>3
<1> QED
  BY <1>5, <1>6 DEF st

\* The entries that a prism DID is created of, and what the operation makes of
\* each.
UsedEntries == {e \in PublicEntries : e.usage \in PrismDIDKeyUsage}
ProtosOf(e) == [j \in DOMAIN e.list |-> CreateProtos(e.list[j], e.usage, j - 1)]
OtherProtos == [e \in UsedEntries |-> IF e.usage = "MASTER_KEY" THEN <<>> ELSE ProtosOf(e)]
ListsOf(usage) == [e \in UsedEntries |-> IF e.usage = usage THEN e.list ELSE <<>>]
Lists1 == [e \in UsedEntries |-> e.list]
KeyOfProto == [x \in Protos |-> x.key]
IdOfProto == [x \in Protos |-> x.id]

LEMMA EntryTypes ==
  /\ OtherProtos \in Maps(UsedEntries, Seq(Protos))
  /\ Lists1 \in Maps(UsedEntries, Seq(PublicKeys))
  /\ \A usage : ListsOf(usage) \in Maps(UsedEntries, Seq(PublicKeys))
  /\ KeyOfProto \in Maps(Protos, PublicKeys)
  /\ \A e \in UsedEntries :
       /\ ProtosOf(e) \in Seq(Protos) /\ Mapped(KeyOfProto, ProtosOf(e)) = e.list
       /\ \A j \in DOMAIN ProtosOf(e) : ProtosOf(e)[j].usage = e.usage
<1>1. ASSUME NEW k \in PublicKeys, NEW u \in PrismDIDKeyUsage, NEW n \in Nat
      PROVE  /\ CreateProtos(k, u, n) \in Protos /\ CreateProtos(k, u, n).key = k
             /\ CreateProtos(k, u, n).usage = u
  <2>1. CreateProtos(k, u, n) \in Protos
    BY DEF Protos
  <2> QED
    BY <2>1 DEF CreateProtos
<1>2. ASSUME NEW e \in UsedEntries
      PROVE  /\ ProtosOf(e) \in Seq(Protos) /\ Mapped(KeyOfProto, ProtosOf(e)) = e.list
             /\ \A j \in DOMAIN ProtosOf(e) : ProtosOf(e)[j].usage = e.usage
             /\ e.list \in Seq(PublicKeys)
  <2>1. /\ e.usage \in PrismDIDKeyUsage /\ e.list \in Seq(PublicKeys) /\ Len(e.list) \in Nat
        /\ DOMAIN e.list = 1 .. Len(e.list)
    BY DEF UsedEntries, PublicEntries
  <2>2. ASSUME NEW j \in 1 .. Len(e.list)
        PROVE  /\ ProtosOf(e)[j] \in Protos /\ ProtosOf(e)[j].key = e.list[j]
               /\ ProtosOf(e)[j].usage = e.usage
    <3>1. e.list[j] \in PublicKeys /\ j - 1 \in Nat
      BY <2>1
    <3>2. ProtosOf(e)[j] = CreateProtos(e.list[j], e.usage, j - 1)
      BY <2>1 DEF ProtosOf
    <3> QED
      BY <1>1, <2>1, <3>1, <3>2
  <2>3. ProtosOf(e) = [j \in 1 .. Len(e.list) |-> ProtosOf(e)[j]] /\ DOMAIN ProtosOf(e) = 1 .. Len(e.list)
    BY <2>1 DEF ProtosOf
  <2>4. ProtosOf(e) \in [1 .. Len(e.list) -> Protos]
    BY <2>2, <2>3
  <2>5. ProtosOf(e) \in Seq(Protos)
    BY <2>1, <2>4, Sequenced
  <2>6. Mapped(KeyOfProto, ProtosOf(e)) = [j \in 1 .. Len(e.list) |-> e.list[j]]
    BY <2>2, <2>3 DEF Mapped, KeyOfProto
  <2>7. e.list = [j \in 1 .. Len(e.list) |-> e.list[j]]
    BY <2>1
  <2> QED
    BY <2>1, <2>2, <2>3, <2>5, <2>6, <2>7
<1>3. OtherProtos \in Maps(UsedEntries, Seq(Protos))
  BY <1>2 DEF OtherProtos, Maps
<1>4. Lists1 \in Maps(UsedEntries, Seq(PublicKeys))
  BY <1>2 DEF Lists1, Maps
<1>5. \A usage : ListsOf(usage) \in Maps(UsedEntries, Seq(PublicKeys))
  BY <1>2 DEF ListsOf, Maps
<1>6. KeyOfProto \in Maps(Protos, PublicKeys)
  <2>1. ASSUME NEW x \in Protos
        PROVE  x.key \in PublicKeys
    <3>1. PICK k \in PublicKeys, u \in PrismDIDKeyUsage, n \in Nat : x = CreateProtos(k, u, n)
      BY DEF Protos
    <3> QED
      BY <1>1, <3>1
  <2> QED
    BY <2>1 DEF KeyOfProto, Maps
<1> QED
  BY <1>2, <1>3, <1>4, <1>5, <1>6

LEMMA OperationIs ==
  ASSUME NEW entries \in Seq(UsedEntries), NEW services,
         \E i \in DOMAIN entries : entries[i].usage = "MASTER_KEY"
  PROVE  \E master \in PublicKeys :
           /\ master = Gathered(ListsOf("MASTER_KEY"), entries)[1]
           /\ CreateOperation(entries, services).public_keys
                = <<CreateProtos(master, "MASTER_KEY", 0)>> \o Gathered(OtherProtos, entries)
<1> DEFINE S == UsedEntries
           M == {e \in S : e.usage = "MASTER_KEY"}
           N == {e \in S : e.usage # "MASTER_KEY"}
           masters == Filtered(entries, LAMBDA e : e.usage = "MASTER_KEY")
           others == Filtered(entries, LAMBDA e : e.usage # "MASTER_KEY")
<1>1. /\ masters = Gathered(Pick(S, M), entries) /\ others = Gathered(Pick(S, N), entries)
  <2>1. \A i \in DOMAIN entries : entries[i] \in S
    OBVIOUS
  <2> QED
    BY <2>1 DEF Filtered, Gathered, Mapped, Pick
<1>2. /\ masters \in Seq(S) /\ Range(masters) = Range(entries) \cap M
      /\ others \in Seq(S)
  <2>1. entries \in Seq(S)
    OBVIOUS
  <2> HIDE DEF masters, others, S, M, N
  <2>2. Gathered(Pick(S, M), entries) \in Seq(S) /\ Range(Gathered(Pick(S, M), entries)) = Range(entries) \cap M
    BY <2>1, PicksType
  <2>3. Gathered(Pick(S, N), entries) \in Seq(S)
    BY <2>1, PicksType
  <2> QED
    BY <1>1, <2>2, <2>3
<1>3. Pick(S, M) \in Maps(S, Seq(S)) /\ Pick(S, N) \in Maps(S, Seq(S))
  <2> HIDE DEF S, M, N
  <2> QED
    BY PickType
<1>4. Gathered(OtherProtos, entries) = FlattenSeq(MapSeq(ProtosOf, others))
  <2> DEFINE g == [e \in S |-> ProtosOf(e)]
  <2>1. g \in Maps(S, Seq(Protos)) /\ OtherProtos \in Maps(S, Seq(Protos))
    BY EntryTypes DEF Maps
  <2>2. ASSUME NEW e \in S
        PROVE  OtherProtos[e] = Gathered(g, Pick(S, N)[e])
    <3>1. CASE e \in N
      <4>1. Pick(S, N)[e] = <<e>> /\ OtherProtos[e] = g[e]
        BY <3>1 DEF Pick, OtherProtos
      <4> HIDE DEF g, S
      <4>2. Gathered(g, <<e>>) = g[e]
        BY <2>1, GatheredOne
      <4> QED
        BY <4>1, <4>2
    <3>2. CASE e \notin N
      <4>1. Pick(S, N)[e] = <<>> /\ OtherProtos[e] = <<>>
        BY <3>2 DEF Pick, OtherProtos
      <4> QED
        BY <4>1, GatheredEmpty
    <3> QED
      BY <3>1, <3>2
  <2>3. MapSeq(ProtosOf, others) = Mapped(g, others)
    <3> HIDE DEF others, S
    <3>1. \A i \in DOMAIN others : others[i] \in S
      BY <1>2
    <3> QED
      BY <3>1 DEF MapSeq, Mapped
  <2> HIDE DEF g, S, N, others
  <2>4. Gathered(g, Gathered(Pick(S, N), entries)) = Gathered(OtherProtos, entries)
    <3>1. entries \in Seq(S)
      BY DEF S
    <3> QED
      BY <1>3, <2>1, <2>2, <3>1, GatherGathered
  <2>5. Gathered(g, others) = Gathered(OtherProtos, entries)
    BY <1>1, <2>4, Zenon
  <2> QED
    BY <2>3, <2>5 DEF Gathered
<1>5. Gathered(ListsOf("MASTER_KEY"), entries) = Gathered(Lists1, masters)
  <2>1. Lists1 \in Maps(S, Seq(PublicKeys)) /\ ListsOf("MASTER_KEY") \in Maps(S, Seq(PublicKeys))
    BY EntryTypes
  <2>2. ASSUME NEW e \in S
        PROVE  ListsOf("MASTER_KEY")[e] = Gathered(Lists1, Pick(S, M)[e])
    <3>1. CASE e \in M
      <4>1. Pick(S, M)[e] = <<e>> /\ ListsOf("MASTER_KEY")[e] = Lists1[e]
        BY <3>1 DEF Pick, ListsOf, Lists1
      <4> HIDE DEF S
      <4>2. Gathered(Lists1, <<e>>) = Lists1[e]
        BY <2>1, GatheredOne
      <4> QED
        BY <4>1, <4>2
    <3>2. CASE e \notin M
      <4>1. Pick(S, M)[e] = <<>> /\ ListsOf("MASTER_KEY")[e] = <<>>
        BY <3>2 DEF Pick, ListsOf
      <4> QED
        BY <4>1, GatheredEmpty
    <3> QED
      BY <3>1, <3>2
  <2> HIDE DEF S, M, masters
  <2>4. Gathered(Lists1, Gathered(Pick(S, M), entries)) = Gathered(ListsOf("MASTER_KEY"), entries)
    <3>1. entries \in Seq(S)
      BY DEF S
    <3> QED
      BY <1>3, <2>1, <2>2, <3>1, GatherGathered
  <2> QED
    BY <1>1, <2>4, Zenon
<1> DEFINE master == masters[1].list[1]
<1>6. /\ master \in PublicKeys /\ Gathered(Lists1, masters)[1] = master
  <2>1. PICK i \in DOMAIN entries : entries[i].usage = "MASTER_KEY"
    OBVIOUS
  <2>2. entries[i] \in Range(masters)
    <3>1. entries[i] \in Range(entries) /\ entries[i] \in M
      BY <2>1 DEF Range
    <3> QED
      BY <1>2, <3>1
  <2> HIDE DEF masters
  <2>3. masters # <<>>
    BY <1>2, <2>2 DEF Range
  <2> DEFINE a == Head(masters)
             b == Tail(masters)
  <2>4. a \in S /\ b \in Seq(S) /\ masters = <<a>> \o b /\ <<a>> \in Seq(S) /\ masters[1] = a
    BY <1>2, <2>3
  <2> HIDE DEF a, b, S
  <2>5. Lists1 \in Maps(S, Seq(PublicKeys))
    BY EntryTypes DEF S
  <2>6. Gathered(Lists1, <<a>> \o b) = Gathered(Lists1, <<a>>) \o Gathered(Lists1, b)
    <3> DEFINE c == <<a>>
    <3>1. c \in Seq(S)
      BY <2>4
    <3> HIDE DEF c
    <3>2. Gathered(Lists1, c \o b) = Gathered(Lists1, c) \o Gathered(Lists1, b)
      BY <2>4, <2>5, <3>1, GatheredConcat
    <3> QED
      BY <3>2 DEF c
  <2>7. Gathered(Lists1, <<a>>) = Lists1[a]
    BY <2>4, <2>5, GatheredOne
  <2>8. Lists1[a] = a.list /\ a.list \in Seq(PublicKeys) \ {<<>>}
    BY <2>4 DEF Lists1, S, UsedEntries, PublicEntries
  <2>9. Gathered(Lists1, b) \in Seq(PublicKeys)
    BY <2>4, <2>5, GatheredType
  <2>10. Gathered(Lists1, masters) = a.list \o Gathered(Lists1, b)
    BY <2>4, <2>6, <2>7, <2>8, Zenon
  <2>11. a.list[1] \in PublicKeys /\ (a.list \o Gathered(Lists1, b))[1] = a.list[1]
    BY <2>8, <2>9
  <2> QED
    BY <2>4, <2>10, <2>11
<1>7. CreateOperation(entries, services).public_keys
        = <<CreateProtos(master, "MASTER_KEY", 0)>> \o FlattenSeq(MapSeq(ProtosOf, others))
  BY DEF CreateOperation, ProtosOf
<1> HIDE DEF master, masters, others
<1> QED
  BY <1>4, <1>5, <1>6, <1>7

\* The operation lists the keys of each usage, but the master's, as they were given.
LEMMA KeysUnder ==
  ASSUME NEW entries \in Seq(UsedEntries), NEW services,
         \E i \in DOMAIN entries : entries[i].usage = "MASTER_KEY",
         NEW keys, keys = CreateOperation(entries, services).public_keys,
         NEW usage, usage # "MASTER_KEY"
  PROVE  /\ keys \in Seq(Protos) /\ KeysUsedFor(keys, usage) \in Seq(Protos)
         /\ Range(KeysUsedFor(keys, usage)) \subseteq Range(keys)
         /\ Mapped(KeyOfProto, KeysUsedFor(keys, usage)) = Gathered(ListsOf(usage), entries)
<1> DEFINE P == {x \in Protos : x.usage = usage}
           h == [e \in UsedEntries |-> IF e.usage = usage THEN ProtosOf(e) ELSE <<>>]
           rest == Gathered(OtherProtos, entries)
<1>1. PICK master \in PublicKeys : keys = <<CreateProtos(master, "MASTER_KEY", 0)>> \o rest
  BY OperationIs
<1> DEFINE first == CreateProtos(master, "MASTER_KEY", 0)
           start == <<first>>
<1>2. first \in Protos /\ first.usage = "MASTER_KEY" /\ first \notin P
  <2>1. "MASTER_KEY" \in PrismDIDKeyUsage /\ 0 \in Nat
    BY DEF PrismDIDKeyUsage, UsageWord
  <2>2. first.usage = "MASTER_KEY"
    BY DEF CreateProtos
  <2> HIDE DEF first
  <2>3. first \in Protos
    BY <2>1 DEF Protos, first
  <2> QED
    BY <2>2, <2>3
<1> HIDE DEF first
<1>3. rest \in Seq(Protos)
  BY EntryTypes, GatheredType
<1> HIDE DEF rest
<1>4. start \in Seq(Protos) /\ Range(start) \cap P = {}
  BY <1>2 DEF Range
<1> HIDE DEF start
<1>5. keys = start \o rest /\ keys \in Seq(Protos)
  BY <1>1, <1>3, <1>4 DEF start, first
<1>6. KeysUsedFor(keys, usage) = Gathered(Pick(Protos, P), keys)
  <2>1. \A i \in DOMAIN keys : keys[i] \in Protos
    BY <1>5
  <2> QED
    BY <2>1 DEF KeysUsedFor, Filtered, Gathered, Mapped, Pick
<1>7. Pick(Protos, P) \in Maps(Protos, Seq(Protos))
  <2> HIDE DEF P
  <2> QED
    BY PickType
<1>8. ASSUME NEW e \in UsedEntries
      PROVE  /\ h[e] = Gathered(Pick(Protos, P), OtherProtos[e])
             /\ h[e] \in Seq(Protos)
             /\ ListsOf(usage)[e] = Mapped(KeyOfProto, h[e])
  <2>1. /\ ProtosOf(e) \in Seq(Protos) /\ Mapped(KeyOfProto, ProtosOf(e)) = e.list
        /\ \A j \in DOMAIN ProtosOf(e) : ProtosOf(e)[j].usage = e.usage
    BY EntryTypes
  <2> DEFINE ps == ProtosOf(e)
  <2>2. CASE e.usage = usage
    <3>1. h[e] = ps /\ OtherProtos[e] = ps /\ ListsOf(usage)[e] = e.list
      BY <2>2 DEF OtherProtos, ListsOf
    <3> HIDE DEF ps
    <3>2. ps \in Seq(Protos) /\ \A j \in DOMAIN ps : ps[j].usage = usage
      BY <2>1, <2>2 DEF ps
    <3>3. Range(ps) \subseteq P
      BY <3>2 DEF Range
    <3> HIDE DEF P, h
    <3>4. Gathered(Pick(Protos, P), ps) = ps
      BY <3>2, <3>3, PickAll
    <3> QED
      BY <2>1, <3>1, <3>2, <3>4 DEF ps
  <2>3. CASE e.usage # usage
    <3>1. h[e] = <<>> /\ ListsOf(usage)[e] = <<>>
      BY <2>3 DEF ListsOf
    <3>2. OtherProtos[e] = <<>> \/ OtherProtos[e] = ps
      BY DEF OtherProtos
    <3> HIDE DEF ps
    <3>3. ps \in Seq(Protos) /\ \A j \in DOMAIN ps : ps[j].usage # usage
      BY <2>1, <2>3 DEF ps
    <3>4. Range(ps) \cap P = {}
      BY <3>3 DEF Range
    <3>5. Mapped(KeyOfProto, <<>>) = <<>> /\ <<>> \in Seq(Protos)
      BY DEF Mapped
    <3> HIDE DEF P, h
    <3>6. Gathered(Pick(Protos, P), ps) = <<>>
      BY <3>3, <3>4, PickNone
    <3>7. Gathered(Pick(Protos, P), <<>>) = <<>>
      BY GatheredEmpty
    <3> QED
      BY <3>1, <3>2, <3>5, <3>6, <3>7
  <2> QED
    BY <2>2, <2>3
<1>9. h \in Maps(UsedEntries, Seq(Protos))
  BY <1>8 DEF Maps
<1> HIDE DEF P, h
<1>10. Gathered(Pick(Protos, P), keys) = Gathered(h, entries)
  <2>1. Gathered(Pick(Protos, P), start \o rest)
          = Gathered(Pick(Protos, P), start) \o Gathered(Pick(Protos, P), rest)
    BY <1>3, <1>4, <1>7, GatheredConcat
  <2>2. Gathered(Pick(Protos, P), start) = <<>>
    BY <1>4, PickNone
  <2>3. OtherProtos \in Maps(UsedEntries, Seq(Protos))
    BY EntryTypes
  <2>4. Gathered(Pick(Protos, P), Gathered(OtherProtos, entries)) = Gathered(h, entries)
    BY <1>7, <1>8, <1>9, <2>3, GatherGathered
  <2>5. Gathered(Pick(Protos, P), rest) = Gathered(h, entries)
    BY <2>4 DEF rest
  <2>6. Gathered(h, entries) \in Seq(Protos)
    BY <1>9, GatheredType
  <2>7. <<>> \o Gathered(h, entries) = Gathered(h, entries)
    BY <2>6
  <2> QED
    BY <1>5, <2>1, <2>2, <2>5, <2>7, Zenon
<1>11. Mapped(KeyOfProto, Gathered(h, entries)) = Gathered(ListsOf(usage), entries)
  <2>1. KeyOfProto \in Maps(Protos, PublicKeys) /\ ListsOf(usage) \in Maps(UsedEntries, Seq(PublicKeys))
    BY EntryTypes
  <2> QED
    BY <1>8, <1>9, <2>1, MapGathered
<1>12. Gathered(Pick(Protos, P), keys) \in Seq(Protos) /\ Range(Gathered(Pick(Protos, P), keys)) \subseteq Range(keys)
  <2>1. keys \in Seq(Protos)
    BY <1>5
  <2>2. /\ Gathered(Pick(Protos, P), keys) \in Seq(Protos)
        /\ Range(Gathered(Pick(Protos, P), keys)) = Range(keys) \cap P
    BY ONLY <2>1, PicksType
  <2> QED
    BY <2>2
<1> QED
  BY <1>5, <1>6, <1>10, <1>11, <1>12

\* No two keys of an operation have the same id: those of a usage are numbered,
\* and no usage comes twice.
IdsOf == [e \in UsedEntries |-> Mapped(IdOfProto, OtherProtos[e])]
OneEach(entries) == \A i, j \in DOMAIN entries : entries[i].usage = entries[j].usage => i = j
IdsUnder(words) == words \X Nat
WordsOf(entries) == {UsageWord[entries[i].usage] : i \in {j \in DOMAIN entries : entries[j].usage # "MASTER_KEY"}}
Ids == {UsageWord[u] : u \in PrismDIDKeyUsage} \X Nat

LEMMA WordsDiffer ==
  /\ \A a \in PrismDIDKeyUsage, b \in PrismDIDKeyUsage : UsageWord[a] = UsageWord[b] => a = b
  /\ "MASTER_KEY" \in PrismDIDKeyUsage
<1>1. PrismDIDKeyUsage
        = {"MASTER_KEY", "ISSUING_KEY", "KEY_AGREEMENT_KEY", "AUTHENTICATION_KEY", "REVOCATION_KEY",
           "CAPABILITY_DELEGATION_KEY", "CAPABILITY_INVOCATION_KEY", "UNKNOWN_KEY"}
  BY DEF UsageWord, PrismDIDKeyUsage
<1>2. /\ UsageWord["MASTER_KEY"] = "master" /\ UsageWord["ISSUING_KEY"] = "issuing"
      /\ UsageWord["KEY_AGREEMENT_KEY"] = "agreement"
      /\ UsageWord["AUTHENTICATION_KEY"] = "authentication"
      /\ UsageWord["REVOCATION_KEY"] = "revocation"
      /\ UsageWord["CAPABILITY_DELEGATION_KEY"] = "delegation"
      /\ UsageWord["CAPABILITY_INVOCATION_KEY"] = "invocation" /\ UsageWord["UNKNOWN_KEY"] = "unknown"
  BY DEF UsageWord
<1> DEFINE Back ==
  [master |-> "MASTER_KEY", issuing |-> "ISSUING_KEY", agreement |-> "KEY_AGREEMENT_KEY",
   authentication |-> "AUTHENTICATION_KEY", revocation |-> "REVOCATION_KEY",
   delegation |-> "CAPABILITY_DELEGATION_KEY", invocation |-> "CAPABILITY_INVOCATION_KEY",
   unknown |-> "UNKNOWN_KEY"]
<1>3. /\ Back["master"] = "MASTER_KEY" /\ Back["issuing"] = "ISSUING_KEY"
      /\ Back["agreement"] = "KEY_AGREEMENT_KEY" /\ Back["authentication"] = "AUTHENTICATION_KEY"
      /\ Back["revocation"] = "REVOCATION_KEY" /\ Back["delegation"] = "CAPABILITY_DELEGATION_KEY"
      /\ Back["invocation"] = "CAPABILITY_INVOCATION_KEY" /\ Back["unknown"] = "UNKNOWN_KEY"
  OBVIOUS
<1> HIDE DEF Back
<1>4. \A a \in PrismDIDKeyUsage : Back[UsageWord[a]] = a
  BY <1>1, <1>2, <1>3
<1> QED
  BY <1>1, <1>4

LEMMA IdsOfEntry ==
  ASSUME NEW e \in UsedEntries
  PROVE  /\ IdsOf[e] \in Seq(Ids) /\ IsInjective(IdsOf[e])
         /\ e.usage = "MASTER_KEY" => IdsOf[e] = <<>>
         /\ Range(IdsOf[e]) \subseteq {UsageWord[e.usage]} \X Nat
<1>1. /\ e.usage \in PrismDIDKeyUsage /\ e.list \in Seq(PublicKeys) /\ Len(e.list) \in Nat
      /\ DOMAIN e.list = 1 .. Len(e.list)
  BY DEF UsedEntries, PublicEntries
<1>2. CASE e.usage = "MASTER_KEY"
  <2>1. OtherProtos[e] = <<>>
    BY <1>2 DEF OtherProtos
  <2>2. IdsOf[e] = <<>>
    BY <2>1 DEF IdsOf, Mapped
  <2> QED
    BY <2>2 DEF IsInjective, Range
<1>3. CASE e.usage # "MASTER_KEY"
  <2> DEFINE n == Len(e.list)
             w == UsageWord[e.usage]
             f == [j \in 1 .. n |-> <<w, j - 1>>]
  <2>1. OtherProtos[e] = [j \in 1 .. n |-> CreateProtos(e.list[j], e.usage, j - 1)]
    BY <1>1, <1>3 DEF OtherProtos, ProtosOf
  <2>2. \A j \in 1 .. n : /\ CreateProtos(e.list[j], e.usage, j - 1) \in Protos
                          /\ CreateProtos(e.list[j], e.usage, j - 1).id = <<w, j - 1>>
    <3> TAKE j \in 1 .. n
    <3>1. e.list[j] \in PublicKeys /\ j - 1 \in Nat
      BY <1>1
    <3>2. CreateProtos(e.list[j], e.usage, j - 1) \in Protos
      BY <1>1, <3>1 DEF Protos
    <3>3. CreateProtos(e.list[j], e.usage, j - 1).id = <<w, j - 1>>
      BY DEF CreateProtos, UsageId
    <3> QED
      BY <3>2, <3>3
  <2>3. IdsOf[e] = f
    <3>1. IdsOf[e] = Mapped(IdOfProto, OtherProtos[e])
      BY DEF IdsOf
    <3>2. DOMAIN OtherProtos[e] = 1 .. n
      BY <2>1
    <3>3. \A j \in 1 .. n : IdOfProto[OtherProtos[e][j]] = <<w, j - 1>>
      BY <2>1, <2>2 DEF IdOfProto
    <3> QED
      BY <3>1, <3>2, <3>3 DEF Mapped
  <2>4. w \in {UsageWord[u] : u \in PrismDIDKeyUsage}
    BY <1>1
  <2> HIDE DEF w
  <2>5. f \in [1 .. n -> Ids] /\ n \in Nat
    BY <1>1, <2>4 DEF Ids
  <2>6. f \in Seq(Ids)
    <3> HIDE DEF f
    <3> QED
      BY <2>5, Sequenced
  <2>7. IsInjective(f)
    BY <1>1 DEF IsInjective
  <2>8. Range(f) \subseteq {w} \X Nat
    <3>1. \A j \in 1 .. n : f[j] = <<w, j - 1>> /\ j - 1 \in Nat
      BY <1>1
    <3>2. DOMAIN f = 1 .. n
      OBVIOUS
    <3> HIDE DEF f
    <3> SUFFICES ASSUME NEW x \in Range(f)
                 PROVE  x \in {w} \X Nat
      OBVIOUS
    <3>3. PICK j \in 1 .. n : x = f[j]
      BY <3>2 DEF Range
    <3>4. x = <<w, j - 1>> /\ j - 1 \in Nat
      BY ONLY <3>1, <3>3
    <3> QED
      BY ONLY <3>4
  <2> QED
    BY <1>3, <2>3, <2>6, <2>7, <2>8 DEF w
<1> QED
  BY <1>2, <1>3

LEMMA IdsGathered ==
  ASSUME NEW entries \in Seq(UsedEntries), OneEach(entries)
  PROVE  /\ Gathered(IdsOf, entries) \in Seq(Ids) /\ IsInjective(Gathered(IdsOf, entries))
         /\ Range(Gathered(IdsOf, entries)) \subseteq IdsUnder(WordsOf(entries))
<1> DEFINE Good(t) == /\ Gathered(IdsOf, t) \in Seq(Ids) /\ IsInjective(Gathered(IdsOf, t))
                      /\ Range(Gathered(IdsOf, t)) \subseteq IdsUnder(WordsOf(t))
           N == {t \in Seq(UsedEntries) : OneEach(t) => Good(t)}
<1>0. IdsOf \in Maps(UsedEntries, Seq(Ids))
  BY IdsOfEntry DEF IdsOf, Maps
<1>1. <<>> \in N
  <2>1. Gathered(IdsOf, <<>>) = <<>>
    BY GatheredEmpty
  <2>2. <<>> \in Seq(Ids) /\ IsInjective(<<>>) /\ Range(<<>>) = {}
    BY DEF IsInjective, Range
  <2>3. Good(<<>>)
    BY <2>1, <2>2
  <2> QED
    BY <2>3
<1>2. ASSUME NEW t \in Seq(UsedEntries), NEW e \in UsedEntries, t \in N
      PROVE  Append(t, e) \in N
  <2> DEFINE te == Append(t, e)
  <2>1. /\ te \in Seq(UsedEntries) /\ DOMAIN t = 1 .. Len(t) /\ Len(t) \in Nat
        /\ DOMAIN te = 1 .. Len(t) + 1 /\ te[Len(t) + 1] = e
        /\ \A i \in 1 .. Len(t) : te[i] = t[i]
    OBVIOUS
  <2>2. Gathered(IdsOf, te) = Gathered(IdsOf, t) \o IdsOf[e]
    BY <1>0, GatheredAppend
  <2> SUFFICES ASSUME OneEach(te)
               PROVE  Good(te)
    BY <2>1
  <2> HIDE DEF te
  <2>3. OneEach(t)
    BY <2>1 DEF OneEach
  <2>4. Good(t)
    BY <1>2, <2>3
  <2>5. WordsOf(t) \subseteq WordsOf(te)
    BY <2>1 DEF WordsOf
  <2> DEFINE g == Gathered(IdsOf, t)
             h == IdsOf[e]
  <2>6. h \in Seq(Ids) /\ IsInjective(h) /\ Range(h) \subseteq {UsageWord[e.usage]} \X Nat
    BY IdsOfEntry
  <2>7. Range(g) \cap Range(h) = {} /\ Range(h) \subseteq IdsUnder(WordsOf(te))
    <3>1. CASE e.usage = "MASTER_KEY"
      <4>1. h = <<>>
        BY <3>1, IdsOfEntry
      <4> QED
        BY <4>1 DEF Range
    <3>2. CASE e.usage # "MASTER_KEY"
      <4>1. UsageWord[e.usage] \notin WordsOf(t)
        <5> SUFFICES ASSUME NEW i \in 1 .. Len(t), UsageWord[t[i].usage] = UsageWord[e.usage]
                     PROVE  FALSE
          BY <2>1 DEF WordsOf
        <5>1. t[i] \in UsedEntries
          BY <2>1
        <5>2. t[i].usage = e.usage
          BY <5>1, WordsDiffer DEF UsedEntries
        <5> DEFINE last == Len(t) + 1
        <5>3. /\ i \in DOMAIN te /\ last \in DOMAIN te /\ i # last
              /\ te[i] = t[i] /\ te[last] = e
          BY ONLY <2>1
        <5> HIDE DEF last
        <5> QED
          BY <5>2, <5>3 DEF OneEach
      <4>2. UsageWord[e.usage] \in WordsOf(te)
        BY <2>1, <3>2 DEF WordsOf
      <4>3. \A x \in Range(g) : x[1] \in WordsOf(t)
        BY <2>4 DEF IdsUnder
      <4>4. \A x \in Range(h) : x[1] = UsageWord[e.usage]
        BY <2>6
      <4>5. Range(g) \cap Range(h) = {}
        BY <4>1, <4>3, <4>4
      <4> HIDE DEF h
      <4>6. Range(h) \subseteq IdsUnder(WordsOf(te))
        BY <2>6, <4>2 DEF IdsUnder
      <4> QED
        BY <4>5, <4>6
    <3> QED
      BY <3>1, <3>2
  <2>8. Range(g) \subseteq IdsUnder(WordsOf(te)) /\ g \in Seq(Ids) /\ IsInjective(g)
    BY <2>4, <2>5 DEF IdsUnder
  <2> HIDE DEF g, h
  <2>9. IsInjective(g \o h) /\ Range(g \o h) = Range(g) \cup Range(h)
    BY <2>6, <2>7, <2>8, DistinctConcat
  <2>10. g \o h \in Seq(Ids)
    BY <2>6, <2>8
  <2>11. Gathered(IdsOf, te) = g \o h
    BY <2>2 DEF g, h
  <2> QED
    BY <2>7, <2>8, <2>9, <2>10, <2>11
<1> HIDE DEF N
<1>3. Seq(UsedEntries) \subseteq N
  BY <1>1, <1>2, SeqInduction
<1>4. entries \in N
  BY <1>3
<1> QED
  BY <1>4 DEF N

LEMMA IdsDistinct ==
  ASSUME NEW entries \in Seq(UsedEntries), OneEach(entries), NEW services,
         \E i \in DOMAIN entries : entries[i].usage = "MASTER_KEY",
         NEW keys, keys = CreateOperation(entries, services).public_keys
  PROVE  IsInjective(Mapped(IdOfProto, keys))
<1> DEFINE rest == Gathered(OtherProtos, entries)
<1>1. PICK master \in PublicKeys : keys = <<CreateProtos(master, "MASTER_KEY", 0)>> \o rest
  BY OperationIs
<1> DEFINE first == CreateProtos(master, "MASTER_KEY", 0)
           start == <<first>>
           id == <<UsageWord["MASTER_KEY"], 0>>
<1>2. first \in Protos /\ first.id = id
  <2>1. first.id = id
    BY DEF CreateProtos, UsageId
  <2>2. first \in Protos
    <3> HIDE DEF first
    <3> QED
      BY WordsDiffer DEF Protos, first
  <2> QED
    BY <2>1, <2>2
<1> HIDE DEF first
<1>3. start \in Seq(Protos) /\ rest \in Seq(Protos)
  <2>1. rest \in Seq(Protos)
    BY EntryTypes, GatheredType
  <2> QED
    BY <1>2, <2>1
<1>4. Mapped(IdOfProto, start) = <<id>>
  <2>1. IdOfProto[first] = id
    BY <1>2 DEF IdOfProto
  <2> HIDE DEF id
  <2> QED
    BY <2>1 DEF Mapped
<1>5. IdOfProto \in Maps(Protos, Ids)
  <2>1. ASSUME NEW x \in Protos
        PROVE  x.id \in Ids
    <3>1. PICK k \in PublicKeys, u \in PrismDIDKeyUsage, n \in Nat : x = CreateProtos(k, u, n)
      BY DEF Protos
    <3>2. x.id = <<UsageWord[u], n>>
      BY <3>1 DEF CreateProtos, UsageId
    <3> QED
      BY <3>2, WordsDiffer DEF Ids
  <2> QED
    BY <2>1 DEF IdOfProto, Maps
<1>6. Mapped(IdOfProto, rest) = Gathered(IdsOf, entries)
  <2>1. /\ OtherProtos \in Maps(UsedEntries, Seq(Protos))
        /\ IdsOf \in Maps(UsedEntries, Seq(Ids))
        /\ \A e \in UsedEntries : IdsOf[e] = Mapped(IdOfProto, OtherProtos[e])
    BY EntryTypes, IdsOfEntry DEF IdsOf, Maps
  <2> QED
    BY <1>5, <2>1, MapGathered
<1> HIDE DEF start, rest, id
<1>7. Mapped(IdOfProto, start \o rest) = <<id>> \o Gathered(IdsOf, entries)
  <2>1. Mapped(IdOfProto, start \o rest) = Mapped(IdOfProto, start) \o Mapped(IdOfProto, rest)
    BY <1>3, <1>5, MappedConcat
  <2> QED
    BY <1>4, <1>6, <2>1, Zenon
<1> DEFINE one == <<id>>
           g == Gathered(IdsOf, entries)
<1>8. g \in Seq(Ids) /\ IsInjective(g) /\ Range(g) \subseteq IdsUnder(WordsOf(entries))
  BY IdsGathered
<1>9. one \in Seq(Ids) /\ IsInjective(one) /\ Range(one) = {id}
  <2>1. id \in Ids
    BY WordsDiffer DEF Ids, id
  <2> QED
    BY <2>1 DEF IsInjective, Range
<1>10. id \notin Range(g)
  <2> SUFFICES ASSUME id \in IdsUnder(WordsOf(entries))
               PROVE  FALSE
    BY <1>8
  <2>1. UsageWord["MASTER_KEY"] \in WordsOf(entries)
    BY DEF IdsUnder, id
  <2>2. PICK i \in DOMAIN entries : entries[i].usage # "MASTER_KEY" /\ UsageWord[entries[i].usage] = UsageWord["MASTER_KEY"]
    BY <2>1 DEF WordsOf
  <2>3. entries[i] \in UsedEntries
    OBVIOUS
  <2> QED
    BY <2>2, <2>3, WordsDiffer DEF UsedEntries
<1> HIDE DEF one, g
<1>11. IsInjective(one \o g)
  BY <1>8, <1>9, <1>10, DistinctConcat
<1> QED
  BY <1>1, <1>7, <1>11 DEF one, g, start, first

\* A document whose relationships are made of the keys of their usage has the keys
\* of a prism DID; if its methods are made of the operation's keys it lists them.
GroupedFrom(M, doc, keys) ==
  \A r \in Relationships : ValuesOf(doc, r) = Mapped(M, KeysUsedFor(keys, UsageOf[r]))
MadeOf(M, doc, keys) ==
  /\ ValuesOf(doc, "verificationMethod") = Mapped(M, keys)
  /\ GroupedFrom(M, doc, keys)
Of1(p, did) ==
  /\ p \in Offered /\ p.method = "prism" /\ did = Created(p).did /\ did # Thrown

LEMMA PrismEntries ==
  ASSUME NEW p, NEW did, Of1(p, did)
  PROVE  LET entries == PublicPayload(p)
             op == CreateOperation(entries, p.services)
         IN  /\ p \in PayloadType /\ entries \in Seq(UsedEntries) /\ OneEach(entries)
             /\ \E i \in DOMAIN entries : entries[i].usage = "MASTER_KEY"
             /\ did = LongForm(op)
             /\ did.method = "prism" /\ did.hash = op /\ did.state = op
             /\ op.public_keys \in Seq(Protos) /\ op.public_keys # <<>>
<1> DEFINE entries == PublicPayload(p)
           op == CreateOperation(entries, p.services)
<1>1. p \in PayloadType
  BY PayloadsAssumption DEF Of1
<1>2. /\ entries \in Seq(PublicEntries) /\ DOMAIN entries = DOMAIN p.keys
      /\ \A i \in DOMAIN p.keys : entries[i].usage = p.keys[i].usage
  BY <1>1, PayloadKeys
<1>3. OneEach(entries)
  <2> HIDE DEF entries
  <2>1. p \in Offered
    BY DEF Of1
  <2> QED
    BY <1>2, <2>1, UsagesAssumption DEF OneEach
<1>4. /\ did = LongForm(op)
      /\ \E i \in DOMAIN entries : entries[i].usage = "MASTER_KEY"
      /\ \A i \in DOMAIN entries : entries[i].usage \in PrismDIDKeyUsage
  <2>1. did = PrismCreate(entries, p.services) /\ did # Thrown
    BY DEF Created, Create, Of1
  <2> HIDE DEF entries, op
  <2> QED
    BY <2>1 DEF PrismCreate, op
<1> HIDE DEF entries
<1>5. op.public_keys \in Seq(Protos) /\ op.public_keys # <<>>
  BY <1>2, <1>4, OperationKeys
<1>6. entries \in Seq(UsedEntries)
  <2>1. DOMAIN entries = 1 .. Len(entries) /\ Len(entries) \in Nat
    BY <1>2
  <2>2. entries \in [1 .. Len(entries) -> UsedEntries]
    BY <1>2, <1>4, <2>1 DEF UsedEntries
  <2> QED
    BY <2>1, <2>2, Sequenced
<1> HIDE DEF op
<1>7. did.method = "prism" /\ did.hash = op /\ did.state = op
  BY <1>4 DEF LongForm
<1> QED
  BY <1>1, <1>3, <1>4, <1>5, <1>6, <1>7 DEF entries, op

LEMMA KeysForPayload ==
  ASSUME NEW p \in PayloadType, PublicPayload(p) \in Seq(UsedEntries), NEW usage
  PROVE  Gathered(ListsOf(usage), PublicPayload(p)) = KeysFor(p, usage)
<1> DEFINE entries == PublicPayload(p)
           n == Len(p.keys)
<1>1. /\ p.keys \in Seq(Entries) /\ DOMAIN entries = DOMAIN p.keys
      /\ \A i \in DOMAIN p.keys : /\ entries[i].usage = p.keys[i].usage
                                  /\ entries[i].list = Mapped(Public, p.keys[i].list)
  BY PayloadKeys
<1> HIDE DEF entries
<1>2. DOMAIN p.keys = 1 .. n /\ n \in Nat /\ \A i \in 1 .. n : p.keys[i] \in Entries
  BY <1>1
<1>3. entries \in Seq(UsedEntries) /\ \A i \in 1 .. n : entries[i] \in UsedEntries
  BY <1>1, <1>2 DEF entries
<1>4. \A i \in 1 .. n : Mapped(Public, p.keys[i].list) = MapSeq(PublicKey, p.keys[i].list)
  <2> TAKE i \in 1 .. n
  <2>1. p.keys[i].list \in Seq(PrivateKeys)
    BY <1>2 DEF Entries
  <2>2. \A j \in DOMAIN p.keys[i].list : p.keys[i].list[j] \in PrivateKeys
    BY <2>1
  <2> QED
    BY <2>2 DEF Mapped, MapSeq, Public
<1>5. Mapped(ListsOf(usage), entries)
        = [i \in 1 .. n |-> IF p.keys[i].usage = usage THEN MapSeq(PublicKey, p.keys[i].list) ELSE <<>>]
  BY <1>1, <1>2, <1>3, <1>4 DEF Mapped, ListsOf
<1>6. KeysFor(p, usage)
        = FlattenSeq([i \in 1 .. n |-> IF p.keys[i].usage = usage THEN MapSeq(PublicKey, p.keys[i].list) ELSE <<>>])
  BY <1>2 DEF KeysFor
<1> QED
  BY <1>5, <1>6 DEF Gathered, entries

HoldKeys(M, keys, did) == \A x \in Range(keys) : PKInstance(M[x]) = x.key /\ M[x].id = Id(did, x.id)

LEMMA PrismKeys ==
  ASSUME NEW p, NEW did, Of1(p, did), NEW keys, keys = did.hash.public_keys,
         NEW doc, NEW M, GroupedFrom(M, doc, keys), NEW other, HoldKeys(M, keys, other)
  PROVE  /\ HasPurposes(doc, p)
         /\ MadeOf(M, doc, keys) => ListsMethods(doc, p)
<1> DEFINE entries == PublicPayload(p)
<1>1. /\ p \in PayloadType /\ entries \in Seq(UsedEntries) /\ OneEach(entries)
      /\ \E i \in DOMAIN entries : entries[i].usage = "MASTER_KEY"
      /\ keys = CreateOperation(entries, p.services).public_keys
      /\ keys \in Seq(Protos) /\ keys # <<>>
  BY PrismEntries
<1>2. \A usage : Gathered(ListsOf(usage), entries) = KeysFor(p, usage)
  BY <1>1, KeysForPayload
<1> HIDE DEF entries
<1>3. ASSUME NEW s \in Seq(Protos), Range(s) \subseteq Range(keys)
      PROVE  /\ MapSeq(PKInstance, Mapped(M, s)) = Mapped(KeyOfProto, s)
             /\ MapSeq(LAMBDA m : m.id, Mapped(M, s)) = [i \in DOMAIN s |-> Id(other, s[i].id)]
             /\ Range(Mapped(M, s)) \subseteq Range(Mapped(M, keys))
  <2>1. \A i \in DOMAIN s : s[i] \in Protos /\ s[i] \in Range(keys)
    <3>1. \A i \in DOMAIN s : s[i] \in Protos
      OBVIOUS
    <3>2. \A i \in DOMAIN s : s[i] \in Range(s)
      BY Zenon DEF Range
    <3> QED
      BY <1>3, <3>1, <3>2, Zenon
  <2>2. \A i \in DOMAIN s : PKInstance(M[s[i]]) = KeyOfProto[s[i]] /\ M[s[i]].id = Id(other, s[i].id)
    BY <2>1 DEF KeyOfProto, HoldKeys
  <2>3. DOMAIN Mapped(M, s) = DOMAIN s /\ \A i \in DOMAIN s : Mapped(M, s)[i] = M[s[i]]
    BY DEF Mapped
  <2>4. MapSeq(PKInstance, Mapped(M, s)) = Mapped(KeyOfProto, s)
    BY <2>2, <2>3 DEF Mapped, MapSeq
  <2>5. MapSeq(LAMBDA m : m.id, Mapped(M, s)) = [i \in DOMAIN s |-> Id(other, s[i].id)]
    BY <2>2, <2>3 DEF MapSeq
  <2>6. Range(Mapped(M, s)) \subseteq Range(Mapped(M, keys))
    BY <2>1 DEF Mapped, Range
  <2> QED
    BY <2>4, <2>5, <2>6
<1>4. ASSUME NEW usage, usage # "MASTER_KEY"
      PROVE  /\ KeysUsedFor(keys, usage) \in Seq(Protos)
             /\ Range(KeysUsedFor(keys, usage)) \subseteq Range(keys)
             /\ Mapped(KeyOfProto, KeysUsedFor(keys, usage)) = KeysFor(p, usage)
  BY <1>1, <1>2, <1>4, KeysUnder
<1>5. /\ Relationships = {purpose[1] : purpose \in Purposes}
      /\ \A purpose \in Purposes : /\ purpose[1] \in Relationships /\ UsageOf[purpose[1]] = purpose[2]
                                   /\ purpose[2] # "MASTER_KEY"
      /\ \A r \in Relationships : UsageOf[r] # "MASTER_KEY"
  BY DEF Relationships, Purposes, UsageOf
<1>6. \A purpose \in Purposes : DocumentKeys(doc, purpose[1]) = KeysFor(p, purpose[2])
  <2> TAKE purpose \in Purposes
  <2> DEFINE s == KeysUsedFor(keys, purpose[2])
  <2>1. s \in Seq(Protos) /\ Range(s) \subseteq Range(keys) /\ Mapped(KeyOfProto, s) = KeysFor(p, purpose[2])
    BY <1>4, <1>5
  <2>2. ValuesOf(doc, purpose[1]) = Mapped(M, s)
    BY <1>5 DEF GroupedFrom
  <2> HIDE DEF s
  <2>3. MapSeq(PKInstance, Mapped(M, s)) = Mapped(KeyOfProto, s)
    BY <1>3, <2>1
  <2> QED
    BY <2>1, <2>2, <2>3 DEF DocumentKeys
<1>10. HasPurposes(doc, p)
  BY <1>6 DEF HasPurposes
<1> SUFFICES ASSUME MadeOf(M, doc, keys)
             PROVE  ListsMethods(doc, p)
  BY <1>10
<1>7. KeysFor(p, "MASTER_KEY")[1] \in Range(DocumentKeys(doc, "verificationMethod"))
  <2>1. PICK master \in PublicKeys :
          /\ master = Gathered(ListsOf("MASTER_KEY"), entries)[1]
          /\ keys = <<CreateProtos(master, "MASTER_KEY", 0)>> \o Gathered(OtherProtos, entries)
    BY <1>1, OperationIs
  <2>2. KeysFor(p, "MASTER_KEY")[1] = master
    BY <1>2, <2>1
  <2>3. Gathered(OtherProtos, entries) \in Seq(Protos)
    BY <1>1, EntryTypes, GatheredType
  <2>4. 1 \in DOMAIN keys /\ keys[1] = CreateProtos(master, "MASTER_KEY", 0)
    BY <2>1, <2>3
  <2>5. keys[1].key = master /\ keys[1] \in Protos
    BY <1>1, <2>4 DEF CreateProtos
  <2>6. DocumentKeys(doc, "verificationMethod") = Mapped(KeyOfProto, keys)
    BY <1>1, <1>3 DEF DocumentKeys, MadeOf
  <2> QED
    BY <2>2, <2>4, <2>5, <2>6 DEF Range, Mapped, KeyOfProto
<1>8. \A r \in Relationships : Range(ValuesOf(doc, r)) \subseteq Range(ValuesOf(doc, "verificationMethod"))
  <2> TAKE r \in Relationships
  <2> DEFINE s == KeysUsedFor(keys, UsageOf[r])
  <2>1. s \in Seq(Protos) /\ Range(s) \subseteq Range(keys)
    BY <1>4, <1>5
  <2>2. ValuesOf(doc, r) = Mapped(M, s) /\ ValuesOf(doc, "verificationMethod") = Mapped(M, keys)
    BY DEF MadeOf, GroupedFrom
  <2> HIDE DEF s
  <2> QED
    BY <1>3, <2>1, <2>2
<1>9. IsInjective(MapSeq(LAMBDA m : m.id, ValuesOf(doc, "verificationMethod")))
  <2>1. ValuesOf(doc, "verificationMethod") = Mapped(M, keys)
    BY DEF MadeOf
  <2>2. MapSeq(LAMBDA m : m.id, Mapped(M, keys)) = [i \in DOMAIN keys |-> Id(other, keys[i].id)]
    BY <1>1, <1>3
  <2>3. IsInjective(Mapped(IdOfProto, keys))
    BY <1>1, IdsDistinct
  <2>4. Mapped(IdOfProto, keys) = [i \in DOMAIN keys |-> keys[i].id]
    <3>1. \A i \in DOMAIN keys : keys[i] \in Protos
      BY <1>1
    <3> QED
      BY <3>1 DEF Mapped, IdOfProto
  <2>5. \A i \in DOMAIN keys, j \in DOMAIN keys : keys[i].id = keys[j].id => i = j
    <3> DEFINE f == Mapped(IdOfProto, keys)
    <3>1. IsInjective(f) /\ DOMAIN f = DOMAIN keys /\ \A i \in DOMAIN keys : f[i] = keys[i].id
      BY <2>3, <2>4
    <3> HIDE DEF f
    <3> QED
      BY ONLY <3>1 DEF IsInjective
  <2>6. IsInjective([i \in DOMAIN keys |-> Id(other, keys[i].id)])
    BY <2>5 DEF IsInjective, Id
  <2> QED
    BY <2>1, <2>2, <2>6
<1> QED
  BY <1>7, <1>8, <1>9 DEF ListsMethods

\* A document under another DID keeps its values, each under that DID.
Cloned(v, kind, did) ==
  IF kind = "service" THEN [v EXCEPT !.id = ReplaceDID(v.id, did)] ELSE CloneWithNewId(v, did)

LEMMA CloneValues ==
  ASSUME NEW doc, Proper(doc), NEW did, NEW kind
  PROVE  ValuesOf(CloneWithNewDID(doc, did), kind)
           = [i \in DOMAIN ValuesOf(doc, kind) |-> Cloned(ValuesOf(doc, kind)[i], kind, did)]
<1>1. PICK W : doc.coreProperties \in Seq(Properties(W))
  BY DEF Proper
<1> DEFINE ps == doc.coreProperties
           other == CloneWithNewDID(doc, did)
           qs == other.coreProperties
           F == [w \in W |-> Cloned(w, kind, did)]
           T == {Cloned(w, kind, did) : w \in W}
           K == OfKind(W, kind)
           ss == Mapped(K, ps)
           G == Each(F, W)
<1>2. F \in Maps(W, T) /\ K \in Maps(Properties(W), Seq(W))
  BY OfKindType DEF Maps
<1>3. DOMAIN ps = 1 .. Len(ps) /\ Len(ps) \in Nat /\ \A i \in DOMAIN ps : ps[i] \in Properties(W)
  BY <1>1
<1>4. ss \in Seq(Seq(W)) /\ DOMAIN ss = DOMAIN ps
  <2>1. ss \in Seq(Seq(W))
    BY <1>1, <1>2, MappedType
  <2> QED
    BY <2>1 DEF Mapped
<1> DEFINE Clone(q) == Property(q.kind, [i \in DOMAIN q.values |-> Cloned(q.values[i], q.kind, did)])
<1>5. qs = [i \in DOMAIN ps |-> Clone(ps[i])]
  BY DEF CloneWithNewDID, Document, MapSeq, Cloned
<1>6. ASSUME NEW q \in Properties(W)
      PROVE  (IF Clone(q).kind = kind THEN Clone(q).values ELSE <<>>) = G[K[q]]
  <2>1. q.values \in Seq(W)
    BY DEF Properties
  <2>2. /\ Clone(q).kind = q.kind
        /\ Clone(q).values = [i \in DOMAIN q.values |-> Cloned(q.values[i], q.kind, did)]
    BY DEF Property
  <2>3. CASE q.kind = kind
    <3>1. K[q] = q.values
      BY <2>3 DEF OfKind
    <3>2. G[q.values] = [i \in DOMAIN q.values |-> F[q.values[i]]]
      BY <2>1 DEF Each, Mapped
    <3>3. \A i \in DOMAIN q.values : F[q.values[i]] = Cloned(q.values[i], kind, did)
      BY <2>1
    <3> HIDE DEF G, F, Clone, K
    <3> QED
      BY <2>2, <2>3, <3>1, <3>2, <3>3
  <2>4. CASE q.kind # kind
    <3>1. K[q] = <<>> /\ <<>> \in Seq(W)
      BY <2>4 DEF OfKind
    <3>2. G[<<>>] = <<>>
      BY <3>1 DEF Each, Mapped
    <3> QED
      BY <2>2, <2>4, <3>1, <3>2
  <2> QED
    BY <2>3, <2>4
<1> HIDE DEF Clone, G
<1>7. MapSeq(LAMBDA q : IF q.kind = kind THEN q.values ELSE <<>>, qs) = Mapped(G, ss)
  <2>1. MapSeq(LAMBDA q : IF q.kind = kind THEN q.values ELSE <<>>, qs)
          = [i \in DOMAIN ps |-> IF Clone(ps[i]).kind = kind THEN Clone(ps[i]).values ELSE <<>>]
    BY <1>5 DEF MapSeq
  <2>2. \A i \in DOMAIN ps : (IF Clone(ps[i]).kind = kind THEN Clone(ps[i]).values ELSE <<>>) = G[K[ps[i]]]
    BY <1>3, <1>6
  <2>3. Mapped(G, ss) = [i \in DOMAIN ps |-> G[K[ps[i]]]]
    BY DEF Mapped
  <2> HIDE DEF ss, qs, ps, K
  <2> QED
    BY <2>1, <2>2, <2>3
<1>8. ValuesOf(other, kind) = Gathered(G, ss)
  BY <1>7 DEF ValuesOf, Gathered
<1>9. Mapped(F, FlattenSeq(ss)) = Gathered(G, ss)
  <2> HIDE DEF ss, F, T
  <2> QED
    BY <1>2, <1>4, MappedFlatten DEF G
<1>10. ValuesOf(doc, kind) = FlattenSeq(ss) /\ FlattenSeq(ss) \in Seq(W)
  <2>1. ValuesOf(doc, kind) = Gathered(K, ps)
    BY <1>1, ValuesGathered
  <2>2. Gathered(K, ps) = FlattenSeq(ss)
    BY DEF Gathered
  <2> HIDE DEF ss, K, ps
  <2> QED
    BY <1>4, <2>1, <2>2, FlattenType
<1> DEFINE vs == ValuesOf(doc, kind)
<1>11. \A i \in DOMAIN vs : F[vs[i]] = Cloned(vs[i], kind, did)
  <2>1. vs \in Seq(W)
    BY <1>10
  <2> HIDE DEF vs
  <2> QED
    BY <2>1
<1>12. Mapped(F, vs) = [i \in DOMAIN vs |-> Cloned(vs[i], kind, did)]
  <2> HIDE DEF vs, F
  <2> QED
    BY <1>11 DEF Mapped
<1> HIDE DEF F, ss
<1> QED
  BY <1>8, <1>9, <1>10, <1>12

\* A method under another DID holds the same key, and a method or a service that
\* has a DID has the other.
Rekeyed(other, jwk) == other = jwk \/ \E kid : other = [jwk EXCEPT !.kid = kid]

LEMMA ClonedMethod ==
  ASSUME NEW did, NEW id, NEW fragment, NEW controller, NEW type, NEW jwk, NEW multibase,
         NEW m, m = VerificationMethod(Id(id, fragment), controller, type, jwk, multibase),
         NEW other, other = CloneWithNewId(m, did)
  PROVE  /\ other.id.did \in {did, Absent} /\ other.type = type
         /\ other.publicKeyMultibase = multibase
         /\ Rekeyed(other.publicKeyJwk, jwk)
<1>1. ReplaceDID(Id(id, fragment), did).did \in {did, Absent}
  BY DEF ReplaceDID, Id
<1>2. /\ other.id = ReplaceDID(Id(id, fragment), did) /\ other.type = type
      /\ other.publicKeyMultibase = multibase
      /\ other.publicKeyJwk = IF jwk = Absent \/ jwk.kid = Absent THEN jwk
                              ELSE [jwk EXCEPT !.kid = ReplaceDID(jwk.kid, did)]
  BY DEF CloneWithNewId, VerificationMethod
<1> QED
  BY <1>1, <1>2 DEF Rekeyed

LEMMA ClonedService ==
  ASSUME NEW did, NEW id, NEW fragment, NEW type, NEW uri, NEW s, s = Service(Id(id, fragment), type, uri)
  PROVE  Cloned(s, "service", did).id.did \in {did, Absent}
<1>1. Cloned(s, "service", did).id = ReplaceDID(Id(id, fragment), did)
  BY DEF Cloned, Service
<1> QED
  BY <1>1 DEF ReplaceDID, Id

SameUnder(m, did) ==
  PKInstance(CloneWithNewId(m, did)) = PKInstance(m) /\ CloneWithNewId(m, did).id.did \in {did, Absent}
Clones(doc) ==
  LET other == CloneWithNewDID(doc, Challenge)
  IN  \A kind \in Kinds :
        /\ kind # "service" => DocumentKeys(other, kind) = DocumentKeys(doc, kind)
        /\ \A v \in Range(ValuesOf(other, kind)) : v.id.did \in {Challenge, Absent}

LEMMA ClonesOf ==
  ASSUME NEW doc, Proper(doc),
         \A kind \in Kinds : kind # "service" => \A m \in Range(ValuesOf(doc, kind)) : SameUnder(m, Challenge),
         \A s \in Range(ValuesOf(doc, "service")) : Cloned(s, "service", Challenge).id.did \in {Challenge, Absent}
  PROVE  Clones(doc)
<1> SUFFICES ASSUME NEW kind \in Kinds, NEW values, values = ValuesOf(doc, kind),
                    NEW others, others = ValuesOf(CloneWithNewDID(doc, Challenge), kind)
             PROVE  /\ kind # "service" => MapSeq(PKInstance, others) = MapSeq(PKInstance, values)
                    /\ \A v \in Range(others) : v.id.did \in {Challenge, Absent}
  BY DEF Clones, DocumentKeys
<1>1. others = [i \in DOMAIN values |-> Cloned(values[i], kind, Challenge)]
  BY CloneValues
<1>2. \A i \in DOMAIN values : values[i] \in Range(values)
  BY DEF Range
<1>3. CASE kind = "service"
  <2>1. \A i \in DOMAIN values : Cloned(values[i], kind, Challenge).id.did \in {Challenge, Absent}
    BY <1>2, <1>3
  <2> QED
    BY <1>1, <1>3, <2>1 DEF Range
<1>4. CASE kind # "service"
  <2>1. \A i \in DOMAIN values : SameUnder(values[i], Challenge)
    BY <1>2, <1>4
  <2>2. others = [i \in DOMAIN values |-> CloneWithNewId(values[i], Challenge)]
    BY <1>1, <1>4 DEF Cloned
  <2> QED
    BY <2>1, <2>2 DEF SameUnder, MapSeq, Range
<1> QED
  BY <1>3, <1>4

\* A method that is made of a key of an operation holds that key.
LEMMA ProtoKey ==
  ASSUME NEW x \in Protos
  PROVE  /\ x.key \in PublicKeys /\ MapToPublicKey(x) = x.key
         /\ x.key # Absent /\ x.key # Thrown /\ x.key.curve \in Curves /\ x.key = Key(x.key.curve, x.key.pair)
         /\ \E u \in PrismDIDKeyUsage, n \in Nat : x = CreateProtos(x.key, u, n)
<1>1. PICK k \in PublicKeys, u \in PrismDIDKeyUsage, n \in Nat : x = CreateProtos(k, u, n)
  BY DEF Protos
<1> DEFINE c == k.curve # "secp256k1"
<1>2. x = [id |-> UsageId(u, n), usage |-> u, key |-> k, compressed |-> c]
  BY <1>1 DEF CreateProtos
<1> HIDE DEF c
<1>3. x.key = k /\ x.compressed = c
  BY <1>2
<1>4. x.key.curve # "secp256k1" => x.compressed
  BY <1>3, Zenon DEF c
<1>5. MapToPublicKey(x) = k
  BY <1>3, <1>4 DEF MapToPublicKey
<1>6. k # Absent /\ k # Thrown /\ k.curve \in Curves /\ k = Key(k.curve, k.pair)
  BY OutcomesAssumption DEF PublicKeys, Key
<1> QED
  BY <1>1, <1>3, <1>5, <1>6

\* A method with a multibase key, compressed or not, holds the point it is of.
HoldsPoint(m, k) ==
  /\ m.publicKeyMultibase # Absent /\ m.type \in DOMAIN MethodCurve
  /\ Point(MultibaseBytes(m)) = k

LEMMA KeyBytes ==
  ASSUME NEW k \in PublicKeys, NEW bytes \in {k, Compressed(k)}
  PROVE  /\ bytes # Absent /\ bytes.pair = k.pair /\ [bytes EXCEPT !.curve = k.curve].curve = k.curve
         /\ [bytes EXCEPT !.curve = k.curve].pair = k.pair
         /\ bytes = k => [bytes EXCEPT !.curve = k.curve] = k
<1>1. k \in [curve : Curves, pair : Pairs]
  BY DEF PublicKeys
<1>2. CASE bytes = k
  <2>1. k # Absent
    BY OutcomesAssumption
  <2> QED
    BY <1>1, <1>2, <2>1
<1>3. CASE bytes # k
  <2>1. bytes = [curve |-> k.curve, pair |-> k.pair, y |-> Absent]
    BY <1>3 DEF Compressed
  <2>2. bytes \in CompressedKeys
    BY <1>1, <2>1 DEF CompressedKeys
  <2>3. bytes # Absent
    BY <2>2, OutcomesAssumption
  <2> QED
    BY <1>3, <2>1, <2>3
<1> QED
  BY <1>2, <1>3

LEMMA MultibaseKey ==
  ASSUME NEW k \in PublicKeys, NEW m, m.publicKeyMultibase \in {k, Compressed(k)}, m.type = MethodType[k.curve]
  PROVE  /\ PKInstance(m) = k /\ HoldsPoint(m, k)
         /\ m.publicKeyMultibase = k => MultibaseBytes(m) = k
<1>1. k.curve \in Curves /\ k = Key(k.curve, k.pair)
  BY DEF PublicKeys, Key
<1>2. /\ m.type \in DOMAIN MultibaseCurve /\ MultibaseCurve[m.type] = k.curve
      /\ m.type \in DOMAIN MethodCurve /\ MethodCurve[m.type] = k.curve
  BY <1>1 DEF MethodType, MultibaseCurve, MethodCurve, Curves
<1> DEFINE bytes == m.publicKeyMultibase
<1>3. /\ bytes # Absent /\ bytes.pair = k.pair /\ [bytes EXCEPT !.curve = k.curve].curve = k.curve
      /\ [bytes EXCEPT !.curve = k.curve].pair = k.pair
      /\ bytes = k => [bytes EXCEPT !.curve = k.curve] = k
  <2>1. bytes \in {k, Compressed(k)}
    OBVIOUS
  <2> HIDE DEF bytes
  <2> QED
    BY <2>1, KeyBytes
<1>4. MultibaseBytes(m) = [bytes EXCEPT !.curve = k.curve]
  BY <1>2 DEF MultibaseBytes
<1>5. PKInstance(m) = k
  BY <1>1, <1>2, <1>3 DEF PKInstance
<1>6. Point(MultibaseBytes(m)) = k
  BY <1>1, <1>3, <1>4 DEF Point
<1> QED
  BY <1>2, <1>3, <1>4, <1>5, <1>6 DEF HoldsPoint

LEMMA PrismMethodHolds ==
  ASSUME NEW did, NEW x \in Protos, NEW m, m = PrismMethod(did, x)
  PROVE  /\ PKInstance(m) = x.key /\ m.id = Id(did, x.id)
         /\ SameUnder(m, Challenge)
         /\ HoldsPoint(m, x.key) /\ MultibaseBytes(m) = x.key
<1>1. x.key \in PublicKeys /\ MapToPublicKey(x) = x.key
  BY ProtoKey
<1>2. m = VerificationMethod(Id(did, x.id), did, MethodType[x.key.curve], Absent, x.key)
  BY <1>1 DEF PrismMethod
<1>3. m.publicKeyMultibase = x.key /\ m.type = MethodType[x.key.curve] /\ m.id = Id(did, x.id)
  BY <1>2 DEF VerificationMethod
<1>4. PKInstance(m) = x.key /\ HoldsPoint(m, x.key) /\ MultibaseBytes(m) = x.key
  BY <1>1, <1>3, MultibaseKey
<1> DEFINE other == CloneWithNewId(m, Challenge)
<1>5. /\ other.id.did \in {Challenge, Absent} /\ other.type = m.type /\ other.publicKeyMultibase = x.key
  BY <1>2, <1>3, ClonedMethod
<1> HIDE DEF other
<1>6. PKInstance(other) = x.key
  BY <1>1, <1>3, <1>5, MultibaseKey
<1> QED
  BY <1>3, <1>4, <1>5, <1>6 DEF SameUnder, other

\* The services of a prism DID, as the operation and the document have them.
Services == [id : [did : {Absent}, fragment : STRING \X Nat],
             type : [list : BOOLEAN, words : Seq(STRING \ {"dm"})], uri : STRING]
Kept(s) == Service(s.id, Type(TRUE, <<FirstType(s.type)>>), s.uri)

LEMMA KeptServes ==
  ASSUME NEW services \in Seq(Services), NEW served, served = MapSeq(Kept, services)
  PROVE  /\ Serves(served, services, {})
         /\ \A s \in Range(served) : Cloned(s, "service", Challenge).id.did \in {Challenge, Absent}
<1>1. /\ DOMAIN services = 1 .. Len(services) /\ Len(services) \in Nat
      /\ \A i \in 1 .. Len(services) : services[i] \in Services
  OBVIOUS
<1>2. /\ DOMAIN served = 1 .. Len(services)
      /\ \A i \in 1 .. Len(services) : served[i] = Kept(services[i])
  BY <1>1 DEF MapSeq
<1>3. Len(served) = Len(services)
  BY <1>1, <1>2 DEF MapSeq
<1>4. ASSUME NEW i \in 1 .. Len(services)
      PROVE  /\ served[i].uri = services[i].uri
             /\ services[i].type.list /\ services[i].type.words # <<>> =>
                  served[i].type.words[1] = services[i].type.words[1]
             /\ Cloned(served[i], "service", Challenge).id.did \in {Challenge, Absent}
  <2> DEFINE s == services[i]
  <2>1. s \in Services /\ served[i] = Kept(s) /\ s.id = Id(Absent, s.id.fragment)
    BY <1>1, <1>2 DEF Services, Id
  <2>2. s.type.words \in Seq(STRING \ {"dm"})
    BY <2>1 DEF Services
  <2> HIDE DEF s
  <2>3. served[i].uri = s.uri /\ served[i].type.words = <<FirstType(s.type)>>
    <3> DEFINE type == Type(TRUE, <<FirstType(s.type)>>)
    <3>1. type.words = <<FirstType(s.type)>>
      BY DEF Type
    <3>2. served[i] = Service(s.id, type, s.uri)
      BY <2>1 DEF Kept
    <3> HIDE DEF type
    <3>3. served[i].uri = s.uri /\ served[i].type = type
      BY <3>2 DEF Service
    <3> QED
      BY <3>1, <3>3
  <2>4. s.type.list /\ s.type.words # <<>> => FirstType(s.type) = s.type.words[1]
    BY <2>2 DEF FirstType
  <2>5. Cloned(served[i], "service", Challenge).id.did \in {Challenge, Absent}
    <3> DEFINE type == Type(TRUE, <<FirstType(s.type)>>)
               fragment == s.id.fragment
               uri == s.uri
    <3>1. served[i] = Service(Id(Absent, fragment), type, uri)
      BY <2>1 DEF Kept
    <3> HIDE DEF type, fragment, uri
    <3> QED
      BY <3>1, ClonedService
  <2> QED
    BY <2>3, <2>4, <2>5 DEF s
<1>5. Serves(served, services, {})
  BY <1>1, <1>3, <1>4 DEF Serves
<1> QED
  BY <1>2, <1>4, <1>5 DEF Range

LEMMA OperationServices ==
  ASSUME NEW entries, NEW services \in Seq(Services), NEW of, of = CreateOperation(entries, services).services
  PROVE  /\ of \in Seq(Range(of)) /\ ServicesOf(of) = MapSeq(Kept, services)
         /\ MapSeq(DecodedService, of) = MapSeq(Kept, services)
<1> DEFINE n == Len(services)
           R == Range(of)
           P == {s \in R : s.endpoints # <<>>}
<1>1. DOMAIN services = 1 .. n /\ n \in Nat
  OBVIOUS
<1>2. of = [i \in 1 .. n |-> ProtoService(services[i])]
  BY <1>1 DEF CreateOperation, MapSeq
<1>3. \A i \in 1 .. n : DecodedService(of[i]) = Kept(services[i]) /\ of[i].endpoints # <<>>
  <2> TAKE i \in 1 .. n
  <2>1. of[i].id = services[i].id /\ of[i].type = FirstType(services[i].type) /\ of[i].endpoints = <<services[i].uri>>
    BY <1>2 DEF ProtoService
  <2> QED
    BY <2>1 DEF DecodedService, Kept
<1>4. DOMAIN of = 1 .. n /\ of \in Seq(R)
  <2>1. of \in [1 .. n -> R] /\ DOMAIN of = 1 .. n
    BY <1>2 DEF Range
  <2> HIDE DEF R, n
  <2> QED
    BY <1>1, <2>1, Sequenced
<1>5. MapSeq(DecodedService, of) = MapSeq(Kept, services)
  BY <1>1, <1>3, <1>4 DEF MapSeq
<1>6. R = P
  BY <1>3, <1>4 DEF Range
<1>7. Filtered(of, LAMBDA s : s.endpoints # <<>>) = Gathered(Pick(R, P), of)
  <2>1. \A i \in DOMAIN of : of[i] \in R
    BY DEF Range
  <2> HIDE DEF R
  <2> QED
    BY <2>1 DEF Filtered, Gathered, Mapped, Pick
<1>8. Gathered(Pick(R, P), of) = of
  <2> HIDE DEF P
  <2>1. Range(of) \subseteq P
    BY <1>6
  <2> HIDE DEF R
  <2> QED
    BY <1>4, <2>1, PickAll
<1>9. ServicesOf(of) = MapSeq(Kept, services)
  BY <1>5, <1>7, <1>8 DEF ServicesOf
<1> QED
  BY <1>4, <1>5, <1>9

\* A prism DID resolves, in its long form, to what it was created with.
LEMMA PrismResolves ==
  ASSUME NEW p, NEW did, Of1(p, did), NEW doc, doc = ResolveDID(did, Absent)
  PROVE  LET keys == did.hash.public_keys
         IN  /\ doc # Thrown /\ Proper(doc) /\ keys \in Seq(Protos)
             /\ ValuesOf(doc, "verificationMethod") = MethodsOf(did, keys)
             /\ ValuesOf(doc, "service") = MapSeq(Kept, p.services)
             /\ \A r \in Relationships : ValuesOf(doc, r) = MethodsOf(did, KeysUsedFor(keys, UsageOf[r]))
             /\ did.hash.services \in Seq(Range(did.hash.services))
<1> DEFINE entries == PublicPayload(p)
           op == CreateOperation(entries, p.services)
           keys == op.public_keys
<1>1. /\ p \in PayloadType /\ did.method = "prism" /\ did.hash = op /\ did.state = op
      /\ keys \in Seq(Protos) /\ did # Thrown /\ p \in Offered /\ did = Created(p).did
  BY PrismEntries DEF Of1
<1>2. p.services \in Seq(Services)
  BY <1>1 DEF PayloadType, Services
<1>3. op.services \in Seq(Range(op.services)) /\ ServicesOf(op.services) = MapSeq(Kept, p.services)
  BY <1>2, OperationServices
<1> HIDE DEF op, entries
<1>4. did.state # Absent /\ LongFormDocument(did) # Thrown
  BY <1>1, DocumentsAssumption
<1>5. \A i \in DOMAIN keys : MapToPublicKey(keys[i]) # Thrown
  <2> TAKE i \in DOMAIN keys
  <2>1. keys[i] \in Protos
    BY <1>1
  <2> HIDE DEF keys
  <2>2. MapToPublicKey(keys[i]) = keys[i].key /\ keys[i].key # Thrown
    BY <2>1, ProtoKey
  <2> QED
    BY <2>2
<1>6. doc = LongFormDocument(did)
  BY <1>1, <1>4, <1>5 DEF ResolveDID, PrismResolve, LongFormResolve
<1>7. doc # Thrown
  BY <1>4, <1>6
<1>8. did.state.public_keys \in Seq(Protos) /\ did.state.services \in Seq(Range(op.services))
  BY <1>1, <1>3
<1>9. /\ Proper(doc)
      /\ ValuesOf(doc, "verificationMethod") = MethodsOf(did, did.state.public_keys)
      /\ ValuesOf(doc, "service") = ServicesOf(did.state.services)
      /\ \A r \in Relationships : ValuesOf(doc, r) = MethodsOf(did, KeysUsedFor(did.state.public_keys, UsageOf[r]))
  <2> DEFINE Z == Range(op.services)
  <2>1. /\ did.method = "prism" /\ did.state # Absent /\ doc # Thrown
        /\ did.state.public_keys \in Seq(Protos) /\ did.state.services \in Seq(Z)
    BY <1>1, <1>4, <1>7, <1>8
  <2> HIDE DEF Z
  <2>2. Proper(doc)
    BY <2>1, PrismDocument
  <2>3. ValuesOf(doc, "verificationMethod") = MethodsOf(did, did.state.public_keys)
    BY <2>1, PrismDocument
  <2>4. ValuesOf(doc, "service") = ServicesOf(did.state.services)
    BY <2>1, PrismDocument
  <2>5. \A r \in Relationships : ValuesOf(doc, r) = MethodsOf(did, KeysUsedFor(did.state.public_keys, UsageOf[r]))
    BY <2>1, PrismDocument
  <2> QED
    BY <2>2, <2>3, <2>4, <2>5
<1> QED
  BY <1>1, <1>3, <1>7, <1>9

LEMMA UsedKeys ==
  ASSUME NEW p, NEW did, Of1(p, did), NEW keys, keys = did.hash.public_keys, NEW r \in Relationships
  PROVE  KeysUsedFor(keys, UsageOf[r]) \in Seq(Protos)
<1> DEFINE entries == PublicPayload(p)
           usage == UsageOf[r]
<1>1. /\ entries \in Seq(UsedEntries) /\ \E i \in DOMAIN entries : entries[i].usage = "MASTER_KEY"
      /\ keys = CreateOperation(entries, p.services).public_keys
  BY PrismEntries
<1>2. usage # "MASTER_KEY"
  BY DEF Relationships, UsageOf
<1> HIDE DEF entries, usage
<1>3. KeysUsedFor(keys, usage) \in Seq(Protos)
  BY <1>1, <1>2, KeysUnder
<1> QED
  BY <1>3 DEF usage

LEMMA PrismResolved ==
  ASSUME NEW p, NEW did, Of1(p, did), NEW doc, doc = ResolveDID(did, Absent)
  PROVE  /\ doc # Thrown /\ HasPurposes(doc, p) /\ ListsMethods(doc, p)
         /\ Serves(ValuesOf(doc, "service"), p.services, {})
         /\ Clones(doc)
<1> DEFINE keys == did.hash.public_keys
           M == [x \in Protos |-> PrismMethod(did, x)]
<1>1. /\ doc # Thrown /\ Proper(doc) /\ keys \in Seq(Protos)
      /\ ValuesOf(doc, "verificationMethod") = MethodsOf(did, keys)
      /\ ValuesOf(doc, "service") = MapSeq(Kept, p.services)
      /\ \A r \in Relationships : ValuesOf(doc, r) = MethodsOf(did, KeysUsedFor(keys, UsageOf[r]))
  BY PrismResolves
<1>2. \A r \in Relationships : KeysUsedFor(keys, UsageOf[r]) \in Seq(Protos)
  BY UsedKeys
<1> HIDE DEF keys
<1>3. ASSUME NEW s \in Seq(Protos)
      PROVE  /\ MethodsOf(did, s) = Mapped(M, s)
             /\ \A m \in Range(MethodsOf(did, s)) : SameUnder(m, Challenge)
  <2>1. \A i \in DOMAIN s : s[i] \in Protos
    OBVIOUS
  <2>2. MethodsOf(did, s) = Mapped(M, s)
    BY <2>1 DEF MethodsOf, Mapped
  <2>3. \A x \in Protos : SameUnder(PrismMethod(did, x), Challenge)
    BY PrismMethodHolds
  <2>4. \A m \in Range(MethodsOf(did, s)) : \E x \in Protos : m = PrismMethod(did, x)
    BY <2>1 DEF MethodsOf, Range
  <2> QED
    BY <2>2, <2>3, <2>4
<1>4. MadeOf(M, doc, keys) /\ GroupedFrom(M, doc, keys)
  BY <1>1, <1>2, <1>3 DEF MadeOf, GroupedFrom
<1>6. \A x \in Protos : PKInstance(M[x]) = x.key /\ M[x].id = Id(did, x.id)
  <2>1. \A x \in Protos : PKInstance(PrismMethod(did, x)) = x.key /\ PrismMethod(did, x).id = Id(did, x.id)
    BY PrismMethodHolds
  <2> QED
    BY <2>1
<1>7. HasPurposes(doc, p) /\ ListsMethods(doc, p)
  <2>1. HoldKeys(M, keys, did)
    <3>1. Range(keys) \subseteq Protos
      BY <1>1 DEF Range
    <3> QED
      BY <1>6, <3>1 DEF HoldKeys
  <2>2. keys = did.hash.public_keys
    BY DEF keys
  <2> HIDE DEF M
  <2> QED
    BY <1>4, <2>1, <2>2, PrismKeys
<1>8. p.services \in Seq(Services)
  <2>1. p \in PayloadType
    BY PayloadsAssumption DEF Of1
  <2> QED
    BY <2>1 DEF PayloadType, Services
<1>9. /\ Serves(ValuesOf(doc, "service"), p.services, {})
      /\ \A s \in Range(ValuesOf(doc, "service")) : Cloned(s, "service", Challenge).id.did \in {Challenge, Absent}
  BY <1>1, <1>8, KeptServes
<1>10. Clones(doc)
  <2>1. \A kind \in Kinds : kind # "service" => \A m \in Range(ValuesOf(doc, kind)) : SameUnder(m, Challenge)
    BY <1>1, <1>2, <1>3 DEF Kinds
  <2> QED
    BY <1>1, <1>9, <2>1, ClonesOf
<1> QED
  BY <1>1, <1>7, <1>9, <1>10

\* A method of a peer DID holds its key as a JWK.
LEMMA OKPKey ==
  ASSUME NEW k \in PublicKeys, NEW m, m.publicKeyMultibase = Absent, m.publicKeyJwk # Absent,
         m.publicKeyJwk.kty = "OKP", m.publicKeyJwk.crv = k.curve, m.publicKeyJwk.x = k.pair
  PROVE  PKInstance(m) = k
<1> DEFINE given == [kty |-> m.publicKeyJwk.kty, crv |-> m.publicKeyJwk.crv,
                     x |-> m.publicKeyJwk.x, y |-> m.publicKeyJwk.y, d |-> Absent]
           half == [public |-> k, private |-> Absent]
<1>1. given.kty = "OKP" /\ given.crv = k.curve /\ given.x = k.pair /\ given.d = Absent
  OBVIOUS
<1>2. /\ k.pair # Absent /\ k # Thrown /\ k = Key(k.curve, k.pair) /\ k.curve \in Curves
  BY OutcomesAssumption DEF PublicKeys, Key
<1>3. half # Thrown
  <2>1. half \in [public : PublicKeys, private : PrivateKeys \cup {Absent}]
    OBVIOUS
  <2> HIDE DEF half
  <2> QED
    BY <2>1, OutcomesAssumption
<1> HIDE DEF given
<1>4. CreatePublicKey(k.curve, k.pair, Absent, Absent) = k
  BY <1>2 DEF CreatePublicKey
<1>5. FromJWK(given) = half
  BY <1>1, <1>2, <1>4 DEF FromJWK
<1>6. half.public = k
  OBVIOUS
<1> HIDE DEF half
<1>7. PKInstance(m) = Then(FromJWK(given), LAMBDA h : h.public)
  BY DEF PKInstance, given
<1> QED
  BY <1>3, <1>5, <1>6, <1>7 DEF Then

Sound(m) == m.publicKeyJwk # Absent /\ CloneWithNewId(m, Challenge).publicKeyJwk # Absent

LEMMA KeyMethodHolds ==
  ASSUME NEW k \in PublicKeys, NEW did, NEW i, NEW m, m = KeyMethod(did, k, i), Sound(m)
  PROVE  /\ PKInstance(m) = k /\ m.id = Id(did, <<"key", i>>) /\ SameUnder(m, Challenge)
         /\ m.publicKeyMultibase = Absent
         /\ m.publicKeyJwk.crv = k.curve /\ m.publicKeyJwk.x = k.pair
<1> DEFINE fragment == <<"key", i>>
           id == Id(did, fragment)
           jwk == [kty |-> "OKP", crv |-> k.curve, x |-> k.pair, y |-> Absent, kid |-> id]
           other == CloneWithNewId(m, Challenge)
           type == "JsonWebKey2020"
<1>1. m = VerificationMethod(Id(did, fragment), did, type, jwk, Absent)
  BY DEF KeyMethod
<1>2. jwk.kty = "OKP" /\ jwk.crv = k.curve /\ jwk.x = k.pair
  OBVIOUS
<1>3. ASSUME NEW kid
      PROVE  /\ [jwk EXCEPT !.kid = kid].kty = "OKP" /\ [jwk EXCEPT !.kid = kid].crv = k.curve
             /\ [jwk EXCEPT !.kid = kid].x = k.pair
  OBVIOUS
<1> HIDE DEF jwk, fragment, type, id
<1>4. m.id = Id(did, fragment) /\ m.publicKeyJwk = jwk /\ m.publicKeyMultibase = Absent
  BY <1>1 DEF VerificationMethod
<1>5. PKInstance(m) = k
  BY <1>2, <1>4, OKPKey DEF Sound
<1>6. /\ other.id.did \in {Challenge, Absent} /\ other.publicKeyMultibase = Absent
      /\ Rekeyed(other.publicKeyJwk, jwk)
  BY <1>1, ClonedMethod
<1>7. other.publicKeyJwk # Absent
  BY DEF Sound
<1> HIDE DEF other
<1>8. other.publicKeyJwk.kty = "OKP" /\ other.publicKeyJwk.crv = k.curve /\ other.publicKeyJwk.x = k.pair
  BY <1>2, <1>3, <1>6 DEF Rekeyed
<1>9. PKInstance(other) = k
  BY <1>6, <1>7, <1>8, OKPKey
<1>10. SameUnder(m, Challenge)
  BY <1>5, <1>6, <1>9 DEF SameUnder, other
<1> QED
  BY <1>2, <1>4, <1>5, <1>10 DEF fragment

Of2(p, did) ==
  /\ p \in Offered /\ p.method = "peer" /\ did = Created(p).did /\ did # Thrown

LEMMA PeerKeys ==
  ASSUME NEW p, NEW did, Of2(p, did), NEW answer, NEW doc, doc = ResolveDID(did, answer)
  PROVE  LET keys == KeysFrom(p)
             e == Of(keys, "X25519")
             v == Of(keys, "Ed25519")
         IN  /\ p \in PayloadType /\ keys \in Seq(PublicKeys) /\ doc # Thrown
             /\ did = CreatePeerDID(keys, p.services)
             /\ Lists(doc, KeyMethods(did, v, Len(e)), KeyMethods(did, e, 0),
                      DecodeService(did, Part("S", EncodeService(p.services))))
             /\ \A i \in 1 .. Len(e) : Sound(KeyMethod(did, e[i], i))
             /\ \A i \in 1 .. Len(v) : Sound(KeyMethod(did, v[i], Len(e) + i))
<1> DEFINE keys == KeysFrom(p)
           e == Of(keys, "X25519")
           v == Of(keys, "Ed25519")
<1>1. p \in PayloadType /\ p \in Offered /\ p.method = "peer" /\ did = Created(p).did /\ did # Thrown
  BY PayloadsAssumption DEF Of2
<1>2. keys \in Seq(PublicKeys) /\ did = CreatePeerDID(keys, p.services)
  <2>1. did = PeerCreate(PublicPayload(p), p.services)
    BY <1>1 DEF Created, Create
  <2>2. did = CreatePeerDID(FlattenSeq([i \in DOMAIN PublicPayload(p) |-> PublicPayload(p)[i].list]), p.services)
    BY <1>1, <2>1 DEF PeerCreate
  <2> QED
    BY <1>1, <2>2, PayloadKeys
<1>3. p.services \in Seq(Services)
  BY <1>1 DEF PayloadType, Services
<1> HIDE DEF keys
<1>4. /\ did.method = "peer" /\ did.numalgo = 2
      /\ DOMAIN did.parts = 1 .. Len(e) + Len(v) + 1 /\ Len(did.parts) = Len(e) + Len(v) + 1
      /\ \A i \in 1 .. Len(e) : did.parts[i] = Part("E", e[i])
      /\ \A i \in 1 .. Len(v) : did.parts[Len(e) + i] = Part("V", v[i])
      /\ did.parts[Len(e) + Len(v) + 1] = Part("S", EncodeService(p.services))
  BY <1>1, <1>2, PeerParts
<1>5. /\ e \in Seq(PublicKeys) /\ Len(e) \in Nat /\ \A i \in 1 .. Len(e) : e[i].curve = "X25519"
      /\ v \in Seq(PublicKeys) /\ Len(v) \in Nat /\ \A i \in 1 .. Len(v) : v[i].curve = "Ed25519"
  BY <1>2, OfType
<1>6. Lists(doc, KeyMethods(did, v, Len(e)), KeyMethods(did, e, 0), DecodeService(did, did.parts[Len(e) + Len(v) + 1]))
  BY <1>1, <1>2, <1>3, PeerIsDocument
<1> HIDE DEF e, v
<1>7. Len(did.parts) - 1 = Len(e) + Len(v)
  BY <1>4, <1>5
<1> DEFINE m(i) == PeerMethod(did, i)
<1>8. /\ doc # Thrown
      /\ \A i \in 1 .. Len(e) + Len(v) : Sound(m(i))
  <2>1. PartsDocument(did) # Thrown /\ \A i \in 1 .. Len(did.parts) - 1 : Sound(m(i))
    BY <1>1, <1>4, DocumentsAssumption DEF Sound
  <2>2. doc = PartsDocument(did)
    BY <1>4 DEF ResolveDID, PeerResolve
  <2> QED
    BY <1>7, <2>1, <2>2
<1>9. /\ \A i \in 1 .. Len(e) : m(i) = KeyMethod(did, e[i], i)
      /\ \A i \in 1 .. Len(v) : m(Len(e) + i) = KeyMethod(did, v[i], Len(e) + i)
  <2>1. ASSUME NEW i, NEW prefix \in {"E", "V"}, NEW k, did.parts[i] = Part(prefix, k),
               k.curve = DecodedCurve[prefix]
        PROVE  m(i) = KeyMethod(did, k, i)
    <3>1. did.parts[i].prefix = prefix /\ did.parts[i].content = k
      BY <2>1 DEF Part
    <3> QED
      BY <2>1, <3>1 DEF PeerMethod, KeyMethod
  <2>2. DecodedCurve["E"] = "X25519" /\ DecodedCurve["V"] = "Ed25519"
    BY DEF DecodedCurve
  <2> HIDE DEF m
  <2>3. \A i \in 1 .. Len(e) : m(i) = KeyMethod(did, e[i], i)
    <3> TAKE i \in 1 .. Len(e)
    <3>1. did.parts[i] = Part("E", e[i]) /\ e[i].curve = DecodedCurve["E"]
      BY <1>4, <1>5, <2>2
    <3> QED
      BY <2>1, <3>1
  <2>4. \A i \in 1 .. Len(v) : m(Len(e) + i) = KeyMethod(did, v[i], Len(e) + i)
    <3> TAKE i \in 1 .. Len(v)
    <3>1. did.parts[Len(e) + i] = Part("V", v[i]) /\ v[i].curve = DecodedCurve["V"]
      BY <1>4, <1>5, <2>2
    <3> QED
      BY <2>1, <3>1
  <2> QED
    BY <2>3, <2>4
<1>10. /\ \A i \in 1 .. Len(e) : i \in 1 .. Len(e) + Len(v)
       /\ \A i \in 1 .. Len(v) : Len(e) + i \in 1 .. Len(e) + Len(v)
  BY <1>5
<1> HIDE DEF m
<1>11. /\ \A i \in 1 .. Len(e) : Sound(KeyMethod(did, e[i], i))
       /\ \A i \in 1 .. Len(v) : Sound(KeyMethod(did, v[i], Len(e) + i))
  BY <1>8, <1>9, <1>10
<1> QED
  BY <1>1, <1>2, <1>4, <1>6, <1>8, <1>11 DEF e, v, keys

\* The services of a peer DID: of what encode abbreviates, decode restores the type
\* that is nothing but DIDCommMessaging.
Longer == DOMAIN Abbreviations \ {"DIDCommMessaging"}

LEMMA PeerServes ==
  ASSUME NEW services \in Seq(Services),
         \A s \in Range(services) : s.type.words # <<>> => FirstType(s.type) # Absent,
         NEW did, NEW served, served = DecodeService(did, Part("S", EncodeService(services)))
  PROVE  /\ Serves(served, Typed(services), Longer)
         /\ \A s \in Range(served) : Cloned(s, "service", Challenge).id.did \in {Challenge, Absent}
<1> DEFINE T == {s \in Services : s.type.words # <<>>}
           typed == Typed(services)
           n == Len(typed)
           code(s) == PeerServiceEncode(FirstType(s.type), s)
           of == [i \in DOMAIN typed |-> code(typed[i])]
<1>1. typed = Gathered(Pick(Services, T), services)
  <2>1. \A i \in DOMAIN services : services[i] \in Services
    OBVIOUS
  <2> QED
    BY <2>1 DEF Typed, Filtered, Gathered, Mapped, Pick
<1>2. typed \in Seq(Services) /\ Range(typed) = Range(services) \cap T
  <2> HIDE DEF T, typed
  <2> QED
    BY <1>1, PicksType
<1>3. Filtered(services, LAMBDA s : FirstType(s.type) # Absent) = typed
  <2>1. \A i \in DOMAIN services : (FirstType(services[i].type) # Absent) <=> (services[i].type.words # <<>>)
    <3> TAKE i \in DOMAIN services
    <3>1. services[i] \in Range(services)
      BY DEF Range
    <3>2. services[i].type.words = <<>> => FirstType(services[i].type) = Absent
      BY DEF FirstType
    <3> QED
      BY <3>1, <3>2
  <2>2. [i \in DOMAIN services |-> IF FirstType(services[i].type) # Absent THEN <<services[i]>> ELSE <<>>]
          = [i \in DOMAIN services |-> IF services[i].type.words # <<>> THEN <<services[i]>> ELSE <<>>]
    BY <2>1
  <2> QED
    BY <2>2 DEF Typed, Filtered
<1>4. EncodeService(services).of = of
  BY <1>3 DEF EncodeService, With, MapSeq
<1>5. Part("S", EncodeService(services)).content.of = of
  BY <1>4 DEF Part
<1> HIDE DEF typed
<1>6. DOMAIN typed = 1 .. n /\ n \in Nat /\ \A i \in 1 .. n : typed[i] \in Services /\ typed[i] \in T
  <2>1. DOMAIN typed = 1 .. n /\ n \in Nat /\ \A i \in 1 .. n : typed[i] \in Services
    BY <1>2
  <2>2. \A i \in 1 .. n : typed[i] \in Range(typed)
    BY <2>1 DEF Range
  <2> HIDE DEF T
  <2> QED
    BY <1>2, <2>1, <2>2
<1> DEFINE type(i) == PeerServiceDecode(of[i]).type
           uri(i) == PeerServiceDecode(of[i]).uri
<1>7. served = [i \in 1 .. n |-> Service(Id(did, <<type(i), i - 1>>), Type(TRUE, <<type(i)>>), uri(i))]
  BY <1>5, <1>6 DEF DecodeService
<1>8. ASSUME NEW i \in 1 .. n
      PROVE  /\ uri(i) = typed[i].uri
             /\ typed[i].type.list /\ typed[i].type.words[1] \notin Longer => type(i) = typed[i].type.words[1]
  <2> DEFINE s == typed[i]
             first == FirstType(s.type)
  <2>1. of[i] = PeerServiceEncode(first, s)
    BY <1>6
  <2>2. of[i].uri = s.uri /\ of[i].t = IF first \in DOMAIN Abbreviations THEN Abbreviations[first] ELSE first
    BY <2>1 DEF PeerServiceEncode
  <2>3. uri(i) = s.uri /\ type(i) = IF of[i].t = "dm" THEN "DIDCommMessaging" ELSE of[i].t
    BY <2>2 DEF PeerServiceDecode
  <2>4. s.type.list => first = s.type.words[1] /\ first # "dm"
    <3>1. s.type.words \in Seq(STRING \ {"dm"}) /\ s.type.words # <<>>
      BY <1>6 DEF Services
    <3>2. s.type.words[1] # "dm" /\ Head(s.type.words) = s.type.words[1]
      <4> DEFINE words == s.type.words
                 A == STRING \ {"dm"}
      <4>1. words \in Seq(A) /\ words # <<>>
        BY <3>1
      <4>2. "dm" \notin A
        OBVIOUS
      <4> HIDE DEF words, A
      <4>3. words[1] \in A /\ Head(words) = words[1]
        BY <4>1
      <4> QED
        BY <4>2, <4>3 DEF words
    <3> QED
      BY <3>1, <3>2 DEF FirstType
  <2> HIDE DEF of, type, uri, first
  <2>5. s.type.list /\ first \notin Longer /\ first # "dm" => type(i) = first
    BY <2>2, <2>3, AbbreviationsAssumption DEF Longer
  <2> QED
    BY <2>3, <2>4, <2>5
<1> HIDE DEF type, uri, of
<1>9. ASSUME NEW i \in 1 .. n
      PROVE  /\ served[i].uri = uri(i) /\ served[i].type.words[1] = type(i)
             /\ Cloned(served[i], "service", Challenge).id.did \in {Challenge, Absent}
  <2> DEFINE fragment == <<type(i), i - 1>>
             u == uri(i)
             list == Type(TRUE, <<type(i)>>)
  <2>1. list.words[1] = type(i)
    BY DEF Type
  <2>2. served[i] = Service(Id(did, fragment), list, u)
    BY <1>7
  <2> HIDE DEF fragment, list, u
  <2>3. served[i].uri = u /\ served[i].type = list
    BY <2>2 DEF Service
  <2>4. Cloned(served[i], "service", Challenge).id.did \in {Challenge, Absent}
    BY <2>2, ClonedService
  <2> QED
    BY <2>1, <2>3, <2>4 DEF u
<1>10. Len(served) = n /\ DOMAIN served = 1 .. n
  BY <1>6, <1>7
<1>11. Serves(served, typed, Longer)
  BY <1>6, <1>8, <1>9, <1>10 DEF Serves
<1> QED
  BY <1>9, <1>10, <1>11 DEF Range, typed

LEMMA PeerResolved ==
  ASSUME NEW p, NEW did, Of2(p, did), NEW answer, NEW doc, doc = ResolveDID(did, answer)
  PROVE  /\ doc # Thrown /\ Clones(doc)
         /\ Serves(ValuesOf(doc, "service"), Typed(p.services), Longer)
         /\ DocumentKeys(doc, "authentication") = Of(KeysFrom(p), "Ed25519")
         /\ DocumentKeys(doc, "keyAgreement") = Of(KeysFrom(p), "X25519")
         /\ IsInjective(MapSeq(LAMBDA m : m.id, ValuesOf(doc, "verificationMethod")))
<1> DEFINE keys == KeysFrom(p)
           e == Of(keys, "X25519")
           v == Of(keys, "Ed25519")
           es == KeyMethods(did, e, 0)
           vs == KeyMethods(did, v, Len(e))
           served == DecodeService(did, Part("S", EncodeService(p.services)))
<1>1. /\ p \in PayloadType /\ keys \in Seq(PublicKeys) /\ doc # Thrown
      /\ Lists(doc, vs, es, served)
      /\ \A i \in 1 .. Len(e) : Sound(KeyMethod(did, e[i], i))
      /\ \A i \in 1 .. Len(v) : Sound(KeyMethod(did, v[i], Len(e) + i))
  BY PeerKeys
<1> HIDE DEF keys
<1>2. /\ e \in Seq(PublicKeys) /\ Len(e) \in Nat /\ DOMAIN e = 1 .. Len(e)
      /\ v \in Seq(PublicKeys) /\ Len(v) \in Nat /\ DOMAIN v = 1 .. Len(v)
  BY <1>1, OfType
<1> HIDE DEF e, v, served
<1>3. ASSUME NEW i \in 1 .. Len(e)
      PROVE  PKInstance(es[i]) = e[i] /\ es[i].id = Id(did, <<"key", i>>) /\ SameUnder(es[i], Challenge)
  <2>1. e[i] \in PublicKeys /\ es[i] = KeyMethod(did, e[i], i) /\ Sound(es[i])
    BY <1>1, <1>2 DEF KeyMethods
  <2> HIDE DEF es
  <2> QED
    BY <2>1, KeyMethodHolds
<1>4. ASSUME NEW i \in 1 .. Len(v)
      PROVE  PKInstance(vs[i]) = v[i] /\ vs[i].id = Id(did, <<"key", Len(e) + i>>) /\ SameUnder(vs[i], Challenge)
  <2>1. v[i] \in PublicKeys /\ vs[i] = KeyMethod(did, v[i], Len(e) + i) /\ Sound(vs[i])
    BY <1>1, <1>2 DEF KeyMethods
  <2> HIDE DEF vs
  <2> QED
    BY <2>1, KeyMethodHolds
<1>5. DOMAIN es = 1 .. Len(e) /\ DOMAIN vs = 1 .. Len(v)
  BY <1>2 DEF KeyMethods
<1> HIDE DEF es, vs
<1>6. MapSeq(PKInstance, vs) = v /\ MapSeq(PKInstance, es) = e
  <2>1. MapSeq(PKInstance, vs) = [i \in 1 .. Len(v) |-> v[i]]
    BY <1>4, <1>5 DEF MapSeq
  <2>2. MapSeq(PKInstance, es) = [i \in 1 .. Len(e) |-> e[i]]
    BY <1>3, <1>5 DEF MapSeq
  <2>3. v = [i \in 1 .. Len(v) |-> v[i]] /\ e = [i \in 1 .. Len(e) |-> e[i]]
    BY <1>2
  <2> QED
    BY <2>1, <2>2, <2>3
<1>7. /\ Proper(doc) /\ ValuesOf(doc, "verificationMethod") = vs \o es
      /\ ValuesOf(doc, "authentication") = vs /\ ValuesOf(doc, "keyAgreement") = es
      /\ ValuesOf(doc, "service") = served
      /\ \A kind \in {"assertionMethod", "capabilityDelegation", "capabilityInvocation"} : ValuesOf(doc, kind) = <<>>
  BY <1>1 DEF Lists
<1>8. vs \in Seq(Range(vs)) /\ es \in Seq(Range(es))
  <2>1. vs \in [1 .. Len(v) -> Range(vs)]
    <3> DEFINE w == [i \in 1 .. Len(v) |-> KeyMethod(did, v[i], Len(e) + i)]
    <3>1. vs = w
      BY <1>2 DEF vs, KeyMethods
    <3> QED
      BY <3>1 DEF Range
  <2>2. es \in [1 .. Len(e) -> Range(es)]
    <3> DEFINE w == [i \in 1 .. Len(e) |-> KeyMethod(did, e[i], 0 + i)]
    <3>1. es = w
      BY <1>2 DEF es, KeyMethods
    <3> QED
      BY <3>1 DEF Range
  <2> QED
    BY <1>2, <2>1, <2>2, Sequenced
<1> DEFINE all == vs \o es
<1>9. /\ DOMAIN all = 1 .. (Len(v) + Len(e))
      /\ \A i \in 1 .. Len(v) : all[i] = vs[i]
      /\ \A i \in 1 .. (Len(v) + Len(e)) :
           i \notin 1 .. Len(v) => (i - Len(v)) \in 1 .. Len(e) /\ all[i] = es[i - Len(v)]
  <2> DEFINE X == Range(vs) \cup Range(es)
  <2>1. vs \in Seq(X) /\ es \in Seq(X) /\ Len(vs) = Len(v) /\ Len(es) = Len(e)
    BY <1>2, <1>5, <1>8
  <2> HIDE DEF X
  <2>2. DOMAIN all = 1 .. (Len(v) + Len(e))
    BY <1>2, <2>1
  <2>3. \A i \in 1 .. Len(v) : all[i] = vs[i]
    BY <1>2, <2>1
  <2>4. \A i \in 1 .. (Len(v) + Len(e)) : i \notin 1 .. Len(v) => (i - Len(v)) \in 1 .. Len(e)
    BY <1>2
  <2>5. \A i \in 1 .. (Len(v) + Len(e)) : i \notin 1 .. Len(v) => all[i] = es[i - Len(v)]
    BY <1>2, <2>1
  <2> QED
    BY <2>2, <2>3, <2>4, <2>5
<1> HIDE DEF all
<1>10. IsInjective(MapSeq(LAMBDA m : m.id, all))
  <2> DEFINE at(i) == IF i \in 1 .. Len(v) THEN Len(e) + i ELSE i - Len(v)
  <2>1. \A i \in DOMAIN all : all[i].id = Id(did, <<"key", at(i)>>)
    BY <1>3, <1>4, <1>9
  <2>2. \A i \in DOMAIN all, j \in DOMAIN all : at(i) = at(j) => i = j
    BY <1>2, <1>9
  <2> HIDE DEF at
  <2>a. ASSUME NEW a, NEW b, Id(did, <<"key", a>>) = Id(did, <<"key", b>>)
        PROVE  a = b
    <3>1. Id(did, <<"key", a>>).fragment[2] = a /\ Id(did, <<"key", b>>).fragment[2] = b
      BY DEF Id
    <3> QED
      BY <2>a, <3>1
  <2>3. \A i \in DOMAIN all, j \in DOMAIN all : all[i].id = all[j].id => i = j
    BY <2>1, <2>2, <2>a, Zenon
  <2> QED
    BY <2>3 DEF IsInjective, MapSeq
<1>11. p.services \in Seq(Services) /\ \A s \in Range(p.services) : s.type.words # <<>> => FirstType(s.type) # Absent
  <2>1. p.services \in Seq(Services)
    BY <1>1 DEF PayloadType, Services
  <2>2. p \in Offered /\ Created(p).did # Thrown /\ Created(p).did.method = "peer"
    <3>1. p \in Offered /\ did = Created(p).did /\ did # Thrown
      BY DEF Of2
    <3>2. did = CreatePeerDID(KeysFrom(p), p.services)
      BY PeerKeys
    <3>3. did.method = "peer"
      BY <1>1, <3>1, <3>2, PeerParts DEF keys
    <3> QED
      BY <3>1, <3>3
  <2> QED
    BY <2>1, <2>2, DocumentsAssumption
<1>12. /\ Serves(served, Typed(p.services), Longer)
       /\ \A s \in Range(served) : Cloned(s, "service", Challenge).id.did \in {Challenge, Absent}
  BY <1>11, PeerServes DEF served
<1>13. Clones(doc)
  <2>1. \A m \in Range(vs) \cup Range(es) : SameUnder(m, Challenge)
    BY <1>3, <1>4, <1>5 DEF Range
  <2>2. Range(all) \subseteq Range(vs) \cup Range(es)
    BY <1>5, <1>9 DEF Range
  <2>3. ASSUME NEW kind \in Kinds, kind # "service", NEW m \in Range(ValuesOf(doc, kind))
        PROVE  SameUnder(m, Challenge)
    <3>1. Range(<<>>) = {}
      BY DEF Range
    <3>2. ValuesOf(doc, kind) \in {all, vs, es, <<>>}
      BY <1>7, <2>3 DEF Kinds, Relationships, all
    <3> QED
      BY <2>1, <2>2, <2>3, <3>1, <3>2
  <2> QED
    BY <1>7, <1>12, <2>3, ClonesOf
<1> QED
  BY <1>1, <1>6, <1>7, <1>10, <1>12, <1>13 DEF DocumentKeys, all, keys, e, v

\* The DIDs are those that were created of what is offered.
DIDsCreated == \A d \in dids : d.of \in Offered /\ d = Created(d.of) /\ d.did # Thrown

LEMMA InitCreated == Init => DIDsCreated
<1> SUFFICES ASSUME Init, NEW d \in dids
             PROVE  d.of \in Offered /\ d = Created(d.of) /\ d.did # Thrown
  BY DEF DIDsCreated
<1>1. setup = "proofs"
  BY DEF Init
<1>2. PICK parties \in Parties : dids = {Created(parties.issuer), Created(parties.holder)}
  BY <1>1 DEF Init
<1>3. PICK p \in {parties.issuer, parties.holder} : d = Created(p)
  BY <1>2
<1>4. p \in Offered /\ Created(p).did # Thrown /\ Created(p).of = p
  BY <1>3, PartiesAssumption DEF Offered, Created
<1> QED
  BY <1>3, <1>4

LEMMA CreatedStays ==
  ASSUME DIDsCreated, [Next]_vars
  PROVE  DIDsCreated'
<1>1. CASE dids' = dids
  BY <1>1 DEF DIDsCreated
<1>2. ASSUME NEW p \in Payloads, CreateDID(p)
      PROVE  DIDsCreated'
  <2>1. dids' = dids \cup {Created(p)} /\ Created(p).did # Thrown
    BY <1>2 DEF CreateDID
  <2>2. Created(p).of = p /\ p \in Offered
    BY DEF Created, Offered
  <2> QED
    BY <2>1, <2>2 DEF DIDsCreated
<1>3. ASSUME NEW issuer, NEW holder, NEW claims, IssueOwn(issuer, holder, claims)
      PROVE  dids' = dids
  BY <1>3 DEF IssueOwn, Issue
<1>4. ASSUME NEW d, NEW form, NEW again, Publish(d, form, again)
      PROVE  dids' = dids
  BY <1>4 DEF Publish
<1>5. ASSUME NEW key, Make(key)
      PROVE  dids' = dids
  BY <1>5 DEF Make
<1>6. ASSUME NEW issuer, NEW holder, NEW claims, NEW status, NEW given,
             IssueFramed(issuer, holder, claims, status, given)
      PROVE  dids' = dids
  BY <1>6 DEF IssueFramed, Issue
<1>7. ASSUME NEW thid, NEW request, RequestPresentation(thid, request)
      PROVE  dids' = dids
  BY <1>7 DEF RequestPresentation
<1>8. ASSUME NEW token, NEW i, NEW frame, NEW oea, CreatePresentation(token, i, frame, oea)
      PROVE  dids' = dids
  BY <1>8 DEF CreatePresentation
<1>9. ASSUME NEW s, Verify(s)
      PROVE  dids' = dids
  BY <1>9 DEF Verify
<1>10. CASE UNCHANGED vars
  BY <1>1, <1>10 DEF vars
<1> QED
  BY <1>1, <1>2, <1>3, <1>4, <1>5, <1>6, <1>7, <1>8, <1>9, <1>10 DEF Next, MakeKey, DeriveKey

LEMMA CreatedMethod ==
  ASSUME NEW d, d.of \in Offered, d = Created(d.of), d.did # Thrown
  PROVE  /\ d.did.method \in {"prism", "peer"}
         /\ d.did.method = "prism" => Of1(d.of, d.did)
         /\ d.did.method = "peer" => Of2(d.of, d.did)
<1> DEFINE p == d.of
           did == d.did
<1>1. /\ p \in PayloadType /\ p \in Offered /\ p.method \in {"prism", "peer"}
      /\ did = Created(p).did /\ did # Thrown
  <2>1. p \in PayloadType
    BY PayloadsAssumption
  <2> QED
    BY <2>1 DEF PayloadType
<1> HIDE DEF p, did
<1>2. CASE p.method = "prism"
  <2>1. did = PrismCreate(PublicPayload(p), p.services)
    BY <1>1, <1>2 DEF Created, Create
  <2>2. did.method = "prism"
    BY <1>1, <2>1 DEF PrismCreate, LongForm
  <2> QED
    BY <1>1, <1>2, <2>2 DEF Of1, p, did
<1>3. CASE p.method = "peer"
  <2>1. Of2(p, did)
    BY <1>1, <1>3 DEF Of2
  <2>2. KeysFrom(p) \in Seq(PublicKeys) /\ did = CreatePeerDID(KeysFrom(p), p.services)
    BY <2>1, PeerKeys
  <2>3. did.method = "peer"
    BY <1>1, <2>2, PeerParts
  <2> QED
    BY <2>1, <2>3 DEF p, did
<1> QED
  BY <1>1, <1>2, <1>3

\* A DID that is created, whatever of, resolves to each key under the relationship
\* of its usage and under no other, and to the services; under another DID the
\* document keeps them.
THEOREM ResolvedCorrect == Spec => []ResolvedIsCreated
<1>1. Init => DIDsCreated
  BY InitCreated
<1>2. DIDsCreated /\ [Next]_vars => DIDsCreated'
  BY CreatedStays
<1>3. DIDsCreated => ResolvedIsCreated
  <2> SUFFICES ASSUME DIDsCreated, NEW d \in dids, NEW doc, doc = ResolveDID(d.did, Absent)
               PROVE  /\ doc # Thrown
                      /\ IF d.did.method = "prism"
                         THEN /\ HasPurposes(doc, d.of) /\ ListsMethods(doc, d.of)
                              /\ Serves(ValuesOf(doc, "service"), d.of.services, {})
                         ELSE /\ Serves(ValuesOf(doc, "service"), Typed(d.of.services), Longer)
                              /\ DocumentKeys(doc, "authentication") = Of(KeysFrom(d.of), "Ed25519")
                              /\ DocumentKeys(doc, "keyAgreement") = Of(KeysFrom(d.of), "X25519")
                              /\ IsInjective(MapSeq(LAMBDA m : m.id, ValuesOf(doc, "verificationMethod")))
                      /\ Clones(doc)
    BY Zenon DEF ResolvedIsCreated, Clones, KeysFrom, Longer
  <2>1. d.of \in Offered /\ d = Created(d.of) /\ d.did # Thrown
    BY DEF DIDsCreated
  <2>2. CASE d.did.method = "prism"
    <3>1. Of1(d.of, d.did)
      BY <2>1, <2>2, CreatedMethod
    <3> QED
      BY <2>2, <3>1, PrismResolved
  <2>3. CASE d.did.method # "prism"
    <3>1. Of2(d.of, d.did)
      BY <2>1, <2>3, CreatedMethod
    <3> QED
      BY <2>3, <3>1, PeerResolved
  <2> QED
    BY <2>2, <2>3
<1> QED
  BY <1>1, <1>2, <1>3, PTL DEF Spec

\* A method of a registry's document holds its key too, as multibase or as JWK.
LEMMA ECKey ==
  ASSUME NEW k \in PublicKeys, k.curve = "secp256k1",
         NEW m, m.publicKeyMultibase = Absent, m.publicKeyJwk # Absent, m.publicKeyJwk.kty = "EC",
         m.publicKeyJwk.crv = k.curve, m.publicKeyJwk.x = k.pair, m.publicKeyJwk.y = k.pair
  PROVE  PKInstance(m) = k
<1> DEFINE given == [kty |-> m.publicKeyJwk.kty, crv |-> m.publicKeyJwk.crv,
                     x |-> m.publicKeyJwk.x, y |-> m.publicKeyJwk.y, d |-> Absent]
           half == [public |-> k, private |-> Absent]
<1>1. given.kty = "EC" /\ given.crv = k.curve /\ given.x = k.pair /\ given.y = k.pair /\ given.d = Absent
  OBVIOUS
<1>2. /\ k.pair # Absent /\ k # Thrown /\ k = Key(k.curve, k.pair) /\ k.curve \in Curves
  BY OutcomesAssumption DEF PublicKeys, Key
<1>3. half # Thrown
  <2>1. half \in [public : PublicKeys, private : PrivateKeys \cup {Absent}]
    OBVIOUS
  <2> HIDE DEF half
  <2> QED
    BY <2>1, OutcomesAssumption
<1> HIDE DEF given
<1>4. CreatePublicKey(k.curve, Absent, k.pair, k.pair) = k
  BY <1>2 DEF CreatePublicKey
<1>5. FromJWK(given) = half
  BY <1>1, <1>2, <1>4 DEF FromJWK
<1>6. half.public = k
  OBVIOUS
<1> HIDE DEF half
<1>7. PKInstance(m) = Then(FromJWK(given), LAMBDA h : h.public)
  BY DEF PKInstance, given
<1> QED
  BY <1>3, <1>5, <1>6, <1>7 DEF Then

LEMMA UsageBack ==
  ASSUME NEW u \in PrismDIDKeyUsage, NEW n
  PROVE  UsageFromId(UsageId(u, n)) = u
<1> DEFINE fragment == UsageId(u, n)
<1>1. fragment[1] = UsageWord[u] /\ UsageWord[u] \in Range(UsageWord)
  BY DEF UsageId, PrismDIDKeyUsage, Range
<1> HIDE DEF fragment
<1>2. \A v \in PrismDIDKeyUsage : UsageWord[v] = fragment[1] => v = u
  BY <1>1, WordsDiffer
<1>3. UsageFromId(fragment) = CHOOSE v \in PrismDIDKeyUsage : UsageWord[v] = fragment[1]
  BY <1>1 DEF UsageFromId
<1> QED
  BY <1>1, <1>2, <1>3 DEF fragment

LEMMA RegistryJWK ==
  ASSUME NEW k \in PublicKeys, NEW half, half = PublicJWK(k, FALSE)
  PROVE  /\ half.crv = k.curve /\ half.x = k.pair
         /\ k.curve = "secp256k1" => half.kty = "EC" /\ half.y = k.pair
         /\ k.curve # "secp256k1" => half.kty = "OKP"
BY DEF PublicJWK, JWK

\* What the forms of a registry's method have in common, and what only those have
\* that give the key as multibase, or that can be published again.
Multibase == {"multibase", "compressed"}
Republished == {"multibase", "jwk"}
RegistryMethodIs(m, did, x, form) ==
  /\ PKInstance(m) = x.key /\ m.id = Id(did, x.id)
  /\ form \in Republished => KeyFromMethod(m) \in {Thrown, x}
  /\ form \in Multibase => HoldsPoint(m, x.key)
  /\ form \notin Multibase => m.publicKeyMultibase = Absent

LEMMA RegistryMethodHolds ==
  ASSUME NEW did, NEW x \in Protos, NEW form \in Forms, NEW m, m = RegistryMethod(did, x, form),
         form \notin Multibase => m.publicKeyJwk # Absent
  PROVE  RegistryMethodIs(m, did, x, form)
<1> DEFINE k == x.key
           half == PublicJWK(k, FALSE)
           id == Id(did, x.id)
           jwk == [kty |-> half.kty, crv |-> half.crv, x |-> half.x, y |-> half.y, kid |-> id]
           bytes == IF form = "compressed" THEN Compressed(k) ELSE k
           type == MethodType[k.curve]
<1>1. /\ k \in PublicKeys /\ k # Absent /\ k = Key(k.curve, k.pair)
      /\ \E u \in PrismDIDKeyUsage, n \in Nat : x = CreateProtos(k, u, n)
  BY ProtoKey
<1>2. PICK u \in PrismDIDKeyUsage, n \in Nat : x = CreateProtos(k, u, n)
  BY <1>1
<1>3. x.id = UsageId(u, n)
  BY <1>2 DEF CreateProtos
<1>4. x.id[2] = n /\ UsageFromId(x.id) = u
  BY <1>3, UsageBack DEF UsageId
<1> HIDE DEF k
<1>5. id.fragment = x.id /\ jwk.kty = half.kty /\ jwk.crv = half.crv /\ jwk.x = half.x /\ jwk.y = half.y
  BY DEF Id
<1>9. bytes \in {k, Compressed(k)} /\ (form = "multibase" => bytes = k)
  OBVIOUS
<1> HIDE DEF half, jwk, id, type, bytes
<1>6. CreateProtos(k, UsageFromId(x.id), x.id[2]) = x
  BY <1>2, <1>4
<1>7. CASE form \in Multibase
  <2>1. m = VerificationMethod(id, did, type, Absent, bytes)
    BY <1>7 DEF RegistryMethod, Multibase, k, id, type, bytes
  <2>2. m.id = id /\ m.type = type /\ m.publicKeyJwk = Absent /\ m.publicKeyMultibase = bytes
    BY <2>1 DEF VerificationMethod
  <2>3. /\ PKInstance(m) = k /\ HoldsPoint(m, k)
        /\ bytes = k => MultibaseBytes(m) = k
    BY <1>1, <1>9, <2>2, MultibaseKey DEF type
  <2>4. form = "multibase" => KeyFromMethod(m) \in {Thrown, CreateProtos(k, UsageFromId(x.id), x.id[2])}
    BY <1>5, <1>9, <2>2, <2>3 DEF KeyFromMethod
  <2>5. form \in Republished => form = "multibase"
    BY <1>7 DEF Multibase, Republished
  <2> QED
    BY <1>6, <1>7, <2>2, <2>3, <2>4, <2>5 DEF RegistryMethodIs, k, id
<1>8. CASE form \notin Multibase
  <2>1. m = VerificationMethod(id, did, "JsonWebKey2020", jwk, Absent)
    BY <1>8 DEF RegistryMethod, Multibase, k, id, jwk, half
  <2>2. m.id = id /\ m.publicKeyJwk = jwk /\ m.publicKeyMultibase = Absent
    BY <2>1 DEF VerificationMethod
  <2>3. /\ jwk.crv = k.curve /\ jwk.x = k.pair
        /\ k.curve = "secp256k1" => jwk.kty = "EC" /\ jwk.y = k.pair
        /\ k.curve # "secp256k1" => jwk.kty = "OKP"
    BY <1>1, <1>5, RegistryJWK DEF half
  <2>4. PKInstance(m) = k
    <3>1. CASE k.curve = "secp256k1"
      BY <1>1, <1>8, <2>2, <2>3, <3>1, ECKey
    <3>2. CASE k.curve # "secp256k1"
      BY <1>1, <1>8, <2>2, <2>3, <3>2, OKPKey
    <3> QED
      BY <3>1, <3>2
  <2>5. KeyFromMethod(m) \in {Thrown, CreateProtos(Key(jwk.crv, jwk.x), UsageFromId(x.id), x.id[2])}
    BY <1>5, <1>8, <2>2 DEF KeyFromMethod
  <2>6. Key(jwk.crv, jwk.x) = k
    BY <1>1, <2>3
  <2> QED
    BY <1>6, <1>8, <2>2, <2>4, <2>5, <2>6 DEF RegistryMethodIs, k, id
<1> QED
  BY <1>7, <1>8

LEMMA OperationMethodHolds ==
  ASSUME NEW did, NEW x \in Protos, NEW m, m = PrismMethod(did, x)
  PROVE  KeyFromMethod(m) \in {Thrown, x}
<1> DEFINE k == x.key
           id == Id(did, x.id)
           type == MethodType[k.curve]
<1>1. /\ k # Absent /\ MapToPublicKey(x) = k
      /\ \E u \in PrismDIDKeyUsage, n \in Nat : x = CreateProtos(k, u, n)
  BY ProtoKey
<1>2. PICK u \in PrismDIDKeyUsage, n \in Nat : x = CreateProtos(k, u, n)
  BY <1>1
<1>3. x.id = UsageId(u, n)
  BY <1>2 DEF CreateProtos
<1>4. x.id[2] = n /\ UsageFromId(x.id) = u
  BY <1>3, UsageBack DEF UsageId
<1> HIDE DEF k
<1>5. id.fragment = x.id
  BY DEF Id
<1> HIDE DEF id, type
<1>6. CreateProtos(k, UsageFromId(x.id), x.id[2]) = x
  BY <1>2, <1>4
<1>7. m = VerificationMethod(id, did, type, Absent, k)
  BY <1>1 DEF PrismMethod, k, id, type
<1>8. m.id = id /\ m.publicKeyJwk = Absent
  BY <1>7 DEF VerificationMethod
<1>9. MultibaseBytes(m) = k
  BY PrismMethodHolds DEF k
<1> QED
  BY <1>5, <1>6, <1>8, <1>9 DEF KeyFromMethod

\* What only one element gives anything to is what that element gives.
LEMMA GatheredOnce ==
  ASSUME NEW S, NEW T, NEW f \in Maps(S, Seq(T)), NEW s \in Seq(S), NEW i \in DOMAIN s,
         \A j \in DOMAIN s : j # i => f[s[j]] = <<>>
  PROVE  Gathered(f, s) = f[s[i]]
<1> DEFINE Only(t, k) == \A j \in DOMAIN t : j # k => f[t[j]] = <<>>
           Good(t) == /\ Only(t, 0) => Gathered(f, t) = <<>>
                      /\ \A k \in DOMAIN t : Only(t, k) => Gathered(f, t) = f[t[k]]
           N == {t \in Seq(S) : Good(t)}
<1>1. <<>> \in N
  <2>1. Gathered(f, <<>>) = <<>> /\ <<>> \in Seq(S)
    BY GatheredEmpty
  <2> QED
    BY <2>1
<1>2. ASSUME NEW t \in Seq(S), NEW e \in S, t \in N
      PROVE  Append(t, e) \in N
  <2> DEFINE u == Append(t, e)
             n == Len(t) + 1
  <2>1. /\ u \in Seq(S) /\ DOMAIN u = 1 .. n /\ DOMAIN t = 1 .. Len(t) /\ u[n] = e /\ Len(t) \in Nat
        /\ \A j \in 1 .. Len(t) : u[j] = t[j]
    OBVIOUS
  <2>2. Gathered(f, u) = Gathered(f, t) \o f[e]
    BY GatheredAppend
  <2>3. /\ f[e] \in Seq(T) /\ \A k \in DOMAIN t : f[t[k]] \in Seq(T)
    <3>1. \A k \in DOMAIN t : t[k] \in S
      OBVIOUS
    <3> QED
      BY <3>1 DEF Maps
  <2>4. \A a \in Seq(T) : <<>> \o a = a /\ a \o <<>> = a
    OBVIOUS
  <2>5. <<>> \o <<>> = <<>>
    OBVIOUS
  <2> HIDE DEF u
  <2>6. ASSUME NEW k, Only(u, k)
        PROVE  /\ k # n => f[e] = <<>>
               /\ Only(t, k)
               /\ k \notin DOMAIN t => Only(t, 0)
    <3>1. \A j \in 1 .. n : j # k => f[u[j]] = <<>>
      BY <2>1, <2>6
    <3>2. k # n => f[e] = <<>>
      BY <2>1, <3>1
    <3>3. \A j \in 1 .. Len(t) : j # k => f[t[j]] = <<>>
      BY <2>1, <3>1
    <3> QED
      BY <2>1, <3>2, <3>3
  <2>7. ASSUME Only(u, 0)
        PROVE  Gathered(f, u) = <<>>
    <3>1. f[e] = <<>> /\ Only(t, 0)
      BY <2>1, <2>6, <2>7
    <3>2. Gathered(f, t) = <<>>
      BY <1>2, <3>1
    <3> QED
      BY <2>2, <2>5, <3>1, <3>2
  <2>8. ASSUME NEW k \in DOMAIN u, Only(u, k)
        PROVE  Gathered(f, u) = f[u[k]]
    <3>1. CASE k = n
      <4>1. Only(t, 0)
        BY <2>1, <2>6, <2>8, <3>1
      <4>2. Gathered(f, t) = <<>>
        BY <1>2, <4>1
      <4> QED
        BY <2>1, <2>2, <2>3, <2>4, <3>1, <4>2
    <3>2. CASE k # n
      <4>1. f[e] = <<>> /\ Only(t, k) /\ k \in DOMAIN t /\ u[k] = t[k]
        BY <2>1, <2>6, <2>8, <3>2
      <4>2. Gathered(f, t) = f[t[k]] /\ f[t[k]] \in Seq(T)
        BY <1>2, <2>3, <4>1
      <4> QED
        BY <2>2, <2>4, <4>1, <4>2
    <3> QED
      BY <3>1, <3>2
  <2> HIDE DEF Only
  <2>9. Good(u)
    BY <2>7, <2>8
  <2> HIDE DEF Good
  <2> QED
    BY <2>1, <2>9 DEF u
<1> HIDE DEF N
<1>3. Seq(S) \subseteq N
  BY <1>1, <1>2, SeqInduction
<1>4. s \in N
  BY <1>3
<1> QED
  BY <1>4 DEF N

IsSeven(all, X, first, a, b) ==
  /\ all \in Seq(X) /\ DOMAIN all = 1 .. 7 /\ all[6] = a /\ all[7] = b
  /\ \A i \in 1 .. 5 : all[i] = first[i]

LEMMA AppendTwo ==
  ASSUME NEW X, NEW first \in Maps(1 .. 5, X), NEW a \in X, NEW b \in X
  PROVE  IsSeven(first \o <<a, b>>, X, first, a, b)
<1> SUFFICES ASSUME NEW all, all = first \o <<a, b>>
             PROVE  IsSeven(all, X, first, a, b)
  OBVIOUS
<1>1. first \in Seq(X) /\ Len(first) = 5
  BY Sequenced DEF Maps
<1> DEFINE last == <<a, b>>
<1>2. last \in Seq(X) /\ Len(last) = 2 /\ last[1] = a /\ last[2] = b
  OBVIOUS
<1>6. all = first \o last
  OBVIOUS
<1> HIDE DEF last
<1>7. /\ first \o last \in Seq(X) /\ Len(first \o last) = Len(first) + Len(last)
      /\ \A i \in 1 .. Len(first) + Len(last) :
           (first \o last)[i] = IF i <= Len(first) THEN first[i] ELSE last[i - Len(first)]
  BY ONLY <1>1, <1>2, ConcatProperties
<1>8. /\ all \in Seq(X) /\ Len(all) = 5 + 2
      /\ \A i \in 1 .. 5 + 2 : all[i] = IF i <= 5 THEN first[i] ELSE last[i - 5]
  BY ONLY <1>1, <1>2, <1>6, <1>7, Zenon
<1>3. all \in Seq(X) /\ Len(all) = 7
  BY ONLY <1>8
<1>4. all[6] = a /\ all[7] = b
  BY ONLY <1>2, <1>8
<1>5. \A i \in 1 .. 5 : all[i] = first[i]
  BY ONLY <1>8
<1> QED
  BY <1>3, <1>4, <1>5 DEF IsSeven

\* What is read from a registry's answer, kind by kind.
LEMMA JSONValues ==
  ASSUME NEW W, NEW json, NEW doc, doc = FromJSON(json),
         \A r \in Relationships :
           ParseVerificationMethodGroup(json[r], json.verificationMethod) \in Seq(W),
         json.service \in Seq(W), json.verificationMethod \in Seq(W)
  PROVE  /\ \A r \in Relationships :
              ValuesOf(doc, r) = ParseVerificationMethodGroup(json[r], json.verificationMethod)
         /\ ValuesOf(doc, "service") = json.service
         /\ ValuesOf(doc, "verificationMethod") = json.verificationMethod
<1> DEFINE Parsed(kind) == ParseVerificationMethodGroup(json[kind], json.verificationMethod)
           values(kind) == IF kind = "service" THEN json.service
                           ELSE IF kind = "verificationMethod" THEN json.verificationMethod
                           ELSE Parsed(kind)
           rs == <<"authentication", "capabilityInvocation", "capabilityDelegation",
                   "assertionMethod", "keyAgreement">>
           ks == <<"authentication", "capabilityInvocation", "capabilityDelegation",
                   "assertionMethod", "keyAgreement", "service", "verificationMethod">>
           ps == doc.coreProperties
           first == MapSeq(LAMBDA kind : Property(kind, Parsed(kind)), rs)
           service == Property("service", json.service)
           methods == Property("verificationMethod", json.verificationMethod)
           last == <<service, methods>>
<1>1. ps = first \o last
  BY DEF FromJSON, Document
<1>2. /\ DOMAIN first = 1 .. 5 /\ \A i \in 1 .. 5 : first[i] = Property(rs[i], Parsed(rs[i]))
  BY DEF MapSeq
<1>3. \A i \in 1 .. 5 : rs[i] \in Relationships /\ rs[i] = ks[i]
  BY DEF Relationships
<1>4. /\ Kinds = {ks[i] : i \in 1 .. 7} /\ ks[6] = "service" /\ ks[7] = "verificationMethod"
      /\ \A r \in Relationships : r # "service" /\ r # "verificationMethod" /\ r \in Kinds
      /\ \A i, j \in 1 .. 7 : ks[i] = ks[j] => i = j
  BY DEF Kinds, Relationships
<1> HIDE DEF rs, ks
<1>5. \A kind \in Kinds : values(kind) \in Seq(W)
  BY DEF Kinds
<1>6. \A i \in 1 .. 5 : first[i] = Property(ks[i], values(ks[i]))
  BY <1>2, <1>3, <1>4
<1>7. service = Property(ks[6], values(ks[6])) /\ methods = Property(ks[7], values(ks[7]))
  BY <1>4
<1> HIDE DEF first, service, methods, values
<1> DEFINE X == Properties(W)
           entry(kind) == Property(kind, values(kind))
<1>12. \A kind \in Kinds : entry(kind) \in X
  <2>1. \A k \in Kinds : \A w \in Seq(W) : Property(k, w) \in X
    BY PropertyType
  <2> QED
    BY ONLY <1>5, <2>1
<1>13. \A i \in 1 .. 7 : entry(ks[i]) \in X
  BY ONLY <1>4, <1>12
<1>14. first \in Maps(1 .. 5, X) /\ service \in X /\ methods \in X
  <2> HIDE DEF X
  <2>1. first = [i \in 1 .. 5 |-> entry(ks[i])]
    BY <1>2, <1>6 DEF first, MapSeq
  <2> HIDE DEF entry
  <2> QED
    BY ONLY <1>7, <1>13, <2>1 DEF entry, Maps
<1>8. ps = [i \in 1 .. 7 |-> entry(ks[i])] /\ ps \in Seq(X)
  <2>1. /\ ps \in Seq(X) /\ DOMAIN ps = 1 .. 7 /\ ps[6] = service /\ ps[7] = methods
        /\ \A i \in 1 .. 5 : ps[i] = first[i]
    <3> HIDE DEF X, ps
    <3>1. IsSeven(first \o <<service, methods>>, X, first, service, methods)
      BY ONLY <1>14, AppendTwo
    <3>2. IsSeven(ps, X, first, service, methods)
      BY ONLY <1>1, <3>1, Zenon
    <3> QED
      BY ONLY <3>2 DEF IsSeven
  <2>2. \A i \in 1 .. 7 : ps[i] = entry(ks[i])
    BY ONLY <1>6, <1>7, <2>1
  <2> HIDE DEF ps, X, entry
  <2> QED
    BY ONLY <2>1, <2>2
<1>9. ps \in Seq(X) /\ DOMAIN ps = 1 .. 7
  BY ONLY <1>8
<1> HIDE DEF X
<1>10. ASSUME NEW i \in 1 .. 7
       PROVE  ValuesOf(doc, ks[i]) = values(ks[i])
  <2> DEFINE f == OfKind(W, ks[i])
  <2>1. \A j \in 1 .. 7 : /\ ps[j] \in X /\ ps[j].kind = ks[j] /\ ps[j].values = values(ks[j])
    <3> HIDE DEF ps
    <3>1. \A j \in 1 .. 7 : ps[j] \in X /\ ps[j] = entry(ks[j])
      BY ONLY <1>8, <1>9
    <3>2. \A kind : entry(kind).kind = kind /\ entry(kind).values = values(kind)
      BY DEF Property
    <3> HIDE DEF entry
    <3> QED
      BY ONLY <3>1, <3>2
  <2>2. \A j \in 1 .. 7 : f[ps[j]] = IF j = i THEN values(ks[i]) ELSE <<>>
    BY ONLY <1>4, <2>1 DEF OfKind, X
  <2>3. f \in Maps(X, Seq(W))
    BY OfKindType DEF X
  <2>4. ValuesOf(doc, ks[i]) = Gathered(f, ps)
    BY <1>9, ValuesGathered DEF X
  <2> HIDE DEF f, ps
  <2>5. ps \in Seq(X) /\ i \in DOMAIN ps /\ \A j \in DOMAIN ps : j # i => f[ps[j]] = <<>>
    BY ONLY <1>9, <2>2
  <2>6. Gathered(f, ps) = f[ps[i]]
    BY <2>3, <2>5, GatheredOnce
  <2> QED
    BY <2>2, <2>4, <2>6
<1>11. \A kind \in Kinds : ValuesOf(doc, kind) = values(kind)
  BY <1>4, <1>10
<1> QED
  BY <1>4, <1>11 DEF values, Kinds

\* What a registry's document refers to is found by its id.
EntryOf(did, x, form) ==
  IF form = "embedded" THEN [embedded |-> RegistryMethod(did, x, form), ref |-> Absent]
  ELSE [embedded |-> Absent, ref |-> Id(did, x.id)]
Identified(M, keys, did) ==
  /\ \A x \in Range(keys) : M[x] # Absent /\ M[x].id = Id(did, x.id)
  /\ \A i, j \in DOMAIN keys : keys[i].id = keys[j].id => i = j

LEMMA EntryFound ==
  ASSUME NEW did, NEW form \in Forms, NEW M, M = [x \in Protos |-> RegistryMethod(did, x, form)],
         NEW keys \in Seq(Protos), Identified(M, keys, did), NEW x \in Range(keys),
         NEW available, form # "embedded" => available = Mapped(M, keys)
  PROVE  MethodOf(EntryOf(did, x, form), available) = <<M[x]>>
<1> DEFINE n == Len(keys)
<1>1. n \in Nat /\ DOMAIN keys = 1 .. n /\ x \in Protos
  BY DEF Range
<1>2. PICK i \in 1 .. n : keys[i] = x
  BY <1>1 DEF Range
<1>3. M[x] = RegistryMethod(did, x, form) /\ M[x] # Absent /\ M[x].id = Id(did, x.id)
  BY <1>1 DEF Identified
<1>4. CASE form = "embedded"
  <2> DEFINE entry == EntryOf(did, x, form)
  <2>1. entry.embedded = M[x]
    BY <1>3, <1>4 DEF EntryOf
  <2> HIDE DEF entry
  <2> QED
    BY <1>3, <2>1 DEF MethodOf, entry
<1>5. CASE form # "embedded"
  <2> DEFINE entry == EntryOf(did, x, form)
             id == Id(did, x.id)
             I == {j \in 1 .. Len(available) : available[j].id = id}
  <2>1. entry.embedded = Absent /\ entry.ref = id
    BY <1>5 DEF EntryOf
  <2> HIDE DEF entry
  <2>2. Len(available) = n /\ \A j \in 1 .. n : available[j] = M[keys[j]]
    <3> DEFINE all == Mapped(M, keys)
    <3>1. Len(all) = n /\ \A j \in 1 .. n : all[j] = M[keys[j]]
      BY <1>1 DEF Mapped
    <3>2. available = all
      BY <1>5
    <3> HIDE DEF all
    <3> QED
      BY <3>1, <3>2, Zenon
  <2>3. \A j \in 1 .. n : available[j].id = Id(did, keys[j].id)
    <3>1. \A j \in 1 .. n : keys[j] \in Range(keys)
      BY <1>1 DEF Range
    <3> QED
      BY <2>2, <3>1 DEF Identified
  <2>4. \A j \in 1 .. n : available[j].id = id => j = i
    <3>1. \A a, b : Id(did, a) = Id(did, b) => a = b
      <4> TAKE a, b
      <4>1. Id(did, a).fragment = a /\ Id(did, b).fragment = b
        BY DEF Id
      <4> QED
        BY <4>1
    <3>2. \A j \in 1 .. n : keys[j].id = keys[i].id => j = i
      BY <1>1, <1>2 DEF Identified
    <3> QED
      BY <1>2, <2>3, <3>1, <3>2
  <2>5. available[i].id = id /\ available[i] = M[x]
    BY <1>2, <2>2, <2>3
  <2>6. I = {i}
    BY <1>1, <2>2, <2>4, <2>5
  <2>7. Min(I) = i
    <3>1. i \in I /\ I \subseteq Nat /\ \A j \in I : i <= j
      BY <1>1, <2>6
    <3> HIDE DEF I
    <3> QED
      BY <3>1, MinIs
  <2>8. SelectInSeq(available, LAMBDA m : m.id = id) = i
    BY <2>6, <2>7 DEF SelectInSeq
  <2>9. SelectInSeq(available, LAMBDA m : m.id = entry.ref) = SelectInSeq(available, LAMBDA m : m.id = id)
    BY <2>1
  <2>10. i # 0
    BY <1>1
  <2> HIDE DEF id, I
  <2>11. MethodOf(entry, available) = <<available[i]>>
    BY <2>1, <2>8, <2>9, <2>10 DEF MethodOf
  <2> QED
    BY <2>5, <2>11 DEF entry
<1> QED
  BY <1>4, <1>5

LEMMA GroupParsed ==
  ASSUME NEW did, NEW form \in Forms, NEW M, M = [x \in Protos |-> RegistryMethod(did, x, form)],
         NEW keys \in Seq(Protos), Identified(M, keys, did),
         NEW s \in Seq(Protos), Range(s) \subseteq Range(keys),
         NEW entries, entries = [i \in DOMAIN s |-> EntryOf(did, s[i], form)],
         NEW available, form # "embedded" => available = Mapped(M, keys)
  PROVE  ParseVerificationMethodGroup(entries, available) = Mapped(M, s)
<1> DEFINE W == {M[x] : x \in Protos}
           f == Mapped(M, s)
<1>1. \A i \in DOMAIN s : MethodOf(entries[i], available) = <<M[s[i]]>>
  <2> TAKE i \in DOMAIN s
  <2>1. entries[i] = EntryOf(did, s[i], form) /\ s[i] \in Range(keys)
    BY DEF Range
  <2>2. MethodOf(EntryOf(did, s[i], form), available) = <<M[s[i]]>>
    BY <2>1, EntryFound
  <2> QED
    BY <2>1, <2>2
<1>2. ParseVerificationMethodGroup(entries, available) = FlattenSeq([i \in DOMAIN s |-> <<M[s[i]]>>])
  BY <1>1 DEF ParseVerificationMethodGroup
<1>3. f \in Seq(W) /\ DOMAIN f = DOMAIN s /\ \A i \in DOMAIN s : f[i] = M[s[i]]
  <2> DEFINE n == Len(s)
  <2>1. n \in Nat /\ DOMAIN s = 1 .. n /\ \A i \in 1 .. n : s[i] \in Protos
    OBVIOUS
  <2>2. f = [i \in 1 .. n |-> M[s[i]]] /\ \A i \in 1 .. n : M[s[i]] \in W
    BY <2>1 DEF Mapped
  <2> HIDE DEF n, W
  <2>3. f \in [1 .. n -> W]
    BY <2>2
  <2>4. f \in Seq(W)
    BY <2>1, <2>3, Sequenced
  <2> QED
    BY <2>1, <2>2, <2>4
<1> HIDE DEF f, W
<1>4. Mapped(Pick(W, W), f) = [i \in DOMAIN s |-> <<M[s[i]]>>]
  <2>1. \A i \in DOMAIN s : f[i] \in W
    BY <1>3
  <2> QED
    BY <1>3, <2>1 DEF Mapped, Pick
<1>5. Gathered(Pick(W, W), f) = f
  <2>1. Range(f) \subseteq W
    BY <1>3 DEF Range
  <2> QED
    BY <1>3, <2>1, PickAll
<1> QED
  BY <1>2, <1>4, <1>5 DEF Gathered, f

\* What a registry makes of the operation resolves to the keys of the operation.
RegistryMethods(did, form) == [x \in Protos |-> RegistryMethod(did, x, form)]
Of3(p, did, short, form) ==
  /\ Of1(p, did) /\ short = ShortForm(did) /\ form \in Forms

LEMMA WordFilter ==
  ASSUME NEW keys \in Seq(Protos), NEW usage \in PrismDIDKeyUsage
  PROVE  Filtered(keys, LAMBDA x : x.id[1] = UsageWord[usage]) = KeysUsedFor(keys, usage)
<1>1. ASSUME NEW i \in DOMAIN keys
      PROVE  (keys[i].id[1] = UsageWord[usage]) <=> (keys[i].usage = usage)
  <2>1. keys[i] \in Protos
    OBVIOUS
  <2>2. PICK k \in PublicKeys, u \in PrismDIDKeyUsage, n \in Nat : keys[i] = CreateProtos(k, u, n)
    BY <2>1 DEF Protos
  <2>3. keys[i].usage = u /\ keys[i].id[1] = UsageWord[u]
    BY <2>2 DEF CreateProtos, UsageId
  <2> QED
    BY <2>3, WordsDiffer
<1>2. [i \in DOMAIN keys |-> IF keys[i].id[1] = UsageWord[usage] THEN <<keys[i]>> ELSE <<>>]
        = [i \in DOMAIN keys |-> IF keys[i].usage = usage THEN <<keys[i]>> ELSE <<>>]
  BY <1>1
<1> QED
  BY <1>2 DEF Filtered, KeysUsedFor

ListedMethods(did, form, keys) ==
  IF form = "embedded" THEN <<>> ELSE Mapped(RegistryMethods(did, form), keys)
GroupsOf(json, did, form, op, keys) ==
  /\ \A r \in Relationships :
       json[r] = [i \in DOMAIN KeysUsedFor(keys, UsageOf[r]) |->
                    EntryOf(did, KeysUsedFor(keys, UsageOf[r])[i], form)]
  /\ json.verificationMethod = ListedMethods(did, form, keys)
  /\ json.service = MapSeq(DecodedService, op.services)

LEMMA RegistryGroups ==
  ASSUME NEW did, NEW op, NEW form, NEW json, json = RegistryDocument(did, op, form),
         NEW keys \in Seq(Protos), keys = op.public_keys
  PROVE  GroupsOf(json, did, form, op, keys)
<1> DEFINE Group(word) ==
             [i \in DOMAIN Filtered(keys, LAMBDA x : x.id[1] = word) |->
                EntryOf(did, Filtered(keys, LAMBDA x : x.id[1] = word)[i], form)]
<1>1. /\ json.authentication = Group("authentication") /\ json.assertionMethod = Group("issuing")
      /\ json.keyAgreement = Group("agreement") /\ json.capabilityDelegation = Group("delegation")
      /\ json.capabilityInvocation = Group("invocation")
  BY DEF RegistryDocument, MapSeq, EntryOf
<1>2. \A usage \in PrismDIDKeyUsage :
        Group(UsageWord[usage]) = [i \in DOMAIN KeysUsedFor(keys, usage) |->
                                     EntryOf(did, KeysUsedFor(keys, usage)[i], form)]
  BY WordFilter
<1>3. \A r \in Relationships : UsageOf[r] \in PrismDIDKeyUsage /\ json[r] = Group(UsageWord[UsageOf[r]])
  <2>1. /\ UsageWord["ISSUING_KEY"] = "issuing" /\ UsageWord["KEY_AGREEMENT_KEY"] = "agreement"
        /\ UsageWord["AUTHENTICATION_KEY"] = "authentication"
        /\ UsageWord["CAPABILITY_DELEGATION_KEY"] = "delegation"
        /\ UsageWord["CAPABILITY_INVOCATION_KEY"] = "invocation"
    BY DEF UsageWord
  <2>2. /\ UsageOf["authentication"] = "AUTHENTICATION_KEY" /\ UsageOf["assertionMethod"] = "ISSUING_KEY"
        /\ UsageOf["keyAgreement"] = "KEY_AGREEMENT_KEY"
        /\ UsageOf["capabilityDelegation"] = "CAPABILITY_DELEGATION_KEY"
        /\ UsageOf["capabilityInvocation"] = "CAPABILITY_INVOCATION_KEY"
    BY DEF UsageOf
  <2>3. {"ISSUING_KEY", "KEY_AGREEMENT_KEY", "AUTHENTICATION_KEY", "CAPABILITY_DELEGATION_KEY",
         "CAPABILITY_INVOCATION_KEY"} \subseteq PrismDIDKeyUsage
    BY DEF PrismDIDKeyUsage, UsageWord
  <2> HIDE DEF Group
  <2> QED
    BY <1>1, <2>1, <2>2, <2>3 DEF Relationships
<1>4. \A r \in Relationships :
        json[r] = [i \in DOMAIN KeysUsedFor(keys, UsageOf[r]) |->
                     EntryOf(did, KeysUsedFor(keys, UsageOf[r])[i], form)]
  <2> HIDE DEF Group
  <2> TAKE r \in Relationships
  <2> DEFINE usage == UsageOf[r]
  <2>1. usage \in PrismDIDKeyUsage /\ json[r] = Group(UsageWord[usage])
    BY <1>3
  <2> HIDE DEF usage
  <2>2. json[r] = [i \in DOMAIN KeysUsedFor(keys, usage) |-> EntryOf(did, KeysUsedFor(keys, usage)[i], form)]
    BY ONLY <1>2, <2>1
  <2> QED
    BY ONLY <2>2 DEF usage
<1>5. json.verificationMethod = ListedMethods(did, form, keys)
  <2>1. json.verificationMethod = IF form = "embedded" THEN <<>>
                                  ELSE [i \in DOMAIN keys |-> RegistryMethod(did, keys[i], form)]
    BY DEF RegistryDocument, MapSeq
  <2>2. \A i \in DOMAIN keys : keys[i] \in Protos
    OBVIOUS
  <2> QED
    BY <2>1, <2>2 DEF Mapped, RegistryMethods, ListedMethods
<1>6. json.service = MapSeq(DecodedService, op.services)
  <2>1. json.service = [i \in DOMAIN op.services |-> DecodedService(op.services[i])]
    BY DEF RegistryDocument, MapSeq, DecodedService
  <2> QED
    BY <2>1 DEF MapSeq
<1> QED
  BY <1>4, <1>5, <1>6 DEF GroupsOf

LEMMA RegistryHolds ==
  ASSUME NEW p, NEW did, NEW short, NEW form, Of3(p, did, short, form),
         NEW keys, keys = did.hash.public_keys, NEW M, M = RegistryMethods(short, form)
  PROVE  /\ keys \in Seq(Protos) /\ Identified(M, keys, short) /\ HoldKeys(M, keys, short)
         /\ \A x \in Range(keys) : RegistryMethodIs(M[x], short, x, form)
<1> DEFINE entries == PublicPayload(p)
<1>1. /\ entries \in Seq(UsedEntries) /\ OneEach(entries)
      /\ \E i \in DOMAIN entries : entries[i].usage = "MASTER_KEY"
      /\ keys = CreateOperation(entries, p.services).public_keys /\ keys \in Seq(Protos)
      /\ did.method = "prism"
  BY PrismEntries DEF Of3
<1> HIDE DEF entries
<1>2. IsInjective(Mapped(IdOfProto, keys))
  BY <1>1, IdsDistinct
<1>3. \A i, j \in DOMAIN keys : keys[i].id = keys[j].id => i = j
  <2> DEFINE f == Mapped(IdOfProto, keys)
  <2>0. \A i \in DOMAIN keys : keys[i] \in Protos
    BY <1>1
  <2>1. IsInjective(f) /\ DOMAIN f = DOMAIN keys /\ \A i \in DOMAIN keys : f[i] = keys[i].id
    BY <1>2, <2>0 DEF Mapped, IdOfProto
  <2> HIDE DEF f
  <2> QED
    BY ONLY <2>1 DEF IsInjective
<1>4. ASSUME NEW x \in Range(keys)
      PROVE  /\ M[x] = RegistryMethod(short, x, form) /\ M[x] # Absent /\ x \in Protos
             /\ form \notin Multibase => M[x].publicKeyJwk # Absent
  <2>1. PICK i \in DOMAIN keys : x = keys[i]
    BY DEF Range
  <2>2. x \in Protos
    BY <1>1, <2>1
  <2>3. M[x] = RegistryMethod(short, x, form)
    BY <2>2 DEF RegistryMethods
  <2>4. /\ RegistryMethod(short, did.hash.public_keys[i], form) # Absent
        /\ form \in {"jwk", "embedded"} => RegistryMethod(short, did.hash.public_keys[i], form).publicKeyJwk # Absent
    BY <1>1, <2>1, DocumentsAssumption DEF Of1, Of3
  <2>5. form \notin Multibase => form \in {"jwk", "embedded"}
    BY DEF Of3, Forms, Multibase
  <2> QED
    BY <2>1, <2>2, <2>3, <2>4, <2>5
<1>5. ASSUME NEW x \in Range(keys)
      PROVE  RegistryMethodIs(M[x], short, x, form)
  <2> DEFINE m == M[x]
  <2>1. /\ m = RegistryMethod(short, x, form) /\ x \in Protos /\ form \in Forms
        /\ form \notin Multibase => m.publicKeyJwk # Absent
    BY <1>4 DEF Of3
  <2> HIDE DEF m
  <2>2. RegistryMethodIs(m, short, x, form)
    BY <2>1, RegistryMethodHolds
  <2> QED
    BY <2>2 DEF m
<1>6. Identified(M, keys, short)
  BY <1>3, <1>4, <1>5 DEF Identified, RegistryMethodIs
<1>7. HoldKeys(M, keys, short)
  BY <1>5 DEF HoldKeys, RegistryMethodIs
<1> QED
  BY <1>1, <1>5, <1>6, <1>7

LEMMA RegistryResolved ==
  ASSUME NEW p, NEW did, NEW short, NEW form, Of3(p, did, short, form),
         NEW json, json = RegistryDocument(short, did.hash, form), NEW doc, doc = ResolveDID(short, json)
  PROVE  /\ doc # Thrown
         /\ ValuesOf(doc, "verificationMethod") = ListedMethods(short, form, did.hash.public_keys)
         /\ ValuesOf(doc, "service") = MapSeq(Kept, p.services)
         /\ HasPurposes(doc, p) /\ Serves(ValuesOf(doc, "service"), p.services, {})
         /\ form # "embedded" => ListsMethods(doc, p)
<1> DEFINE op == did.hash
           keys == op.public_keys
           M == RegistryMethods(short, form)
           methods == Mapped(M, keys)
           listed == ListedMethods(short, form, keys)
           services == MapSeq(Kept, p.services)
           W == Range(methods) \cup Range(services)
<1>1. /\ p \in PayloadType /\ did.method = "prism" /\ op = CreateOperation(PublicPayload(p), p.services)
      /\ Of1(p, did) /\ did.state = op /\ did = LongForm(op)
  BY PrismEntries DEF Of3
<1>2. keys \in Seq(Protos) /\ Identified(M, keys, short) /\ HoldKeys(M, keys, short)
  BY RegistryHolds
<1>3. json # Absent /\ FromJSON(json) # Thrown
  BY <1>1, DocumentsAssumption DEF Of1, Of3
<1>4. doc = FromJSON(json) /\ doc # Thrown
  <2>1. short.method = "prism" /\ short.state = Absent
    BY <1>1 DEF Of3, ShortForm, LongForm
  <2> QED
    BY <1>3, <2>1 DEF ResolveDID, PrismResolve, HttpProxyResolve
<1>5. p.services \in Seq(Services)
  BY <1>1 DEF PayloadType, Services
<1>6. GroupsOf(json, short, form, op, keys)
  BY <1>2, RegistryGroups
<1>19. json.verificationMethod = listed
  BY <1>6 DEF GroupsOf
<1>20. form # "embedded" => listed = methods
  BY DEF ListedMethods
<1>7. json.service = services
  <2> DEFINE of == op.services
             entries == PublicPayload(p)
  <2>1. of = CreateOperation(entries, p.services).services
    BY <1>1
  <2> HIDE DEF of, entries
  <2>2. MapSeq(DecodedService, of) = services
    BY <1>5, <2>1, OperationServices
  <2> QED
    BY <1>6, <2>2 DEF GroupsOf, of
<1>8. \A r \in Relationships : /\ KeysUsedFor(keys, UsageOf[r]) \in Seq(Protos)
                               /\ Range(KeysUsedFor(keys, UsageOf[r])) \subseteq Range(keys)
  <2> DEFINE entries == PublicPayload(p)
  <2>1. /\ entries \in Seq(UsedEntries) /\ \E i \in DOMAIN entries : entries[i].usage = "MASTER_KEY"
        /\ keys = CreateOperation(entries, p.services).public_keys
    BY <1>1, PrismEntries
  <2> HIDE DEF entries, keys, op
  <2>2. \A r \in Relationships : UsageOf[r] # "MASTER_KEY"
    BY DEF Relationships, UsageOf
  <2>3. \A usage : usage # "MASTER_KEY" => /\ KeysUsedFor(keys, usage) \in Seq(Protos)
                                           /\ Range(KeysUsedFor(keys, usage)) \subseteq Range(keys)
    BY <2>1, KeysUnder
  <2> QED
    BY <2>2, <2>3
<1>9. \A r \in Relationships :
        ParseVerificationMethodGroup(json[r], listed) = Mapped(M, KeysUsedFor(keys, UsageOf[r]))
  <2> TAKE r \in Relationships
  <2> DEFINE s == KeysUsedFor(keys, UsageOf[r])
  <2>1. s \in Seq(Protos) /\ Range(s) \subseteq Range(keys) /\ json[r] = [i \in DOMAIN s |-> EntryOf(short, s[i], form)]
    BY <1>6, <1>8 DEF GroupsOf
  <2>2. M = [x \in Protos |-> RegistryMethod(short, x, form)] /\ form \in Forms
    BY DEF RegistryMethods, Of3
  <2>4. form # "embedded" => listed = Mapped(M, keys)
    BY <1>20
  <2> HIDE DEF s, M, keys, op, listed
  <2>3. ParseVerificationMethodGroup(json[r], listed) = Mapped(M, s)
    BY <1>2, <2>1, <2>2, <2>4, GroupParsed
  <2> QED
    BY <2>3 DEF s
<1>10. ASSUME NEW s \in Seq(Protos), Range(s) \subseteq Range(keys)
       PROVE  Mapped(M, s) \in Seq(Range(methods))
  <2> DEFINE n == Len(s)
  <2> HIDE DEF M, keys
  <2>3. n \in Nat /\ DOMAIN s = 1 .. n
    OBVIOUS
  <2> HIDE DEF n
  <2>4. \A i \in DOMAIN s : s[i] \in Range(s)
    BY Zenon DEF Range
  <2>1. n \in Nat /\ DOMAIN s = 1 .. n /\ \A i \in 1 .. n : s[i] \in Range(keys)
    BY <1>10, <2>3, <2>4, Zenon
  <2>2. \A x \in Range(keys) : M[x] \in Range(methods)
    BY DEF Range, Mapped
  <2> HIDE DEF methods
  <2>5. Mapped(M, s) \in [1 .. n -> Range(methods)]
    BY <2>1, <2>2 DEF Mapped
  <2> QED
    BY <2>1, <2>5, Sequenced
<1>11. listed \in Seq(W)
  <2>1. methods \in Seq(Range(methods))
    <3> HIDE DEF methods, keys, M
    <3> QED
      BY <1>2, <1>10 DEF methods
  <2>2. listed \in {<<>>, methods}
    BY DEF ListedMethods
  <2> DEFINE X == Range(methods)
             Y == Range(services)
  <2>3. methods \in Seq(X)
    BY <2>1
  <2> HIDE DEF methods, services, listed, X, Y
  <2>4. methods \in Seq(X \cup Y) /\ <<>> \in Seq(X \cup Y)
    BY <2>3
  <2> QED
    BY <2>2, <2>4 DEF X, Y
<1>12. services \in Seq(W)
  <2> DEFINE n == Len(p.services)
  <2>1. n \in Nat /\ DOMAIN p.services = 1 .. n
    BY <1>5
  <2>2. services \in [1 .. n -> Range(services)]
    BY <2>1 DEF MapSeq, Range
  <2> HIDE DEF n, services, methods
  <2>3. services \in Seq(Range(services))
    BY <2>1, <2>2, Sequenced
  <2> QED
    BY <2>3
<1>13. \A r \in Relationships : Mapped(M, KeysUsedFor(keys, UsageOf[r])) \in Seq(W)
  <2> TAKE r \in Relationships
  <2> DEFINE s == KeysUsedFor(keys, UsageOf[r])
  <2>1. s \in Seq(Protos) /\ Range(s) \subseteq Range(keys)
    BY <1>8
  <2> HIDE DEF s, methods, services, M, keys
  <2>2. Mapped(M, s) \in Seq(Range(methods))
    BY <1>10, <2>1
  <2>3. Mapped(M, s) \in Seq(W)
    BY <2>2
  <2> QED
    BY <2>3 DEF s
<1> HIDE DEF W, M, methods, listed, services, keys, op
<1>14. /\ \A r \in Relationships : ValuesOf(doc, r) = ParseVerificationMethodGroup(json[r], json.verificationMethod)
       /\ ValuesOf(doc, "service") = json.service
       /\ ValuesOf(doc, "verificationMethod") = json.verificationMethod
  <2>1. \A r \in Relationships :
           ParseVerificationMethodGroup(json[r], json.verificationMethod) \in Seq(W)
    BY <1>9, <1>13, <1>19
  <2>2. json.service \in Seq(W) /\ json.verificationMethod \in Seq(W)
    BY <1>7, <1>11, <1>12, <1>19
  <2> QED
    BY <1>4, <2>1, <2>2, JSONValues
<1>15. GroupedFrom(M, doc, keys) /\ (form # "embedded" => MadeOf(M, doc, keys))
  BY <1>9, <1>14, <1>19, <1>20 DEF GroupedFrom, MadeOf, methods
<1>16. ValuesOf(doc, "service") = services
  BY <1>7, <1>14
<1>17. HasPurposes(doc, p) /\ (form # "embedded" => ListsMethods(doc, p))
  BY <1>1, <1>2, <1>15, PrismKeys DEF keys, op
<1>18. Serves(services, p.services, {})
  BY <1>5, KeptServes DEF services
<1> QED
  BY <1>4, <1>14, <1>16, <1>17, <1>18, <1>19 DEF keys, op, services, listed

\* What is published, of the state or of a registry's document with its keys whole
\* and listed, is the operation that the document was made of.
Published(published, op) == published # Thrown => published.operation = op
IsOperation(op) == op = [public_keys |-> op.public_keys, services |-> op.services]

\* The keys that were read are those of the operation, if they could be read.
ReadFrom(keys, of) ==
  /\ DOMAIN keys = DOMAIN of /\ of = [i \in DOMAIN of |-> of[i]] /\ keys = [i \in DOMAIN keys |-> keys[i]]
  /\ \A i \in DOMAIN keys : keys[i] \in {Thrown, of[i]}

LEMMA SignedIs ==
  ASSUME NEW op, IsOperation(op), NEW key, NEW keys, NEW services,
         ReadFrom(keys, op.public_keys), services = op.services
  PROVE  Published(SignedOperation(key, keys, services), op)
<1> DEFINE published == SignedOperation(key, keys, services)
<1> SUFFICES ASSUME published # Thrown
             PROVE  published.operation = op
  BY DEF Published
<1>1. Thrown \notin Range(keys)
  BY DEF SignedOperation
<1>2. published.operation = [public_keys |-> keys, services |-> services]
  BY <1>1 DEF SignedOperation, With
<1>3. \A i \in DOMAIN keys : keys[i] = op.public_keys[i]
  BY <1>1 DEF Range, ReadFrom
<1>4. keys = op.public_keys
  BY <1>3 DEF ReadFrom
<1> HIDE DEF published
<1> QED
  BY <1>2, <1>4 DEF IsOperation

LEMMA ServicesBack ==
  ASSUME NEW services \in Seq(Services)
  PROVE  MapSeq(ProtoService, MapSeq(Kept, services)) = MapSeq(ProtoService, services)
<1>1. ASSUME NEW i \in DOMAIN services
      PROVE  ProtoService(Kept(services[i])) = ProtoService(services[i])
  <2> DEFINE s == services[i]
             first == FirstType(s.type)
             type == Type(TRUE, <<first>>)
             kept == Service(s.id, type, s.uri)
  <2>1. FirstType(type) = first
    <3> DEFINE one == <<first>>
    <3>2. one # <<>> /\ Head(one) = first
      OBVIOUS
    <3> HIDE DEF first, one
    <3>1. type.list /\ type.words = one
      BY DEF Type, one
    <3> HIDE DEF type
    <3> QED
      BY <3>1, <3>2 DEF FirstType
  <2>2. Kept(s) = kept
    BY DEF Kept
  <2> HIDE DEF s, type
  <2>3. kept.id = s.id /\ kept.type = type /\ kept.uri = s.uri
    BY DEF Service
  <2> HIDE DEF kept
  <2>4. ProtoService(kept) = ProtoService(s)
    BY <2>1, <2>3 DEF ProtoService
  <2> QED
    BY <2>2, <2>4 DEF s
<1> QED
  BY <1>1 DEF MapSeq

LEMMA PublishOf ==
  ASSUME NEW key, NEW given, NEW answer, NEW published, published = PrismPublish(key, given, answer),
         NEW doc, doc = PrismResolve(given, answer),
         NEW op, IsOperation(op), NEW keys \in Seq(Protos), keys = op.public_keys,
         NEW M, ValuesOf(doc, "verificationMethod") = Mapped(M, keys),
         \A x \in Range(keys) : KeyFromMethod(M[x]) \in {Thrown, x},
         NEW services \in Seq(Services), op.services = MapSeq(ProtoService, services),
         ValuesOf(doc, "service") = MapSeq(Kept, services)
  PROVE  Published(published, op)
<1> DEFINE read == MapSeq(KeyFromMethod, Mapped(M, keys))
           back == MapSeq(ProtoService, MapSeq(Kept, services))
<1>1. CASE published = Thrown
  BY <1>1 DEF Published
<1>2. CASE published # Thrown
  <2>1. published = SignedOperation(key, read, back)
    BY <1>2 DEF PrismPublish, Then
  <2>2. back = op.services
    BY ServicesBack
  <2>3. /\ DOMAIN read = DOMAIN keys /\ read = [i \in DOMAIN keys |-> KeyFromMethod(M[keys[i]])]
    BY DEF MapSeq, Mapped
  <2>4. keys = [i \in DOMAIN keys |-> keys[i]]
    OBVIOUS
  <2> HIDE DEF read, back
  <2>5. \A i \in DOMAIN keys : read[i] \in {Thrown, keys[i]}
    <3> TAKE i \in DOMAIN keys
    <3>1. keys[i] \in Range(keys)
      BY Zenon DEF Range
    <3> QED
      BY <2>3, <3>1
  <2>6. read = [i \in DOMAIN read |-> read[i]]
    BY <2>3
  <2>7. ReadFrom(read, op.public_keys)
    BY <2>3, <2>4, <2>5, <2>6 DEF ReadFrom
  <2>8. Published(SignedOperation(key, read, back), op)
    BY <2>2, <2>7, SignedIs
  <2> QED
    BY <2>1, <2>8
<1> QED
  BY <1>1, <1>2

LEMMA PublishIs ==
  ASSUME NEW p, NEW did, Of1(p, did), NEW short, short = ShortForm(did),
         NEW key, NEW given, NEW answer, NEW published, published = PrismPublish(key, given, answer),
         \/ given = did
         \/ given = short /\ \E form \in Republished : answer = RegistryDocument(short, did.hash, form)
  PROVE  Published(published, did.hash)
<1> DEFINE op == did.hash
           keys == op.public_keys
           doc == PrismResolve(given, answer)
<1>1. /\ p \in PayloadType /\ did.method = "prism" /\ op = CreateOperation(PublicPayload(p), p.services)
      /\ did.state = op /\ did = LongForm(op) /\ keys \in Seq(Protos)
  BY PrismEntries
<1>2. /\ p.services \in Seq(Services) /\ op.services = MapSeq(ProtoService, p.services)
      /\ IsOperation(op)
  <2>1. p.services \in Seq(Services)
    BY <1>1 DEF PayloadType, Services
  <2> DEFINE entries == PublicPayload(p)
  <2> HIDE DEF entries
  <2>2. /\ CreateOperation(entries, p.services).services = MapSeq(ProtoService, p.services)
        /\ IsOperation(CreateOperation(entries, p.services))
    BY DEF CreateOperation, IsOperation
  <2> HIDE DEF op
  <2> QED
    BY <1>1, <2>1, <2>2 DEF entries
<1>3. CASE given = did
  <2> DEFINE M == [x \in Protos |-> PrismMethod(did, x)]
             long == ResolveDID(did, Absent)
  <2>1. /\ ValuesOf(long, "verificationMethod") = MethodsOf(did, keys)
        /\ ValuesOf(long, "service") = MapSeq(Kept, p.services) /\ long # Thrown
    BY PrismResolves
  <2>2. did.state # Absent
    BY <1>1, DocumentsAssumption DEF Of1
  <2>3. doc = long
    BY <1>1, <1>3, <2>2 DEF ResolveDID, PrismResolve
  <2>4. \A i \in DOMAIN keys : keys[i] \in Protos
    BY <1>1
  <2>5. MethodsOf(did, keys) = Mapped(M, keys)
    BY <2>4 DEF MethodsOf, Mapped
  <2>6. \A x \in Range(keys) : KeyFromMethod(M[x]) \in {Thrown, x}
    <3> TAKE x \in Range(keys)
    <3>1. x \in Protos
      BY <2>4 DEF Range
    <3>2. M[x] = PrismMethod(did, x)
      BY <3>1
    <3> HIDE DEF M
    <3> QED
      BY <3>1, <3>2, OperationMethodHolds
  <2> HIDE DEF M, long, op, keys, doc
  <2> QED
    BY <1>1, <1>2, <2>1, <2>3, <2>5, <2>6, PublishOf DEF keys, doc, op
<1>4. ASSUME NEW form \in Republished, given = short, answer = RegistryDocument(short, op, form)
      PROVE  Published(published, op)
  <2> DEFINE M == RegistryMethods(short, form)
             held == ResolveDID(short, answer)
  <2>1. Of3(p, did, short, form) /\ form # "embedded"
    BY DEF Of3, Forms, Republished
  <2>2. \A x \in Range(keys) : KeyFromMethod(M[x]) \in {Thrown, x}
    <3>1. \A x \in Range(keys) : RegistryMethodIs(M[x], short, x, form)
      BY <2>1, RegistryHolds
    <3> QED
      BY <3>1 DEF RegistryMethodIs
  <2>3. ValuesOf(held, "verificationMethod") = ListedMethods(short, form, keys) /\ ValuesOf(held, "service") = MapSeq(Kept, p.services)
    BY <1>4, <2>1, RegistryResolved
  <2>4. short.method = "prism"
    BY <1>1 DEF ShortForm, LongForm
  <2>5. doc = held
    BY <1>4, <2>4 DEF ResolveDID
  <2>6. ValuesOf(held, "verificationMethod") = Mapped(M, keys)
    BY <2>1, <2>3 DEF ListedMethods
  <2> HIDE DEF M, held, op, keys, doc
  <2> QED
    BY <1>1, <1>2, <2>2, <2>3, <2>5, <2>6, PublishOf DEF keys, doc, op
<1> QED
  BY <1>3, <1>4

\* The registry answers, for each short form, what is made of the operation that it
\* is the hash of, which was published too unless it was read of a document that
\* does not have its keys whole.
RegistryHas(short, entry) ==
  /\ entry.form \in Forms
  /\ entry.json = RegistryDocument(short, short.hash, entry.form)
  /\ entry.read \notin {"compressed", "embedded"} => entry.operation = short.hash
RegistryInv == \A short \in DOMAIN registry : RegistryHas(short, registry[short])

LEMMA PublishStays ==
  ASSUME DIDsCreated, RegistryInv, NEW d \in dids, NEW form \in Forms, NEW again, Publish(d, form, again)
  PROVE  RegistryInv'
<1> DEFINE short == ShortForm(d.did)
           op == d.did.hash
           given == IF again THEN short ELSE d.did
           key == PublicKey(KeysOf(d.of)[1])
           published == PrismPublish(key, given, Answers[short])
           read == IF again THEN registry[short].form ELSE Absent
           entry == Registered(short, published.operation, form, read)
<1>1. /\ d.did.method = "prism" /\ published # Thrown
      /\ again <=> short \in DOMAIN registry
      /\ registry' = [s \in DOMAIN registry \cup {short} |-> IF s = short THEN entry ELSE registry[s]]
  BY DEF Publish
<1>2. Of1(d.of, d.did)
  <2>1. d.of \in Offered /\ d = Created(d.of) /\ d.did # Thrown
    BY DEF DIDsCreated
  <2> QED
    BY <1>1, <2>1, CreatedMethod
<1>3. short.hash = op
  <2>1. d.did = LongForm(op)
    BY <1>2, PrismEntries
  <2> QED
    BY <2>1 DEF ShortForm, LongForm
<1>4. again => /\ registry[short].form \in Forms /\ given = short
               /\ Answers[short] = registry[short].json
               /\ registry[short].json = RegistryDocument(short, op, registry[short].form)
  <2> SUFFICES ASSUME again
               PROVE  /\ registry[short].form \in Forms /\ given = short
                      /\ Answers[short] = registry[short].json
                      /\ registry[short].json = RegistryDocument(short, op, registry[short].form)
    OBVIOUS
  <2>1. short \in DOMAIN registry /\ short \in Known
    BY <1>1 DEF Known
  <2>2. Answers[short] = registry[short].json
    BY <2>1 DEF Answers
  <2> HIDE DEF short, op
  <2> QED
    BY <1>3, <2>1, <2>2 DEF RegistryInv, RegistryHas
<1>5. ASSUME read \notin {"compressed", "embedded"} \/ ~again
      PROVE  published.operation = op
  <2>1. \/ given = d.did
        \/ given = short /\ \E f \in Republished : Answers[short] = RegistryDocument(short, op, f)
    <3>1. CASE ~again
      BY <3>1
    <3>2. CASE again
      <4>1. registry[short].form \in Republished
        BY <1>4, <1>5, <3>2 DEF Forms, Republished
      <4> QED
        BY <1>4, <3>2, <4>1
    <3> QED
      BY <3>1, <3>2
  <2> HIDE DEF given, key
  <2>2. Published(published, op)
    BY <1>2, <2>1, PublishIs
  <2> HIDE DEF published
  <2> QED
    BY <1>1, <2>2 DEF Published
<1> HIDE DEF published, given, key, short, op
<1>7. RegistryHas(short, entry)
  <2>1. entry.operation = published.operation /\ entry.read = read
    BY DEF Registered
  <2>2. CASE published.operation = short.hash
    <3>1. entry.form = form /\ entry.json = RegistryDocument(short, short.hash, form)
      BY <2>2 DEF Registered
    <3> HIDE DEF entry
    <3> QED
      BY <2>1, <2>2, <3>1 DEF RegistryHas
  <2>3. CASE published.operation # short.hash
    <3>1. again
      BY <1>3, <1>5, <2>3
    <3>2. read = registry[short].form /\ entry.form = read /\ entry.json = Answers[short]
      BY <2>3, <3>1 DEF Registered
    <3> HIDE DEF entry, read
    <3>3. entry.form \in Forms /\ entry.json = RegistryDocument(short, short.hash, entry.form)
      BY <1>3, <1>4, <3>1, <3>2
    <3>4. read \in {"compressed", "embedded"}
      BY <1>3, <1>5, <2>3
    <3> QED
      BY <2>1, <3>3, <3>4 DEF RegistryHas
  <2> QED
    BY <2>2, <2>3
<1> HIDE DEF entry
<1>8. ASSUME NEW s \in DOMAIN registry'
      PROVE  RegistryHas(s, registry'[s])
  <2>1. CASE s = short
    <3>1. registry'[s] = entry
      BY <1>1, <2>1
    <3> QED
      BY <1>7, <2>1, <3>1
  <2>2. CASE s # short
    <3>1. s \in DOMAIN registry /\ registry'[s] = registry[s]
      BY <1>1, <1>8, <2>2
    <3> QED
      BY <3>1 DEF RegistryInv
  <2> QED
    BY <2>1, <2>2
<1> QED
  BY <1>8 DEF RegistryInv, RegistryHas

LEMMA RegistryStays ==
  ASSUME DIDsCreated, RegistryInv, [Next]_vars
  PROVE  RegistryInv'
<1>1. CASE registry' = registry
  BY <1>1 DEF RegistryInv, RegistryHas
<1>2. ASSUME NEW d \in dids, NEW form \in Forms, NEW again, Publish(d, form, again)
      PROVE  RegistryInv'
  BY <1>2, PublishStays
<1>3. ASSUME NEW p, CreateDID(p)
      PROVE  registry' = registry
  BY <1>3 DEF CreateDID
<1>4. ASSUME NEW issuer, NEW holder, NEW claims, IssueOwn(issuer, holder, claims)
      PROVE  registry' = registry
  BY <1>4 DEF IssueOwn, Issue
<1>5. ASSUME NEW key, Make(key)
      PROVE  registry' = registry
  BY <1>5 DEF Make
<1>6. ASSUME NEW issuer, NEW holder, NEW claims, NEW status, NEW given,
             IssueFramed(issuer, holder, claims, status, given)
      PROVE  registry' = registry
  BY <1>6 DEF IssueFramed, Issue
<1>7. ASSUME NEW thid, NEW request, RequestPresentation(thid, request)
      PROVE  registry' = registry
  BY <1>7 DEF RequestPresentation
<1>8. ASSUME NEW token, NEW i, NEW frame, NEW oea, CreatePresentation(token, i, frame, oea)
      PROVE  registry' = registry
  BY <1>8 DEF CreatePresentation
<1>9. ASSUME NEW s, Verify(s)
      PROVE  registry' = registry
  BY <1>9 DEF Verify
<1>10. CASE UNCHANGED vars
  BY <1>1, <1>10 DEF vars
<1> QED
  BY <1>1, <1>2, <1>3, <1>4, <1>5, <1>6, <1>7, <1>8, <1>9, <1>10 DEF Next, MakeKey, DeriveKey

\* What the registry answers for the short form of a DID that was created resolves,
\* after however many publications and in whichever form, to the keys and the services
\* that the DID was created with; and what was published is the operation that the
\* DID is the hash of, unless the registry's document was read with compressed or
\* with embedded keys.
THEOREM PublishedCorrect == Spec => []PublishedIsCreated
<1>1. Init => RegistryInv
  BY DEF Init, RegistryInv
<1>2. DIDsCreated /\ RegistryInv /\ [Next]_vars => RegistryInv'
  BY RegistryStays
<1>3. DIDsCreated /\ RegistryInv => PublishedIsCreated
  <2> SUFFICES ASSUME DIDsCreated, RegistryInv, NEW d \in dids, d.did.method = "prism",
                      NEW short, short = ShortForm(d.did), short \in DOMAIN registry,
                      NEW doc, doc = ResolveDID(short, registry[short].json)
               PROVE  /\ registry[short].read \notin {"compressed", "embedded"} =>
                           /\ registry[short].operation.public_keys = d.did.hash.public_keys
                           /\ registry[short].operation.services = d.did.hash.services
                      /\ HasPurposes(doc, d.of)
                      /\ Serves(ValuesOf(doc, "service"), d.of.services, {})
                      /\ registry[short].form # "embedded" => ListsMethods(doc, d.of)
    BY Zenon DEF PublishedIsCreated
  <2>1. Of1(d.of, d.did)
    <3>1. d.of \in Offered /\ d = Created(d.of) /\ d.did # Thrown
      BY DEF DIDsCreated
    <3> QED
      BY <3>1, CreatedMethod
  <2>2. short.hash = d.did.hash
    <3> DEFINE op == d.did.hash
    <3>1. d.did = LongForm(op)
      BY <2>1, PrismEntries
    <3> HIDE DEF op
    <3>2. short.hash = op
      BY <3>1 DEF ShortForm, LongForm
    <3> QED
      BY <3>2 DEF op
  <2> DEFINE form == registry[short].form
  <2>3. /\ form \in Forms /\ registry[short].json = RegistryDocument(short, short.hash, form)
        /\ registry[short].read \notin {"compressed", "embedded"} => registry[short].operation = short.hash
    BY DEF RegistryInv, RegistryHas
  <2> HIDE DEF form
  <2>4. Of3(d.of, d.did, short, form)
    BY <2>1, <2>3 DEF Of3
  <2>5. /\ HasPurposes(doc, d.of) /\ Serves(ValuesOf(doc, "service"), d.of.services, {})
        /\ form # "embedded" => ListsMethods(doc, d.of)
    BY <2>2, <2>3, <2>4, RegistryResolved
  <2> QED
    BY <2>2, <2>3, <2>5 DEF form
<1>4. Init => DIDsCreated
  BY InitCreated
<1>5. DIDsCreated /\ [Next]_vars => DIDsCreated'
  BY CreatedStays
<1> QED
  BY <1>1, <1>2, <1>3, <1>4, <1>5, PTL DEF Spec

\* A signature verifies for a document with the keys as multibase exactly when one
\* of them that can verify made it, and for one with no multibase key never.
Verified(did, answer, S) ==
  \A k, challenge, on :
    VerifySignature(did, answer, challenge, Signature(k, on)) = TRUE
      <=> on = challenge /\ k \in S /\ k.curve # "X25519"

LEMMA SignatureIs ==
  \A k, a, key, b : /\ Signature(k, a) = Signature(key, b) <=> k = key /\ a = b
                    /\ Verifies(key, b, Signature(k, a)) <=> key.curve # "X25519" /\ k = key /\ a = b
<1> SUFFICES ASSUME NEW k, NEW a, NEW key, NEW b
             PROVE  /\ Signature(k, a) = Signature(key, b) <=> k = key /\ a = b
                    /\ Verifies(key, b, Signature(k, a)) <=> key.curve # "X25519" /\ k = key /\ a = b
  OBVIOUS
<1>1. Signature(k, a).by = k /\ Signature(k, a).on = a /\ Signature(key, b).by = key /\ Signature(key, b).on = b
  BY DEF Signature
<1>2. Signature(k, a) = Signature(key, b) <=> k = key /\ a = b
  BY <1>1, Zenon
<1> QED
  BY <1>2 DEF Verifies

VerifiesWhen(did, answer, ms, k, challenge, on) ==
  VerifySignature(did, answer, challenge, Signature(k, on)) = TRUE <=>
    \E m \in ms :
      /\ m.publicKeyMultibase # Absent /\ m.type \in DOMAIN MethodCurve
      /\ Point(MultibaseBytes(m)).curve # "X25519" /\ k = Point(MultibaseBytes(m)) /\ on = challenge

LEMMA PrismVerifies ==
  ASSUME NEW did, NEW answer, did.method = "prism", NEW doc, doc = ResolveDID(did, answer), doc # Thrown,
         NEW k, NEW challenge, NEW on
  PROVE  VerifiesWhen(did, answer, Range(ValuesOf(doc, "verificationMethod")), k, challenge, on)
<1> DEFINE ms == Range(ValuesOf(doc, "verificationMethod"))
           signature == Signature(k, on)
           some == \E m \in ms : /\ m.publicKeyMultibase # Absent /\ m.type \in DOMAIN MethodCurve
                                 /\ Verifies(Point(MultibaseBytes(m)), challenge, signature)
<1>1. VerifySignature(did, answer, challenge, signature) = some
  BY DEF VerifySignature, PrismVerify, ResolveDID, Then
<1>2. some \in BOOLEAN /\ (some = TRUE <=> some)
  BY Zenon
<1>3. \A m \in ms : Verifies(Point(MultibaseBytes(m)), challenge, signature)
        <=> Point(MultibaseBytes(m)).curve # "X25519" /\ k = Point(MultibaseBytes(m)) /\ on = challenge
  BY SignatureIs
<1> QED
  BY <1>1, <1>2, <1>3, Zenon DEF VerifiesWhen

LEMMA MultibaseVerified ==
  ASSUME NEW did, NEW answer, did.method = "prism", NEW doc, doc = ResolveDID(did, answer), doc # Thrown,
         NEW keys \in Seq(Protos), NEW M, ValuesOf(doc, "verificationMethod") = Mapped(M, keys),
         \A x \in Range(keys) : HoldsPoint(M[x], x.key),
         NEW S, S = {x.key : x \in Range(keys)}
  PROVE  Verified(did, answer, S)
<1> DEFINE ms == Range(ValuesOf(doc, "verificationMethod"))
<1>1. ms = {M[x] : x \in Range(keys)}
  BY DEF Range, Mapped
<1>2. \A x \in Range(keys) : /\ M[x].publicKeyMultibase # Absent /\ M[x].type \in DOMAIN MethodCurve
                             /\ Point(MultibaseBytes(M[x])) = x.key
  BY DEF HoldsPoint
<1> HIDE DEF ms
<1> SUFFICES ASSUME NEW k, NEW challenge, NEW on
             PROVE  VerifySignature(did, answer, challenge, Signature(k, on)) = TRUE
                      <=> on = challenge /\ k \in S /\ k.curve # "X25519"
  BY DEF Verified
<1>3. VerifiesWhen(did, answer, ms, k, challenge, on)
  BY PrismVerifies DEF ms
<1>4. (\E m \in ms :
          /\ m.publicKeyMultibase # Absent /\ m.type \in DOMAIN MethodCurve
          /\ Point(MultibaseBytes(m)).curve # "X25519" /\ k = Point(MultibaseBytes(m)) /\ on = challenge)
        <=> \E x \in Range(keys) : x.key.curve # "X25519" /\ k = x.key /\ on = challenge
  BY <1>1, <1>2
<1>5. (\E x \in Range(keys) : x.key.curve # "X25519" /\ k = x.key /\ on = challenge)
        <=> on = challenge /\ k \in S /\ k.curve # "X25519"
  BY Zenon
<1> QED
  BY <1>3, <1>4, <1>5, Zenon DEF VerifiesWhen

LEMMA JWKUnverified ==
  ASSUME NEW did, NEW answer, did.method = "prism", NEW doc, doc = ResolveDID(did, answer), doc # Thrown,
         \A m \in Range(ValuesOf(doc, "verificationMethod")) : m.publicKeyMultibase = Absent
  PROVE  Verified(did, answer, {})
<1> SUFFICES ASSUME NEW k, NEW challenge, NEW on
             PROVE  ~(VerifySignature(did, answer, challenge, Signature(k, on)) = TRUE)
  BY DEF Verified
<1> DEFINE ms == Range(ValuesOf(doc, "verificationMethod"))
<1>2. VerifiesWhen(did, answer, ms, k, challenge, on)
  BY PrismVerifies
<1> QED
  BY <1>2, Zenon DEF VerifiesWhen

LEMMA KeyMethodIs ==
  ASSUME NEW did, NEW k, NEW i, NEW m, m = KeyMethod(did, k, i)
  PROVE  m.publicKeyJwk.crv = k.curve /\ m.publicKeyJwk.x = k.pair
<1> DEFINE id == Id(did, <<"key", i>>)
           jwk == [kty |-> "OKP", crv |-> k.curve, x |-> k.pair, y |-> Absent, kid |-> id]
<1>1. m = VerificationMethod(id, did, "JsonWebKey2020", jwk, Absent)
  BY DEF KeyMethod
<1>2. jwk.crv = k.curve /\ jwk.x = k.pair
  OBVIOUS
<1> HIDE DEF jwk, id
<1>3. m.publicKeyJwk = jwk
  BY <1>1 DEF VerificationMethod
<1> QED
  BY <1>2, <1>3

LEMMA PeerVerified ==
  ASSUME NEW p, NEW did, Of2(p, did), did.method = "peer"
  PROVE  Verified(did, Absent, Range(Of(KeysFrom(p), "Ed25519")))
<1> DEFINE keys == KeysFrom(p)
           e == Of(keys, "X25519")
           v == Of(keys, "Ed25519")
           es == KeyMethods(did, e, 0)
           vs == KeyMethods(did, v, Len(e))
           doc == ResolveDID(did, Absent)
           all == ValuesOf(doc, "verificationMethod")
           methods == Filtered(all, LAMBDA m : m.publicKeyJwk.crv = "Ed25519")
<1>1. /\ keys \in Seq(PublicKeys) /\ doc # Thrown
      /\ Lists(doc, vs, es, DecodeService(did, Part("S", EncodeService(p.services))))
  BY PeerKeys
<1> HIDE DEF keys, doc
<1>2. /\ e \in Seq(PublicKeys) /\ Len(e) \in Nat /\ DOMAIN e = 1 .. Len(e)
      /\ v \in Seq(PublicKeys) /\ Len(v) \in Nat /\ DOMAIN v = 1 .. Len(v)
      /\ \A i \in 1 .. Len(e) : e[i].curve = "X25519"
      /\ \A i \in 1 .. Len(v) : v[i].curve = "Ed25519"
  BY <1>1, OfType DEF Range
<1> HIDE DEF e, v
<1>3. /\ DOMAIN es = 1 .. Len(e)
      /\ \A i \in 1 .. Len(e) : es[i].publicKeyJwk.crv = "X25519"
  <2>1. DOMAIN es = 1 .. Len(e) /\ \A i \in 1 .. Len(e) : es[i] = KeyMethod(did, e[i], i)
    BY <1>2 DEF KeyMethods
  <2> HIDE DEF es
  <2>2. ASSUME NEW i \in 1 .. Len(e)
        PROVE  es[i].publicKeyJwk.crv = "X25519"
    <3>1. e[i] \in PublicKeys /\ es[i] = KeyMethod(did, e[i], i) /\ e[i].curve = "X25519"
      BY <1>1, <1>2, <2>1
    <3>2. es[i].publicKeyJwk.crv = e[i].curve
      BY <3>1, KeyMethodIs
    <3> QED
      BY <3>1, <3>2
  <2> QED
    BY <2>1, <2>2
<1>4. /\ DOMAIN vs = 1 .. Len(v)
      /\ \A i \in 1 .. Len(v) : vs[i].publicKeyJwk.crv = "Ed25519" /\ Key("Ed25519", vs[i].publicKeyJwk.x) = v[i]
  <2>1. DOMAIN vs = 1 .. Len(v) /\ \A i \in 1 .. Len(v) : vs[i] = KeyMethod(did, v[i], Len(e) + i)
    BY <1>2 DEF KeyMethods
  <2> HIDE DEF vs
  <2>2. ASSUME NEW i \in 1 .. Len(v)
        PROVE  vs[i].publicKeyJwk.crv = "Ed25519" /\ Key("Ed25519", vs[i].publicKeyJwk.x) = v[i]
    <3> DEFINE j == Len(e) + i
    <3>1. v[i] \in PublicKeys /\ vs[i] = KeyMethod(did, v[i], j) /\ v[i].curve = "Ed25519"
      BY <1>1, <1>2, <2>1
    <3> HIDE DEF j
    <3>2. vs[i].publicKeyJwk.crv = v[i].curve /\ vs[i].publicKeyJwk.x = v[i].pair
      BY <3>1, KeyMethodIs
    <3>3. v[i] = Key(v[i].curve, v[i].pair)
      BY <3>1 DEF PublicKeys, Key
    <3> QED
      BY <3>1, <3>2, <3>3
  <2> QED
    BY <2>1, <2>2
<1> HIDE DEF vs, es
<1>5. all = vs \o es
  BY <1>1 DEF Lists
<1> DEFINE X == Range(vs) \cup Range(es)
           P == {m \in X : m.publicKeyJwk.crv = "Ed25519"}
<1>6. vs \in Seq(Range(vs)) /\ es \in Seq(Range(es)) /\ Len(vs) = Len(v) /\ Len(es) = Len(e)
  <2>1. vs \in [1 .. Len(v) -> Range(vs)]
    <3>1. vs = [i \in 1 .. Len(v) |-> vs[i]]
      BY <1>2 DEF vs, KeyMethods
    <3> QED
      BY <1>4, <3>1 DEF Range
  <2>2. es \in [1 .. Len(e) -> Range(es)]
    <3>1. es = [i \in 1 .. Len(e) |-> es[i]]
      BY <1>2 DEF es, KeyMethods
    <3> QED
      BY <1>3, <3>1 DEF Range
  <2> QED
    BY <1>2, <2>1, <2>2, Sequenced
<1>7. all \in Seq(X) /\ Range(all) = X
  <2> HIDE DEF all
  <2>1. vs \in Seq(X) /\ es \in Seq(X)
    BY <1>6
  <2> HIDE DEF X
  <2>2. /\ vs \o es \in Seq(X) /\ Len(vs \o es) = Len(vs) + Len(es)
        /\ \A i \in 1 .. Len(vs) + Len(es) : (vs \o es)[i] = IF i <= Len(vs) THEN vs[i] ELSE es[i - Len(vs)]
    BY <2>1, ConcatProperties
  <2>3. /\ all \in Seq(X) /\ DOMAIN all = 1 .. Len(v) + Len(e)
        /\ \A i \in 1 .. Len(v) + Len(e) : all[i] = IF i <= Len(v) THEN vs[i] ELSE es[i - Len(v)]
    BY <1>5, <1>6, <2>2
  <2>4. \A i \in 1 .. Len(v) : vs[i] \in Range(all)
    <3>1. \A i \in 1 .. Len(v) : i \in DOMAIN all /\ all[i] = vs[i]
      BY <1>2, <2>3
    <3> QED
      BY <3>1 DEF Range
  <2>5. \A i \in 1 .. Len(e) : es[i] \in Range(all)
    <3>1. \A i \in 1 .. Len(e) : (Len(v) + i) \in DOMAIN all /\ all[Len(v) + i] = es[i]
      BY <1>2, <2>3
    <3> QED
      BY <3>1 DEF Range
  <2>6. Range(all) \subseteq X
    BY <2>3 DEF Range
  <2>7. X \subseteq Range(all)
    BY <1>3, <1>4, <2>4, <2>5 DEF Range, X
  <2> QED
    BY <2>3, <2>6, <2>7
<1>8. Range(P) = Range(P) /\ P = Range(vs)
  BY <1>3, <1>4 DEF Range
<1>9. methods = Gathered(Pick(X, P), all)
  <2> HIDE DEF X, all
  <2>1. \A i \in DOMAIN all : all[i] \in X
    BY <1>7
  <2> QED
    BY <2>1 DEF Filtered, Gathered, Mapped, Pick
<1>10. methods \in Seq(X) /\ Range(methods) = Range(vs)
  <2> HIDE DEF methods, all, P, X
  <2>1. methods \in Seq(X) /\ Range(methods) = Range(all) \cap P
    BY <1>7, <1>9, PicksType
  <2>2. P \subseteq X
    BY DEF P
  <2> QED
    BY <1>7, <1>8, <2>1, <2>2
<1> HIDE DEF all, X, P
<1> SUFFICES ASSUME NEW k, NEW challenge, NEW on
             PROVE  VerifySignature(did, Absent, challenge, Signature(k, on)) = TRUE
                      <=> on = challenge /\ k \in Range(v) /\ k.curve # "X25519"
  BY DEF Verified, v, keys
<1> DEFINE signature == Signature(k, on)
           Holds1(m) == Verifies(Key("Ed25519", m.publicKeyJwk.x), challenge, signature)
           some == \E m \in Range(methods) : Holds1(m)
<1>11. VerifySignature(did, Absent, challenge, signature) = IF methods = <<>> THEN Thrown ELSE some
  <2>1. doc = PeerResolve(did)
    BY DEF ResolveDID, doc
  <2> QED
    BY <2>1 DEF VerifySignature, PeerVerify, With, all
<1>12. some <=> on = challenge /\ k \in Range(v) /\ k.curve # "X25519"
  <2> HIDE DEF methods
  <2>1. \A i \in 1 .. Len(v) : Holds1(vs[i]) <=> v[i].curve # "X25519" /\ k = v[i] /\ on = challenge
    <3> TAKE i \in 1 .. Len(v)
    <3>1. Key("Ed25519", vs[i].publicKeyJwk.x) = v[i]
      BY <1>4
    <3>2. Holds1(vs[i]) <=> Verifies(v[i], challenge, Signature(k, on))
      BY <3>1
    <3> HIDE DEF Holds1
    <3> QED
      BY <3>2, SignatureIs
  <2> HIDE DEF Holds1
  <2>2. some <=> \E i \in 1 .. Len(v) : Holds1(vs[i])
    BY <1>4, <1>10 DEF Range
  <2> HIDE DEF some
  <2> QED
    BY <1>2, <2>1, <2>2 DEF Range
<1>13. methods = <<>> => ~some
  <2> HIDE DEF methods, Holds1
  <2>1. Range(<<>>) = {}
    BY DEF Range
  <2> QED
    BY <2>1
<1>14. Thrown # TRUE /\ some \in BOOLEAN /\ (some = TRUE <=> some)
  <2>1. Thrown # TRUE
    BY OutcomesAssumption
  <2>2. some \in BOOLEAN /\ (some = TRUE <=> some)
    BY Zenon
  <2> QED
    BY <2>1, <2>2
<1> HIDE DEF methods, some
<1> QED
  BY <1>11, <1>12, <1>13, <1>14

LEMMA LongVerified ==
  ASSUME NEW p, NEW did, Of1(p, did)
  PROVE  Verified(did, Absent, {x.key : x \in Range(did.hash.public_keys)})
<1> DEFINE keys == did.hash.public_keys
           M == [x \in Protos |-> PrismMethod(did, x)]
           doc == ResolveDID(did, Absent)
<1>1. /\ doc # Thrown /\ keys \in Seq(Protos)
      /\ ValuesOf(doc, "verificationMethod") = MethodsOf(did, keys)
  BY PrismResolves
<1>2. did.method = "prism"
  BY PrismEntries
<1> HIDE DEF keys, doc
<1>3. \A x \in Protos : HoldsPoint(M[x], x.key)
  <2>1. \A x \in Protos : HoldsPoint(PrismMethod(did, x), x.key)
    BY PrismMethodHolds
  <2> QED
    BY <2>1
<1>4. \A i \in DOMAIN keys : keys[i] \in Protos
  BY <1>1
<1>5. ValuesOf(doc, "verificationMethod") = Mapped(M, keys)
  BY <1>1, <1>4 DEF MethodsOf, Mapped
<1> HIDE DEF M
<1>6. \A x \in Range(keys) : HoldsPoint(M[x], x.key)
  BY <1>3, <1>4 DEF Range
<1>7. Verified(did, Absent, {x.key : x \in Range(keys)})
  BY <1>1, <1>2, <1>5, <1>6, MultibaseVerified DEF doc
<1> QED
  BY <1>7 DEF keys

\* The keys that a prism DID's document lists are those of its operation.
LEMMA LongKeys ==
  ASSUME NEW p, NEW did, Of1(p, did)
  PROVE  Range(DocumentKeys(ResolveDID(did, Absent), "verificationMethod"))
           = {x.key : x \in Range(did.hash.public_keys)}
<1> DEFINE keys == did.hash.public_keys
           doc == ResolveDID(did, Absent)
<1>1. /\ keys \in Seq(Protos)
      /\ ValuesOf(doc, "verificationMethod") = MethodsOf(did, keys)
  BY PrismResolves
<1> HIDE DEF keys, doc
<1>2. \A i \in DOMAIN keys : PKInstance(PrismMethod(did, keys[i])) = keys[i].key
  <2>1. \A i \in DOMAIN keys : keys[i] \in Protos
    BY <1>1
  <2> QED
    BY <2>1, PrismMethodHolds
<1>3. DocumentKeys(doc, "verificationMethod") = [i \in DOMAIN keys |-> keys[i].key]
  BY <1>1, <1>2 DEF DocumentKeys, MapSeq, MethodsOf
<1>4. Range(DocumentKeys(doc, "verificationMethod")) = {x.key : x \in Range(keys)}
  BY <1>3 DEF Range
<1> QED
  BY <1>4 DEF keys, doc

LEMMA ShortVerified ==
  ASSUME NEW p, NEW did, NEW short, NEW form, Of3(p, did, short, form),
         NEW json, json = RegistryDocument(short, did.hash, form)
  PROVE  Verified(short, json, IF form \in Multibase THEN {x.key : x \in Range(did.hash.public_keys)} ELSE {})
<1> DEFINE keys == did.hash.public_keys
           M == RegistryMethods(short, form)
           doc == ResolveDID(short, json)
<1>1. /\ keys \in Seq(Protos)
      /\ \A x \in Range(keys) : RegistryMethodIs(M[x], short, x, form)
  BY RegistryHolds
<1>2. doc # Thrown /\ ValuesOf(doc, "verificationMethod") = ListedMethods(short, form, keys)
  BY RegistryResolved
<1>3. ValuesOf(doc, "verificationMethod") = IF form = "embedded" THEN <<>> ELSE Mapped(M, keys)
  BY <1>2 DEF ListedMethods
<1>4. short.method = "prism"
  <2>1. Of1(p, did) /\ short = ShortForm(did)
    BY DEF Of3
  <2> QED
    BY <2>1, PrismEntries DEF ShortForm, LongForm
<1> HIDE DEF keys, M, doc
<1>5. CASE form \in Multibase
  <2>1. ValuesOf(doc, "verificationMethod") = Mapped(M, keys)
    BY <1>3, <1>5 DEF Multibase
  <2>2. \A x \in Range(keys) : HoldsPoint(M[x], x.key)
    BY <1>1, <1>5 DEF RegistryMethodIs
  <2>3. Verified(short, json, {x.key : x \in Range(keys)})
    BY <1>1, <1>2, <1>4, <2>1, <2>2, MultibaseVerified DEF doc
  <2> QED
    BY <1>5, <2>3 DEF keys
<1>6. CASE form \notin Multibase
  <2>2. \A m \in Range(ValuesOf(doc, "verificationMethod")) : m.publicKeyMultibase = Absent
    <3>1. \A x \in Range(keys) : M[x].publicKeyMultibase = Absent
      BY <1>1, <1>6 DEF RegistryMethodIs
    <3>2. \A m \in Range(Mapped(M, keys)) : m.publicKeyMultibase = Absent
      BY <3>1 DEF Range, Mapped
    <3>3. Range(<<>>) = {}
      BY DEF Range
    <3> QED
      BY <1>3, <3>2, <3>3
  <2>1. Verified(short, json, {})
    BY <1>2, <1>4, <2>2, JWKUnverified DEF doc
  <2> QED
    BY <1>6, <2>1
<1> QED
  BY <1>5, <1>6

\* A signature verifies for a DID exactly when one of its keys that can sign made
\* it, and for its short form if the registry gives the keys as multibase, compressed
\* or not, whatever the key that made it and however many publications.
THEOREM SignaturesCorrect == Spec => []SignaturesAreOfTheDID
<1>1. Init => DIDsCreated /\ RegistryInv
  <2>1. Init => RegistryInv
    BY DEF Init, RegistryInv
  <2> QED
    BY <2>1, InitCreated
<1>2. DIDsCreated /\ RegistryInv /\ [Next]_vars => DIDsCreated' /\ RegistryInv'
  BY CreatedStays, RegistryStays
<1>3. DIDsCreated /\ RegistryInv => SignaturesAreOfTheDID
  <2> SUFFICES ASSUME DIDsCreated, RegistryInv, NEW d \in dids, NEW keys, NEW short,
                      keys = IF d.did.method = "peer" THEN Of(KeysFrom(d.of), "Ed25519")
                             ELSE DocumentKeys(ResolveDID(d.did, Absent), "verificationMethod"),
                      short = IF d.did.method = "prism" THEN ShortForm(d.did) ELSE d.did
               PROVE  \A k :
                        LET signature == Signature(k, Challenge)
                        IN  /\ VerifySignature(d.did, Absent, Challenge, signature) = TRUE
                                 <=> k \in Range(keys) /\ k.curve # "X25519"
                            /\ VerifySignature(d.did, Absent, d.did, signature) # TRUE
                            /\ d.did.method = "prism" /\ short \in DOMAIN registry =>
                                 (VerifySignature(short, registry[short].json, Challenge, signature) = TRUE
                                    <=> /\ k \in Range(keys) /\ k.curve # "X25519"
                                        /\ registry[short].form \in Multibase)
    BY ZenonT(30) DEF SignaturesAreOfTheDID, KeysFrom, Multibase
  <2>1. d.of \in Offered /\ d = Created(d.of) /\ d.did # Thrown
    BY DEF DIDsCreated
  <2>2. /\ d.did.method \in {"prism", "peer"}
        /\ d.did.method = "prism" => Of1(d.of, d.did)
        /\ d.did.method = "peer" => Of2(d.of, d.did)
    BY <2>1, CreatedMethod
  <2>3. Challenge # d.did
    <3>1. d.did = Created(d.of).did
      BY <2>1
    <3> QED
      BY <2>1, <3>1, DocumentsAssumption
  <2>4. Verified(d.did, Absent, Range(keys))
    <3>1. CASE d.did.method = "prism"
      <4>1. Range(keys) = {x.key : x \in Range(d.did.hash.public_keys)}
        BY <2>2, <3>1, LongKeys
      <4> QED
        BY <2>2, <3>1, <4>1, LongVerified
    <3>2. CASE d.did.method = "peer"
      BY <2>2, <3>2, PeerVerified
    <3> QED
      BY <2>2, <3>1, <3>2
  <2>5. ASSUME d.did.method = "prism", short \in DOMAIN registry
        PROVE  Verified(short, registry[short].json,
                        IF registry[short].form \in Multibase THEN Range(keys) ELSE {})
    <3> DEFINE S == {x.key : x \in Range(d.did.hash.public_keys)}
    <3>1. Of1(d.of, d.did) /\ Range(keys) = S /\ short = ShortForm(d.did)
      BY <2>2, <2>5, LongKeys
    <3>2. short.hash = d.did.hash
      <4> DEFINE op == d.did.hash
      <4>1. d.did = LongForm(op)
        BY <3>1, PrismEntries
      <4> HIDE DEF op
      <4>2. short.hash = op
        BY <3>1, <4>1 DEF ShortForm, LongForm
      <4> QED
        BY <4>2 DEF op
    <3> DEFINE form == registry[short].form
    <3>3. form \in Forms /\ registry[short].json = RegistryDocument(short, short.hash, form)
      BY <2>5 DEF RegistryInv, RegistryHas
    <3> HIDE DEF form
    <3>4. Of3(d.of, d.did, short, form)
      BY <3>1, <3>3 DEF Of3
    <3>5. Verified(short, registry[short].json, IF form \in Multibase THEN S ELSE {})
      <4> DEFINE json == registry[short].json
                 did == d.did
      <4>1. json = RegistryDocument(short, did.hash, form)
        BY <3>2, <3>3
      <4> HIDE DEF json
      <4> QED
        BY ONLY <3>4, <4>1, ShortVerified DEF json
    <3> HIDE DEF S
    <3> QED
      BY <3>1, <3>5 DEF form
  <2> TAKE k
  <2> DEFINE signature == Signature(k, Challenge)
  <2>6. VerifySignature(d.did, Absent, Challenge, signature) = TRUE
          <=> k \in Range(keys) /\ k.curve # "X25519"
    BY <2>4 DEF Verified
  <2>7. VerifySignature(d.did, Absent, d.did, signature) # TRUE
    BY <2>3, <2>4 DEF Verified
  <2>8. d.did.method = "prism" /\ short \in DOMAIN registry =>
          (VerifySignature(short, registry[short].json, Challenge, signature) = TRUE
             <=> /\ k \in Range(keys) /\ k.curve # "X25519"
                 /\ registry[short].form \in Multibase)
    <3> SUFFICES ASSUME d.did.method = "prism", short \in DOMAIN registry
                 PROVE  VerifySignature(short, registry[short].json, Challenge, signature) = TRUE
                          <=> /\ k \in Range(keys) /\ k.curve # "X25519"
                              /\ registry[short].form \in Multibase
      OBVIOUS
    <3> DEFINE S == IF registry[short].form \in Multibase THEN Range(keys) ELSE {}
               json == registry[short].json
    <3>1. Verified(short, json, S)
      BY <2>5
    <3>2. k \in S <=> k \in Range(keys) /\ registry[short].form \in Multibase
      OBVIOUS
    <3> HIDE DEF S, json
    <3>3. VerifySignature(short, json, Challenge, signature) = TRUE <=> k \in S /\ k.curve # "X25519"
      BY <3>1 DEF Verified
    <3> QED
      BY <3>2, <3>3 DEF json
  <2> QED
    BY <2>6, <2>7, <2>8
<1> QED
  BY <1>1, <1>2, <1>3, PTL DEF Spec
====
