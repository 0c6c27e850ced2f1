---------------------------- MODULE MengenLemmas ----------------------------
(***************************************************************************)
(* Finite sets that the proofs about the pipeline need: the greatest and   *)
(* the least number of a set, images, the ascending sequence of the        *)
(* members of a set, and picking places of a sequence.                     *)
(***************************************************************************)
EXTENDS Reihen, SequencesExt, FiniteSetsExt, FiniteSetTheorems, SequenceTheorems, WellFoundedInduction, TLAPS

\* A property that passes from S without one member to S holds of finite sets:
\* else there is a least set without it.
LEMMA KleinsteOhne ==
  ASSUME NEW U, NEW Ohne, Ohne # {}, Ohne \subseteq SUBSET U, \A S \in Ohne : IsFiniteSet(S)
  PROVE  \E S \in Ohne : \A a \in S : S \ {a} \notin Ohne
<1>1. Ohne \subseteq FiniteSubsetsOf(U)
  BY DEF FiniteSubsetsOf
<1>2. PICK S \in Ohne : \A T \in Ohne : ~(<<T, S>> \in StrictSubsetOrdering(U))
  <2>1. IsWellFoundedOn(StrictSubsetOrdering(U), FiniteSubsetsOf(U))
    BY FS_StrictSubsetOrderingWellFounded
  <2>2. QED BY <1>1, <2>1, WFMin
<1>3. ASSUME NEW a \in S PROVE S \ {a} \notin Ohne
  <2>1. S \in SUBSET U /\ S \ {a} \in SUBSET U
    OBVIOUS
  <2>2. <<S \ {a}, S>> \in StrictSubsetOrdering(U)
    BY <1>3, <2>1 DEF StrictSubsetOrdering
  <2>3. QED BY <1>2, <2>2
<1>4. QED BY <1>3

\* A finite set of numbers has a greatest one.
LEMMA Groesstes ==
  ASSUME NEW S, IsFiniteSet(S), S \subseteq Int, S # {}
  PROVE  \E x \in S : \A y \in S : y <= x
<1> DEFINE Hat(T) == \E x \in T : \A y \in T : y <= x
           Ohne == {T \in SUBSET S : T # {} /\ ~Hat(T)}
<1> SUFFICES ASSUME Ohne # {} PROVE FALSE
  OBVIOUS
<1>1. Ohne \subseteq SUBSET S /\ \A T \in Ohne : IsFiniteSet(T)
  BY FS_Subset
<1>2. PICK T \in Ohne : \A a \in T : T \ {a} \notin Ohne
  <2> HIDE DEF Ohne
  <2>1. QED BY <1>1, KleinsteOhne
<1>3. PICK a \in T : TRUE
  OBVIOUS
<1>4. CASE T = {a}
  BY <1>4
<1>5. CASE T \ {a} # {}
  <2>1. PICK o \in T \ {a} : \A y \in T \ {a} : y <= o
    BY <1>2, <1>3, <1>5
  <2>2. CASE a <= o
    BY <2>1, <2>2
  <2>3. CASE o < a
    <3>1. \A y \in T : y <= a
      BY <2>1, <2>3
    <3>2. QED BY <3>1
  <2>4. QED BY <2>2, <2>3
<1>6. QED BY <1>3, <1>4, <1>5

\* Max is that one.
LEMMA MaxMenge ==
  ASSUME NEW S, IsFiniteSet(S), S \subseteq Int, S # {}
  PROVE  Max(S) \in S /\ \A y \in S : y <= Max(S)
<1>1. \E x \in S : \A y \in S : x >= y
  <2>1. PICK x \in S : \A y \in S : y <= x
    BY Groesstes
  <2>2. QED BY <2>1
<1>2. Max(S) \in S /\ \A y \in S : Max(S) >= y
  BY <1>1 DEF Max
<1>3. QED BY <1>2

\* A set of natural numbers has a least one, and Min is that one.
LEMMA MinMenge ==
  ASSUME NEW S, S \subseteq Nat, S # {}
  PROVE  Min(S) \in S /\ \A y \in S : Min(S) <= y
<1>1. \E x \in S : \A y \in S : x <= y
  <2>1. IsWellFoundedOn(OpToRel(<, Nat), Nat)
    BY NatLessThanWellFounded
  <2>2. PICK x \in S : \A y \in S : ~(<<y, x>> \in OpToRel(<, Nat))
    BY <2>1, WFMin
  <2>3. ASSUME NEW y \in S PROVE x <= y
    <3>1. ~(y < x)
      BY <2>2 DEF OpToRel
    <3>2. QED BY <3>1
  <2>4. QED BY <2>3
<1>2. QED BY <1>1 DEF Min

\* The image of a finite set is finite.
LEMMA BildEndlich ==
  ASSUME NEW S, IsFiniteSet(S), NEW f
  PROVE  IsFiniteSet({f[x] : x \in S})
<1> DEFINE T == {f[x] : x \in S}
           g == [x \in S |-> f[x]]
<1>1. g \in Surjection(S, T)
  BY DEF Surjection
<1>2. QED BY <1>1, FS_Surjection

-----------------------------------------------------------------------------
(***************************************************************************)
(* Ascending sequences.                                                    *)
(***************************************************************************)
\* vor, as a set of pairs, puts any two members of S in order.
Ordnet(vor, S) ==
  /\ \A x, y \in S : x # y => <<x, y>> \in vor \/ <<y, x>> \in vor
  /\ \A x, y, z \in S : <<x, y>> \in vor /\ <<y, z>> \in vor => <<x, z>> \in vor
  /\ \A x \in S : <<x, x>> \notin vor

Steigend(s, n, vor) == \A i, j \in 1 .. n : i < j => <<s[i], s[j]>> \in vor

\* A finite set in order has a last member.
LEMMA LetztesGibtEs ==
  ASSUME NEW S, IsFiniteSet(S), S # {}, NEW vor, Ordnet(vor, S)
  PROVE  \E x \in S : \A y \in S \ {x} : <<y, x>> \in vor
<1> DEFINE Hat(T) == \E x \in T : \A y \in T \ {x} : <<y, x>> \in vor
           Ohne == {T \in SUBSET S : T # {} /\ ~Hat(T)}
<1> SUFFICES ASSUME Ohne # {} PROVE FALSE
  OBVIOUS
<1>1. Ohne \subseteq SUBSET S /\ \A T \in Ohne : IsFiniteSet(T)
  BY FS_Subset
<1>2. PICK T \in Ohne : \A a \in T : T \ {a} \notin Ohne
  <2> HIDE DEF Ohne
  <2>1. QED BY <1>1, KleinsteOhne
<1>3. PICK a \in T : TRUE
  OBVIOUS
<1>4. CASE T = {a}
  BY <1>4
<1>5. CASE T \ {a} # {}
  <2>1. PICK o \in T \ {a} : \A y \in (T \ {a}) \ {o} : <<y, o>> \in vor
    BY <1>2, <1>3, <1>5
  <2>2. o \in S /\ a \in S /\ o # a /\ T \subseteq S
    OBVIOUS
  <2>3. CASE <<a, o>> \in vor
    BY <2>1, <2>3
  <2>4. CASE <<o, a>> \in vor
    <3>1. ASSUME NEW y \in T \ {a} PROVE <<y, a>> \in vor
      <4>1. CASE y = o
        BY <2>4, <4>1
      <4>2. CASE y # o
        BY <2>1, <2>2, <2>4, <4>2 DEF Ordnet
      <4>3. QED BY <4>1, <4>2
    <3>2. QED BY <3>1
  <2>5. QED BY <2>2, <2>3, <2>4 DEF Ordnet
<1>6. QED BY <1>3, <1>4, <1>5

\* Such a set has an ascending sequence of its members.
LEMMA ReiheGibtEs ==
  ASSUME NEW S, IsFiniteSet(S), NEW vor, Ordnet(vor, S)
  PROVE  \E s \in [1 .. Cardinality(S) -> S] : Steigend(s, Cardinality(S), vor)
<1> DEFINE Hat(T) == \E s \in [1 .. Cardinality(T) -> T] : Steigend(s, Cardinality(T), vor)
           Ohne == {T \in SUBSET S : ~Hat(T)}
<1> SUFFICES ASSUME Ohne # {} PROVE FALSE
  OBVIOUS
<1>1. Ohne \subseteq SUBSET S /\ \A T \in Ohne : IsFiniteSet(T)
  BY FS_Subset
<1>2. PICK T \in Ohne : \A a \in T : T \ {a} \notin Ohne
  <2> HIDE DEF Ohne
  <2>1. QED BY <1>1, KleinsteOhne
<1>3. IsFiniteSet(T) /\ T \subseteq S /\ ~Hat(T)
  BY <1>1
<1>4. CASE T = {}
  <2>1. Cardinality(T) = 0
    BY <1>4, FS_EmptySet
  <2> DEFINE leer == [i \in 1 .. 0 |-> 0]
  <2>2. leer \in [1 .. 0 -> T]
    OBVIOUS
  <2>3. Steigend(leer, 0, vor)
    BY DEF Steigend
  <2> HIDE DEF leer
  <2>4. Hat(T)
    BY <2>1, <2>2, <2>3
  <2>5. QED BY <1>3, <2>4
<1>5. CASE T # {}
  <2>1. PICK a \in T : \A y \in T \ {a} : <<y, a>> \in vor
    <3>1. Ordnet(vor, T)
      BY <1>3 DEF Ordnet
    <3>2. QED BY <1>3, <1>5, <3>1, LetztesGibtEs
  <2> DEFINE R == T \ {a}
             n == Cardinality(R)
  <2>2. IsFiniteSet(R) /\ n \in Nat /\ Cardinality(T) = n + 1
    <3>1. IsFiniteSet(R) /\ n = Cardinality(T) - 1
      BY <1>3, <2>1, FS_RemoveElement
    <3>2. n \in Nat /\ Cardinality(T) \in Nat
      BY <1>3, <3>1, FS_CardinalityType
    <3>3. QED BY <3>1, <3>2
  <2>3. PICK s \in [1 .. n -> R] : Steigend(s, n, vor)
    <3>1. R \notin Ohne /\ R \in SUBSET S
      BY <1>2, <1>3, <2>1
    <3>2. QED BY <3>1
  <2> HIDE DEF R, n
  <2> DEFINE t == [i \in 1 .. n + 1 |-> IF i <= n THEN s[i] ELSE a]
  <2>4. t \in [1 .. n + 1 -> T]
    <3>1. R \subseteq T
      BY DEF R
    <3>2. QED BY <2>2, <2>3, <3>1
  <2>5. Steigend(t, n + 1, vor)
    <3>1. SUFFICES ASSUME NEW i \in 1 .. n + 1, NEW j \in 1 .. n + 1, i < j
                   PROVE  <<t[i], t[j]>> \in vor
      BY DEF Steigend
    <3>2. i \in 1 .. n /\ t[i] = s[i] /\ s[i] \in R
      BY <2>2, <2>3, <3>1
    <3>3. CASE j <= n
      BY <2>2, <2>3, <3>1, <3>2, <3>3 DEF Steigend
    <3>4. CASE j = n + 1
      BY <2>1, <2>2, <3>2, <3>4 DEF R
    <3>5. QED BY <2>2, <3>3, <3>4
  <2> HIDE DEF t
  <2>6. QED BY <1>3, <2>2, <2>4, <2>5
<1>6. QED BY <1>4, <1>5

\* An ascending sequence of as many members as S has meets each once.
LEMMA ReiheTrifft ==
  ASSUME NEW S, IsFiniteSet(S), NEW vor, Ordnet(vor, S),
         NEW s \in [1 .. Cardinality(S) -> S], Steigend(s, Cardinality(S), vor)
  PROVE  /\ Cardinality(S) \in Nat
         /\ \A x \in S : \E i \in 1 .. Cardinality(S) : s[i] = x
         /\ \A i, j \in 1 .. Cardinality(S) : s[i] = s[j] => i = j
<1> DEFINE n == Cardinality(S)
<1>1. n \in Nat
  BY FS_CardinalityType
<1>2. \A i, j \in 1 .. n : s[i] = s[j] => i = j
  <2>1. SUFFICES ASSUME NEW i \in 1 .. n, NEW j \in 1 .. n, s[i] = s[j], i # j PROVE FALSE
    OBVIOUS
  <2>2. s[i] \in S /\ s[j] \in S
    BY <2>1
  <2>3. CASE i < j
    BY <2>1, <2>2, <2>3 DEF Steigend, Ordnet
  <2>4. CASE j < i
    BY <2>1, <2>2, <2>4 DEF Steigend, Ordnet
  <2>5. QED BY <1>1, <2>1, <2>3, <2>4
<1>3. s \in Injection(1 .. n, S)
  BY <1>2 DEF Injection, IsInjective
<1>4. s \in Surjection(1 .. n, S)
  <2>1. Cardinality(1 .. n) = n
    BY <1>1, FS_Interval
  <2>2. QED BY <1>3, <2>1, FS_Injection
<1>5. QED BY <1>1, <1>2, <1>4 DEF Surjection

\* The greater and the smaller of two numbers.
LEMMA Groesseres ==
  ASSUME NEW x \in Int, NEW y \in Int
  PROVE  Max({x, y}) \in {x, y} /\ x <= Max({x, y}) /\ y <= Max({x, y})
<1>1. IsFiniteSet({x, y}) /\ {x, y} \subseteq Int /\ {x, y} # {}
  <2>1. IsFiniteSet({x}) /\ IsFiniteSet({x} \cup {y}) /\ {x, y} = {x} \cup {y}
    BY FS_Singleton, FS_AddElement
  <2>2. QED BY <2>1
<1>2. QED BY <1>1, MaxMenge

\* The same for natural numbers.
LEMMA GroesseresNat ==
  ASSUME NEW x \in Nat, NEW y \in Nat
  PROVE  Max({x, y}) \in {x, y} /\ Max({x, y}) \in Nat /\ Max({x, y}) >= x /\ Max({x, y}) >= y
<1>1. x \in Int /\ y \in Int
  OBVIOUS
<1>2. Max({x, y}) \in {x, y} /\ x <= Max({x, y}) /\ y <= Max({x, y})
  BY <1>1, Groesseres
<1>3. QED BY <1>2

\* The smaller of two numbers.
LEMMA Kleineres ==
  ASSUME NEW x \in Nat, NEW y \in Nat
  PROVE  Min({x, y}) \in {x, y} /\ Min({x, y}) <= x /\ Min({x, y}) <= y
<1>1. {x, y} \subseteq Nat /\ {x, y} # {}
  OBVIOUS
<1>2. QED BY <1>1, MinMenge

\* The greatest of n and the numbers of a finite set.
LEMMA MaxMit ==
  ASSUME NEW n \in Nat, NEW S \in SUBSET Nat, IsFiniteSet(S)
  PROVE  LET m == Max({n} \cup S)
         IN  m \in Nat /\ m \in {n} \cup S /\ n <= m /\ \A x \in S : x <= m
<1>1. IsFiniteSet({n} \cup S)
  <2>1. IsFiniteSet(S \cup {n}) /\ S \cup {n} = {n} \cup S
    BY FS_AddElement
  <2>2. QED BY <2>1
<1>2. {n} \cup S \subseteq Int /\ {n} \cup S # {}
  OBVIOUS
<1>3. QED BY <1>1, <1>2, MaxMenge

\* Sortiert for numbers.
LEMMA SortiertZahlen ==
  ASSUME NEW I, IsFiniteSet(I), I \subseteq Int
  PROVE  LET s == Sortiert(I, <)
             n == Cardinality(I)
         IN  /\ n \in Nat /\ s \in [1 .. n -> I]
             /\ \A x \in I : \E i \in 1 .. n : s[i] = x
             /\ \A i, j \in 1 .. n : i < j => s[i] < s[j]
<1> DEFINE vor == {p \in I \X I : p[1] < p[2]}
           n == Cardinality(I)
           s == Sortiert(I, <)
<1>1. \A x, y \in I : <<x, y>> \in vor <=> x < y
  OBVIOUS
<1> HIDE DEF vor
<1>2. Ordnet(vor, I)
  BY <1>1 DEF Ordnet
<1>3. \E q \in [1 .. n -> I] : \A i, j \in 1 .. n : i < j => q[i] < q[j]
  <2>1. PICK q \in [1 .. n -> I] : Steigend(q, n, vor)
    BY <1>2, ReiheGibtEs
  <2>2. QED BY <1>1, <2>1 DEF Steigend
<1>4. s \in [1 .. n -> I] /\ \A i, j \in 1 .. n : i < j => s[i] < s[j]
  BY <1>3 DEF Sortiert
<1> HIDE DEF s
<1>5. Steigend(s, n, vor)
  BY <1>1, <1>4 DEF Steigend
<1>6. n \in Nat /\ \A x \in I : \E i \in 1 .. n : s[i] = x
  BY <1>2, <1>4, <1>5, ReiheTrifft
<1>7. QED BY <1>4, <1>6 DEF s

\* p lists the n places I of q in order.
Waehlt(n, p, q, I) ==
  /\ p \in [1 .. n -> I]
  /\ Ausgewaehlt(q, I) = [i \in 1 .. n |-> q[p[i]]]
  /\ \A x \in I : \E i \in 1 .. n : p[i] = x
  /\ \A i, j \in 1 .. n : i < j => p[i] < p[j]

\* Picking places of a sequence keeps their order.
LEMMA AusgewaehltReihe ==
  ASSUME NEW X, NEW q \in Seq(X), NEW I \in SUBSET DOMAIN q
  PROVE  \E n \in Nat : \E p : Waehlt(n, p, q, I)
<1> DEFINE n == Cardinality(I)
           s == Sortiert(I, <)
<1>1. IsFiniteSet(I) /\ I \subseteq Int
  <2>1. Len(q) \in Nat /\ DOMAIN q = 1 .. Len(q)
    OBVIOUS
  <2>2. IsFiniteSet(DOMAIN q)
    BY <2>1, FS_Interval
  <2>3. QED BY <2>1, <2>2, FS_Subset
<1>2. /\ n \in Nat /\ s \in [1 .. n -> I] /\ \A x \in I : \E i \in 1 .. n : s[i] = x
      /\ \A i, j \in 1 .. n : i < j => s[i] < s[j]
  BY <1>1, SortiertZahlen
<1>3. Ausgewaehlt(q, I) = [i \in 1 .. n |-> q[s[i]]]
  BY DEF Ausgewaehlt
<1> HIDE DEF n, s
<1>4. Waehlt(n, s, q, I)
  BY <1>2, <1>3 DEF Waehlt
<1>5. QED BY <1>2, <1>4

\* It takes exactly the chosen places.
LEMMA AusgewaehltIst ==
  ASSUME NEW X, NEW q \in Seq(X), NEW I \in SUBSET DOMAIN q
  PROVE  /\ Ausgewaehlt(q, I) \in Seq(X)
         /\ ToSet(Ausgewaehlt(q, I)) = {q[i] : i \in I}
<1>1. PICK n \in Nat : \E p : Waehlt(n, p, q, I)
  BY AusgewaehltReihe
<1>2. PICK p : Waehlt(n, p, q, I)
  BY <1>1
<1>3. \A i \in 1 .. n : q[p[i]] \in X
  BY <1>2 DEF Waehlt
<1>4. Ausgewaehlt(q, I) \in Seq(X)
  BY <1>2, <1>3 DEF Waehlt
<1>5. ToSet(Ausgewaehlt(q, I)) = {q[p[i]] : i \in 1 .. n}
  <2> DEFINE f == [i \in 1 .. n |-> q[p[i]]]
  <2>1. DOMAIN f = 1 .. n /\ \A i \in 1 .. n : f[i] = q[p[i]]
    OBVIOUS
  <2>2. ToSet(f) = {f[i] : i \in DOMAIN f}
    BY DEF ToSet
  <2>3. QED BY <1>2, <2>1, <2>2 DEF Waehlt
<1>6. QED BY <1>2, <1>4, <1>5 DEF Waehlt

\* The members of a sequence, of a concatenation, and of a part.
LEMMA MengeDerReihe ==
  ASSUME NEW X, NEW q \in Seq(X)
  PROVE  /\ ToSet(q) \in SUBSET X /\ IsFiniteSet(ToSet(q))
         /\ ToSet(q) = {q[i] : i \in 1 .. Len(q)}
<1>1. Len(q) \in Nat /\ DOMAIN q = 1 .. Len(q) /\ \A i \in 1 .. Len(q) : q[i] \in X
  OBVIOUS
<1>2. ToSet(q) = {q[i] : i \in 1 .. Len(q)}
  BY <1>1 DEF ToSet
<1>3. IsFiniteSet(1 .. Len(q))
  BY <1>1, FS_Interval
<1>4. IsFiniteSet({q[i] : i \in 1 .. Len(q)})
  BY <1>3, BildEndlich
<1>5. QED BY <1>1, <1>2, <1>4

LEMMA MengeVerkettet ==
  ASSUME NEW X, NEW q \in Seq(X), NEW r \in Seq(X)
  PROVE  /\ q \o r \in Seq(X) /\ ToSet(q \o r) = ToSet(q) \cup ToSet(r)
         /\ Len(q \o r) = Len(q) + Len(r)
         /\ \A i \in 1 .. Len(q) : (q \o r)[i] = q[i]
         /\ \A i \in 1 .. Len(r) : (q \o r)[Len(q) + i] = r[i]
<1> DEFINE s == q \o r
<1>1. /\ s \in Seq(X) /\ Len(s) = Len(q) + Len(r)
      /\ \A i \in 1 .. Len(q) + Len(r) : s[i] = IF i <= Len(q) THEN q[i] ELSE r[i - Len(q)]
  BY ConcatProperties
<1> HIDE DEF s
<1>2. Len(q) \in Nat /\ Len(r) \in Nat
  OBVIOUS
<1>3. \A i \in 1 .. Len(q) : s[i] = q[i]
  BY <1>1, <1>2
<1>4. \A i \in 1 .. Len(r) : s[Len(q) + i] = r[i]
  <2>1. SUFFICES ASSUME NEW i \in 1 .. Len(r) PROVE s[Len(q) + i] = r[i]
    OBVIOUS
  <2>2. Len(q) + i \in 1 .. Len(q) + Len(r) /\ ~(Len(q) + i <= Len(q)) /\ (Len(q) + i) - Len(q) = i
    BY <1>2
  <2>3. QED BY <1>1, <2>2
<1>5. ToSet(s) = {s[i] : i \in 1 .. Len(s)} /\ ToSet(q) = {q[i] : i \in 1 .. Len(q)} /\ ToSet(r) = {r[i] : i \in 1 .. Len(r)}
  BY <1>1, MengeDerReihe
<1>6. ASSUME NEW x \in ToSet(s) PROVE x \in ToSet(q) \cup ToSet(r)
  <2>1. PICK i \in 1 .. Len(s) : x = s[i]
    BY <1>5
  <2>2. CASE i <= Len(q)
    BY <1>1, <1>2, <1>5, <2>1, <2>2
  <2>3. CASE ~(i <= Len(q))
    <3>1. i - Len(q) \in 1 .. Len(r) /\ x = r[i - Len(q)]
      BY <1>1, <1>2, <2>1, <2>3
    <3>2. QED BY <1>5, <3>1
  <2>4. QED BY <2>2, <2>3
<1>7. ASSUME NEW x \in ToSet(q) PROVE x \in ToSet(s)
  <2>1. PICK i \in 1 .. Len(q) : x = q[i]
    BY <1>5
  <2>2. i \in 1 .. Len(s) /\ s[i] = x
    BY <1>1, <1>2, <1>3, <2>1
  <2>3. QED BY <1>5, <2>2
<1>8. ASSUME NEW x \in ToSet(r) PROVE x \in ToSet(s)
  <2>1. PICK i \in 1 .. Len(r) : x = r[i]
    BY <1>5
  <2>2. Len(q) + i \in 1 .. Len(s) /\ s[Len(q) + i] = x
    BY <1>1, <1>2, <1>4, <2>1
  <2>3. QED BY <1>5, <2>2
<1>9. QED BY <1>1, <1>3, <1>4, <1>6, <1>7, <1>8 DEF s

\* A sequence falls apart into its first n members and the others.
LEMMA Geteilt ==
  ASSUME NEW X, NEW q \in Seq(X), NEW n \in 0 .. Len(q)
  PROVE  LET a == SubSeq(q, 1, n)
             b == SubSeq(q, n + 1, Len(q))
         IN  /\ a \in Seq(X) /\ Len(a) = n /\ \A i \in 1 .. n : a[i] = q[i]
             /\ b \in Seq(X) /\ Len(b) = Len(q) - n /\ \A i \in 1 .. Len(q) - n : b[i] = q[n + i]
             /\ ToSet(a) \cup ToSet(b) = ToSet(q)
<1> DEFINE a == SubSeq(q, 1, n)
           b == SubSeq(q, n + 1, Len(q))
<1>1. Len(q) \in Nat /\ n \in Nat /\ n <= Len(q) /\ \A i \in 1 .. Len(q) : q[i] \in X
  OBVIOUS
<1>2. a \in Seq(X) /\ Len(a) = n /\ \A i \in 1 .. n : a[i] = q[i]
  <2>1. \A i \in 1 .. n : q[i] \in X
    BY <1>1
  <2>2. /\ a \in Seq(X) /\ Len(a) = IF 1 <= n THEN n - 1 + 1 ELSE 0
        /\ \A i \in 1 .. n - 1 + 1 : a[i] = q[1 + i - 1]
    BY <1>1, <2>1, SubSeqProperties
  <2> HIDE DEF a
  <2>3. n - 1 + 1 = n /\ \A i \in 1 .. n : 1 + i - 1 = i
    BY <1>1
  <2>4. QED BY <1>1, <2>2, <2>3
<1>3. b \in Seq(X) /\ Len(b) = Len(q) - n /\ \A i \in 1 .. Len(q) - n : b[i] = q[n + i]
  <2>1. \A i \in n + 1 .. Len(q) : q[i] \in X
    BY <1>1
  <2>2. n + 1 \in Int /\ Len(q) \in Int
    BY <1>1
  <2>3. /\ b \in Seq(X) /\ Len(b) = IF n + 1 <= Len(q) THEN Len(q) - (n + 1) + 1 ELSE 0
        /\ \A i \in 1 .. Len(q) - (n + 1) + 1 : b[i] = q[(n + 1) + i - 1]
    BY <2>1, <2>2, SubSeqProperties
  <2> HIDE DEF b
  <2>4. Len(q) - (n + 1) + 1 = Len(q) - n /\ \A i \in 1 .. Len(q) - n : (n + 1) + i - 1 = n + i
    BY <1>1
  <2>5. Len(b) = Len(q) - n
    <3>1. CASE n + 1 <= Len(q)
      BY <2>3, <2>4, <3>1
    <3>2. CASE ~(n + 1 <= Len(q))
      <4>1. Len(q) - n = 0
        BY <1>1, <3>2
      <4>2. QED BY <2>3, <3>2, <4>1
    <3>3. QED BY <3>1, <3>2
  <2>6. \A i \in 1 .. Len(q) - n : b[i] = q[n + i]
    BY <1>1, <2>3, <2>4
  <2>7. QED BY <2>3, <2>5, <2>6
<1> HIDE DEF a, b
<1>4. /\ ToSet(a) = {a[i] : i \in 1 .. n} /\ ToSet(b) = {b[i] : i \in 1 .. Len(q) - n}
      /\ ToSet(q) = {q[i] : i \in 1 .. Len(q)}
  BY <1>2, <1>3, MengeDerReihe
<1>5. ASSUME NEW x \in ToSet(q) PROVE x \in ToSet(a) \cup ToSet(b)
  <2>1. PICK i \in 1 .. Len(q) : x = q[i]
    BY <1>4
  <2>2. CASE i <= n
    BY <1>1, <1>2, <1>4, <2>1, <2>2
  <2>3. CASE ~(i <= n)
    <3>1. i - n \in 1 .. Len(q) - n /\ n + (i - n) = i
      BY <1>1, <2>3
    <3>2. QED BY <1>3, <1>4, <2>1, <3>1
  <2>4. QED BY <2>2, <2>3
<1>6. ASSUME NEW x \in ToSet(a) PROVE x \in ToSet(q)
  BY <1>1, <1>2, <1>4
<1>7. ASSUME NEW x \in ToSet(b) PROVE x \in ToSet(q)
  <2>1. PICK i \in 1 .. Len(q) - n : x = b[i]
    BY <1>4
  <2>2. n + i \in 1 .. Len(q) /\ q[n + i] = x
    BY <1>1, <1>3, <2>1
  <2>3. QED BY <1>4, <2>2
<1>8. QED BY <1>2, <1>3, <1>5, <1>6, <1>7 DEF a, b

\* A set of numbers from 1 on that has no gap below a member is an interval.
LEMMA OhneLuecke ==
  ASSUME NEW m \in Nat, NEW I \in SUBSET (1 .. m), \A i \in I, j \in 1 .. m : j < i => j \in I
  PROVE  Cardinality(I) \in 0 .. m /\ I = 1 .. Cardinality(I)
<1>1. IsFiniteSet(I) /\ I \subseteq Int
  <2>1. IsFiniteSet(1 .. m)
    BY FS_Interval
  <2>2. I \subseteq 1 .. m /\ I \subseteq Int
    OBVIOUS
  <2>3. IsFiniteSet(I)
    BY <2>1, <2>2, FS_Subset
  <2>4. QED BY <2>2, <2>3
<1>2. CASE I = {}
  BY <1>2, FS_EmptySet
<1>3. CASE I # {}
  <2>1. PICK k \in I : \A i \in I : i <= k
    BY <1>1, <1>3, Groesstes
  <2>2. I = 1 .. k /\ k \in 1 .. m
    <3>1. k \in 1 .. m /\ I \subseteq 1 .. k
      BY <2>1
    <3>2. ASSUME NEW j \in 1 .. k PROVE j \in I
      <4>1. j \in 1 .. m /\ (j = k \/ j < k)
        BY <3>1
      <4>2. QED BY <4>1
    <3>3. QED BY <3>1, <3>2
  <2>3. Cardinality(1 .. k) = k
    BY <2>2, FS_Interval
  <2>4. QED BY <2>2, <2>3
<1>4. QED BY <1>2, <1>3
=============================================================================
