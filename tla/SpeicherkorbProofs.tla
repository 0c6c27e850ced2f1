------------------------ MODULE SpeicherkorbProofs -------------------------
(***************************************************************************)
(* Proofs about the outgoing side (Speicherkorb): types, no order twice in *)
(* the blocks, no block ahead of the log, nothing applied is lost, the     *)
(* first restart is not refused, the blocks keep the order of application, *)
(* and Ausgangsfolge is implemented.  They hold for every set of orders    *)
(* and accounts, every block size, and every number of failures; what they *)
(* ask of crashes each theorem says.                                       *)
(*                                                                         *)
(* First what the sorting and the operators of the model do (Geordnet,     *)
(* Hinzu, AnzahlNehmen, Mischlaenge, Bis), then one lemma ...Tut for every *)
(* action, then the invariants: Grund (types and the places of entries and *)
(* rows), VerblocktOK (the blocks), PhaseOK (what a restart finds),        *)
(* StartOK (the end of the file), ReiheOK and Danach (the order of         *)
(* application), and last the refinement, step by step.                    *)
(***************************************************************************)
EXTENDS Speicherkorb, MengenLemmas

\* The members of s stand in the order of application.
Aufsteigend(s) == \A i, j \in 1 .. Len(s) : i < j => Frueher(s[i], s[j])

\* Number and id tell the entries of E apart.
Unterscheidbar(E) == \A x, y \in E : x.seq = y.seq /\ x.id = y.id => x = y

\* The order of application orders all entries that number and id tell apart.
LEMMA FrueherOrdnet ==
  ASSUME NEW E \in SUBSET Eintraege
  PROVE  /\ \A x, y, z \in E : Frueher(x, y) /\ Frueher(y, z) => Frueher(x, z)
         /\ \A x \in E : ~Frueher(x, x)
         /\ Unterscheidbar(E) => \A x, y \in E : x # y => Frueher(x, y) \/ Frueher(y, x)
<1>1. \A x \in E : x.seq \in Nat /\ x.id \in Nat
  BY DEF Eintraege
<1>2. \A x, y, z \in E : Frueher(x, y) /\ Frueher(y, z) => Frueher(x, z)
  BY <1>1 DEF Frueher, AusWAL
<1>3. \A x \in E : ~Frueher(x, x)
  BY <1>1 DEF Frueher, AusWAL
<1>4. Unterscheidbar(E) => \A x, y \in E : x # y => Frueher(x, y) \/ Frueher(y, x)
  BY <1>1 DEF Frueher, AusWAL, Unterscheidbar
<1>5. QED BY <1>2, <1>3, <1>4

\* Sorting a finite set of entries gives an ascending sequence of its members.
LEMMA GeordnetIst ==
  ASSUME NEW E \in SUBSET Eintraege, IsFiniteSet(E), Unterscheidbar(E)
  PROVE  Geordnet(E) \in Seq(E) /\ Geordnet(E) \in Seq(Eintraege) /\ ToSet(Geordnet(E)) = E /\ Aufsteigend(Geordnet(E))
<1> DEFINE vor == {p \in E \X E : Frueher(p[1], p[2])}
           n == Cardinality(E)
           s == Geordnet(E)
<1>1. \A x, y \in E : <<x, y>> \in vor <=> Frueher(x, y)
  OBVIOUS
<1> HIDE DEF vor
<1>2. Ordnet(vor, E)
  BY <1>1, FrueherOrdnet DEF Ordnet
<1>3. \E q \in [1 .. n -> E] : \A i, j \in 1 .. n : i < j => Frueher(q[i], q[j])
  <2>1. PICK q \in [1 .. n -> E] : Steigend(q, n, vor)
    BY <1>2, ReiheGibtEs
  <2>2. QED BY <1>1, <2>1 DEF Steigend
<1>4. s \in [1 .. n -> E] /\ \A i, j \in 1 .. n : i < j => Frueher(s[i], s[j])
  BY <1>3 DEF Geordnet, Sortiert
<1> HIDE DEF s
<1>5. Steigend(s, n, vor)
  BY <1>1, <1>4 DEF Steigend
<1>6. n \in Nat /\ \A x \in E : \E i \in 1 .. n : s[i] = x
  BY <1>2, <1>4, <1>5, ReiheTrifft
<1> HIDE DEF n
<1>7. s \in Seq(E) /\ Len(s) = n
  BY <1>4, <1>6
<1>8. s \in Seq(Eintraege)
  BY <1>7, SeqMonotonic
<1>9. ToSet(s) = {s[i] : i \in 1 .. n}
  BY <1>7, MengeDerReihe
<1>10. QED BY <1>4, <1>6, <1>7, <1>8, <1>9 DEF s, Aufsteigend

\* The members of an ascending sequence come once.
LEMMA AufsteigendEinmal ==
  ASSUME NEW s \in Seq(Eintraege), Aufsteigend(s)
  PROVE  \A i, j \in 1 .. Len(s) : s[i] = s[j] => i = j
<1>1. SUFFICES ASSUME NEW i \in 1 .. Len(s), NEW j \in 1 .. Len(s), s[i] = s[j], i # j PROVE FALSE
  OBVIOUS
<1>2. s[i] \in Eintraege /\ s[j] \in Eintraege /\ i \in Int /\ j \in Int
  OBVIOUS
<1>3. ~Frueher(s[i], s[i])
  BY <1>2, FrueherOrdnet
<1>4. i < j \/ j < i
  BY <1>1, <1>2
<1>5. Frueher(s[i], s[j]) \/ Frueher(s[j], s[i])
  BY <1>4 DEF Aufsteigend
<1>6. QED BY <1>1, <1>3, <1>5

\* Picking the fast transfers of a sequence keeps their order.
LEMMA NurSchnelleIst ==
  ASSUME NEW s \in Seq(Eintraege)
  PROVE  LET r == NurSchnelle(s)
         IN  /\ r \in Seq(Eintraege) /\ ToSet(r) = {e \in ToSet(s) : AusWAL(e)}
             /\ Aufsteigend(s) => Aufsteigend(r)
<1> DEFINE I == {i \in DOMAIN s : AusWAL(s[i])}
           r == Ausgewaehlt(s, I)
<1>1. NurSchnelle(s) = r
  BY DEF NurSchnelle
<1>2. I \in SUBSET DOMAIN s
  OBVIOUS
<1>3. r \in Seq(Eintraege) /\ ToSet(r) = {s[i] : i \in I}
  BY <1>2, AusgewaehltIst
<1>4. DOMAIN s = 1 .. Len(s) /\ ToSet(s) = {s[i] : i \in 1 .. Len(s)}
  BY MengeDerReihe
<1>5. ToSet(r) = {e \in ToSet(s) : AusWAL(e)}
  BY <1>3, <1>4
<1>6. ASSUME Aufsteigend(s) PROVE Aufsteigend(r)
  <2>1. PICK n \in Nat : \E p : Waehlt(n, p, s, I)
    BY <1>2, AusgewaehltReihe
  <2>2. PICK p : Waehlt(n, p, s, I)
    BY <2>1
  <2> HIDE DEF I, r
  <2>3. p \in [1 .. n -> I] /\ r = [i \in 1 .. n |-> s[p[i]]] /\ \A i, j \in 1 .. n : i < j => p[i] < p[j]
    BY <2>2 DEF Waehlt, r
  <2>4. Len(r) = n
    BY <2>3
  <2>5. ASSUME NEW i \in 1 .. n, NEW j \in 1 .. n, i < j PROVE Frueher(r[i], r[j])
    <3>1. p[i] \in 1 .. Len(s) /\ p[j] \in 1 .. Len(s) /\ p[i] < p[j]
      BY <1>2, <1>4, <2>3, <2>5
    <3>2. r[i] = s[p[i]] /\ r[j] = s[p[j]]
      BY <2>3
    <3>3. QED BY <1>6, <3>1, <3>2 DEF Aufsteigend
  <2>6. QED BY <2>4, <2>5 DEF Aufsteigend
<1>7. QED BY <1>1, <1>3, <1>5, <1>6

\* Two ascending sequences in a row are ascending when all of the first come before all of
\* the second.
LEMMA AufsteigendVerkettet ==
  ASSUME NEW s \in Seq(Eintraege), NEW t \in Seq(Eintraege), Aufsteigend(s), Aufsteigend(t),
         \A x \in ToSet(s), y \in ToSet(t) : Frueher(x, y)
  PROVE  Aufsteigend(s \o t)
<1> DEFINE q == s \o t
<1>1. /\ Len(q) = Len(s) + Len(t) /\ Len(s) \in Nat /\ Len(t) \in Nat
      /\ \A i \in 1 .. Len(s) : q[i] = s[i]
      /\ \A i \in 1 .. Len(t) : q[Len(s) + i] = t[i]
  BY MengeVerkettet
<1>2. ToSet(s) = {s[i] : i \in 1 .. Len(s)} /\ ToSet(t) = {t[i] : i \in 1 .. Len(t)}
  BY MengeDerReihe
<1> HIDE DEF q
<1>3. ASSUME NEW i \in 1 .. Len(q), NEW j \in 1 .. Len(q), i < j PROVE Frueher(q[i], q[j])
  <2>1. CASE j <= Len(s)
    <3>1. i \in 1 .. Len(s) /\ j \in 1 .. Len(s)
      BY <1>1, <1>3, <2>1
    <3>2. QED BY <1>1, <1>3, <3>1 DEF Aufsteigend
  <2>2. CASE i > Len(s)
    <3>1. i - Len(s) \in 1 .. Len(t) /\ j - Len(s) \in 1 .. Len(t) /\ i - Len(s) < j - Len(s)
      BY <1>1, <1>3, <2>2
    <3>2. q[i] = t[i - Len(s)] /\ q[j] = t[j - Len(s)]
      <4>1. Len(s) + (i - Len(s)) = i /\ Len(s) + (j - Len(s)) = j
        BY <1>1
      <4>2. QED BY <1>1, <3>1, <4>1
    <3>3. QED BY <3>1, <3>2 DEF Aufsteigend
  <2>3. CASE i <= Len(s) /\ j > Len(s)
    <3>1. i \in 1 .. Len(s) /\ j - Len(s) \in 1 .. Len(t) /\ Len(s) + (j - Len(s)) = j
      BY <1>1, <1>3, <2>3
    <3>2. q[i] \in ToSet(s) /\ q[j] \in ToSet(t)
      BY <1>1, <1>2, <3>1
    <3>3. QED BY <3>2
  <2>4. QED BY <1>1, <2>1, <2>2, <2>3
<1>4. QED BY <1>3 DEF Aufsteigend, q

\* An ascending sequence cut in two: both parts ascend, and all of the first come before
\* all of the second.
LEMMA AufsteigendGeteilt ==
  ASSUME NEW q \in Seq(Eintraege), Aufsteigend(q), NEW n \in 0 .. Len(q)
  PROVE  LET a == SubSeq(q, 1, n)
             b == SubSeq(q, n + 1, Len(q))
         IN  Aufsteigend(a) /\ Aufsteigend(b) /\ \A x \in ToSet(a), y \in ToSet(b) : Frueher(x, y)
<1> DEFINE a == SubSeq(q, 1, n)
           b == SubSeq(q, n + 1, Len(q))
           m == Len(q) - n
<1>1. /\ a \in Seq(Eintraege) /\ Len(a) = n /\ \A i \in 1 .. n : a[i] = q[i]
      /\ b \in Seq(Eintraege) /\ Len(b) = m /\ \A i \in 1 .. m : b[i] = q[n + i]
  BY Geteilt
<1> HIDE DEF a, b, m
<1>8. ToSet(a) = {a[i] : i \in 1 .. n}
  BY <1>1, MengeDerReihe
<1>9. ToSet(b) = {b[i] : i \in 1 .. m}
  BY <1>1, MengeDerReihe
<1>2. ToSet(a) = {a[i] : i \in 1 .. n} /\ ToSet(b) = {b[i] : i \in 1 .. m}
  BY <1>8, <1>9
<1>3. n \in Nat /\ Len(q) \in Nat /\ n <= Len(q) /\ m \in Nat /\ n + m = Len(q)
  BY DEF m
<1>4. Aufsteigend(a)
  <2>1. \A i \in 1 .. n : i \in 1 .. Len(q)
    BY <1>3
  <2>2. QED BY <1>1, <2>1 DEF Aufsteigend
<1>5. Aufsteigend(b)
  <2>1. \A i \in 1 .. m : n + i \in 1 .. Len(q)
    BY <1>3
  <2>2. \A i, j \in 1 .. m : i < j => n + i < n + j
    BY <1>3
  <2>3. QED BY <1>1, <2>1, <2>2 DEF Aufsteigend
<1>6. \A i \in 1 .. n, j \in 1 .. m : Frueher(a[i], b[j])
  <2>1. \A i \in 1 .. n, j \in 1 .. m : i \in 1 .. Len(q) /\ n + j \in 1 .. Len(q) /\ i < n + j
    BY <1>3
  <2>2. QED BY <1>1, <2>1 DEF Aufsteigend
<1>7. QED BY <1>2, <1>4, <1>5, <1>6 DEF a, b

\* The number of the last fast transfer.
LEMMA BisIst ==
  ASSUME NEW s \in Seq(Eintraege), Aufsteigend(s), NEW alt \in Nat
  PROVE  LET F == {e \in ToSet(s) : AusWAL(e)}
         IN  /\ Bis(s, alt) \in Nat
             /\ F = {} => Bis(s, alt) = alt
             /\ F # {} => \E e \in F : e.seq = Bis(s, alt)
             /\ \A e \in F : e.seq <= Bis(s, alt)
<1> DEFINE I == {i \in DOMAIN s : AusWAL(s[i])}
           F == {e \in ToSet(s) : AusWAL(e)}
<1>1. Len(s) \in Nat /\ DOMAIN s = 1 .. Len(s) /\ ToSet(s) = {s[i] : i \in 1 .. Len(s)}
      /\ \A i \in 1 .. Len(s) : s[i] \in Eintraege
  BY MengeDerReihe
<1>2. F = {s[i] : i \in I}
  BY <1>1
<1>3. I \subseteq 1 .. Len(s) /\ \A i \in I : AusWAL(s[i])
  BY <1>1
<1>4. Bis(s, alt) = IF I = {} THEN alt ELSE s[Max(I)].seq
  BY DEF Bis
<1> HIDE DEF I, F
<1> DEFINE Gilt == /\ Bis(s, alt) \in Nat
                   /\ F = {} => Bis(s, alt) = alt
                   /\ F # {} => \E e \in F : e.seq = Bis(s, alt)
                   /\ \A e \in F : e.seq <= Bis(s, alt)
<1>5. ASSUME I = {} PROVE Gilt
  BY <1>2, <1>4, <1>5
<1>6. ASSUME I # {} PROVE Gilt
  <2>1. IsFiniteSet(I) /\ I \subseteq Int
    <3>1. IsFiniteSet(1 .. Len(s)) /\ 1 .. Len(s) \subseteq Int
      BY <1>1, FS_Interval
    <3>2. QED BY <1>3, <3>1, FS_Subset
  <2>2. Max(I) \in I /\ \A i \in I : i <= Max(I)
    BY <1>6, <2>1, MaxMenge
  <2>3. ASSUME NEW i \in I PROVE s[i].seq <= s[Max(I)].seq
    <3>1. i = Max(I) \/ i < Max(I)
      <4>1. i \in Int /\ Max(I) \in Int /\ i <= Max(I)
        BY <2>1, <2>2
      <4>2. QED BY <4>1
    <3>2. s[i] \in Eintraege /\ s[Max(I)] \in Eintraege
      BY <1>1, <1>3, <2>2
    <3>3. s[i].seq \in Nat /\ s[Max(I)].seq \in Nat
      BY <3>2 DEF Eintraege
    <3>4. CASE i = Max(I)
      BY <3>3, <3>4
    <3>5. CASE i < Max(I)
      <4>1. Frueher(s[i], s[Max(I)])
        BY <1>3, <2>2, <3>5 DEF Aufsteigend
      <4>2. QED BY <3>3, <4>1 DEF Frueher
    <3>6. QED BY <3>1, <3>4, <3>5
  <2>4. s[Max(I)].seq \in Nat
    BY <1>1, <1>3, <2>2 DEF Eintraege
  <2>5. Bis(s, alt) = s[Max(I)].seq
    BY <1>4, <1>6
  <2>6. s[Max(I)] \in F /\ \A e \in F : \E i \in I : e = s[i]
    BY <1>2, <2>2
  <2>7. QED BY <2>3, <2>4, <2>5, <2>6
<1>7. QED BY <1>5, <1>6 DEF F

\* nehmen hands out durable entries from the front only.
LEMMA AnzahlNehmenIst ==
  ASSUME korb.bereit \in Seq(Eintraege), Aufsteigend(korb.bereit), wal.haltbar \in Nat,
         NEW n \in {AnzahlNehmen} \cup (IF korb.warten = {} THEN {} ELSE {0})
  PROVE  n \in 0 .. Len(korb.bereit) /\ n <= Deckel /\ \A i \in 1 .. n : korb.bereit[i].seq <= wal.haltbar
<1> DEFINE q == korb.bereit
           m == Len(q)
           I == {i \in DOMAIN q : q[i].seq <= wal.haltbar}
<1>1. m \in Nat /\ DOMAIN q = 1 .. m /\ \A i \in 1 .. m : q[i] \in Eintraege
  OBVIOUS
<1>2. \A i \in 1 .. m : q[i].seq \in Nat
  BY <1>1 DEF Eintraege
<1>3. I \subseteq 1 .. m /\ \A i \in I, j \in 1 .. m : j < i => j \in I
  <2>1. ASSUME NEW i \in I, NEW j \in 1 .. m, j < i PROVE j \in I
    <3>1. Frueher(q[j], q[i])
      BY <1>1, <2>1 DEF Aufsteigend
    <3>2. q[j].seq <= q[i].seq
      BY <1>1, <1>2, <3>1 DEF Frueher
    <3>3. QED BY <1>1, <1>2, <3>2
  <2>2. QED BY <1>1, <2>1
<1> HIDE DEF I
<1>4. Cardinality(I) \in 0 .. m /\ I = 1 .. Cardinality(I)
  BY <1>1, <1>3, OhneLuecke
<1>5. AnzahlNehmen = Min({Deckel, Cardinality(I)})
  BY DEF AnzahlNehmen, I
<1> HIDE DEF m, q
<1>6. Deckel \in Nat /\ Cardinality(I) \in Nat
  BY <1>4, DeckelPositiv
<1>7. AnzahlNehmen \in Nat /\ AnzahlNehmen <= Deckel /\ AnzahlNehmen <= Cardinality(I)
  BY <1>5, <1>6, Kleineres
<1>8. n = AnzahlNehmen \/ n = 0
  OBVIOUS
<1>9. n \in Nat /\ n <= Deckel /\ n <= Cardinality(I)
  BY <1>4, <1>6, <1>7, <1>8
<1>10. n \in 0 .. m
  BY <1>1, <1>4, <1>9
<1>11. \A i \in 1 .. n : i \in I
  BY <1>4, <1>9
<1>12. QED BY <1>9, <1>10, <1>11 DEF I, m, q

\* How much of the mixture goes into the block: a beginning in which every row has its
\* smaller fast transfers before it.
LEMMA MischlaengeIst ==
  ASSUME NEW reihe \in Seq(Eintraege), NEW alt
  PROVE  LET n == Mischlaenge(reihe, alt)
         IN  /\ n \in 0 .. Len(reihe) /\ n <= Deckel
             /\ \A i \in 1 .. n : PasstNach(reihe[i], SubSeq(reihe, 1, i - 1), alt)
<1> DEFINE m == Min({Deckel, Len(reihe)})
           N == {n \in 0 .. m : \A i \in 1 .. n : PasstNach(reihe[i], SubSeq(reihe, 1, i - 1), alt)}
<1>1. Len(reihe) \in Nat /\ Deckel \in Nat
  BY DeckelPositiv
<1>2. m \in Nat /\ m <= Deckel /\ m <= Len(reihe)
  BY <1>1, Kleineres
<1>3. Mischlaenge(reihe, alt) = Max(N)
  BY DEF Mischlaenge
<1> HIDE DEF m
<1>4. IsFiniteSet(N) /\ N \subseteq Int /\ N # {}
  <2>1. IsFiniteSet(0 .. m)
    BY <1>2, FS_Interval
  <2>2. N \subseteq 0 .. m
    OBVIOUS
  <2>3. 0 \in N
    BY <1>2
  <2> HIDE DEF N
  <2>4. IsFiniteSet(N)
    BY <2>1, <2>2, FS_Subset
  <2>5. QED BY <1>2, <2>2, <2>3, <2>4
<1> HIDE DEF N
<1>5. Max(N) \in N
  BY <1>4, MaxMenge
<1>6. QED BY <1>1, <1>2, <1>3, <1>5 DEF N

\* Without rows only the numbers count.
NurFast(E) == \A x \in E : AusWAL(x)

\* The numbers tell the entries of E apart.
EigeneNummern(E) == \A x, y \in E : x.seq = y.seq => x = y

\* The numbers of a finite set of entries are a finite set.
LEMMA SeqsEndlich ==
  ASSUME NEW E, IsFiniteSet(E), \A e \in E : e.seq \in Nat
  PROVE  IsFiniteSet(Seqs(E)) /\ Seqs(E) \in SUBSET Nat
<1> DEFINE f == [e \in E |-> e.seq]
<1>1. IsFiniteSet({f[e] : e \in E})
  BY BildEndlich
<1>2. {f[e] : e \in E} = Seqs(E)
  BY DEF Seqs
<1>3. QED BY <1>1, <1>2 DEF Seqs

\* Entries with numbers of their own are as many as their numbers.
LEMMA SeqsAnzahl ==
  ASSUME NEW E, IsFiniteSet(E), EigeneNummern(E)
  PROVE  Cardinality(Seqs(E)) = Cardinality(E)
<1> DEFINE f == [e \in E |-> e.seq]
<1>1. f \in Bijection(E, Seqs(E))
  BY DEF Seqs, EigeneNummern, Bijection, Injection, Surjection, IsInjective
<1>2. ExistsBijection(E, Seqs(E))
  BY <1>1 DEF ExistsBijection
<1>3. QED BY <1>2, FS_Bijection

\* e closes the gap: with los behind it as g, and ab is the next number expected.
Rueckt(k, e, ab, los, g) ==
  /\ Hinzu(k, e) = [naechste |-> ab, bereit |-> k.bereit \o g, warten |-> k.warten \ los]
  /\ ab \in Nat /\ e.seq < ab /\ ab \notin Seqs(k.warten)
  /\ los = {w \in k.warten : w.seq < ab}
  /\ \A s \in e.seq + 1 .. ab - 1 : s \in Seqs(k.warten)
  /\ g \in Seq(Eintraege) /\ ToSet(g) = {e} \cup los /\ Aufsteigend(g)

\* speicherKorb.hinzu: an entry is dropped, kept behind a gap, or closes the gap.
LEMMA HinzuIst ==
  ASSUME NEW k, k.naechste \in Nat, k.bereit \in Seq(Eintraege), k.warten \in SUBSET Eintraege, IsFiniteSet(k.warten),
         k = [naechste |-> k.naechste, bereit |-> k.bereit, warten |-> k.warten],
         NEW e \in Eintraege, NurFast(k.warten), AusWAL(e), EigeneNummern(k.warten \cup {e})
  PROVE  \/ e.seq < k.naechste /\ Hinzu(k, e) = k
         \/ /\ e.seq > k.naechste
            /\ Hinzu(k, e) = [naechste |-> k.naechste, bereit |-> k.bereit, warten |-> k.warten \cup {e}]
         \/ /\ e.seq = k.naechste
            /\ \E ab, los, g : Rueckt(k, e, ab, los, g)
<1>1. e.seq \in Nat /\ \A w \in k.warten : w.seq \in Nat
  BY DEF Eintraege
<1>2. CASE e.seq < k.naechste
  BY <1>1, <1>2 DEF Hinzu
<1>3. CASE e.seq > k.naechste
  <2>1. Hinzu(k, e) = [k EXCEPT !.warten = @ \cup {e}]
    BY <1>1, <1>3 DEF Hinzu
  <2>2. QED BY <1>3, <2>1
<1>4. CASE e.seq = k.naechste
  <2> DEFINE c == Cardinality(k.warten)
             S == Seqs(k.warten)
             frei == {s \in (e.seq + 1) .. (e.seq + 1 + c) : s \notin S}
             ab == Min(frei)
             los == {w \in k.warten : w.seq < ab}
             g == Geordnet({e} \cup los)
  <2>1. Hinzu(k, e) = [naechste |-> ab, bereit |-> k.bereit \o g, warten |-> k.warten \ los]
    BY <1>1, <1>4 DEF Hinzu
  <2>2. c \in Nat /\ IsFiniteSet(S) /\ S \in SUBSET Nat /\ Cardinality(S) = c
    BY <1>1, FS_CardinalityType, SeqsEndlich, SeqsAnzahl DEF EigeneNummern
  <2> HIDE DEF S, c
  <2>3. frei # {}
    <3>1. SUFFICES ASSUME frei = {} PROVE FALSE
      OBVIOUS
    <3> DEFINE A == (e.seq + 1) .. (e.seq + 1 + c)
    <3>2. A \subseteq S
      BY <3>1
    <3>3. Cardinality(A) = c + 1
      <4>1. e.seq + 1 \in Int /\ e.seq + 1 + c \in Int /\ ~(e.seq + 1 > e.seq + 1 + c)
        BY <1>1, <2>2
      <4>2. Cardinality(A) = (e.seq + 1 + c) - (e.seq + 1) + 1
        BY <4>1, FS_Interval
      <4>3. QED BY <1>1, <2>2, <4>2
    <3> HIDE DEF A
    <3>4. Cardinality(A) <= Cardinality(S)
      BY <2>2, <3>2, FS_Subset
    <3>5. QED BY <2>2, <3>3, <3>4
  <2>4. frei \subseteq Nat
    BY <1>1, <2>2
  <2>5. ab \in frei /\ \A s \in frei : ab <= s
    <3> HIDE DEF frei
    <3>1. QED BY <2>3, <2>4, MinMenge
  <2>6. ab \in Nat /\ e.seq < ab /\ ab \notin S /\ ab <= e.seq + 1 + c
    BY <1>1, <2>2, <2>5
  <2>7. ASSUME NEW s \in e.seq + 1 .. ab - 1 PROVE s \in S
    <3> HIDE DEF ab
    <3>1. s \in (e.seq + 1) .. (e.seq + 1 + c) /\ ~(ab <= s)
      BY <1>1, <2>2, <2>6
    <3>2. QED BY <2>5, <3>1
  <2> HIDE DEF ab, frei
  <2>8. {e} \cup los \in SUBSET Eintraege /\ IsFiniteSet({e} \cup los) /\ Unterscheidbar({e} \cup los)
    <3>1. los \subseteq k.warten
      OBVIOUS
    <3>2. IsFiniteSet(los) /\ IsFiniteSet(los \cup {e}) /\ los \cup {e} = {e} \cup los
      BY <3>1, FS_Subset, FS_AddElement
    <3>3. QED BY <3>1, <3>2 DEF EigeneNummern, Unterscheidbar
  <2>9. g \in Seq(Eintraege) /\ ToSet(g) = {e} \cup los /\ Aufsteigend(g)
    BY <2>8, GeordnetIst
  <2>10. los \in SUBSET k.warten
    OBVIOUS
  <2>11. los = {w \in k.warten : w.seq < ab}
    OBVIOUS
  <2> HIDE DEF los, g
  <2>12. Rueckt(k, e, ab, los, g)
    BY <2>1, <2>6, <2>7, <2>9, <2>10, <2>11 DEF S, Rueckt
  <2>13. QED BY <1>4, <2>12
<1>5. QED BY <1>1, <1>2, <1>3, <1>4

-----------------------------------------------------------------------------
(***************************************************************************)
(* Types, and the numbers of entries and rows.                             *)
(***************************************************************************)
WalTyp     == [saetze : SUBSET Eintraege, naechste : Nat \ {0}, haltbar : Nat, hwm : Nat]
DbTyp      == [zeilen : SUBSET Eintraege, belegt : SUBSET Nat, id : Nat, marke : Nat, bloecke : Seq(Auftraege)]
KorbTyp    == [naechste : Nat, bereit : Seq(Eintraege), warten : SUBSET Eintraege]
BauTyp     == [phase : {"ruht", "tor", "genommen", "gemischt", "gekuerzt"}, alt : Nat, inhalt : Seq(Eintraege)]
VerwTyp    == [phase : {"nie", "wartet", "frei", "geleert", "fertig", "nach"}, bis : Nat]
ZaehlerTyp == [abstuerze : 0 .. MaxAbstuerze, fehler : 0 .. MaxFehler]

\* The type invariant as record sets, with what is finite.
Typ ==
  /\ wal \in WalTyp /\ IsFiniteSet(wal.saetze)
  /\ db \in DbTyp /\ IsFiniteSet(db.zeilen)
  /\ korb \in KorbTyp /\ IsFiniteSet(korb.warten)
  /\ annahmen \in SUBSET Auftraege /\ schwebend \in SUBSET Eintraege
  /\ bau \in BauTyp /\ verw \in VerwTyp
  /\ lauf \in {"laeuft", "aus", "verweigert"} /\ vorStart \in Nat
  /\ folge \in Seq(Auftraege) /\ verworfen \in SUBSET Auftraege
  /\ zaehler \in ZaehlerTyp

Laeuft      == lauf = "laeuft"
Schnelle(E) == {e \in E : AusWAL(e)}
Zeilen(E)   == {e \in E : ~AusWAL(e)}
ImKorb      == ToSet(korb.bereit) \cup korb.warten
ImBau       == ToSet(bau.inhalt)

\* All entries that came from the log, and all rows.
SchnelleE == wal.saetze \cup ImKorb \cup Schnelle(ImBau) \cup Schnelle(schwebend)
ZeilenE   == db.zeilen \cup Zeilen(ImBau) \cup Zeilen(schwebend)

\* A fast transfer keeps one number wherever it waits, and the log has not given
\* that number to another one.
SchnelleOK ==
  /\ \A e \in SchnelleE :
       /\ AusWAL(e) /\ e.tx \in Schnell /\ 1 <= e.seq /\ e.tx \in Angewendet
       /\ Laeuft => e.seq < wal.naechste
  /\ \A e, f \in SchnelleE : e.tx = f.tx \/ e.seq = f.seq => e = f

\* A row has an id of its own.
ZeilenOK ==
  /\ \A z \in ZeilenE : ~AusWAL(z) /\ z.tx \in Langsam /\ z.id <= db.id
  /\ \A y, z \in ZeilenE : y.id = z.id \/ y.tx = z.tx => y = z

\* An order is in one place: past the gate, under way, or applied.
AnnahmenOK ==
  /\ annahmen \cap (Angewendet \cup Txs(schwebend)) = {}
  /\ \A z \in Zeilen(schwebend) : z.tx \notin Angewendet
  /\ \A z \in db.zeilen \cup Zeilen(ImBau) : z.tx \in Angewendet
  /\ schwebend \cap (ImKorb \cup ImBau) = {}

\* A process that is down holds nothing, an idle builder neither; numbers begin at 1.
RuheOK ==
  /\ ~Laeuft => annahmen = {} /\ schwebend = {} /\ bau = KeinBau /\ korb = LeererKorb(0)
  /\ Laeuft => 1 <= korb.naechste
  /\ bau.phase \in {"ruht", "tor"} => bau.inhalt = <<>>
  /\ bau.phase = "genommen" => Zeilen(ImBau) = {}

\* Korb and builder are in order: first what the builder took, all of it durable,
\* then what is ready, then the next number, then what waits behind the gap.
Lage ==
  /\ Aufsteigend(korb.bereit) /\ Aufsteigend(bau.inhalt)
  /\ \A x \in Schnelle(ImBau), y \in ToSet(korb.bereit) : x.seq < y.seq
  /\ \A x \in Schnelle(ImBau) \cup ToSet(korb.bereit) : x.seq < korb.naechste
  /\ \A w \in korb.warten : w.seq > korb.naechste
  /\ \A x \in Schnelle(ImBau) : x.seq <= wal.haltbar

Nummern == SchnelleOK /\ ZeilenOK /\ AnnahmenOK /\ RuheOK
Grund   == Typ /\ Nummern /\ Lage

\* The fields of an entry.
LEMMA EintragTyp ==
  \A e \in Eintraege : /\ e.seq \in Nat /\ e.id \in Nat /\ e.tx \in Auftraege
                       /\ e = [seq |-> e.seq, id |-> e.id, tx |-> e.tx]
  BY DEF Eintraege

\* The parts of the state, one by one.
LEMMA StandTyp ==
  ASSUME Typ
  PROVE  /\ wal.saetze \in SUBSET Eintraege /\ wal.naechste \in Nat \ {0} /\ wal.haltbar \in Nat /\ wal.hwm \in Nat
         /\ db.zeilen \in SUBSET Eintraege /\ db.belegt \in SUBSET Nat /\ db.id \in Nat /\ db.marke \in Nat
         /\ db.bloecke \in Seq(Auftraege)
         /\ korb.naechste \in Nat /\ korb.bereit \in Seq(Eintraege) /\ korb.warten \in SUBSET Eintraege
         /\ bau.alt \in Nat /\ bau.inhalt \in Seq(Eintraege) /\ verw.bis \in Nat
         /\ ToSet(korb.bereit) \in SUBSET Eintraege /\ ToSet(bau.inhalt) \in SUBSET Eintraege
         /\ ImKorb \in SUBSET Eintraege /\ ImBau \in SUBSET Eintraege
         /\ IsFiniteSet(ImBau) /\ Angewendet \in SUBSET Auftraege /\ Verblockt \in SUBSET Auftraege
         /\ SchnelleE \in SUBSET Eintraege /\ ZeilenE \in SUBSET Eintraege
<1>1. /\ wal.saetze \in SUBSET Eintraege /\ wal.naechste \in Nat \ {0} /\ wal.haltbar \in Nat /\ wal.hwm \in Nat
      /\ korb.naechste \in Nat /\ korb.bereit \in Seq(Eintraege) /\ korb.warten \in SUBSET Eintraege
      /\ bau.alt \in Nat /\ bau.inhalt \in Seq(Eintraege) /\ verw.bis \in Nat
  BY DEF Typ, WalTyp, KorbTyp, BauTyp, VerwTyp
<1>2. /\ db.zeilen \in SUBSET Eintraege /\ db.belegt \in SUBSET Nat /\ db.id \in Nat /\ db.marke \in Nat
      /\ db.bloecke \in Seq(Auftraege)
  BY DEF Typ, DbTyp
<1>3. ToSet(korb.bereit) \in SUBSET Eintraege
  BY <1>1, MengeDerReihe
<1>4. ToSet(bau.inhalt) \in SUBSET Eintraege /\ IsFiniteSet(ToSet(bau.inhalt))
  BY <1>1, MengeDerReihe
<1>5. Angewendet \in SUBSET Auftraege
  BY MengeDerReihe DEF Typ, Angewendet
<1>6. Verblockt \in SUBSET Auftraege
  BY <1>2, MengeDerReihe DEF Verblockt
<1>7. ImKorb \in SUBSET Eintraege /\ ImBau \in SUBSET Eintraege /\ IsFiniteSet(ImBau)
  BY <1>1, <1>3, <1>4 DEF ImKorb, ImBau
<1>8. SchnelleE \in SUBSET Eintraege /\ ZeilenE \in SUBSET Eintraege
  BY <1>1, <1>2, <1>7 DEF SchnelleE, ZeilenE, Schnelle, Zeilen, Typ
<1>9. QED BY <1>1, <1>2, <1>3, <1>4, <1>5, <1>6, <1>7, <1>8

\* Number and id tell all entries and rows apart.
LEMMA AlleUnterscheidbar ==
  ASSUME Typ, SchnelleOK, ZeilenOK, NEW E \in SUBSET (SchnelleE \cup ZeilenE)
  PROVE  Unterscheidbar(E)
  BY DEF Unterscheidbar, SchnelleOK, ZeilenOK, AusWAL

-----------------------------------------------------------------------------
(***************************************************************************)
(* What the steps with sequences do, in terms of sets.                     *)
(***************************************************************************)
\* Handing an entry to the Korb: it is dropped, or it is there afterwards, and the
\* numbers up to the next one expected are all accounted for.
LEMMA EinreihenTut ==
  ASSUME Grund, NEW e \in schwebend, Einreihen(e)
  PROVE  /\ Laeuft /\ e \in Eintraege /\ AusWAL(e) /\ schwebend' = schwebend \ {e}
         /\ UNCHANGED <<wal, db, annahmen, bau, verw, lauf, vorStart, folge, verworfen, zaehler>>
         /\ korb' \in KorbTyp /\ IsFiniteSet(korb'.warten)
         /\ ImKorb \subseteq ImKorb' /\ ImKorb' \subseteq ImKorb \cup {e}
         /\ ToSet(korb.bereit) \subseteq ToSet(korb'.bereit)
         /\ korb.naechste <= e.seq => e \in ImKorb'
         /\ korb.naechste <= korb'.naechste
         /\ Aufsteigend(korb'.bereit)
         /\ \A x \in ToSet(korb'.bereit) \ ToSet(korb.bereit) : korb.naechste <= x.seq
         /\ \A x \in ToSet(korb'.bereit) : x.seq < korb'.naechste
         /\ \A w \in korb'.warten : w.seq > korb'.naechste
         /\ \A s \in korb.naechste .. korb'.naechste - 1 : s \in Seqs(ImKorb')
<1>1. /\ Laeuft /\ e \in Eintraege /\ AusWAL(e) /\ schwebend' = schwebend \ {e} /\ korb' = Hinzu(korb, e)
      /\ UNCHANGED <<wal, db, annahmen, bau, verw, lauf, vorStart, folge, verworfen, zaehler>>
  BY DEF Einreihen, Laeuft, Grund, Typ
<1>2. /\ korb.naechste \in Nat /\ korb.bereit \in Seq(Eintraege) /\ korb.warten \in SUBSET Eintraege
      /\ IsFiniteSet(korb.warten) /\ korb = [naechste |-> korb.naechste, bereit |-> korb.bereit, warten |-> korb.warten]
      /\ ToSet(korb.bereit) \in SUBSET Eintraege
  BY StandTyp DEF Grund, Typ, KorbTyp
<1>3. /\ korb.warten \subseteq SchnelleE /\ e \in SchnelleE /\ ToSet(korb.bereit) \subseteq SchnelleE
  BY <1>1 DEF SchnelleE, ImKorb, Schnelle
<1>4. NurFast(korb.warten) /\ EigeneNummern(korb.warten \cup {e})
  BY <1>3 DEF Grund, Nummern, SchnelleOK, NurFast, EigeneNummern
<1>5. /\ Aufsteigend(korb.bereit) /\ \A x \in ToSet(korb.bereit) : x.seq < korb.naechste
      /\ \A w \in korb.warten : w.seq > korb.naechste
  BY DEF Grund, Lage
<1>6. e.seq \in Nat
  BY <1>1, EintragTyp
<1>7. CASE e.seq < korb.naechste /\ Hinzu(korb, e) = korb
  <2>1. korb' = korb /\ ImKorb' = ImKorb
    BY <1>1, <1>7 DEF ImKorb
  <2>2. QED BY <1>1, <1>2, <1>5, <1>6, <1>7, <2>1 DEF Grund, Typ
<1>8. CASE /\ e.seq > korb.naechste
           /\ Hinzu(korb, e) = [naechste |-> korb.naechste, bereit |-> korb.bereit, warten |-> korb.warten \cup {e}]
  <2>1. korb'.naechste = korb.naechste /\ korb'.bereit = korb.bereit /\ korb'.warten = korb.warten \cup {e}
    BY <1>1, <1>8
  <2>2. korb' \in KorbTyp /\ IsFiniteSet(korb'.warten)
    <3>1. korb.warten \cup {e} \in SUBSET Eintraege /\ IsFiniteSet(korb.warten \cup {e})
      BY <1>1, <1>2, FS_AddElement
    <3>2. QED BY <1>1, <1>2, <1>8, <3>1 DEF KorbTyp
  <2>3. ImKorb' = ImKorb \cup {e}
    BY <2>1 DEF ImKorb
  <2>4. QED BY <1>1, <1>2, <1>5, <1>6, <1>8, <2>1, <2>2, <2>3
<1>9. CASE e.seq = korb.naechste /\ \E ab, los, g : Rueckt(korb, e, ab, los, g)
  <2>1. PICK ab : \E los, g : Rueckt(korb, e, ab, los, g)
    BY <1>9
  <2>2. PICK los : \E g : Rueckt(korb, e, ab, los, g)
    BY <2>1
  <2>3. PICK g : Rueckt(korb, e, ab, los, g)
    BY <2>2
  <2>4. /\ korb'.naechste = ab /\ korb'.bereit = korb.bereit \o g /\ korb'.warten = korb.warten \ los
        /\ korb' = [naechste |-> ab, bereit |-> korb.bereit \o g, warten |-> korb.warten \ los]
        /\ ab \in Nat /\ e.seq < ab /\ ab \notin Seqs(korb.warten) /\ los = {w \in korb.warten : w.seq < ab}
        /\ \A s \in e.seq + 1 .. ab - 1 : s \in Seqs(korb.warten)
        /\ g \in Seq(Eintraege) /\ ToSet(g) = {e} \cup los /\ Aufsteigend(g)
    BY <1>1, <2>3 DEF Rueckt
  <2>5. /\ korb.bereit \o g \in Seq(Eintraege) /\ ToSet(korb'.bereit) = ToSet(korb.bereit) \cup {e} \cup los
    BY <1>2, <2>4, MengeVerkettet
  <2>6. korb' \in KorbTyp /\ IsFiniteSet(korb'.warten)
    <3>1. korb.warten \ los \subseteq korb.warten
      OBVIOUS
    <3>2. IsFiniteSet(korb.warten \ los)
      BY <1>2, <3>1, FS_Subset
    <3>3. QED BY <1>2, <2>4, <2>5, <3>1, <3>2 DEF KorbTyp
  <2>7. ImKorb' = ImKorb \cup {e}
    BY <2>4, <2>5 DEF ImKorb
  <2>8. \A x \in {e} \cup los : korb.naechste <= x.seq /\ x.seq < ab /\ x.seq \in Nat
    BY <1>1, <1>2, <1>5, <1>6, <1>9, <2>4, EintragTyp
  <2>9. Aufsteigend(korb'.bereit)
    <3>1. \A x \in ToSet(korb.bereit), y \in ToSet(g) : Frueher(x, y)
      BY <1>2, <1>5, <2>4, <2>8, EintragTyp DEF Frueher
    <3>2. QED BY <1>2, <1>5, <2>4, <3>1, AufsteigendVerkettet
  <2>10. \A w \in korb'.warten : w.seq > korb'.naechste
    <3>1. ASSUME NEW w \in korb'.warten PROVE w.seq > korb'.naechste
      <4>1. w \in korb.warten /\ ~(w.seq < ab) /\ w.seq \in Nat
        BY <1>2, <2>4, <3>1, EintragTyp
      <4>2. w.seq # ab
        BY <2>4, <4>1 DEF Seqs
      <4>3. QED BY <2>4, <4>1, <4>2
    <3>2. QED BY <3>1
  <2>11. \A s \in korb.naechste .. korb'.naechste - 1 : s \in Seqs(ImKorb')
    <3>1. ASSUME NEW s \in korb.naechste .. ab - 1 PROVE s \in Seqs(ImKorb')
      <4>1. CASE s = e.seq
        BY <2>7, <4>1 DEF Seqs
      <4>2. CASE s # e.seq
        <5>1. s \in e.seq + 1 .. ab - 1
          BY <1>2, <1>6, <1>9, <2>4, <3>1, <4>2
        <5>2. s \in Seqs(korb.warten)
          BY <2>4, <5>1
        <5>3. QED BY <2>7, <5>2 DEF Seqs, ImKorb
      <4>3. QED BY <4>1, <4>2
    <3>2. QED BY <2>4, <3>1
  <2>12. \A x \in ToSet(korb'.bereit) : x.seq < korb'.naechste
    BY <1>2, <1>5, <1>9, <2>4, <2>5, <2>8, EintragTyp
  <2>13. /\ ToSet(korb.bereit) \subseteq ToSet(korb'.bereit) /\ korb.naechste <= korb'.naechste
         /\ \A x \in ToSet(korb'.bereit) \ ToSet(korb.bereit) : korb.naechste <= x.seq
    BY <1>2, <1>6, <1>9, <2>4, <2>5, <2>8
  <2>14. QED BY <1>1, <2>6, <2>7, <2>9, <2>10, <2>11, <2>12, <2>13
<1>10. QED
  BY <1>2, <1>1, <1>4, <1>7, <1>8, <1>9, HinzuIst

\* nehmen: the builder gets durable entries from the front.
LEMMA BauNimmtTut ==
  ASSUME Grund, BauNimmt
  PROVE  /\ Laeuft /\ bau.phase = "tor" /\ ImBau = {}
         /\ UNCHANGED <<wal, db, annahmen, schwebend, verw, lauf, vorStart, folge, verworfen, zaehler>>
         /\ bau' \in BauTyp /\ bau'.phase = "genommen" /\ bau'.alt = db.marke
         /\ korb' \in KorbTyp /\ korb'.naechste = korb.naechste /\ korb'.warten = korb.warten
         /\ ToSet(korb.bereit) = ImBau' \cup ToSet(korb'.bereit) /\ ImKorb = ImBau' \cup ImKorb'
         /\ Aufsteigend(bau'.inhalt) /\ Aufsteigend(korb'.bereit)
         /\ \A x \in ImBau', y \in ToSet(korb'.bereit) : Frueher(x, y)
         /\ \A x \in ImBau' : AusWAL(x) /\ x.seq <= wal.haltbar
<1>1. PICK n \in {AnzahlNehmen} \cup (IF korb.warten = {} THEN {} ELSE {0}) :
        /\ bau' = [phase |-> "genommen", alt |-> db.marke, inhalt |-> SubSeq(korb.bereit, 1, n)]
        /\ korb' = [korb EXCEPT !.bereit = SubSeq(@, n + 1, Len(@))]
  BY DEF BauNimmt
<1>2. /\ Laeuft /\ bau.phase = "tor"
      /\ UNCHANGED <<wal, db, annahmen, schwebend, verw, lauf, vorStart, folge, verworfen, zaehler>>
  BY DEF BauNimmt, Laeuft
<1>3. /\ korb.bereit \in Seq(Eintraege) /\ Aufsteigend(korb.bereit) /\ wal.haltbar \in Nat /\ db.marke \in Nat
      /\ korb \in KorbTyp
  BY StandTyp DEF Grund, Lage, Typ
<1> DEFINE a == SubSeq(korb.bereit, 1, n)
           b == SubSeq(korb.bereit, n + 1, Len(korb.bereit))
<1>4. n \in 0 .. Len(korb.bereit) /\ \A i \in 1 .. n : korb.bereit[i].seq <= wal.haltbar
  BY <1>1, <1>3, AnzahlNehmenIst
<1>5. /\ a \in Seq(Eintraege) /\ b \in Seq(Eintraege) /\ ToSet(a) \cup ToSet(b) = ToSet(korb.bereit)
      /\ Len(a) = n /\ \A i \in 1 .. n : a[i] = korb.bereit[i]
  BY <1>3, <1>4, Geteilt
<1>6. Aufsteigend(a) /\ Aufsteigend(b) /\ \A x \in ToSet(a), y \in ToSet(b) : Frueher(x, y)
  BY <1>3, <1>4, AufsteigendGeteilt
<1>7. \A x \in ToSet(a) : x.seq <= wal.haltbar
  <2>1. ToSet(a) = {a[i] : i \in 1 .. n}
    BY <1>5, MengeDerReihe
  <2>2. QED BY <1>4, <1>5, <2>1
<1>8. \A x \in ToSet(a) : AusWAL(x)
  BY <1>5 DEF Grund, Nummern, SchnelleOK, SchnelleE, ImKorb
<1>9. /\ bau'.inhalt = a /\ bau'.phase = "genommen" /\ bau'.alt = db.marke
      /\ korb'.bereit = b /\ korb'.naechste = korb.naechste /\ korb'.warten = korb.warten
      /\ korb' = [korb EXCEPT !.bereit = b]
      /\ bau' = [phase |-> "genommen", alt |-> db.marke, inhalt |-> a]
  BY <1>1, <1>3 DEF KorbTyp
<1> HIDE DEF a, b
<1>10. bau' \in BauTyp /\ korb' \in KorbTyp
  BY <1>3, <1>5, <1>9 DEF BauTyp, KorbTyp
<1>11. ImBau' = ToSet(a) /\ ImKorb = ImBau' \cup ImKorb'
  BY <1>5, <1>9 DEF ImBau, ImKorb
<1>12. ImBau = {}
  <2>1. bau.inhalt = <<>>
    BY <1>2 DEF Grund, Nummern, RuheOK
  <2>2. QED BY <2>1 DEF ImBau, ToSet
<1>13. QED BY <1>2, <1>5, <1>6, <1>7, <1>8, <1>9, <1>10, <1>11, <1>12

\* The rows open to the block under construction.
Offen == {z \in db.zeilen : z.id \notin db.belegt /\ z.seq <= Bis(bau.inhalt, bau.alt) + 1}

\* Every row of s fits behind what stands before it.
Passend(s, alt) == \A i \in 1 .. Len(s) : PasstNach(s[i], SubSeq(s, 1, i - 1), alt)

\* Mixing: a prefix of the ordered mixture goes into the block, the fast transfers of
\* the rest go back, and the rows taken are claimed.
LEMMA BauMischtTut ==
  ASSUME Grund, BauMischt
  PROVE  /\ Laeuft /\ bau.phase = "genommen"
         /\ UNCHANGED <<wal, annahmen, schwebend, verw, lauf, vorStart, folge, verworfen, zaehler>>
         /\ bau' \in BauTyp /\ bau'.phase = "gemischt" /\ bau'.alt = bau.alt
         /\ ImBau' \subseteq ImBau \cup Offen /\ Aufsteigend(bau'.inhalt) /\ Passend(bau'.inhalt, bau.alt)
         /\ \A x \in ImBau', y \in (ImBau \cup Offen) \ ImBau' : Frueher(x, y)
         /\ korb' \in KorbTyp /\ korb'.naechste = korb.naechste /\ korb'.warten = korb.warten
         /\ ToSet(korb'.bereit) = ToSet(korb.bereit) \cup (ImBau \ ImBau') /\ Aufsteigend(korb'.bereit)
         /\ db' \in DbTyp /\ db'.belegt = db.belegt \cup {z.id : z \in Zeilen(ImBau')}
         /\ db'.zeilen = db.zeilen /\ db'.id = db.id /\ db'.marke = db.marke /\ db'.bloecke = db.bloecke
<1> DEFINE M     == ToSet(bau.inhalt) \cup Offen
           reihe == Geordnet(M)
           n     == Mischlaenge(reihe, bau.alt)
           drin  == SubSeq(reihe, 1, n)
           danach == SubSeq(reihe, n + 1, Len(reihe))
           rest  == NurSchnelle(danach)
<1>1. /\ Laeuft /\ bau.phase = "genommen"
      /\ UNCHANGED <<wal, annahmen, schwebend, verw, lauf, vorStart, folge, verworfen, zaehler>>
      /\ bau' = [bau EXCEPT !.phase = "gemischt", !.inhalt = drin]
      /\ korb' = [korb EXCEPT !.bereit = rest \o @]
      /\ db' = [db EXCEPT !.belegt = @ \cup {z.id : z \in Offen \cap ToSet(drin)}]
  BY DEF BauMischt, Laeuft, Offen
<1>2. /\ korb.bereit \in Seq(Eintraege) /\ Aufsteigend(korb.bereit) /\ bau.inhalt \in Seq(Eintraege)
      /\ korb \in KorbTyp /\ bau \in BauTyp /\ db \in DbTyp /\ db.zeilen \in SUBSET Eintraege
      /\ ToSet(bau.inhalt) \in SUBSET Eintraege /\ IsFiniteSet(ToSet(bau.inhalt)) /\ IsFiniteSet(db.zeilen)
  BY StandTyp DEF Grund, Lage, Typ, ImBau
<1>3. \A x \in ImBau : AusWAL(x)
  BY <1>1 DEF Grund, Nummern, RuheOK, Zeilen
<1>4. \A z \in db.zeilen : ~AusWAL(z)
  BY DEF Grund, Nummern, ZeilenOK, ZeilenE
<1>5. M \in SUBSET Eintraege /\ IsFiniteSet(M) /\ Unterscheidbar(M)
  <2>1. Offen \subseteq db.zeilen
    BY DEF Offen
  <2>2. IsFiniteSet(Offen)
    BY <1>2, <2>1, FS_Subset
  <2>3. IsFiniteSet(M)
    BY <1>2, <2>2, FS_Union
  <2>4. M \subseteq SchnelleE \cup ZeilenE
    BY <1>3, <2>1 DEF SchnelleE, ZeilenE, Schnelle, ImBau
  <2> HIDE DEF M
  <2>5. Unterscheidbar(M)
    BY <2>4, AlleUnterscheidbar DEF Grund, Nummern
  <2>6. M \in SUBSET Eintraege
    BY <2>4, StandTyp DEF Grund
  <2>7. QED BY <2>3, <2>5, <2>6
<1> HIDE DEF M
<1>6. reihe \in Seq(Eintraege) /\ ToSet(reihe) = M /\ Aufsteigend(reihe)
  BY <1>5, GeordnetIst
<1> HIDE DEF reihe
<1>7. n \in 0 .. Len(reihe) /\ \A i \in 1 .. n : PasstNach(reihe[i], SubSeq(reihe, 1, i - 1), bau.alt)
  BY <1>6, MischlaengeIst
<1> HIDE DEF n
<1>8. /\ drin \in Seq(Eintraege) /\ danach \in Seq(Eintraege) /\ ToSet(drin) \cup ToSet(danach) = M
      /\ Len(drin) = n /\ \A i \in 1 .. n : drin[i] = reihe[i]
  BY <1>6, <1>7, Geteilt
<1>9. Aufsteigend(drin) /\ Aufsteigend(danach) /\ \A x \in ToSet(drin), y \in ToSet(danach) : Frueher(x, y)
  BY <1>6, <1>7, AufsteigendGeteilt
<1>10. Passend(drin, bau.alt)
  <2>1. ASSUME NEW i \in 1 .. Len(drin) PROVE PasstNach(drin[i], SubSeq(drin, 1, i - 1), bau.alt)
    <3>1. i \in 1 .. n /\ n \in Nat /\ i \in Nat /\ i - 1 \in 0 .. n
      BY <1>7, <1>8, <2>1
    <3>2. SubSeq(drin, 1, i - 1) = SubSeq(reihe, 1, i - 1)
      <4>1. \A k \in 1 .. i - 1 : drin[k] = reihe[k]
        BY <1>8, <3>1
      <4>2. QED BY <3>1, <4>1 DEF SubSeq
    <3>3. QED BY <1>7, <1>8, <3>1, <3>2
  <2>2. QED BY <2>1 DEF Passend
<1>11. /\ rest \in Seq(Eintraege) /\ ToSet(rest) = {e \in ToSet(danach) : AusWAL(e)} /\ Aufsteigend(rest)
  BY <1>8, <1>9, NurSchnelleIst
<1> HIDE DEF drin, danach, rest
<1>12. /\ ToSet(rest \o korb.bereit) = ToSet(rest) \cup ToSet(korb.bereit) /\ rest \o korb.bereit \in Seq(Eintraege)
  BY <1>2, <1>11, MengeVerkettet
<1>13. /\ bau'.phase = "gemischt" /\ bau'.alt = bau.alt /\ bau'.inhalt = drin /\ bau' \in BauTyp
       /\ korb'.bereit = rest \o korb.bereit /\ korb'.naechste = korb.naechste /\ korb'.warten = korb.warten
       /\ korb' \in KorbTyp
  BY <1>1, <1>2, <1>8, <1>12 DEF BauTyp, KorbTyp
<1>14. ImBau' = ToSet(drin)
  BY <1>13 DEF ImBau
<1>15. \A x \in ToSet(danach) : x \notin ToSet(drin)
  BY <1>8, <1>9, MengeDerReihe, FrueherOrdnet
<1>16. ToSet(drin) \subseteq ImBau \cup Offen /\ ToSet(danach) = (ImBau \cup Offen) \ ToSet(drin)
  BY <1>8, <1>15 DEF M, ImBau
<1>17. \A z \in Offen : ~AusWAL(z)
  BY <1>4 DEF Offen
<1>18. ToSet(rest) = ImBau \ ToSet(drin)
  BY <1>3, <1>11, <1>16, <1>17
<1>19. Aufsteigend(korb'.bereit)
  <2>1. \A x \in ToSet(rest), y \in ToSet(korb.bereit) : Frueher(x, y)
    <3>1. \A x \in ImBau, y \in ToSet(korb.bereit) : x.seq < y.seq
      BY <1>3 DEF Grund, Lage, Schnelle
    <3>2. QED BY <1>18, <3>1 DEF Frueher
  <2>2. QED BY <1>2, <1>11, <1>13, <2>1, AufsteigendVerkettet
<1>20. Offen \cap ToSet(drin) = Zeilen(ToSet(drin))
  BY <1>3, <1>16, <1>17 DEF Zeilen
<1>21. /\ db'.belegt = db.belegt \cup {z.id : z \in Zeilen(ImBau')} /\ db' \in DbTyp
       /\ db'.zeilen = db.zeilen /\ db'.id = db.id /\ db'.marke = db.marke /\ db'.bloecke = db.bloecke
  <2>1. {z.id : z \in Zeilen(ToSet(drin))} \in SUBSET Nat
    <3>1. Zeilen(ToSet(drin)) \in SUBSET Eintraege
      BY <1>8, MengeDerReihe DEF Zeilen
    <3>2. QED BY <3>1, EintragTyp
  <2> DEFINE ids == {z.id : z \in Zeilen(ToSet(drin))}
  <2>2. db' = [db EXCEPT !.belegt = @ \cup ids]
    BY <1>1, <1>20
  <2>3. ids = {z.id : z \in Zeilen(ImBau')}
    BY <1>14
  <2>4. ids \in SUBSET Nat
    BY <2>1
  <2> HIDE DEF ids
  <2>5. QED BY <1>2, <2>2, <2>3, <2>4 DEF DbTyp
<1>22. \A x \in ImBau', y \in (ImBau \cup Offen) \ ImBau' : Frueher(x, y)
  BY <1>9, <1>14, <1>16
<1>23. Aufsteigend(bau'.inhalt) /\ Passend(bau'.inhalt, bau.alt)
  BY <1>9, <1>10, <1>13
<1>24. ToSet(korb'.bereit) = ToSet(korb.bereit) \cup (ImBau \ ImBau')
  BY <1>12, <1>13, <1>14, <1>18
<1>25. ImBau' \subseteq ImBau \cup Offen
  BY <1>14, <1>16
<1>26. QED BY <1>1, <1>13, <1>19, <1>21, <1>22, <1>23, <1>24, <1>25

\* Entries that go back: fast transfers to the front of the Korb, rows open again.
LEMMA ZuruecklegenTut ==
  ASSUME Grund, NEW s \in Seq(Eintraege), Aufsteigend(s), ToSet(s) \subseteq ImBau, Zuruecklegen(s)
  PROVE  /\ korb' \in KorbTyp /\ korb'.naechste = korb.naechste /\ korb'.warten = korb.warten
         /\ ToSet(korb'.bereit) = ToSet(korb.bereit) \cup Schnelle(ToSet(s)) /\ Aufsteigend(korb'.bereit)
         /\ db' \in DbTyp /\ db'.belegt = db.belegt \ {e.id : e \in ToSet(s)}
         /\ db'.zeilen = db.zeilen /\ db'.id = db.id /\ db'.marke = db.marke /\ db'.bloecke = db.bloecke
<1>1. /\ korb.bereit \in Seq(Eintraege) /\ Aufsteigend(korb.bereit) /\ korb \in KorbTyp /\ db \in DbTyp
  BY StandTyp DEF Grund, Lage, Typ
<1> DEFINE rest == NurSchnelle(s)
           ids  == {e.id : e \in ToSet(s)}
<1>2. korb' = [korb EXCEPT !.bereit = rest \o @] /\ db' = [db EXCEPT !.belegt = @ \ ids]
  BY DEF Zuruecklegen
<1>3. rest \in Seq(Eintraege) /\ ToSet(rest) = Schnelle(ToSet(s)) /\ Aufsteigend(rest)
  BY NurSchnelleIst DEF Schnelle
<1> HIDE DEF rest
<1>4. ToSet(rest \o korb.bereit) = ToSet(rest) \cup ToSet(korb.bereit) /\ rest \o korb.bereit \in Seq(Eintraege)
  BY <1>1, <1>3, MengeVerkettet
<1>5. /\ korb'.bereit = rest \o korb.bereit /\ korb'.naechste = korb.naechste /\ korb'.warten = korb.warten
      /\ korb' \in KorbTyp
  BY <1>1, <1>2, <1>4 DEF KorbTyp
<1>6. Aufsteigend(korb'.bereit)
  <2>1. \A x \in ToSet(rest), y \in ToSet(korb.bereit) : Frueher(x, y)
    BY <1>3 DEF Grund, Lage, Schnelle, Frueher
  <2>2. QED BY <1>1, <1>3, <1>5, <2>1, AufsteigendVerkettet
<1> HIDE DEF ids
<1>7. /\ db' \in DbTyp /\ db'.belegt = db.belegt \ ids
      /\ db'.zeilen = db.zeilen /\ db'.id = db.id /\ db'.marke = db.marke /\ db'.bloecke = db.bloecke
  BY <1>1, <1>2 DEF DbTyp
<1>8. QED BY <1>3, <1>4, <1>5, <1>6, <1>7 DEF ids

\* korbPraefix: the builder keeps the front and lays the rest back.
LEMMA BauKuerztTut ==
  ASSUME Grund, NEW j, BauKuerzt(j)
  PROVE  /\ Laeuft /\ bau.phase = "gemischt"
         /\ UNCHANGED <<wal, annahmen, schwebend, verw, lauf, vorStart, folge, verworfen, zaehler>>
         /\ bau' \in BauTyp /\ bau'.phase = "gekuerzt" /\ bau'.alt = db.marke
         /\ ImBau' \subseteq ImBau /\ Aufsteigend(bau'.inhalt)
         /\ \A x \in ImBau', y \in ImBau \ ImBau' : Frueher(x, y)
         /\ korb' \in KorbTyp /\ korb'.naechste = korb.naechste /\ korb'.warten = korb.warten
         /\ ToSet(korb'.bereit) = ToSet(korb.bereit) \cup Schnelle(ImBau \ ImBau') /\ Aufsteigend(korb'.bereit)
         /\ db' \in DbTyp /\ db'.belegt = db.belegt \ {e.id : e \in ImBau \ ImBau'}
         /\ db'.zeilen = db.zeilen /\ db'.id = db.id /\ db'.marke = db.marke /\ db'.bloecke = db.bloecke
<1> DEFINE vorn   == SubSeq(bau.inhalt, 1, j)
           hinten == SubSeq(bau.inhalt, j + 1, Len(bau.inhalt))
<1>1. /\ Laeuft /\ bau.phase = "gemischt" /\ j \in 1 .. (Len(bau.inhalt) - 1)
      /\ UNCHANGED <<wal, annahmen, schwebend, verw, lauf, vorStart, folge, verworfen, zaehler>>
      /\ bau' = [phase |-> "gekuerzt", alt |-> db.marke, inhalt |-> vorn] /\ Zuruecklegen(hinten)
  BY DEF BauKuerzt, Laeuft
<1>2. bau.inhalt \in Seq(Eintraege) /\ Aufsteigend(bau.inhalt) /\ j \in 0 .. Len(bau.inhalt) /\ db.marke \in Nat
  BY <1>1, StandTyp DEF Grund, Lage
<1>3. /\ vorn \in Seq(Eintraege) /\ hinten \in Seq(Eintraege) /\ ToSet(vorn) \cup ToSet(hinten) = ImBau
  BY <1>2, Geteilt DEF ImBau
<1>4. Aufsteigend(vorn) /\ Aufsteigend(hinten) /\ \A x \in ToSet(vorn), y \in ToSet(hinten) : Frueher(x, y)
  BY <1>2, AufsteigendGeteilt
<1> HIDE DEF vorn, hinten
<1>5. ToSet(hinten) = ImBau \ ToSet(vorn)
  BY <1>3, <1>4, MengeDerReihe, FrueherOrdnet
<1>6. bau' \in BauTyp /\ bau'.phase = "gekuerzt" /\ bau'.alt = db.marke /\ bau'.inhalt = vorn /\ ImBau' = ToSet(vorn)
  BY <1>1, <1>2, <1>3 DEF BauTyp, ImBau
<1>7. /\ korb' \in KorbTyp /\ korb'.naechste = korb.naechste /\ korb'.warten = korb.warten
      /\ ToSet(korb'.bereit) = ToSet(korb.bereit) \cup Schnelle(ToSet(hinten)) /\ Aufsteigend(korb'.bereit)
      /\ db' \in DbTyp /\ db'.belegt = db.belegt \ {e.id : e \in ToSet(hinten)}
      /\ db'.zeilen = db.zeilen /\ db'.id = db.id /\ db'.marke = db.marke /\ db'.bloecke = db.bloecke
  BY <1>1, <1>3, <1>4, <1>5, ZuruecklegenTut
<1>8. QED BY <1>1, <1>3, <1>4, <1>5, <1>6, <1>7

\* No block after all: everything goes back.
LEMMA BauScheitertTut ==
  ASSUME Grund, BauScheitert
  PROVE  /\ Laeuft /\ bau.phase \in {"gemischt", "gekuerzt"} /\ bau' = KeinBau /\ ImBau' = {}
         /\ UNCHANGED <<wal, annahmen, schwebend, verw, lauf, vorStart, folge, verworfen>>
         /\ zaehler' \in ZaehlerTyp /\ zaehler'.abstuerze = zaehler.abstuerze
         /\ korb' \in KorbTyp /\ korb'.naechste = korb.naechste /\ korb'.warten = korb.warten
         /\ ToSet(korb'.bereit) = ToSet(korb.bereit) \cup Schnelle(ImBau) /\ Aufsteigend(korb'.bereit)
         /\ db' \in DbTyp /\ db'.belegt = db.belegt \ {e.id : e \in ImBau}
         /\ db'.zeilen = db.zeilen /\ db'.id = db.id /\ db'.marke = db.marke /\ db'.bloecke = db.bloecke
<1>1. /\ Laeuft /\ bau.phase \in {"gemischt", "gekuerzt"} /\ bau' = KeinBau /\ Zuruecklegen(bau.inhalt)
      /\ UNCHANGED <<wal, annahmen, schwebend, verw, lauf, vorStart, folge, verworfen>>
      /\ zaehler.fehler < MaxFehler /\ zaehler' = [zaehler EXCEPT !.fehler = @ + 1]
  BY DEF BauScheitert, Laeuft
<1>2. bau.inhalt \in Seq(Eintraege) /\ Aufsteigend(bau.inhalt)
  BY StandTyp DEF Grund, Lage
<1>3. zaehler' \in ZaehlerTyp /\ zaehler'.abstuerze = zaehler.abstuerze
  BY <1>1, GrenzenTyp DEF Grund, Typ, ZaehlerTyp
<1>4. ImBau' = {}
  BY <1>1 DEF ImBau, KeinBau, ToSet
<1>5. /\ korb' \in KorbTyp /\ korb'.naechste = korb.naechste /\ korb'.warten = korb.warten
      /\ ToSet(korb'.bereit) = ToSet(korb.bereit) \cup Schnelle(ImBau) /\ Aufsteigend(korb'.bereit)
      /\ db' \in DbTyp /\ db'.belegt = db.belegt \ {e.id : e \in ImBau}
      /\ db'.zeilen = db.zeilen /\ db'.id = db.id /\ db'.marke = db.marke /\ db'.bloecke = db.bloecke
  BY <1>1, <1>2, ZuruecklegenTut DEF ImBau
<1>6. QED BY <1>1, <1>3, <1>4, <1>5

\* SaveBlockMitKorb: the entries of the builder are in the chain, their rows are gone
\* and the mark is at the last fast transfer among them.
LEMMA BauSpeichertTut ==
  ASSUME Grund, BauSpeichert
  PROVE  /\ Laeuft /\ bau.phase \in {"gemischt", "gekuerzt"} /\ bau' = KeinBau /\ ImBau' = {}
         /\ UNCHANGED <<wal, korb, annahmen, schwebend, verw, lauf, folge, verworfen, zaehler>>
         /\ vorStart' \in Nat /\ db' \in DbTyp /\ db'.id = db.id /\ db'.zeilen = db.zeilen \ ImBau
         /\ db'.belegt = db.belegt \ {e.id : e \in ImBau} /\ db'.marke = Bis(bau.inhalt, bau.alt)
         /\ db'.bloecke = db.bloecke \o [i \in DOMAIN bau.inhalt |-> bau.inhalt[i].tx]
         /\ Verblockt' = Verblockt \cup Txs(ImBau)
<1> DEFINE bloecke == db.bloecke \o [i \in DOMAIN bau.inhalt |-> bau.inhalt[i].tx]
           zeilen  == {z \in db.zeilen : z \notin ToSet(bau.inhalt)}
           marke   == Bis(bau.inhalt, bau.alt)
           belegt  == db.belegt \ {e.id : e \in ToSet(bau.inhalt)}
           txs     == [i \in DOMAIN bau.inhalt |-> bau.inhalt[i].tx]
<1>1. /\ Laeuft /\ bau.phase \in {"gemischt", "gekuerzt"} /\ bau' = KeinBau
      /\ UNCHANGED <<wal, korb, annahmen, schwebend, verw, lauf, folge, verworfen, zaehler>>
      /\ vorStart' = VorStartNach(zeilen, db.belegt, marke)
      /\ db' = [db EXCEPT !.zeilen = zeilen, !.belegt = belegt, !.marke = marke, !.bloecke = bloecke]
  BY DEF BauSpeichert, Laeuft
<1>2. /\ bau.inhalt \in Seq(Eintraege) /\ Aufsteigend(bau.inhalt) /\ bau.alt \in Nat /\ db \in DbTyp
      /\ db.bloecke \in Seq(Auftraege) /\ vorStart \in Nat /\ db.zeilen \in SUBSET Eintraege /\ db.belegt \in SUBSET Nat
  BY StandTyp DEF Grund, Lage, Typ
<1>3. marke \in Nat
  BY <1>2, BisIst
<1>4. /\ DOMAIN bau.inhalt = 1 .. Len(bau.inhalt) /\ Len(bau.inhalt) \in Nat
      /\ \A i \in DOMAIN bau.inhalt : bau.inhalt[i] \in Eintraege /\ bau.inhalt[i].tx \in Auftraege
  BY <1>2, EintragTyp
<1>5. txs \in Seq(Auftraege)
  BY <1>4
<1>6. bloecke \in Seq(Auftraege) /\ ToSet(bloecke) = ToSet(db.bloecke) \cup ToSet(txs)
  <2> HIDE DEF txs
  <2>1. db.bloecke \o txs \in Seq(Auftraege) /\ ToSet(db.bloecke \o txs) = ToSet(db.bloecke) \cup ToSet(txs)
    BY <1>2, <1>5, MengeVerkettet
  <2>2. QED BY <2>1 DEF txs
<1>7. ToSet(txs) = Txs(ImBau)
  BY DEF ToSet, Txs, ImBau
<1>8. vorStart' \in Nat
  BY <1>1, <1>2 DEF VorStartNach
<1>9. ImBau' = {}
  BY <1>1 DEF ImBau, KeinBau, ToSet
<1>10. zeilen = db.zeilen \ ImBau /\ belegt = db.belegt \ {e.id : e \in ImBau}
  BY DEF ImBau
<1>11. belegt \in SUBSET Nat /\ zeilen \in SUBSET Eintraege
  BY <1>2
<1> HIDE DEF bloecke, zeilen, marke, belegt, txs
<1>12. /\ db' \in DbTyp /\ db'.id = db.id /\ db'.zeilen = zeilen /\ db'.belegt = belegt /\ db'.marke = marke
       /\ db'.bloecke = bloecke
  BY <1>1, <1>2, <1>3, <1>6, <1>11 DEF DbTyp
<1>13. Verblockt' = Verblockt \cup Txs(ImBau)
  BY <1>6, <1>7, <1>12 DEF Verblockt
<1>14. QED BY <1>1, <1>8, <1>9, <1>10, <1>12, <1>13 DEF bloecke, marke, txs

\* A crash: the end of the log and what was only in memory are gone.
LEMMA AbsturzTut ==
  ASSUME Grund, NEW bis, Absturz(bis)
  PROVE  /\ Laeuft /\ verw.phase # "nach" /\ zaehler.abstuerze < MaxAbstuerze
         /\ bis \in Nat /\ wal.haltbar <= bis /\ bis <= wal.naechste - 1
         /\ wal' \in WalTyp /\ wal'.saetze = {r \in wal.saetze : r.seq <= bis}
         /\ wal'.naechste = wal.naechste /\ wal'.haltbar = wal.haltbar /\ wal'.hwm = wal.hwm
         /\ folge' \in Seq(Auftraege) /\ Angewendet' = Angewendet \ Txs({r \in wal.saetze : r.seq > bis})
         /\ lauf' = "aus" /\ korb' = LeererKorb(0) /\ vorStart' = 0
         /\ annahmen' = {} /\ schwebend' = {} /\ bau' = KeinBau
         /\ ImKorb' = {} /\ ImBau' = {}
         /\ verw' \in VerwTyp /\ (verw.phase = "nie" => verw'.phase = "nie") /\ (verw.phase # "nie" => verw'.phase = "nach")
         /\ zaehler' \in ZaehlerTyp /\ zaehler'.abstuerze = zaehler.abstuerze + 1
         /\ UNCHANGED <<db, verworfen>>
<1> DEFINE weg == Txs({r \in wal.saetze : r.seq > bis})
           I   == {i \in DOMAIN folge : folge[i] \notin weg}
           bleibt == {r \in wal.saetze : r.seq <= bis}
<1>1. /\ Laeuft /\ verw.phase # "nach" /\ zaehler.abstuerze < MaxAbstuerze
      /\ bis \in wal.haltbar .. (wal.naechste - 1)
      /\ wal' = [wal EXCEPT !.saetze = bleibt]
      /\ folge' = Ausgewaehlt(folge, I)
      /\ lauf' = "aus" /\ korb' = LeererKorb(0) /\ vorStart' = 0
      /\ annahmen' = {} /\ schwebend' = {} /\ bau' = KeinBau
      /\ verw' = [phase |-> IF verw.phase = "nie" THEN "nie" ELSE "nach", bis |-> 0]
      /\ zaehler' = [zaehler EXCEPT !.abstuerze = @ + 1]
      /\ UNCHANGED <<db, verworfen>>
  BY DEF Absturz, Laeuft
<1>2. wal \in WalTyp /\ folge \in Seq(Auftraege) /\ wal.haltbar \in Nat /\ wal.naechste \in Nat /\ zaehler \in ZaehlerTyp
  BY StandTyp DEF Grund, Typ
<1>3. bis \in Nat /\ wal.haltbar <= bis /\ bis <= wal.naechste - 1
  BY <1>1, <1>2
<1>4. folge' \in Seq(Auftraege) /\ ToSet(folge') = {folge[i] : i \in I}
  <2>1. I \in SUBSET DOMAIN folge
    OBVIOUS
  <2> HIDE DEF I
  <2>2. QED BY <1>1, <1>2, <2>1, AusgewaehltIst
<1>5. Angewendet' = Angewendet \ weg
  <2> HIDE DEF weg
  <2>1. QED BY <1>4 DEF Angewendet, ToSet
<1>6. /\ wal' \in WalTyp /\ wal'.saetze = bleibt
      /\ wal'.naechste = wal.naechste /\ wal'.haltbar = wal.haltbar /\ wal'.hwm = wal.hwm
  <2>1. bleibt \subseteq wal.saetze
    OBVIOUS
  <2> HIDE DEF bleibt
  <2>2. QED BY <1>1, <1>2, <2>1 DEF WalTyp
<1>7. /\ verw' \in VerwTyp /\ (verw.phase = "nie" => verw'.phase = "nie") /\ (verw.phase # "nie" => verw'.phase = "nach")
  BY <1>1 DEF VerwTyp
<1>8. zaehler' \in ZaehlerTyp /\ zaehler'.abstuerze = zaehler.abstuerze + 1
  BY <1>1, <1>2, GrenzenTyp DEF ZaehlerTyp
<1>9. ImKorb' = {} /\ ImBau' = {}
  BY <1>1 DEF ImKorb, ImBau, KeinBau, LeererKorb, ToSet
<1>10. QED BY <1>1, <1>3, <1>4, <1>5, <1>6, <1>7, <1>8, <1>9

\* The number the restart takes up, above everything in the file.
LEMMA PeekIst ==
  ASSUME Typ
  PROVE  /\ PeekNachStart \in Nat \ {0} /\ wal.hwm < PeekNachStart
         /\ \A r \in wal.saetze : r.seq < PeekNachStart
         /\ PeekNachStart - 1 \in {wal.hwm} \cup Seqs(wal.saetze)
<1>1. wal.hwm \in Nat /\ IsFiniteSet(Seqs(wal.saetze)) /\ Seqs(wal.saetze) \in SUBSET Nat
  <2>1. wal.saetze \in SUBSET Eintraege /\ IsFiniteSet(wal.saetze) /\ wal.hwm \in Nat
    BY StandTyp DEF Typ
  <2>2. \A e \in wal.saetze : e.seq \in Nat
    BY <2>1, EintragTyp
  <2>3. QED BY <2>1, <2>2, SeqsEndlich
<1> DEFINE m == Max({wal.hwm} \cup Seqs(wal.saetze))
<1>2. m \in Nat /\ m \in {wal.hwm} \cup Seqs(wal.saetze) /\ wal.hwm <= m /\ \A x \in Seqs(wal.saetze) : x <= m
  BY <1>1, MaxMit
<1>3. PeekNachStart = m + 1
  BY DEF PeekNachStart
<1> HIDE DEF m
<1>4. \A r \in wal.saetze : r.seq \in Seqs(wal.saetze)
  BY DEF Seqs
<1>5. QED BY <1>1, <1>2, <1>3, <1>4

\* What the restart finds above the mark.
Neu == {r \in wal.saetze : r.seq > db.marke}

\* A restart: either the log goes on without a gap behind the mark, and the Korb is what
\* stands there, or the start is refused.
LEMMA WiederanlaufTut ==
  ASSUME Grund, Wiederanlauf
  PROVE  LET ende == db.marke + Cardinality(Neu)
         IN  /\ lauf = "aus" /\ ende \in Nat /\ UNCHANGED <<annahmen, schwebend, bau, verw, folge, verworfen, zaehler>>
             /\ \/ /\ Seqs(Neu) = db.marke + 1 .. ende /\ lauf' = "laeuft"
                   /\ wal' \in WalTyp /\ wal'.saetze = wal.saetze /\ wal'.naechste = PeekNachStart
                   /\ wal'.haltbar = PeekNachStart - 1 /\ wal'.hwm = wal.hwm
                   /\ korb' \in KorbTyp /\ korb'.warten = {} /\ Aufsteigend(korb'.bereit) /\ ToSet(korb'.bereit) = Neu
                   /\ korb'.naechste \in {PeekNachStart, ende + 1} /\ PeekNachStart <= korb'.naechste /\ ende < korb'.naechste
                   /\ db' \in DbTyp /\ db'.belegt = {} /\ db'.zeilen = db.zeilen /\ db'.id = db.id
                   /\ db'.marke = db.marke /\ db'.bloecke = db.bloecke
                   /\ vorStart' \in Nat
                \/ /\ Seqs(Neu) # db.marke + 1 .. ende /\ lauf' = "verweigert" /\ UNCHANGED <<wal, korb, db, vorStart>>
<1> DEFINE ende == db.marke + Cardinality(Neu)
<1>1. /\ wal \in WalTyp /\ db \in DbTyp /\ db.marke \in Nat /\ wal.hwm \in Nat
      /\ wal.saetze \in SUBSET Eintraege /\ IsFiniteSet(wal.saetze)
      /\ db.zeilen \in SUBSET Eintraege /\ IsFiniteSet(db.zeilen) /\ Typ
  BY StandTyp DEF Grund, Typ
<1>2. Neu \in SUBSET Eintraege /\ IsFiniteSet(Neu) /\ Unterscheidbar(Neu)
  <2>1. Neu \subseteq wal.saetze
    BY DEF Neu
  <2>2. IsFiniteSet(Neu) /\ Neu \subseteq SchnelleE
    BY <1>1, <2>1, FS_Subset DEF SchnelleE
  <2>3. QED BY <1>1, <2>1, <2>2, AlleUnterscheidbar DEF Grund, Nummern
<1>3. ende \in Nat
  BY <1>1, <1>2, FS_CardinalityType
<1> DEFINE r == Geordnet(Neu)
           ids == {z.id : z \in db.zeilen}
           ab == Max({PeekNachStart, ende + 1})
           vs == Max({0} \cup ids)
<1>4. r \in Seq(Eintraege) /\ ToSet(r) = Neu /\ Aufsteigend(r)
  BY <1>2, GeordnetIst
<1>5. PeekNachStart \in Nat \ {0}
  BY <1>1, PeekIst
<1>6. ab \in Nat /\ ab \in {PeekNachStart, ende + 1} /\ PeekNachStart <= ab /\ ende < ab
  <2> DEFINE p == PeekNachStart
             q == ende + 1
  <2>1. p \in Nat /\ q \in Nat
    BY <1>3, <1>5
  <2>2. ab = Max({p, q})
    OBVIOUS
  <2> HIDE DEF p, q, ab
  <2>3. ab \in {p, q} /\ ab \in Nat /\ ab >= p /\ ab >= q
    BY <2>1, <2>2, GroesseresNat
  <2> HIDE DEF ende
  <2>4. QED BY <1>3, <2>1, <2>3 DEF p, q
<1>7. vs \in Nat
  <2>1. ids \in SUBSET Nat
    BY <1>1, EintragTyp
  <2>2. IsFiniteSet(ids)
    <3> DEFINE f == [z \in db.zeilen |-> z.id]
    <3>1. ids = {f[z] : z \in db.zeilen}
      OBVIOUS
    <3> HIDE DEF f, ids
    <3>2. QED BY <1>1, <3>1, BildEndlich
  <2> HIDE DEF ids
  <2>3. QED BY <2>1, <2>2, MaxMit
<1>8. /\ lauf = "aus" /\ UNCHANGED <<annahmen, schwebend, bau, verw, folge, verworfen, zaehler>>
      /\ \/ /\ Seqs(Neu) = db.marke + 1 .. ende /\ lauf' = "laeuft"
            /\ wal' = [wal EXCEPT !.naechste = PeekNachStart, !.haltbar = PeekNachStart - 1]
            /\ korb' = [naechste |-> ab, bereit |-> r, warten |-> {}]
            /\ db' = [db EXCEPT !.belegt = {}]
            /\ vorStart' = vs
         \/ /\ Seqs(Neu) # db.marke + 1 .. ende /\ lauf' = "verweigert" /\ UNCHANGED <<wal, korb, db, vorStart>>
  BY DEF Wiederanlauf, Neu
<1> HIDE DEF ende, r, ids, ab, vs
<1>9. CASE /\ Seqs(Neu) = db.marke + 1 .. ende /\ lauf' = "laeuft"
           /\ wal' = [wal EXCEPT !.naechste = PeekNachStart, !.haltbar = PeekNachStart - 1]
           /\ korb' = [naechste |-> ab, bereit |-> r, warten |-> {}]
           /\ db' = [db EXCEPT !.belegt = {}]
           /\ vorStart' = vs
  <2>1. /\ wal' \in WalTyp /\ wal'.saetze = wal.saetze /\ wal'.naechste = PeekNachStart
        /\ wal'.haltbar = PeekNachStart - 1 /\ wal'.hwm = wal.hwm
    <3> DEFINE v == PeekNachStart - 1
    <3>1. v \in Nat /\ wal' = [wal EXCEPT !.naechste = PeekNachStart, !.haltbar = v]
      BY <1>5, <1>9
    <3> HIDE DEF v
    <3>2. /\ wal' \in WalTyp /\ wal'.saetze = wal.saetze /\ wal'.naechste = PeekNachStart
          /\ wal'.haltbar = v /\ wal'.hwm = wal.hwm
      BY <1>1, <1>5, <3>1 DEF WalTyp
    <3>3. QED BY <3>2 DEF v
  <2>2. /\ korb' \in KorbTyp /\ korb'.warten = {} /\ korb'.bereit = r /\ korb'.naechste = ab
    BY <1>4, <1>6, <1>9 DEF KorbTyp
  <2>3. /\ db' \in DbTyp /\ db'.belegt = {} /\ db'.zeilen = db.zeilen /\ db'.id = db.id
        /\ db'.marke = db.marke /\ db'.bloecke = db.bloecke
    BY <1>1, <1>9 DEF DbTyp
  <2>4. QED BY <1>3, <1>4, <1>6, <1>7, <1>8, <1>9, <2>1, <2>2, <2>3 DEF ende
<1>10. QED BY <1>3, <1>8, <1>9 DEF ende

\* speicherKorb.verwerfen: the Korb is empty and expects what comes after all it saw.
LEMMA VerwerfenLeertTut ==
  ASSUME Grund, VerwerfenLeert
  PROVE  /\ Laeuft /\ verw.phase = "frei" /\ verw' \in VerwTyp /\ verw'.phase = "geleert"
         /\ UNCHANGED <<wal, db, annahmen, schwebend, bau, lauf, vorStart, folge, verworfen, zaehler>>
         /\ korb' \in KorbTyp /\ ImKorb' = {} /\ korb'.bereit = <<>> /\ korb'.warten = {}
         /\ korb.naechste <= korb'.naechste
<1> DEFINE bis == Max({korb.naechste - 1} \cup Seqs(korb.warten))
           T   == {korb.naechste - 1} \cup Seqs(korb.warten)
<1>1. /\ Laeuft /\ verw.phase = "frei" /\ verw' = [phase |-> "geleert", bis |-> bis] /\ korb' = LeererKorb(bis + 1)
      /\ UNCHANGED <<wal, db, annahmen, schwebend, bau, lauf, vorStart, folge, verworfen, zaehler>>
  BY DEF VerwerfenLeert, Laeuft
<1>2. korb.naechste \in Nat \ {0} /\ korb.warten \in SUBSET Eintraege /\ IsFiniteSet(korb.warten)
  <2>1. korb.naechste \in Nat /\ korb.warten \in SUBSET Eintraege /\ IsFiniteSet(korb.warten)
    BY StandTyp DEF Grund, Typ
  <2>2. 1 <= korb.naechste
    BY <1>1 DEF Grund, Nummern, RuheOK
  <2>3. QED BY <2>1, <2>2
<1>3. bis \in Nat /\ korb.naechste - 1 <= bis
  <2> DEFINE v == korb.naechste - 1
  <2>1. v \in Nat
    BY <1>2
  <2>2. IsFiniteSet(Seqs(korb.warten)) /\ Seqs(korb.warten) \in SUBSET Nat
    <3>1. \A e \in korb.warten : e.seq \in Nat
      BY <1>2, EintragTyp
    <3>2. QED BY <1>2, <3>1, SeqsEndlich
  <2> HIDE DEF v
  <2>3. LET m == Max({v} \cup Seqs(korb.warten)) IN m \in Nat /\ v <= m
    BY <2>1, <2>2, MaxMit
  <2>4. bis = Max({v} \cup Seqs(korb.warten))
    BY DEF v
  <2> HIDE DEF bis
  <2>5. QED BY <2>3, <2>4 DEF v
<1> HIDE DEF bis
<1>4. verw' \in VerwTyp /\ verw'.phase = "geleert"
  BY <1>1, <1>3 DEF VerwTyp
<1>5. korb' \in KorbTyp /\ korb'.bereit = <<>> /\ korb'.warten = {} /\ korb'.naechste = bis + 1
  BY <1>1, <1>3 DEF KorbTyp, LeererKorb
<1>6. ImKorb' = {}
  BY <1>5 DEF ImKorb, ToSet
<1>7. QED BY <1>1, <1>2, <1>3, <1>4, <1>5, <1>6

-----------------------------------------------------------------------------
(* The steps without sequences.                                            *)

\* AppendAsync gives out the next number.
LEMMA AnhaengenTut ==
  ASSUME Grund, NEW t \in annahmen, Anhaengen(t)
  PROVE  LET e == [seq |-> wal.naechste, id |-> 0, tx |-> t]
         IN  /\ Laeuft /\ t \in Schnell /\ Konten[t] \cap Gesperrt = {} /\ e \in Eintraege /\ AusWAL(e)
             /\ wal' \in WalTyp /\ wal'.saetze = wal.saetze \cup {e} /\ wal'.naechste = wal.naechste + 1
             /\ wal'.haltbar = wal.haltbar /\ wal'.hwm = wal.hwm /\ IsFiniteSet(wal'.saetze)
             /\ schwebend' = schwebend \cup {e} /\ folge' = Append(folge, t) /\ folge' \in Seq(Auftraege)
             /\ Angewendet' = Angewendet \cup {t} /\ annahmen' = annahmen \ {t}
             /\ UNCHANGED <<db, korb, bau, verw, lauf, vorStart, verworfen, zaehler>>
<1> DEFINE e == [seq |-> wal.naechste, id |-> 0, tx |-> t]
<1>1. /\ Laeuft /\ t \in Schnell /\ Konten[t] \cap Gesperrt = {} /\ t \in Auftraege
      /\ wal' = [wal EXCEPT !.saetze = @ \cup {e}, !.naechste = @ + 1]
      /\ schwebend' = schwebend \cup {e} /\ folge' = Append(folge, t) /\ annahmen' = annahmen \ {t}
      /\ UNCHANGED <<db, korb, bau, verw, lauf, vorStart, verworfen, zaehler>>
  BY DEF Anhaengen, Laeuft, Auftraege
<1>2. wal \in WalTyp /\ IsFiniteSet(wal.saetze) /\ folge \in Seq(Auftraege) /\ wal.naechste \in Nat
  BY StandTyp DEF Grund, Typ
<1>3. e \in Eintraege /\ AusWAL(e)
  BY <1>1, <1>2 DEF Eintraege, AusWAL
<1> DEFINE saetze == wal.saetze \cup {e}
           v      == wal.naechste + 1
<1>4. saetze \in SUBSET Eintraege /\ IsFiniteSet(saetze) /\ v \in Nat \ {0}
  <2>1. wal.saetze \in SUBSET Eintraege
    BY StandTyp DEF Grund
  <2>2. v \in Nat \ {0}
    BY <1>2
  <2> HIDE DEF e
  <2>3. IsFiniteSet(wal.saetze \cup {e})
    BY <1>2, FS_AddElement
  <2>4. QED BY <1>3, <2>1, <2>2, <2>3
<1>5. /\ wal' \in WalTyp /\ wal'.saetze = wal.saetze \cup {e} /\ wal'.naechste = wal.naechste + 1
      /\ wal'.haltbar = wal.haltbar /\ wal'.hwm = wal.hwm /\ IsFiniteSet(wal'.saetze)
  <2>1. wal' = [wal EXCEPT !.saetze = saetze, !.naechste = v]
    BY <1>1
  <2> HIDE DEF saetze, v
  <2>2. /\ wal' \in WalTyp /\ wal'.saetze = saetze /\ wal'.naechste = v
        /\ wal'.haltbar = wal.haltbar /\ wal'.hwm = wal.hwm
    BY <1>2, <1>4, <2>1 DEF WalTyp
  <2>3. QED BY <1>4, <2>2 DEF saetze, v
<1>6. folge' \in Seq(Auftraege) /\ Angewendet' = Angewendet \cup {t}
  <2>1. folge' \in Seq(Auftraege) /\ Len(folge') = Len(folge) + 1 /\ folge'[Len(folge) + 1] = t
        /\ \A i \in 1 .. Len(folge) : folge'[i] = folge[i]
    BY <1>1, <1>2
  <2>2. ToSet(folge') = {folge'[i] : i \in 1 .. Len(folge')} /\ ToSet(folge) = {folge[i] : i \in 1 .. Len(folge)}
    BY <1>2, <2>1, MengeDerReihe
  <2>3. Len(folge) \in Nat
    BY <1>2
  <2>4. QED BY <2>1, <2>2, <2>3 DEF Angewendet
<1>7. QED BY <1>1, <1>3, <1>5, <1>6

\* The serial path: the row takes the number the log gives out next.
LEMMA LangsamBeginntTut ==
  ASSUME Grund, NEW t \in annahmen, LangsamBeginnt(t)
  PROVE  LET e == [seq |-> wal.naechste, id |-> db.id + 1, tx |-> t]
         IN  /\ Laeuft /\ t \in Langsam /\ Konten[t] \cap Gesperrt = {} /\ e \in Eintraege /\ ~AusWAL(e)
             /\ \A r \in wal.saetze : Teilen(r.tx, t) => r.seq <= wal.haltbar
             /\ db' \in DbTyp /\ db'.id = db.id + 1 /\ db'.zeilen = db.zeilen /\ db'.belegt = db.belegt
             /\ db'.marke = db.marke /\ db'.bloecke = db.bloecke
             /\ schwebend' = schwebend \cup {e} /\ annahmen' = annahmen \ {t}
             /\ UNCHANGED <<wal, korb, bau, verw, lauf, vorStart, folge, verworfen, zaehler>>
<1> DEFINE e == [seq |-> wal.naechste, id |-> db.id + 1, tx |-> t]
<1>1. /\ Laeuft /\ t \in Langsam /\ Konten[t] \cap Gesperrt = {} /\ t \in Auftraege
      /\ \A r \in wal.saetze : Teilen(r.tx, t) => r.seq <= wal.haltbar
      /\ db' = [db EXCEPT !.id = @ + 1] /\ schwebend' = schwebend \cup {e} /\ annahmen' = annahmen \ {t}
      /\ UNCHANGED <<wal, korb, bau, verw, lauf, vorStart, folge, verworfen, zaehler>>
  BY DEF LangsamBeginnt, Laeuft, Auftraege
<1>2. db \in DbTyp /\ db.id \in Nat /\ wal.naechste \in Nat
  BY StandTyp DEF Grund, Typ
<1>3. e \in Eintraege /\ ~AusWAL(e)
  BY <1>1, <1>2 DEF Eintraege, AusWAL
<1>4. /\ db' \in DbTyp /\ db'.id = db.id + 1 /\ db'.zeilen = db.zeilen /\ db'.belegt = db.belegt
      /\ db'.marke = db.marke /\ db'.bloecke = db.bloecke
  BY <1>1, <1>2 DEF DbTyp
<1>5. QED BY <1>1, <1>3, <1>4

\* COMMIT of the serial path.
LEMMA LangsamFertigTut ==
  ASSUME Grund, NEW e \in schwebend, LangsamFertig(e)
  PROVE  /\ Laeuft /\ e \in Eintraege /\ ~AusWAL(e)
         /\ db' \in DbTyp /\ db'.zeilen = db.zeilen \cup {e} /\ IsFiniteSet(db'.zeilen) /\ db'.id = db.id
         /\ db'.belegt = db.belegt /\ db'.marke = db.marke /\ db'.bloecke = db.bloecke
         /\ folge' = Append(folge, e.tx) /\ folge' \in Seq(Auftraege) /\ Angewendet' = Angewendet \cup {e.tx}
         /\ schwebend' = schwebend \ {e}
         /\ UNCHANGED <<wal, korb, annahmen, bau, verw, lauf, vorStart, verworfen, zaehler>>
<1>1. /\ Laeuft /\ ~AusWAL(e) /\ db' = [db EXCEPT !.zeilen = @ \cup {e}]
      /\ folge' = Append(folge, e.tx) /\ schwebend' = schwebend \ {e}
      /\ UNCHANGED <<wal, korb, annahmen, bau, verw, lauf, vorStart, verworfen, zaehler>>
  BY DEF LangsamFertig, Laeuft
<1>2. db \in DbTyp /\ IsFiniteSet(db.zeilen) /\ folge \in Seq(Auftraege) /\ e \in Eintraege /\ e.tx \in Auftraege
  BY EintragTyp DEF Grund, Typ
<1>3. /\ db' \in DbTyp /\ db'.zeilen = db.zeilen \cup {e} /\ db'.id = db.id
      /\ db'.belegt = db.belegt /\ db'.marke = db.marke /\ db'.bloecke = db.bloecke
  BY <1>1, <1>2 DEF DbTyp
<1>4. IsFiniteSet(db'.zeilen)
  BY <1>2, <1>3, FS_AddElement
<1>5. folge' \in Seq(Auftraege) /\ Angewendet' = Angewendet \cup {e.tx}
  <2>1. folge' \in Seq(Auftraege) /\ Len(folge') = Len(folge) + 1 /\ folge'[Len(folge) + 1] = e.tx
        /\ \A i \in 1 .. Len(folge) : folge'[i] = folge[i]
    BY <1>1, <1>2
  <2>2. ToSet(folge') = {folge'[i] : i \in 1 .. Len(folge')} /\ ToSet(folge) = {folge[i] : i \in 1 .. Len(folge)}
    BY <1>2, <2>1, MengeDerReihe
  <2>3. Len(folge) \in Nat
    BY <1>2
  <2>4. QED BY <2>1, <2>2, <2>3 DEF Angewendet
<1>6. QED BY <1>1, <1>2, <1>3, <1>4, <1>5

\* ROLLBACK of the serial path.
LEMMA LangsamScheitertTut ==
  ASSUME Grund, NEW e \in schwebend, LangsamScheitert(e)
  PROVE  /\ Laeuft /\ ~AusWAL(e) /\ schwebend' = schwebend \ {e}
         /\ zaehler' \in ZaehlerTyp /\ zaehler'.abstuerze = zaehler.abstuerze
         /\ UNCHANGED <<wal, db, korb, annahmen, bau, verw, lauf, vorStart, folge, verworfen>>
<1>1. /\ Laeuft /\ ~AusWAL(e) /\ schwebend' = schwebend \ {e}
      /\ zaehler.fehler < MaxFehler /\ zaehler' = [zaehler EXCEPT !.fehler = @ + 1]
      /\ UNCHANGED <<wal, db, korb, annahmen, bau, verw, lauf, vorStart, folge, verworfen>>
  BY DEF LangsamScheitert, Laeuft
<1>2. zaehler' \in ZaehlerTyp /\ zaehler'.abstuerze = zaehler.abstuerze
  BY <1>1, GrenzenTyp DEF Grund, Typ, ZaehlerTyp
<1>3. QED BY <1>1, <1>2

\* A group commit.
LEMMA SichernTut ==
  ASSUME Grund, NEW bis, Sichern(bis)
  PROVE  /\ Laeuft /\ bis \in Nat /\ wal.haltbar < bis /\ bis < wal.naechste
         /\ wal' \in WalTyp /\ wal'.haltbar = bis /\ wal'.saetze = wal.saetze /\ wal'.naechste = wal.naechste
         /\ wal'.hwm = wal.hwm
         /\ UNCHANGED <<db, korb, annahmen, schwebend, bau, verw, lauf, vorStart, folge, verworfen, zaehler>>
<1>1. /\ Laeuft /\ bis \in (wal.haltbar + 1) .. (wal.naechste - 1) /\ wal' = [wal EXCEPT !.haltbar = bis]
      /\ UNCHANGED <<db, korb, annahmen, schwebend, bau, verw, lauf, vorStart, folge, verworfen, zaehler>>
  BY DEF Sichern, Laeuft
<1>2. wal \in WalTyp /\ wal.haltbar \in Nat /\ wal.naechste \in Nat
  BY StandTyp DEF Grund, Typ
<1>3. bis \in Nat /\ wal.haltbar < bis /\ bis < wal.naechste
  BY <1>1, <1>2
<1>4. QED BY <1>1, <1>2, <1>3 DEF WalTyp

\* Compaction: only records up to the mark go.
LEMMA KuerzenTut ==
  ASSUME Grund, NEW ab, Kuerzen(ab)
  PROVE  /\ Laeuft /\ ab \in Nat \ {0} /\ ab <= db.marke + 1
         /\ wal' \in WalTyp /\ wal'.saetze = {r \in wal.saetze : r.seq >= ab} /\ wal'.hwm = wal.naechste - 1
         /\ wal'.naechste = wal.naechste /\ wal'.haltbar = wal.haltbar
         /\ UNCHANGED <<db, korb, annahmen, schwebend, bau, verw, lauf, vorStart, folge, verworfen, zaehler>>
<1> DEFINE bleibt == {r \in wal.saetze : r.seq >= ab}
           v == wal.naechste - 1
<1>1. /\ Laeuft /\ ab \in 1 .. db.marke + 1 /\ wal' = [wal EXCEPT !.saetze = bleibt, !.hwm = v]
      /\ UNCHANGED <<db, korb, annahmen, schwebend, bau, verw, lauf, vorStart, folge, verworfen, zaehler>>
  BY DEF Kuerzen, KuerzenGrenze, Laeuft
<1>2. wal \in WalTyp /\ wal.naechste \in Nat \ {0} /\ db.marke \in Nat
  BY StandTyp DEF Grund, Typ
<1>3. v \in Nat /\ bleibt \subseteq wal.saetze /\ ab \in Nat \ {0} /\ ab <= db.marke + 1
  BY <1>1, <1>2
<1> HIDE DEF v, bleibt
<1>4. /\ wal' \in WalTyp /\ wal'.saetze = bleibt /\ wal'.hwm = v
      /\ wal'.naechste = wal.naechste /\ wal'.haltbar = wal.haltbar
  BY <1>1, <1>2, <1>3 DEF WalTyp
<1>5. QED BY <1>1, <1>3, <1>4 DEF v, bleibt

\* The builder passes the gate.
LEMMA BauTorTut ==
  ASSUME Grund, BauTor
  PROVE  /\ Laeuft /\ bau.phase = "ruht" /\ verw.phase \in {"nie", "nach"}
         /\ bau' \in BauTyp /\ bau'.phase = "tor" /\ bau'.alt = bau.alt /\ bau'.inhalt = bau.inhalt
         /\ UNCHANGED <<wal, db, korb, annahmen, schwebend, verw, lauf, vorStart, folge, verworfen, zaehler>>
  BY DEF BauTor, Laeuft, Grund, Typ, BauTyp

\* A superseded leader puts its outgoing side away: rows gone, mark behind them.
LEMMA VerwerfenMarkeTut ==
  ASSUME Grund, VerwerfenMarke
  PROVE  /\ Laeuft /\ verw.phase = "geleert" /\ verw' \in VerwTyp /\ verw'.phase = "fertig"
         /\ db' \in DbTyp /\ db'.zeilen = {} /\ db'.belegt = {} /\ db'.id = db.id /\ db'.bloecke = db.bloecke
         /\ db.marke <= db'.marke
         /\ UNCHANGED <<wal, korb, annahmen, schwebend, bau, lauf, vorStart, folge, verworfen, zaehler>>
<1> DEFINE m == Max({db.marke, verw.bis})
<1>1. /\ Laeuft /\ verw.phase = "geleert" /\ verw' = [verw EXCEPT !.phase = "fertig"]
      /\ db' = [db EXCEPT !.marke = m, !.zeilen = {}, !.belegt = {}]
      /\ UNCHANGED <<wal, korb, annahmen, schwebend, bau, lauf, vorStart, folge, verworfen, zaehler>>
  BY DEF VerwerfenMarke, Laeuft
<1>2. db \in DbTyp /\ verw \in VerwTyp /\ db.marke \in Nat /\ verw.bis \in Nat
  BY StandTyp DEF Grund, Typ
<1>3. m \in Nat /\ db.marke <= m
  BY <1>2, GroesseresNat
<1> HIDE DEF m
<1>4. verw' \in VerwTyp /\ verw'.phase = "fertig"
  BY <1>1, <1>2 DEF VerwTyp
<1>5. /\ db' \in DbTyp /\ db'.zeilen = {} /\ db'.belegt = {} /\ db'.id = db.id /\ db'.bloecke = db.bloecke
      /\ db'.marke = m
  BY <1>1, <1>2, <1>3 DEF DbTyp
<1>6. QED BY <1>1, <1>3, <1>4, <1>5

\* The other steps of the discarding.
LEMMA VerwerfenTut ==
  ASSUME Grund, UeberholtGemeldet \/ VerwerfenPrueft \/ ResyncFertig
  PROVE  /\ Laeuft /\ verw' \in VerwTyp /\ verworfen' \in SUBSET Auftraege
         /\ UNCHANGED <<wal, db, korb, annahmen, schwebend, bau, lauf, vorStart, folge, zaehler>>
         /\ \/ verw.phase = "nie" /\ verw'.phase = "wartet" /\ verworfen' = verworfen /\ Ueberholt
            \/ /\ verw.phase = "wartet" /\ ~BauHaelt /\ verw'.phase = "frei"
               /\ verworfen' = (Angewendet \cup annahmen \cup Txs(schwebend)) \ Verblockt
            \/ verw.phase = "fertig" /\ verw'.phase = "nach" /\ bau.phase = "ruht" /\ verworfen' = verworfen
<1>1. verw \in VerwTyp /\ verworfen \in SUBSET Auftraege
  BY DEF Grund, Typ
<1>2. CASE UeberholtGemeldet
  BY <1>1, <1>2 DEF UeberholtGemeldet, Laeuft, VerwTyp
<1>3. CASE VerwerfenPrueft
  <2>1. Txs(schwebend) \in SUBSET Auftraege
    BY EintragTyp DEF Grund, Typ, Txs
  <2>2. (Angewendet \cup annahmen \cup Txs(schwebend)) \ Verblockt \in SUBSET Auftraege
    BY <2>1, StandTyp DEF Grund, Typ
  <2>3. QED BY <1>1, <1>3, <2>2 DEF VerwerfenPrueft, Laeuft, VerwTyp
<1>4. CASE ResyncFertig
  BY <1>1, <1>4 DEF ResyncFertig, Laeuft, VerwTyp
<1>5. QED BY <1>2, <1>3, <1>4

\* Acceptance begins, or ends with a refusal.
LEMMA AnnahmeTut ==
  ASSUME Grund, (\E t \in Auftraege : AnnahmeBeginnt(t)) \/ (\E t \in annahmen : AnnahmeAbgelehnt(t))
  PROVE  /\ Laeuft /\ annahmen' \in SUBSET Auftraege
         /\ UNCHANGED <<wal, db, korb, schwebend, bau, verw, lauf, vorStart, folge, verworfen, zaehler>>
         /\ \/ verw.phase = "nie" /\ \A t \in annahmen' : t \in annahmen \/ t \notin Angewendet \cup Txs(schwebend)
            \/ annahmen' \subseteq annahmen
  BY DEF AnnahmeBeginnt, AnnahmeAbgelehnt, Laeuft, Grund, Typ

-----------------------------------------------------------------------------
(***************************************************************************)
(* Types, numbers and places hold in every state.                          *)
(***************************************************************************)
\* A step that adds no entry from the log keeps their numbers.
LEMMA SchnelleBleibt ==
  ASSUME SchnelleOK, SchnelleE' \subseteq SchnelleE, Angewendet \subseteq Angewendet',
         Laeuft' => Laeuft /\ wal.naechste <= wal'.naechste,
         wal.naechste \in Nat, wal'.naechste \in Nat, SchnelleE \in SUBSET Eintraege
  PROVE  SchnelleOK'
<1>1. \A e \in SchnelleE : e.seq \in Nat
  BY EintragTyp
<1>2. QED BY <1>1 DEF SchnelleOK

\* A step that adds no row keeps their ids.
LEMMA ZeilenBleibt ==
  ASSUME ZeilenOK, ZeilenE' \subseteq ZeilenE, db.id <= db'.id, db.id \in Nat, db'.id \in Nat, ZeilenE \in SUBSET Eintraege
  PROVE  ZeilenOK'
<1>1. \A e \in ZeilenE : e.id \in Nat
  BY EintragTyp
<1>2. QED BY <1>1 DEF ZeilenOK

\* A step that moves nothing forward in the Korb keeps the order there.
LEMMA LageBleibt ==
  ASSUME Typ, Lage, korb' = korb, bau'.inhalt = bau.inhalt, wal.haltbar <= wal'.haltbar, wal'.haltbar \in Nat
  PROVE  Lage'
<1>1. ImBau' = ImBau /\ ImBau \in SUBSET Eintraege /\ wal.haltbar \in Nat
  BY StandTyp DEF ImBau
<1>2. \A x \in Schnelle(ImBau) : x.seq \in Nat
  BY <1>1, EintragTyp DEF Schnelle
<1>3. \A x \in Schnelle(ImBau) : x.seq <= wal'.haltbar
  BY <1>1, <1>2 DEF Lage
<1>4. QED BY <1>1, <1>3 DEF Lage

\* A step that only moves or drops entries and rows.
LEMMA GrundRuhig ==
  ASSUME Grund, Typ', Laeuft, SchnelleE' \subseteq SchnelleE, ZeilenE' \subseteq ZeilenE, Angewendet' = Angewendet,
         wal'.naechste = wal.naechste, db'.id = db.id, schwebend' \subseteq schwebend,
         \A t \in annahmen' : t \in annahmen \/ t \notin Angewendet \cup Txs(schwebend),
         ImKorb' \cup ImBau' \subseteq ImKorb \cup ImBau \cup db.zeilen,
         db'.zeilen \cup Zeilen(ImBau') \subseteq db.zeilen \cup Zeilen(ImBau),
         RuheOK', Lage'
  PROVE  Grund'
<1>1. SchnelleOK'
  BY StandTyp, SchnelleBleibt DEF Grund, Nummern
<1>2. ZeilenOK'
  BY StandTyp, ZeilenBleibt DEF Grund, Nummern
<1>3. AnnahmenOK'
  <2>1. annahmen' \cap (Angewendet' \cup Txs(schwebend')) = {}
    BY DEF Grund, Nummern, AnnahmenOK, Txs
  <2>2. \A z \in Zeilen(schwebend') : z.tx \notin Angewendet'
    BY DEF Grund, Nummern, AnnahmenOK, Zeilen
  <2>3. \A z \in db'.zeilen \cup Zeilen(ImBau') : z.tx \in Angewendet'
    BY DEF Grund, Nummern, AnnahmenOK
  <2>4. schwebend' \cap (ImKorb' \cup ImBau') = {}
    <3>1. \A z \in db.zeilen : z.tx \in Angewendet /\ ~AusWAL(z)
      BY DEF Grund, Nummern, AnnahmenOK, ZeilenOK, ZeilenE
    <3>2. QED BY <3>1 DEF Grund, Nummern, AnnahmenOK, Zeilen
  <2>5. QED BY <2>1, <2>2, <2>3, <2>4 DEF AnnahmenOK, Zeilen, Txs
<1>4. QED BY <1>1, <1>2, <1>3 DEF Grund, Nummern

\* annahmeBeginnen and annahmeEnde keep the base invariant.
LEMMA GrundAnnahme ==
  ASSUME Grund, (\E t \in Auftraege : AnnahmeBeginnt(t)) \/ (\E t \in annahmen : AnnahmeAbgelehnt(t))
  PROVE  Grund'
<1>1. /\ Laeuft /\ annahmen' \in SUBSET Auftraege
      /\ UNCHANGED <<wal, db, korb, schwebend, bau, verw, lauf, vorStart, folge, verworfen, zaehler>>
      /\ \A t \in annahmen' : t \in annahmen \/ t \notin Angewendet \cup Txs(schwebend)
  BY AnnahmeTut
<1>2. Typ'
  BY <1>1 DEF Grund, Typ
<1>3. /\ ImKorb' = ImKorb /\ ImBau' = ImBau /\ SchnelleE' = SchnelleE /\ ZeilenE' = ZeilenE /\ Angewendet' = Angewendet
  BY <1>1 DEF ImKorb, ImBau, SchnelleE, ZeilenE, Schnelle, Zeilen, Angewendet
<1>4. RuheOK' /\ Lage'
  BY <1>1, <1>3, LageBleibt, StandTyp DEF Grund, Nummern, RuheOK, Laeuft
<1>5. QED BY <1>1, <1>2, <1>3, <1>4, GrundRuhig

\* A group commit keeps the base invariant.
LEMMA GrundSichern ==
  ASSUME Grund, NEW bis, Sichern(bis)
  PROVE  Grund'
<1>1. /\ Laeuft /\ wal.haltbar < bis /\ bis \in Nat
      /\ wal' \in WalTyp /\ wal'.haltbar = bis /\ wal'.saetze = wal.saetze /\ wal'.naechste = wal.naechste
      /\ UNCHANGED <<db, korb, annahmen, schwebend, bau, verw, lauf, vorStart, folge, verworfen, zaehler>>
  BY SichernTut
<1>2. Typ'
  BY <1>1 DEF Grund, Typ
<1>3. /\ ImKorb' = ImKorb /\ ImBau' = ImBau /\ SchnelleE' = SchnelleE /\ ZeilenE' = ZeilenE /\ Angewendet' = Angewendet
  BY <1>1 DEF ImKorb, ImBau, SchnelleE, ZeilenE, Schnelle, Zeilen, Angewendet
<1>4. RuheOK' /\ Lage'
  BY <1>1, <1>3, LageBleibt, StandTyp DEF Grund, Nummern, RuheOK, Laeuft
<1>5. QED BY <1>1, <1>2, <1>3, <1>4, GrundRuhig

\* Compaction keeps the base invariant.
LEMMA GrundKuerzen ==
  ASSUME Grund, NEW ab, Kuerzen(ab)
  PROVE  Grund'
<1>1. /\ Laeuft /\ wal' \in WalTyp /\ wal'.saetze = {r \in wal.saetze : r.seq >= ab}
      /\ wal'.naechste = wal.naechste /\ wal'.haltbar = wal.haltbar
      /\ UNCHANGED <<db, korb, annahmen, schwebend, bau, verw, lauf, vorStart, folge, verworfen, zaehler>>
  BY KuerzenTut
<1>2. wal'.saetze \subseteq wal.saetze
  BY <1>1
<1>3. Typ'
  <2>1. IsFiniteSet(wal'.saetze)
    BY <1>2, FS_Subset DEF Grund, Typ
  <2>2. QED BY <1>1, <2>1 DEF Grund, Typ
<1>4. /\ ImKorb' = ImKorb /\ ImBau' = ImBau /\ SchnelleE' \subseteq SchnelleE /\ ZeilenE' = ZeilenE /\ Angewendet' = Angewendet
  BY <1>1, <1>2 DEF ImKorb, ImBau, SchnelleE, ZeilenE, Schnelle, Zeilen, Angewendet
<1>5. RuheOK' /\ Lage'
  BY <1>1, <1>4, LageBleibt, StandTyp DEF Grund, Nummern, RuheOK, Laeuft
<1>6. QED BY <1>1, <1>3, <1>4, <1>5, GrundRuhig

\* A rollback of the serial path keeps the base invariant.
LEMMA GrundLangsamScheitert ==
  ASSUME Grund, NEW e \in schwebend, LangsamScheitert(e)
  PROVE  Grund'
<1>1. /\ Laeuft /\ ~AusWAL(e) /\ schwebend' = schwebend \ {e} /\ zaehler' \in ZaehlerTyp
      /\ UNCHANGED <<wal, db, korb, annahmen, bau, verw, lauf, vorStart, folge, verworfen>>
  BY LangsamScheitertTut
<1>2. Typ'
  BY <1>1 DEF Grund, Typ
<1>3. /\ ImKorb' = ImKorb /\ ImBau' = ImBau /\ SchnelleE' \subseteq SchnelleE /\ ZeilenE' \subseteq ZeilenE /\ Angewendet' = Angewendet
  BY <1>1 DEF ImKorb, ImBau, SchnelleE, ZeilenE, Schnelle, Zeilen, Angewendet
<1>4. RuheOK' /\ Lage'
  BY <1>1, <1>3, LageBleibt, StandTyp DEF Grund, Nummern, RuheOK, Laeuft
<1>5. QED BY <1>1, <1>2, <1>3, <1>4, GrundRuhig

\* Entering the gate keeps the base invariant.
LEMMA GrundBauTor ==
  ASSUME Grund, BauTor
  PROVE  Grund'
<1>1. /\ Laeuft /\ bau.phase = "ruht" /\ bau' \in BauTyp /\ bau'.phase = "tor" /\ bau'.inhalt = bau.inhalt
      /\ UNCHANGED <<wal, db, korb, annahmen, schwebend, verw, lauf, vorStart, folge, verworfen, zaehler>>
  BY BauTorTut
<1>2. Typ'
  BY <1>1 DEF Grund, Typ
<1>3. /\ ImKorb' = ImKorb /\ ImBau' = ImBau /\ SchnelleE' = SchnelleE /\ ZeilenE' = ZeilenE /\ Angewendet' = Angewendet
  BY <1>1 DEF ImKorb, ImBau, SchnelleE, ZeilenE, Schnelle, Zeilen, Angewendet
<1>4. RuheOK'
  BY <1>1, <1>3 DEF Grund, Nummern, RuheOK, Laeuft
<1>5. Lage'
  BY <1>1, LageBleibt, StandTyp DEF Grund
<1>6. QED BY <1>1, <1>2, <1>3, <1>4, <1>5, GrundRuhig

\* The steps of the discarding that touch no entry keep the base invariant.
LEMMA GrundVerwerfen ==
  ASSUME Grund, UeberholtGemeldet \/ VerwerfenPrueft \/ ResyncFertig
  PROVE  Grund'
<1>1. /\ Laeuft /\ verw' \in VerwTyp /\ verworfen' \in SUBSET Auftraege
      /\ UNCHANGED <<wal, db, korb, annahmen, schwebend, bau, lauf, vorStart, folge, zaehler>>
  BY VerwerfenTut
<1>2. Typ'
  BY <1>1 DEF Grund, Typ
<1>3. /\ ImKorb' = ImKorb /\ ImBau' = ImBau /\ SchnelleE' = SchnelleE /\ ZeilenE' = ZeilenE /\ Angewendet' = Angewendet
  BY <1>1 DEF ImKorb, ImBau, SchnelleE, ZeilenE, Schnelle, Zeilen, Angewendet
<1>4. RuheOK' /\ Lage'
  BY <1>1, <1>3, LageBleibt, StandTyp DEF Grund, Nummern, RuheOK, Laeuft
<1>5. QED BY <1>1, <1>2, <1>3, <1>4, GrundRuhig

\* Setting the mark behind what was discarded keeps the base invariant.
LEMMA GrundVerwerfenMarke ==
  ASSUME Grund, VerwerfenMarke
  PROVE  Grund'
<1>1. /\ Laeuft /\ verw' \in VerwTyp /\ db' \in DbTyp /\ db'.zeilen = {} /\ db'.id = db.id
      /\ UNCHANGED <<wal, korb, annahmen, schwebend, bau, lauf, vorStart, folge, verworfen, zaehler>>
  BY VerwerfenMarkeTut
<1>2. Typ'
  BY <1>1, FS_EmptySet DEF Grund, Typ
<1>3. /\ ImKorb' = ImKorb /\ ImBau' = ImBau /\ SchnelleE' = SchnelleE /\ ZeilenE' \subseteq ZeilenE /\ Angewendet' = Angewendet
  BY <1>1 DEF ImKorb, ImBau, SchnelleE, ZeilenE, Schnelle, Zeilen, Angewendet
<1>4. RuheOK' /\ Lage'
  BY <1>1, <1>3, LageBleibt, StandTyp DEF Grund, Nummern, RuheOK, Laeuft
<1>5. QED BY <1>1, <1>2, <1>3, <1>4, GrundRuhig

\* Emptying the Korb keeps the base invariant.
LEMMA GrundVerwerfenLeert ==
  ASSUME Grund, VerwerfenLeert
  PROVE  Grund'
<1>1. /\ Laeuft /\ verw' \in VerwTyp /\ korb' \in KorbTyp /\ ImKorb' = {} /\ korb'.bereit = <<>> /\ korb'.warten = {}
      /\ UNCHANGED <<wal, db, annahmen, schwebend, bau, lauf, vorStart, folge, verworfen, zaehler>>
      /\ korb.naechste <= korb'.naechste
  BY VerwerfenLeertTut
<1>2. Typ'
  BY <1>1, FS_EmptySet DEF Grund, Typ
<1>3. /\ ImBau' = ImBau /\ SchnelleE' \subseteq SchnelleE /\ ZeilenE' = ZeilenE /\ Angewendet' = Angewendet
  BY <1>1 DEF ImBau, SchnelleE, ZeilenE, Schnelle, Zeilen, Angewendet
<1>4. korb.naechste \in Nat /\ korb'.naechste \in Nat /\ \A x \in Schnelle(ImBau) : x.seq \in Nat
  BY <1>1, StandTyp, EintragTyp DEF Grund, KorbTyp, Schnelle
<1>5. RuheOK'
  BY <1>1, <1>3, <1>4 DEF Grund, Nummern, RuheOK, Laeuft
<1>6. Lage'
  <2>1. ToSet(korb'.bereit) = {} /\ Aufsteigend(korb'.bereit)
    BY <1>1 DEF ToSet, Aufsteigend
  <2>2. \A x \in Schnelle(ImBau) : x.seq < korb'.naechste
    BY <1>1, <1>4 DEF Grund, Lage
  <2>3. QED BY <1>1, <1>3, <2>1, <2>2 DEF Grund, Lage
<1>7. QED BY <1>1, <1>2, <1>3, <1>5, <1>6, GrundRuhig

\* The numbers of entries and rows are numbers.
LEMMA ZahlenTyp ==
  ASSUME Typ
  PROVE  \A x \in ImKorb \cup ImBau \cup ToSet(korb.bereit) \cup schwebend \cup wal.saetze \cup db.zeilen \cup ZeilenE \cup SchnelleE :
            /\ x \in Eintraege /\ x.seq \in Nat /\ x.id \in Nat /\ x.tx \in Auftraege
  BY StandTyp, EintragTyp DEF Typ

\* nehmen keeps the base invariant: the front of the Korb goes to the builder.
LEMMA GrundBauNimmt ==
  ASSUME Grund, BauNimmt
  PROVE  Grund'
<1>1. /\ Laeuft /\ ImBau = {}
      /\ UNCHANGED <<wal, db, annahmen, schwebend, verw, lauf, vorStart, folge, verworfen, zaehler>>
      /\ bau' \in BauTyp /\ bau'.phase = "genommen"
      /\ korb' \in KorbTyp /\ korb'.naechste = korb.naechste /\ korb'.warten = korb.warten
      /\ ToSet(korb.bereit) = ImBau' \cup ToSet(korb'.bereit) /\ ImKorb = ImBau' \cup ImKorb'
      /\ Aufsteigend(bau'.inhalt) /\ Aufsteigend(korb'.bereit)
      /\ \A x \in ImBau', y \in ToSet(korb'.bereit) : Frueher(x, y)
      /\ \A x \in ImBau' : AusWAL(x) /\ x.seq <= wal.haltbar
  BY BauNimmtTut
<1>2. Typ'
  BY <1>1 DEF Grund, Typ
<1>3. Zeilen(ImBau') = {} /\ Schnelle(ImBau') = ImBau'
  BY <1>1 DEF Zeilen, Schnelle
<1>4. /\ SchnelleE' \subseteq SchnelleE /\ ZeilenE' \subseteq ZeilenE /\ Angewendet' = Angewendet
  BY <1>1, <1>3 DEF SchnelleE, ZeilenE, Schnelle, Zeilen, Angewendet
<1>5. RuheOK'
  BY <1>1, <1>3 DEF Grund, Nummern, RuheOK, Laeuft, Zeilen
<1>6. Lage'
  <2>1. ASSUME NEW x \in ImBau', NEW y \in ToSet(korb'.bereit) PROVE x.seq < y.seq
    <3>1. Frueher(x, y) /\ AusWAL(x) /\ AusWAL(y)
      BY <1>1, <2>1 DEF Grund, Nummern, SchnelleOK, SchnelleE, ImKorb
    <3>2. QED BY <3>1 DEF Frueher
  <2>2. \A x \in ImBau' \cup ToSet(korb'.bereit) : x.seq < korb'.naechste
    BY <1>1 DEF Grund, Lage
  <2>3. \A w \in korb'.warten : w.seq > korb'.naechste
    BY <1>1 DEF Grund, Lage
  <2>4. QED BY <1>1, <1>3, <2>1, <2>2, <2>3 DEF Lage
<1>7. QED BY <1>1, <1>2, <1>3, <1>4, <1>5, <1>6, GrundRuhig

\* blockKorbMischen keeps the base invariant: rows are claimed, the rest goes back.
LEMMA GrundBauMischt ==
  ASSUME Grund, BauMischt
  PROVE  Grund'
<1>1. /\ Laeuft /\ bau.phase = "genommen"
      /\ UNCHANGED <<wal, annahmen, schwebend, verw, lauf, vorStart, folge, verworfen, zaehler>>
      /\ bau' \in BauTyp /\ bau'.phase = "gemischt"
      /\ ImBau' \subseteq ImBau \cup Offen /\ Aufsteigend(bau'.inhalt)
      /\ \A x \in ImBau', y \in (ImBau \cup Offen) \ ImBau' : Frueher(x, y)
      /\ korb' \in KorbTyp /\ korb'.naechste = korb.naechste /\ korb'.warten = korb.warten
      /\ ToSet(korb'.bereit) = ToSet(korb.bereit) \cup (ImBau \ ImBau') /\ Aufsteigend(korb'.bereit)
      /\ db' \in DbTyp /\ db'.zeilen = db.zeilen /\ db'.id = db.id
  BY BauMischtTut
<1>2. Typ'
  BY <1>1 DEF Grund, Typ
<1>3. Offen \subseteq db.zeilen /\ (\A x \in ImBau : AusWAL(x)) /\ \A z \in db.zeilen : ~AusWAL(z)
  BY <1>1 DEF Offen, Grund, Nummern, RuheOK, Zeilen, ZeilenOK, ZeilenE
<1>4. /\ Schnelle(ImBau') \subseteq ImBau /\ Zeilen(ImBau') \subseteq db.zeilen
      /\ ImKorb' \cup ImBau' \subseteq ImKorb \cup ImBau \cup db.zeilen
  BY <1>1, <1>3 DEF Schnelle, Zeilen, ImKorb
<1>5. /\ SchnelleE' \subseteq SchnelleE /\ ZeilenE' \subseteq ZeilenE /\ Angewendet' = Angewendet
  <2>1. ImKorb' \subseteq ImKorb \cup Schnelle(ImBau)
    BY <1>1, <1>3 DEF ImKorb, Schnelle
  <2>2. QED BY <1>1, <1>3, <1>4, <2>1 DEF SchnelleE, ZeilenE, Schnelle, Zeilen, Angewendet
<1>6. RuheOK'
  BY <1>1 DEF Grund, Nummern, RuheOK, Laeuft
<1>7. Lage'
  <2>1. ASSUME NEW x \in Schnelle(ImBau'), NEW y \in ToSet(korb'.bereit) PROVE x.seq < y.seq
    <3>1. x \in ImBau /\ AusWAL(x) /\ x \in ImBau'
      BY <1>4, <2>1 DEF Schnelle
    <3>2. CASE y \in ToSet(korb.bereit)
      BY <1>3, <3>1, <3>2 DEF Grund, Lage, Schnelle
    <3>3. CASE y \in ImBau \ ImBau'
      <4>1. Frueher(x, y) /\ AusWAL(y)
        BY <1>1, <1>3, <3>1, <3>3
      <4>2. QED BY <3>1, <4>1 DEF Frueher
    <3>4. QED BY <1>1, <2>1, <3>2, <3>3
  <2>2. \A x \in Schnelle(ImBau') \cup ToSet(korb'.bereit) : x.seq < korb'.naechste
    BY <1>1, <1>3, <1>4 DEF Grund, Lage, Schnelle
  <2>3. \A w \in korb'.warten : w.seq > korb'.naechste
    BY <1>1 DEF Grund, Lage
  <2>4. \A x \in Schnelle(ImBau') : x.seq <= wal'.haltbar
    BY <1>1, <1>3, <1>4 DEF Grund, Lage, Schnelle
  <2>5. QED BY <1>1, <2>1, <2>2, <2>3, <2>4 DEF Lage
<1>8. db'.zeilen \cup Zeilen(ImBau') \subseteq db.zeilen \cup Zeilen(ImBau)
  BY <1>1, <1>4
<1>9. QED BY <1>1, <1>2, <1>4, <1>5, <1>6, <1>7, <1>8, GrundRuhig

\* The builder gives back: some of its entries, or all.
LEMMA GrundZurueck ==
  ASSUME Grund, Laeuft, bau' \in BauTyp, ImBau' \subseteq ImBau, Aufsteigend(bau'.inhalt),
         \A x \in ImBau', y \in ImBau \ ImBau' : Frueher(x, y),
         zaehler' \in ZaehlerTyp,
         bau'.phase \in {"ruht", "tor"} => bau'.inhalt = <<>>, bau'.phase # "genommen",
         korb' \in KorbTyp, korb'.naechste = korb.naechste, korb'.warten = korb.warten,
         ToSet(korb'.bereit) = ToSet(korb.bereit) \cup Schnelle(ImBau \ ImBau'), Aufsteigend(korb'.bereit),
         db' \in DbTyp, db'.zeilen = db.zeilen, db'.id = db.id,
         UNCHANGED <<wal, annahmen, schwebend, verw, lauf, vorStart, folge, verworfen>>
  PROVE  Grund'
<1>1. Typ'
  BY DEF Grund, Typ
<1>2. /\ Schnelle(ImBau') \subseteq Schnelle(ImBau) /\ Zeilen(ImBau') \subseteq Zeilen(ImBau)
      /\ ImKorb' \subseteq ImKorb \cup Schnelle(ImBau)
      /\ ImKorb' \cup ImBau' \subseteq ImKorb \cup ImBau \cup db.zeilen
  BY DEF Schnelle, Zeilen, ImKorb
<1>3. /\ SchnelleE' \subseteq SchnelleE /\ ZeilenE' \subseteq ZeilenE /\ Angewendet' = Angewendet
  BY <1>2 DEF SchnelleE, ZeilenE, Schnelle, Zeilen, Angewendet
<1>4. RuheOK'
  BY DEF Grund, Nummern, RuheOK, Laeuft
<1>5. Lage'
  <2>1. ASSUME NEW x \in Schnelle(ImBau'), NEW y \in ToSet(korb'.bereit) PROVE x.seq < y.seq
    <3>1. x \in ImBau /\ AusWAL(x) /\ x \in ImBau' /\ x \in Schnelle(ImBau)
      BY <2>1 DEF Schnelle
    <3>2. CASE y \in ToSet(korb.bereit)
      BY <3>1, <3>2 DEF Grund, Lage
    <3>3. CASE y \in Schnelle(ImBau \ ImBau')
      <4>1. Frueher(x, y) /\ AusWAL(y)
        BY <3>1, <3>3 DEF Schnelle
      <4>2. QED BY <3>1, <4>1 DEF Frueher
    <3>4. QED BY <2>1, <3>2, <3>3
  <2>2. \A x \in Schnelle(ImBau') \cup ToSet(korb'.bereit) : x.seq < korb'.naechste
    BY <1>2 DEF Grund, Lage, Schnelle
  <2>3. \A w \in korb'.warten : w.seq > korb'.naechste
    BY DEF Grund, Lage
  <2>4. \A x \in Schnelle(ImBau') : x.seq <= wal'.haltbar
    BY <1>2 DEF Grund, Lage
  <2>5. QED BY <2>1, <2>2, <2>3, <2>4 DEF Lage
<1>6. db'.zeilen \cup Zeilen(ImBau') \subseteq db.zeilen \cup Zeilen(ImBau)
  BY <1>2
<1>7. QED BY <1>1, <1>2, <1>3, <1>4, <1>5, <1>6, GrundRuhig

\* korbPraefix keeps the base invariant.
LEMMA GrundBauKuerzt ==
  ASSUME Grund, NEW j, BauKuerzt(j)
  PROVE  Grund'
<1>1. /\ Laeuft
      /\ UNCHANGED <<wal, annahmen, schwebend, verw, lauf, vorStart, folge, verworfen, zaehler>>
      /\ bau' \in BauTyp /\ bau'.phase = "gekuerzt"
      /\ ImBau' \subseteq ImBau /\ Aufsteigend(bau'.inhalt)
      /\ \A x \in ImBau', y \in ImBau \ ImBau' : Frueher(x, y)
      /\ korb' \in KorbTyp /\ korb'.naechste = korb.naechste /\ korb'.warten = korb.warten
      /\ ToSet(korb'.bereit) = ToSet(korb.bereit) \cup Schnelle(ImBau \ ImBau') /\ Aufsteigend(korb'.bereit)
      /\ db' \in DbTyp /\ db'.zeilen = db.zeilen /\ db'.id = db.id
  BY BauKuerztTut
<1>2. zaehler' \in ZaehlerTyp
  BY <1>1 DEF Grund, Typ
<1>3. QED BY <1>1, <1>2, GrundZurueck

\* An idle builder.
LEMMA KeinBauTyp == KeinBau \in BauTyp /\ KeinBau.phase = "ruht" /\ KeinBau.inhalt = <<>> /\ Aufsteigend(<<>>) /\ ToSet(<<>>) = {}
  BY DEF KeinBau, BauTyp, Aufsteigend, ToSet

\* Giving up a block keeps the base invariant.
LEMMA GrundBauScheitert ==
  ASSUME Grund, BauScheitert
  PROVE  Grund'
<1>1. /\ Laeuft /\ bau' = KeinBau /\ ImBau' = {} /\ zaehler' \in ZaehlerTyp
      /\ UNCHANGED <<wal, annahmen, schwebend, verw, lauf, vorStart, folge, verworfen>>
      /\ korb' \in KorbTyp /\ korb'.naechste = korb.naechste /\ korb'.warten = korb.warten
      /\ ToSet(korb'.bereit) = ToSet(korb.bereit) \cup Schnelle(ImBau) /\ Aufsteigend(korb'.bereit)
      /\ db' \in DbTyp /\ db'.zeilen = db.zeilen /\ db'.id = db.id
  BY BauScheitertTut
<1>2. /\ bau' \in BauTyp /\ bau'.phase = "ruht" /\ bau'.inhalt = <<>> /\ Aufsteigend(bau'.inhalt)
  BY <1>1, KeinBauTyp
<1>3. ImBau' \subseteq ImBau /\ ImBau \ ImBau' = ImBau
  BY <1>1
<1>4. ToSet(korb'.bereit) = ToSet(korb.bereit) \cup Schnelle(ImBau \ ImBau')
  BY <1>1, <1>3
<1>5. \A x \in ImBau', y \in ImBau \ ImBau' : Frueher(x, y)
  BY <1>1
<1>6. QED BY <1>1, <1>2, <1>3, <1>4, <1>5, GrundZurueck

\* Storing a block keeps the base invariant.
LEMMA GrundBauSpeichert ==
  ASSUME Grund, BauSpeichert
  PROVE  Grund'
<1>1. /\ Laeuft /\ bau' = KeinBau /\ ImBau' = {}
      /\ UNCHANGED <<wal, korb, annahmen, schwebend, verw, lauf, folge, verworfen, zaehler>>
      /\ vorStart' \in Nat /\ db' \in DbTyp /\ db'.id = db.id /\ db'.zeilen = db.zeilen \ ImBau
  BY BauSpeichertTut
<1>2. /\ bau' \in BauTyp /\ bau'.phase = "ruht" /\ bau'.inhalt = <<>> /\ Aufsteigend(bau'.inhalt)
  BY <1>1, KeinBauTyp
<1>3. Typ'
  <2>1. db'.zeilen \subseteq db.zeilen
    BY <1>1
  <2>2. IsFiniteSet(db'.zeilen)
    BY <2>1, FS_Subset DEF Grund, Typ
  <2>3. QED BY <1>1, <1>2, <2>2 DEF Grund, Typ
<1>4. /\ ImKorb' = ImKorb /\ SchnelleE' \subseteq SchnelleE /\ ZeilenE' \subseteq ZeilenE /\ Angewendet' = Angewendet
      /\ Schnelle(ImBau') = {} /\ Zeilen(ImBau') = {}
  BY <1>1 DEF ImKorb, SchnelleE, ZeilenE, Schnelle, Zeilen, Angewendet
<1>5. RuheOK'
  BY <1>1, <1>2 DEF Grund, Nummern, RuheOK, Laeuft
<1>6. Lage'
  BY <1>1, <1>2, <1>4 DEF Grund, Lage
<1>7. QED BY <1>1, <1>3, <1>4, <1>5, <1>6, GrundRuhig

\* AppendAsync keeps the base invariant: the number is new.
LEMMA GrundAnhaengen ==
  ASSUME Grund, NEW t \in annahmen, Anhaengen(t)
  PROVE  Grund'
<1> DEFINE e == [seq |-> wal.naechste, id |-> 0, tx |-> t]
<1>1. /\ Laeuft /\ t \in Schnell /\ e \in Eintraege /\ AusWAL(e)
      /\ wal' \in WalTyp /\ wal'.saetze = wal.saetze \cup {e} /\ wal'.naechste = wal.naechste + 1
      /\ wal'.haltbar = wal.haltbar /\ IsFiniteSet(wal'.saetze)
      /\ schwebend' = schwebend \cup {e} /\ folge' \in Seq(Auftraege)
      /\ Angewendet' = Angewendet \cup {t} /\ annahmen' = annahmen \ {t}
      /\ UNCHANGED <<db, korb, bau, verw, lauf, vorStart, verworfen, zaehler>>
  BY AnhaengenTut
<1>2. e.seq = wal.naechste /\ e.tx = t /\ wal.naechste \in Nat \ {0}
  BY StandTyp DEF Grund
<1> HIDE DEF e
<1>3. Typ'
  BY <1>1 DEF Grund, Typ
<1>4. /\ ImKorb' = ImKorb /\ ImBau' = ImBau /\ SchnelleE' = SchnelleE \cup {e} /\ ZeilenE' = ZeilenE
  BY <1>1 DEF ImKorb, ImBau, SchnelleE, ZeilenE, Schnelle, Zeilen
<1>5. t \notin Angewendet /\ t \notin Txs(schwebend)
  BY DEF Grund, Nummern, AnnahmenOK
<1>6. SchnelleOK'
  <2>1. \A x \in SchnelleE : x.seq \in Nat /\ x.seq < wal.naechste /\ x.tx \in Angewendet
    BY <1>1, ZahlenTyp DEF Grund, Nummern, SchnelleOK
  <2>2. \A x \in SchnelleE : x.tx # e.tx /\ x.seq # e.seq
    BY <1>2, <1>5, <2>1
  <2>3. QED BY <1>1, <1>2, <1>4, <2>1, <2>2 DEF Grund, Nummern, SchnelleOK
<1>7. ZeilenOK'
  BY <1>1, <1>4 DEF Grund, Nummern, ZeilenOK
<1>8. AnnahmenOK'
  <2>1. annahmen' \cap (Angewendet' \cup Txs(schwebend')) = {}
    BY <1>1, <1>2 DEF Grund, Nummern, AnnahmenOK, Txs
  <2>2. \A z \in Zeilen(schwebend') : z.tx \notin Angewendet'
    BY <1>1, <1>5 DEF Grund, Nummern, AnnahmenOK, Zeilen, Txs
  <2>3. \A z \in db'.zeilen \cup Zeilen(ImBau') : z.tx \in Angewendet'
    BY <1>1, <1>4 DEF Grund, Nummern, AnnahmenOK
  <2>4. e \notin ImKorb \cup ImBau
    BY <1>1, <1>2, <1>5 DEF Grund, Nummern, SchnelleOK, SchnelleE, Schnelle
  <2>5. schwebend' \cap (ImKorb' \cup ImBau') = {}
    BY <1>1, <1>4, <2>4 DEF Grund, Nummern, AnnahmenOK
  <2>6. QED BY <2>1, <2>2, <2>3, <2>5 DEF AnnahmenOK
<1>9. RuheOK' /\ Lage'
  BY <1>1, <1>4, LageBleibt, StandTyp DEF Grund, Nummern, RuheOK, Laeuft
<1>10. QED BY <1>3, <1>6, <1>7, <1>8, <1>9 DEF Grund, Nummern

\* The INSERT of the serial path keeps the base invariant: the id is new.
LEMMA GrundLangsamBeginnt ==
  ASSUME Grund, NEW t \in annahmen, LangsamBeginnt(t)
  PROVE  Grund'
<1> DEFINE e == [seq |-> wal.naechste, id |-> db.id + 1, tx |-> t]
<1>1. /\ Laeuft /\ t \in Langsam /\ e \in Eintraege /\ ~AusWAL(e)
      /\ db' \in DbTyp /\ db'.id = db.id + 1 /\ db'.zeilen = db.zeilen
      /\ schwebend' = schwebend \cup {e} /\ annahmen' = annahmen \ {t}
      /\ UNCHANGED <<wal, korb, bau, verw, lauf, vorStart, folge, verworfen, zaehler>>
  BY LangsamBeginntTut
<1>2. e.id = db.id + 1 /\ e.tx = t /\ db.id \in Nat
  BY StandTyp DEF Grund
<1> HIDE DEF e
<1>3. Typ'
  BY <1>1 DEF Grund, Typ
<1>4. /\ ImKorb' = ImKorb /\ ImBau' = ImBau /\ SchnelleE' = SchnelleE /\ ZeilenE' = ZeilenE \cup {e} /\ Angewendet' = Angewendet
  BY <1>1 DEF ImKorb, ImBau, SchnelleE, ZeilenE, Schnelle, Zeilen, Angewendet
<1>5. t \notin Angewendet /\ t \notin Txs(schwebend)
  BY DEF Grund, Nummern, AnnahmenOK
<1>6. SchnelleOK'
  BY <1>1, <1>4 DEF Grund, Nummern, SchnelleOK, Laeuft
<1>7. ZeilenOK'
  <2>1. \A z \in ZeilenE : z.id \in Nat /\ z.id <= db.id
    BY ZahlenTyp DEF Grund, Nummern, ZeilenOK
  <2>2. \A z \in ZeilenE : z.tx # t
    BY <1>5 DEF ZeilenE, Grund, Nummern, AnnahmenOK, Zeilen, Txs
  <2>3. \A z \in ZeilenE : z.id # e.id /\ z.id <= db'.id
    BY <1>1, <1>2, <2>1
  <2>4. e.id <= db'.id
    BY <1>1, <1>2
  <2>5. QED BY <1>1, <1>2, <1>4, <2>2, <2>3, <2>4 DEF Grund, Nummern, ZeilenOK
<1>8. AnnahmenOK'
  <2>1. annahmen' \cap (Angewendet' \cup Txs(schwebend')) = {}
    BY <1>1, <1>2, <1>4 DEF Grund, Nummern, AnnahmenOK, Txs
  <2>2. \A z \in Zeilen(schwebend') : z.tx \notin Angewendet'
    BY <1>1, <1>2, <1>4, <1>5 DEF Grund, Nummern, AnnahmenOK, Zeilen
  <2>3. \A z \in db'.zeilen \cup Zeilen(ImBau') : z.tx \in Angewendet'
    BY <1>1, <1>4 DEF Grund, Nummern, AnnahmenOK
  <2>4. e \notin ImKorb \cup ImBau
    <3>1. \A x \in ImKorb : AusWAL(x)
      BY DEF Grund, Nummern, SchnelleOK, SchnelleE
    <3>2. \A x \in Zeilen(ImBau) : x.tx \in Angewendet
      BY DEF Grund, Nummern, AnnahmenOK
    <3>3. QED BY <1>1, <1>2, <1>5, <3>1, <3>2 DEF Zeilen
  <2>5. schwebend' \cap (ImKorb' \cup ImBau') = {}
    BY <1>1, <1>4, <2>4 DEF Grund, Nummern, AnnahmenOK
  <2>6. QED BY <2>1, <2>2, <2>3, <2>5 DEF AnnahmenOK
<1>9. RuheOK' /\ Lage'
  BY <1>1, <1>4, LageBleibt, StandTyp DEF Grund, Nummern, RuheOK, Laeuft
<1>10. QED BY <1>3, <1>6, <1>7, <1>8, <1>9 DEF Grund, Nummern

\* speicherKorb.hinzu keeps the base invariant, gap or not.
LEMMA GrundEinreihen ==
  ASSUME Grund, NEW e \in schwebend, Einreihen(e)
  PROVE  Grund'
<1>1. /\ Laeuft /\ e \in Eintraege /\ AusWAL(e) /\ schwebend' = schwebend \ {e}
      /\ UNCHANGED <<wal, db, annahmen, bau, verw, lauf, vorStart, folge, verworfen, zaehler>>
      /\ korb' \in KorbTyp /\ IsFiniteSet(korb'.warten) /\ ImKorb' \subseteq ImKorb \cup {e}
      /\ korb.naechste <= korb'.naechste /\ Aufsteigend(korb'.bereit)
      /\ \A x \in ToSet(korb'.bereit) \ ToSet(korb.bereit) : korb.naechste <= x.seq
      /\ \A x \in ToSet(korb'.bereit) : x.seq < korb'.naechste
      /\ \A w \in korb'.warten : w.seq > korb'.naechste
  BY EinreihenTut
<1>2. Typ'
  BY <1>1 DEF Grund, Typ
<1>3. /\ ImBau' = ImBau /\ SchnelleE' \subseteq SchnelleE /\ ZeilenE' = ZeilenE /\ Angewendet' = Angewendet
  BY <1>1 DEF ImBau, SchnelleE, ZeilenE, Schnelle, Zeilen, Angewendet
<1>4. SchnelleOK' /\ ZeilenOK'
  <2>1. wal'.naechste \in Nat /\ wal.naechste \in Nat /\ wal.naechste <= wal'.naechste /\ Laeuft' = Laeuft
        /\ db.id \in Nat /\ db'.id \in Nat /\ db.id <= db'.id
    BY <1>1, StandTyp DEF Grund, Laeuft
  <2>2. SchnelleOK'
    BY <1>1, <1>3, <2>1, StandTyp, SchnelleBleibt DEF Grund, Nummern
  <2>3. ZeilenOK'
    BY <1>1, <1>3, <2>1, StandTyp, ZeilenBleibt DEF Grund, Nummern
  <2>4. QED BY <2>2, <2>3
<1>5. AnnahmenOK'
  <2>1. annahmen' \cap (Angewendet' \cup Txs(schwebend')) = {}
    BY <1>1, <1>3 DEF Grund, Nummern, AnnahmenOK, Txs
  <2>2. \A z \in Zeilen(schwebend') : z.tx \notin Angewendet'
    BY <1>1, <1>3 DEF Grund, Nummern, AnnahmenOK, Zeilen
  <2>3. \A z \in db'.zeilen \cup Zeilen(ImBau') : z.tx \in Angewendet'
    BY <1>1, <1>3 DEF Grund, Nummern, AnnahmenOK
  <2>4. schwebend' \cap (ImKorb' \cup ImBau') = {}
    BY <1>1, <1>3 DEF Grund, Nummern, AnnahmenOK
  <2>5. QED BY <2>1, <2>2, <2>3, <2>4 DEF AnnahmenOK
<1>6. korb.naechste \in Nat /\ korb'.naechste \in Nat /\ \A x \in ImBau \cup ToSet(korb'.bereit) : x.seq \in Nat
  <2>1. ToSet(korb'.bereit) \in SUBSET Eintraege
    BY <1>1, MengeDerReihe DEF KorbTyp
  <2>2. QED BY <1>1, <2>1, StandTyp, EintragTyp DEF Grund, KorbTyp
<1>7. RuheOK'
  BY <1>1, <1>3, <1>6 DEF Grund, Nummern, RuheOK, Laeuft
<1>8. Lage'
  <2>1. \A x \in Schnelle(ImBau) : x.seq < korb.naechste /\ x.seq \in Nat
    BY <1>6 DEF Grund, Lage, Schnelle
  <2>2. \A x \in Schnelle(ImBau), y \in ToSet(korb'.bereit) : x.seq < y.seq
    <3>1. ASSUME NEW x \in Schnelle(ImBau), NEW y \in ToSet(korb'.bereit) PROVE x.seq < y.seq
      <4>1. CASE y \in ToSet(korb.bereit)
        BY <3>1, <4>1 DEF Grund, Lage
      <4>2. CASE y \notin ToSet(korb.bereit)
        BY <1>1, <1>6, <2>1, <3>1, <4>2
      <4>3. QED BY <4>1, <4>2
    <3>2. QED BY <3>1
  <2>3. \A x \in Schnelle(ImBau) \cup ToSet(korb'.bereit) : x.seq < korb'.naechste
    BY <1>1, <1>6, <2>1
  <2>4. QED BY <1>1, <1>3, <2>2, <2>3 DEF Grund, Lage
<1>9. QED BY <1>2, <1>4, <1>5, <1>7, <1>8 DEF Grund, Nummern

\* The COMMIT of the serial path keeps the base invariant.
LEMMA GrundLangsamFertig ==
  ASSUME Grund, NEW e \in schwebend, LangsamFertig(e)
  PROVE  Grund'
<1>1. /\ Laeuft /\ e \in Eintraege /\ ~AusWAL(e)
      /\ db' \in DbTyp /\ db'.zeilen = db.zeilen \cup {e} /\ IsFiniteSet(db'.zeilen) /\ db'.id = db.id
      /\ folge' \in Seq(Auftraege) /\ Angewendet' = Angewendet \cup {e.tx}
      /\ schwebend' = schwebend \ {e}
      /\ UNCHANGED <<wal, korb, annahmen, bau, verw, lauf, vorStart, verworfen, zaehler>>
  BY LangsamFertigTut
<1>2. Typ'
  BY <1>1 DEF Grund, Typ
<1>3. /\ ImKorb' = ImKorb /\ ImBau' = ImBau /\ SchnelleE' \subseteq SchnelleE /\ ZeilenE' \subseteq ZeilenE /\ e \in ZeilenE
  BY <1>1 DEF ImKorb, ImBau, SchnelleE, ZeilenE, Schnelle, Zeilen
<1>4. SchnelleOK' /\ ZeilenOK'
  <2>1. wal'.naechste \in Nat /\ wal.naechste \in Nat /\ wal.naechste <= wal'.naechste /\ Laeuft' = Laeuft
        /\ db.id \in Nat /\ db'.id \in Nat /\ db.id <= db'.id
    BY <1>1, StandTyp DEF Grund, Laeuft
  <2>2. SchnelleOK'
    BY <1>1, <1>3, <2>1, StandTyp, SchnelleBleibt DEF Grund, Nummern
  <2>3. ZeilenOK'
    BY <1>1, <1>3, <2>1, StandTyp, ZeilenBleibt DEF Grund, Nummern
  <2>4. QED BY <2>2, <2>3
<1>5. AnnahmenOK'
  <2>1. annahmen' \cap (Angewendet' \cup Txs(schwebend')) = {}
    BY <1>1 DEF Grund, Nummern, AnnahmenOK, Txs
  <2>2. \A z \in Zeilen(schwebend') : z.tx \notin Angewendet'
    <3>1. ASSUME NEW z \in Zeilen(schwebend') PROVE z.tx \notin Angewendet'
      <4>1. z \in Zeilen(schwebend) /\ z # e /\ z \in ZeilenE
        BY <1>1, <3>1 DEF Zeilen, ZeilenE
      <4>2. z.tx # e.tx
        BY <1>3, <4>1 DEF Grund, Nummern, ZeilenOK
      <4>3. QED BY <1>1, <4>1, <4>2 DEF Grund, Nummern, AnnahmenOK
    <3>2. QED BY <3>1
  <2>3. \A z \in db'.zeilen \cup Zeilen(ImBau') : z.tx \in Angewendet'
    BY <1>1, <1>3 DEF Grund, Nummern, AnnahmenOK
  <2>4. schwebend' \cap (ImKorb' \cup ImBau') = {}
    BY <1>1, <1>3 DEF Grund, Nummern, AnnahmenOK
  <2>5. QED BY <2>1, <2>2, <2>3, <2>4 DEF AnnahmenOK
<1>6. RuheOK' /\ Lage'
  BY <1>1, <1>3, LageBleibt, StandTyp DEF Grund, Nummern, RuheOK, Laeuft
<1>7. QED BY <1>2, <1>4, <1>5, <1>6 DEF Grund, Nummern

\* A crash keeps the base invariant: what is left is part of what was there.
LEMMA GrundAbsturz ==
  ASSUME Grund, NEW bis, Absturz(bis)
  PROVE  Grund'
<1>1. /\ Laeuft /\ bis \in Nat
      /\ wal' \in WalTyp /\ wal'.saetze = {r \in wal.saetze : r.seq <= bis}
      /\ folge' \in Seq(Auftraege) /\ Angewendet' = Angewendet \ Txs({r \in wal.saetze : r.seq > bis})
      /\ lauf' = "aus" /\ korb' = LeererKorb(0) /\ vorStart' = 0
      /\ annahmen' = {} /\ schwebend' = {} /\ bau' = KeinBau
      /\ ImKorb' = {} /\ ImBau' = {} /\ verw' \in VerwTyp /\ zaehler' \in ZaehlerTyp
      /\ UNCHANGED <<db, verworfen>>
  BY AbsturzTut
<1>2. LeererKorb(0) \in KorbTyp /\ LeererKorb(0).warten = {} /\ LeererKorb(0).bereit = <<>>
  BY DEF LeererKorb, KorbTyp
<1>3. wal'.saetze \subseteq wal.saetze
  BY <1>1
<1>4. Typ'
  <2>1. IsFiniteSet(wal'.saetze)
    BY <1>3, FS_Subset DEF Grund, Typ
  <2>2. QED BY <1>1, <1>2, <2>1, FS_EmptySet, KeinBauTyp DEF Grund, Typ
<1>5. SchnelleE' = wal'.saetze /\ ZeilenE' = db.zeilen
  BY <1>1 DEF SchnelleE, ZeilenE, Schnelle, Zeilen
<1>6. SchnelleOK'
  <2>1. ASSUME NEW e \in wal'.saetze PROVE e.tx \in Angewendet'
    <3>1. e \in wal.saetze /\ e.seq \in Nat /\ ~(e.seq > bis) /\ e \in SchnelleE
      BY <1>1, <2>1, ZahlenTyp DEF Grund, SchnelleE
    <3>2. e.tx \notin Txs({r \in wal.saetze : r.seq > bis})
      BY <3>1 DEF Txs, Grund, Nummern, SchnelleOK, SchnelleE
    <3>3. QED BY <1>1, <3>1, <3>2 DEF Grund, Nummern, SchnelleOK
  <2>2. ~Laeuft'
    BY <1>1 DEF Laeuft
  <2>3. wal'.saetze \subseteq SchnelleE
    BY <1>3 DEF SchnelleE
  <2>4. QED BY <1>5, <2>1, <2>2, <2>3 DEF Grund, Nummern, SchnelleOK
<1>7. ZeilenOK'
  <2>1. db.zeilen \subseteq ZeilenE
    BY DEF ZeilenE
  <2>2. QED BY <1>1, <1>5, <2>1 DEF Grund, Nummern, ZeilenOK
<1>8. AnnahmenOK'
  <2>1. ASSUME NEW z \in db.zeilen PROVE z.tx \in Angewendet'
    <3>1. z.tx \in Angewendet /\ z.tx \in Langsam
      BY DEF Grund, Nummern, AnnahmenOK, ZeilenOK, ZeilenE
    <3>2. \A r \in wal.saetze : r.tx \in Schnell
      BY DEF Grund, Nummern, SchnelleOK, SchnelleE
    <3>3. QED BY <1>1, <3>1, <3>2, SchnellOderLangsam DEF Txs
  <2>2. QED BY <1>1, <2>1 DEF AnnahmenOK, Zeilen, Txs
<1>9. RuheOK'
  BY <1>1, KeinBauTyp DEF RuheOK, Laeuft
<1>10. Lage'
  <2>1. ToSet(korb'.bereit) = {} /\ korb'.warten = {} /\ Aufsteigend(korb'.bereit) /\ Aufsteigend(bau'.inhalt)
    BY <1>1, <1>2, KeinBauTyp
  <2>2. Schnelle(ImBau') = {}
    BY <1>1 DEF Schnelle
  <2>3. QED BY <2>1, <2>2 DEF Lage
<1>11. QED BY <1>4, <1>6, <1>7, <1>8, <1>9, <1>10 DEF Grund, Nummern

\* A restart keeps the base invariant: the next number is above all in the file.
LEMMA GrundWiederanlauf ==
  ASSUME Grund, Wiederanlauf
  PROVE  Grund'
<1> DEFINE ende == db.marke + Cardinality(Neu)
<1>1. /\ lauf = "aus" /\ ende \in Nat /\ UNCHANGED <<annahmen, schwebend, bau, verw, folge, verworfen, zaehler>>
      /\ \/ /\ lauf' = "laeuft"
            /\ wal' \in WalTyp /\ wal'.saetze = wal.saetze /\ wal'.naechste = PeekNachStart
            /\ korb' \in KorbTyp /\ korb'.warten = {} /\ Aufsteigend(korb'.bereit) /\ ToSet(korb'.bereit) = Neu
            /\ korb'.naechste \in {PeekNachStart, ende + 1} /\ PeekNachStart <= korb'.naechste /\ ende < korb'.naechste
            /\ db' \in DbTyp /\ db'.zeilen = db.zeilen /\ db'.id = db.id
            /\ vorStart' \in Nat
         \/ lauf' = "verweigert" /\ UNCHANGED <<wal, korb, db, vorStart>>
  BY WiederanlaufTut
<1>2. annahmen = {} /\ schwebend = {} /\ bau = KeinBau /\ korb = LeererKorb(0) /\ ImBau = {} /\ ~Laeuft
  <2>1. ~Laeuft
    BY <1>1 DEF Laeuft
  <2>2. bau = KeinBau
    BY <2>1 DEF Grund, Nummern, RuheOK
  <2>3. ImBau = {}
    BY <2>2, KeinBauTyp DEF ImBau
  <2>4. QED BY <2>1, <2>2, <2>3 DEF Grund, Nummern, RuheOK
<1>3. CASE lauf' = "verweigert" /\ UNCHANGED <<wal, korb, db, vorStart>>
  <2>1. Typ' /\ ~Laeuft'
    BY <1>1, <1>3 DEF Grund, Typ, Laeuft
  <2>2. /\ ImKorb' = ImKorb /\ ImBau' = ImBau /\ SchnelleE' = SchnelleE /\ ZeilenE' = ZeilenE /\ Angewendet' = Angewendet
    BY <1>1, <1>3 DEF ImKorb, ImBau, SchnelleE, ZeilenE, Schnelle, Zeilen, Angewendet
  <2>3. SchnelleOK' /\ ZeilenOK' /\ AnnahmenOK'
    BY <1>1, <1>3, <2>1, <2>2 DEF Grund, Nummern, SchnelleOK, ZeilenOK, AnnahmenOK
  <2>4. RuheOK'
    BY <1>1, <1>2, <1>3, <2>1, KeinBauTyp DEF RuheOK
  <2>5. Lage'
    BY <1>1, <1>3, <2>2 DEF Grund, Lage
  <2>6. QED BY <2>1, <2>3, <2>4, <2>5 DEF Grund, Nummern
<1>4. CASE /\ lauf' = "laeuft"
           /\ wal' \in WalTyp /\ wal'.saetze = wal.saetze /\ wal'.naechste = PeekNachStart
           /\ korb' \in KorbTyp /\ korb'.warten = {} /\ Aufsteigend(korb'.bereit) /\ ToSet(korb'.bereit) = Neu
           /\ korb'.naechste \in {PeekNachStart, ende + 1} /\ PeekNachStart <= korb'.naechste /\ ende < korb'.naechste
           /\ db' \in DbTyp /\ db'.zeilen = db.zeilen /\ db'.id = db.id
           /\ vorStart' \in Nat
  <2>1. Typ'
    BY <1>1, <1>4, FS_EmptySet DEF Grund, Typ
  <2>2. Neu \subseteq wal.saetze /\ ImKorb' = Neu /\ ImBau' = {}
    BY <1>1, <1>2, <1>4, KeinBauTyp DEF Neu, ImKorb, ImBau
  <2>3. SchnelleE' = wal.saetze /\ ZeilenE' = db.zeilen /\ wal.saetze \subseteq SchnelleE /\ db.zeilen \subseteq ZeilenE
        /\ Angewendet' = Angewendet
    BY <1>1, <1>2, <1>4, <2>2 DEF SchnelleE, ZeilenE, Schnelle, Zeilen, Angewendet
  <2>4. PeekNachStart \in Nat \ {0} /\ \A r \in wal.saetze : r.seq < PeekNachStart
    BY PeekIst DEF Grund
  <2>5. SchnelleOK'
    BY <1>4, <2>3, <2>4 DEF Grund, Nummern, SchnelleOK
  <2>6. ZeilenOK'
    BY <1>4, <2>3 DEF Grund, Nummern, ZeilenOK
  <2>7. AnnahmenOK'
    BY <1>1, <1>2, <1>4, <2>2, <2>3 DEF Grund, Nummern, AnnahmenOK, Zeilen, Txs
  <2>8. RuheOK'
    <3>1. korb'.naechste \in Nat
      BY <1>4 DEF KorbTyp
    <3>2. 1 <= korb'.naechste /\ Laeuft'
      BY <1>4, <2>4, <3>1 DEF Laeuft
    <3>3. QED BY <1>1, <1>2, <3>2, KeinBauTyp DEF RuheOK
  <2>9. Lage'
    <3>1. \A x \in Neu : x.seq < korb'.naechste
      <4>1. korb'.naechste \in Nat /\ \A x \in Neu : x.seq \in Nat
        BY <1>4, <2>2, ZahlenTyp DEF KorbTyp, Grund
      <4>2. QED BY <1>4, <2>2, <2>4, <4>1
    <3>2. Schnelle(ImBau') = {} /\ Aufsteigend(bau'.inhalt)
      BY <1>1, <1>2, <2>2, KeinBauTyp DEF Schnelle
    <3>3. QED BY <1>4, <3>1, <3>2 DEF Lage
  <2>10. QED BY <2>1, <2>5, <2>6, <2>7, <2>8, <2>9 DEF Grund, Nummern
<1> HIDE DEF ende
<1>5. QED BY <1>1, <1>3, <1>4

\* The base invariant holds at the start.
LEMMA GrundStart == Init => Grund
<1> SUFFICES ASSUME Init PROVE Grund
  OBVIOUS
<1>1. /\ wal = [saetze |-> {}, naechste |-> 1, haltbar |-> 0, hwm |-> 0]
      /\ db = [zeilen |-> {}, belegt |-> {}, id |-> 0, marke |-> 0, bloecke |-> <<>>]
      /\ korb = [naechste |-> 1, bereit |-> <<>>, warten |-> {}] /\ bau = KeinBau
      /\ annahmen = {} /\ schwebend = {} /\ lauf = "laeuft"
  BY DEF Init, LeererKorb
<1>2. ToSet(korb.bereit) = {} /\ ImKorb = {} /\ ImBau = {} /\ SchnelleE = {} /\ ZeilenE = {}
  BY <1>1, KeinBauTyp DEF ImKorb, ImBau, SchnelleE, ZeilenE, Schnelle, Zeilen, ToSet
<1>3. Typ
  <2>1. wal \in WalTyp /\ db \in DbTyp /\ korb \in KorbTyp
    BY <1>1 DEF WalTyp, DbTyp, KorbTyp
  <2>2. bau \in BauTyp /\ verw \in VerwTyp /\ zaehler \in ZaehlerTyp
    BY <1>1, KeinBauTyp, GrenzenTyp DEF Init, VerwTyp, ZaehlerTyp
  <2>3. vorStart \in Nat /\ folge \in Seq(Auftraege) /\ verworfen \in SUBSET Auftraege
    BY DEF Init
  <2>4. IsFiniteSet(wal.saetze) /\ IsFiniteSet(db.zeilen) /\ IsFiniteSet(korb.warten)
    BY <1>1, FS_EmptySet
  <2>5. QED BY <1>1, <2>1, <2>2, <2>3, <2>4 DEF Typ
<1>4. SchnelleOK /\ ZeilenOK /\ AnnahmenOK
  BY <1>1, <1>2 DEF SchnelleOK, ZeilenOK, AnnahmenOK, Zeilen, Txs
<1>5. RuheOK
  BY <1>1, KeinBauTyp DEF RuheOK, Laeuft
<1>6. Lage
  <2>1. Aufsteigend(korb.bereit) /\ Aufsteigend(bau.inhalt) /\ Schnelle(ImBau) = {}
    BY <1>1, <1>2, KeinBauTyp DEF Schnelle
  <2>2. QED BY <1>1, <1>2, <2>1 DEF Lage
<1>7. QED BY <1>3, <1>4, <1>5, <1>6 DEF Grund, Nummern

\* The base invariant speaks of the variables only.
LEMMA GrundStottert == Grund /\ UNCHANGED vars => Grund'
<1> SUFFICES ASSUME Grund, UNCHANGED vars PROVE Grund'
  OBVIOUS
<1>1. UNCHANGED <<wal, db, korb, annahmen, schwebend, bau, verw, lauf, vorStart, folge, verworfen, zaehler>>
  BY DEF vars
<1>2. Typ'
  BY <1>1 DEF Grund, Typ
<1>3. /\ ImKorb' = ImKorb /\ ImBau' = ImBau /\ SchnelleE' = SchnelleE /\ ZeilenE' = ZeilenE /\ Angewendet' = Angewendet
      /\ Laeuft' = Laeuft
  BY <1>1 DEF ImKorb, ImBau, SchnelleE, ZeilenE, Schnelle, Zeilen, Angewendet, Laeuft
<1>4. SchnelleOK' /\ ZeilenOK' /\ AnnahmenOK'
  BY <1>1, <1>3 DEF Grund, Nummern, SchnelleOK, ZeilenOK, AnnahmenOK
<1>5. RuheOK' /\ Lage'
  BY <1>1, <1>3 DEF Grund, Nummern, RuheOK, Lage
<1>6. QED BY <1>2, <1>4, <1>5 DEF Grund, Nummern

\* The places, numbers and types are kept by every step.
LEMMA GrundSchritt == Grund /\ [Next]_vars => Grund'
<1> SUFFICES ASSUME Grund, [Next]_vars PROVE Grund'
  OBVIOUS
<1>1. CASE (\E t \in Auftraege : AnnahmeBeginnt(t)) \/ (\E t \in annahmen : AnnahmeAbgelehnt(t))
  BY <1>1, GrundAnnahme
<1>2. CASE \E t \in annahmen : Anhaengen(t)
  BY <1>2, GrundAnhaengen
<1>3. CASE \E t \in annahmen : LangsamBeginnt(t)
  BY <1>3, GrundLangsamBeginnt
<1>4. CASE \E e \in schwebend : Einreihen(e)
  BY <1>4, GrundEinreihen
<1>5. CASE \E e \in schwebend : LangsamFertig(e)
  BY <1>5, GrundLangsamFertig
<1>6. CASE \E e \in schwebend : LangsamScheitert(e)
  BY <1>6, GrundLangsamScheitert
<1>7. CASE \E bis \in 1 .. wal.naechste : Sichern(bis)
  BY <1>7, GrundSichern
<1>8. CASE BauTor
  BY <1>8, GrundBauTor
<1>9. CASE BauNimmt
  BY <1>9, GrundBauNimmt
<1>10. CASE BauMischt
  BY <1>10, GrundBauMischt
<1>11. CASE BauSpeichert
  BY <1>11, GrundBauSpeichert
<1>12. CASE BauScheitert
  BY <1>12, GrundBauScheitert
<1>13. CASE \E j \in 1 .. Deckel : BauKuerzt(j)
  BY <1>13, GrundBauKuerzt
<1>14. CASE \E ab \in 1 .. KuerzenGrenze(db.marke) : Kuerzen(ab)
  BY <1>14, GrundKuerzen
<1>15. CASE \E bis \in 0 .. wal.naechste : Absturz(bis)
  BY <1>15, GrundAbsturz
<1>16. CASE Wiederanlauf
  BY <1>16, GrundWiederanlauf
<1>17. CASE UeberholtGemeldet \/ VerwerfenPrueft \/ ResyncFertig
  BY <1>17, GrundVerwerfen
<1>18. CASE VerwerfenLeert
  BY <1>18, GrundVerwerfenLeert
<1>19. CASE VerwerfenMarke
  BY <1>19, GrundVerwerfenMarke
<1>20. CASE UNCHANGED vars
  BY <1>20, GrundStottert
<1>21. QED
  BY <1>1, <1>2, <1>3, <1>4, <1>5, <1>6, <1>7, <1>8, <1>9, <1>10, <1>11, <1>12, <1>13, <1>14, <1>15, <1>16,
     <1>17, <1>18, <1>19, <1>20 DEF Next

\* The base invariant contains the type invariant.
LEMMA GrundTyp == Grund => TypeOK
<1> SUFFICES ASSUME Grund PROVE TypeOK
  OBVIOUS
<1>1. bau \in BauTyp /\ verw \in VerwTyp /\ zaehler \in ZaehlerTyp
  BY DEF Grund, Typ
<1>2. QED BY <1>1, StandTyp DEF TypeOK, Grund, Typ, BauTyp, VerwTyp, ZaehlerTyp

\* Type correctness of the outgoing side, for every set of orders and accounts, every
\* block size and every number of crashes and failing transactions.
THEOREM TypKorrekt == Spec => []TypeOK
<1>1. Init => Grund
  BY GrundStart
<1>2. Grund /\ [Next]_vars => Grund'
  BY GrundSchritt
<1>3. Grund => TypeOK
  BY GrundTyp
<1>4. QED BY <1>1, <1>2, <1>3, PTL DEF Spec

-----------------------------------------------------------------------------
(***************************************************************************)
(* What is in the chain's blocks.                                          *)
(***************************************************************************)
\* Everything that may still get into a block.
Unterwegs == ImKorb \cup ImBau \cup schwebend \cup db.zeilen

\* What the builder will put behind the blocks, of the log's orders.
Vorn == Schnelle(ImBau) \cup ToSet(korb.bereit)

\* An order in a block is applied, and there once; nothing under way is in a block; a
\* record of one is durable, at or below the mark and the mark the builder read, and
\* before everything the builder or the Korb still hands out.
VerblocktOK ==
  /\ \A x \in Unterwegs : x.tx \notin Verblockt
  /\ Verblockt \subseteq Angewendet /\ NichtDoppelt
  /\ \A r \in wal.saetze : r.tx \in Verblockt =>
       /\ r.seq <= db.marke /\ r.seq <= wal.haltbar
       /\ BauHaelt => r.seq <= bau.alt
       /\ Laeuft => r.seq < korb.naechste /\ \A x \in Vorn : r.seq < x.seq

\* The numbers of what may still be handed out are numbers.
LEMMA VornTyp == Typ => \A x \in Vorn : x \in Eintraege /\ x.seq \in Nat
  BY ZahlenTyp DEF Vorn, Schnelle

\* A step that stores no block.
LEMMA VerblocktRuhig ==
  ASSUME Grund, Grund', VerblocktOK, db'.bloecke = db.bloecke, Unterwegs' \subseteq Unterwegs, Angewendet \subseteq Angewendet',
         wal'.saetze \subseteq wal.saetze, db.marke <= db'.marke, wal.haltbar <= wal'.haltbar,
         BauHaelt' => (BauHaelt /\ bau'.alt = bau.alt) \/ bau'.alt = db.marke,
         Laeuft' => Laeuft /\ korb.naechste <= korb'.naechste,
         Laeuft' => \A x \in Vorn' : x \in Vorn \/ korb.naechste <= x.seq
  PROVE  VerblocktOK'
<1>1. Verblockt' = Verblockt /\ NichtDoppelt' = NichtDoppelt
  BY DEF Verblockt, NichtDoppelt
<1>2. ASSUME NEW r \in wal'.saetze, r.tx \in Verblockt
      PROVE  /\ r.seq <= db'.marke /\ r.seq <= wal'.haltbar
             /\ BauHaelt' => r.seq <= bau'.alt
             /\ Laeuft' => r.seq < korb'.naechste /\ \A x \in Vorn' : r.seq < x.seq
  <2>1. /\ r \in wal.saetze /\ r.seq <= db.marke /\ r.seq <= wal.haltbar
        /\ BauHaelt => r.seq <= bau.alt
        /\ Laeuft => r.seq < korb.naechste /\ \A x \in Vorn : r.seq < x.seq
    BY <1>2 DEF VerblocktOK
  <2>2. r.seq \in Nat /\ db.marke \in Nat /\ wal.haltbar \in Nat /\ korb.naechste \in Nat
    BY <2>1, StandTyp, ZahlenTyp DEF Grund
  <2>3. db'.marke \in Nat /\ wal'.haltbar \in Nat /\ korb'.naechste \in Nat /\ \A x \in Vorn' : x.seq \in Nat
    <3>1. Typ'
      BY DEF Grund
    <3>2. db'.marke \in Nat /\ wal'.haltbar \in Nat /\ korb'.naechste \in Nat
      BY <3>1 DEF Typ, WalTyp, DbTyp, KorbTyp
    <3>3. \A x \in Vorn' : x.seq \in Nat
      <4>1. bau'.inhalt \in Seq(Eintraege) /\ korb'.bereit \in Seq(Eintraege)
        BY <3>1 DEF Typ, BauTyp, KorbTyp
      <4>2. Vorn' \in SUBSET Eintraege
        BY <4>1, MengeDerReihe DEF Vorn, Schnelle, ImBau
      <4>3. QED BY <4>2, EintragTyp
    <3>4. QED BY <3>2, <3>3
  <2>4. QED BY <2>1, <2>2, <2>3
<1>3. \A x \in Unterwegs' : x.tx \notin Verblockt
  BY DEF VerblocktOK
<1>4. Verblockt \subseteq Angewendet' /\ NichtDoppelt
  BY DEF VerblocktOK
<1>5. QED BY <1>1, <1>2, <1>3, <1>4 DEF VerblocktOK

\* A step that leaves blocks, Korb and builder alone keeps the blocks in order.
LEMMA VerblocktOhneBau ==
  ASSUME Grund, Grund', VerblocktOK, UNCHANGED <<korb, bau, lauf>>, db'.bloecke = db.bloecke, db'.zeilen \subseteq db.zeilen,
         schwebend' \subseteq schwebend, Angewendet \subseteq Angewendet', wal'.saetze \subseteq wal.saetze,
         db.marke <= db'.marke, wal.haltbar <= wal'.haltbar
  PROVE  VerblocktOK'
<1>1. ImKorb' = ImKorb /\ ImBau' = ImBau /\ Vorn' = Vorn /\ Laeuft' = Laeuft /\ BauHaelt' = BauHaelt
      /\ korb.naechste <= korb'.naechste
  BY StandTyp DEF ImKorb, ImBau, Vorn, Schnelle, Laeuft, BauHaelt, Grund
<1>2. Unterwegs' \subseteq Unterwegs
  BY <1>1 DEF Unterwegs
<1>3. QED BY <1>1, <1>2, VerblocktRuhig

\* Steps of the log, of the acceptance and of the discarding.
LEMMA VerblocktLeicht ==
  ASSUME Grund, Grund', VerblocktOK,
         \/ \E t \in Auftraege : AnnahmeBeginnt(t)
         \/ \E t \in annahmen : AnnahmeAbgelehnt(t)
         \/ \E bis : Sichern(bis)
         \/ \E ab : Kuerzen(ab)
         \/ \E e \in schwebend : LangsamScheitert(e)
         \/ UeberholtGemeldet \/ VerwerfenPrueft \/ ResyncFertig
         \/ VerwerfenMarke
  PROVE  VerblocktOK'
<1>1. db.marke \in Nat /\ wal.haltbar \in Nat
  BY StandTyp DEF Grund
<1>2. CASE (\E t \in Auftraege : AnnahmeBeginnt(t)) \/ (\E t \in annahmen : AnnahmeAbgelehnt(t))
  <2>1. UNCHANGED <<wal, db, korb, schwebend, bau, lauf, folge>>
    BY <1>2, AnnahmeTut
  <2>2. Angewendet' = Angewendet
    BY <2>1 DEF Angewendet
  <2>3. QED BY <1>1, <2>1, <2>2, VerblocktOhneBau
<1>3. CASE \E bis : Sichern(bis)
  <2>1. PICK bis : Sichern(bis)
    BY <1>3
  <2>2. /\ bis \in Nat /\ wal.haltbar < bis /\ wal'.haltbar = bis /\ wal'.saetze = wal.saetze
        /\ UNCHANGED <<db, korb, schwebend, bau, lauf, folge>>
    BY <2>1, SichernTut
  <2>3. Angewendet' = Angewendet /\ wal.haltbar <= wal'.haltbar
    BY <1>1, <2>2 DEF Angewendet
  <2>4. QED BY <1>1, <2>2, <2>3, VerblocktOhneBau
<1>4. CASE \E ab : Kuerzen(ab)
  <2>1. PICK ab : Kuerzen(ab)
    BY <1>4
  <2>2. /\ wal'.haltbar = wal.haltbar /\ wal'.saetze = {r \in wal.saetze : r.seq >= ab}
        /\ UNCHANGED <<db, korb, schwebend, bau, lauf, folge>>
    BY <2>1, KuerzenTut
  <2>3. Angewendet' = Angewendet /\ wal'.saetze \subseteq wal.saetze
    BY <2>2 DEF Angewendet
  <2>4. QED BY <1>1, <2>2, <2>3, VerblocktOhneBau
<1>5. CASE \E e \in schwebend : LangsamScheitert(e)
  <2>1. PICK e \in schwebend : LangsamScheitert(e)
    BY <1>5
  <2>2. schwebend' = schwebend \ {e} /\ UNCHANGED <<wal, db, korb, bau, lauf, folge>>
    BY <2>1, LangsamScheitertTut
  <2>3. Angewendet' = Angewendet
    BY <2>2 DEF Angewendet
  <2>4. QED BY <1>1, <2>2, <2>3, VerblocktOhneBau
<1>6. CASE UeberholtGemeldet \/ VerwerfenPrueft \/ ResyncFertig
  <2>1. UNCHANGED <<wal, db, korb, schwebend, bau, lauf, folge>>
    BY <1>6, VerwerfenTut
  <2>2. Angewendet' = Angewendet
    BY <2>1 DEF Angewendet
  <2>3. QED BY <1>1, <2>1, <2>2, VerblocktOhneBau
<1>7. CASE VerwerfenMarke
  <2>1. db'.zeilen = {} /\ db'.bloecke = db.bloecke /\ db.marke <= db'.marke /\ UNCHANGED <<wal, korb, schwebend, bau, lauf, folge>>
    BY <1>7, VerwerfenMarkeTut
  <2>2. Angewendet' = Angewendet
    BY <2>1 DEF Angewendet
  <2>3. QED BY <1>1, <2>1, <2>2, VerblocktOhneBau
<1>8. QED BY <1>2, <1>3, <1>4, <1>5, <1>6, <1>7

\* Steps of the Korb and of the builder, short of storing.
LEMMA VerblocktBau ==
  ASSUME Grund, Grund', VerblocktOK,
         \/ \E e \in schwebend : Einreihen(e)
         \/ BauTor \/ BauNimmt \/ BauMischt \/ BauScheitert \/ VerwerfenLeert
         \/ \E j : BauKuerzt(j)
  PROVE  VerblocktOK'
<1>1. db.marke \in Nat /\ wal.haltbar \in Nat /\ korb.naechste \in Nat
  BY StandTyp DEF Grund
<1>2. CASE \E e \in schwebend : Einreihen(e)
  <2>1. PICK e \in schwebend : Einreihen(e)
    BY <1>2
  <2>2. /\ Laeuft /\ schwebend' = schwebend \ {e} /\ ImKorb' \subseteq ImKorb \cup {e}
        /\ UNCHANGED <<wal, db, bau, lauf, folge>>
        /\ korb.naechste <= korb'.naechste
        /\ \A x \in ToSet(korb'.bereit) \ ToSet(korb.bereit) : korb.naechste <= x.seq
    BY <2>1, EinreihenTut
  <2>3. ImBau' = ImBau /\ Angewendet' = Angewendet /\ BauHaelt' = BauHaelt /\ bau'.alt = bau.alt
    BY <2>2 DEF ImBau, Angewendet, BauHaelt
  <2>4. Unterwegs' \subseteq Unterwegs
    BY <2>2, <2>3 DEF Unterwegs
  <2>5. \A x \in Vorn' : x \in Vorn \/ korb.naechste <= x.seq
    BY <2>2, <2>3 DEF Vorn, Schnelle
  <2>6. QED BY <1>1, <2>2, <2>3, <2>4, <2>5, VerblocktRuhig
<1>3. CASE BauTor
  <2>1. Laeuft /\ bau'.phase = "tor" /\ bau'.inhalt = bau.inhalt /\ UNCHANGED <<wal, db, korb, schwebend, lauf, folge>>
    BY <1>3, BauTorTut
  <2>2. ~BauHaelt' /\ ImBau' = ImBau /\ ImKorb' = ImKorb /\ Angewendet' = Angewendet
    BY <2>1 DEF BauHaelt, ImBau, ImKorb, Angewendet
  <2>3. Unterwegs' = Unterwegs /\ Vorn' = Vorn
    BY <2>1, <2>2 DEF Unterwegs, Vorn, Schnelle
  <2>4. QED BY <1>1, <2>1, <2>2, <2>3, VerblocktRuhig
<1>4. CASE BauNimmt
  <2>1. /\ Laeuft /\ UNCHANGED <<wal, db, schwebend, lauf, folge>> /\ bau'.alt = db.marke
        /\ korb'.naechste = korb.naechste /\ korb'.warten = korb.warten
        /\ ToSet(korb.bereit) = ImBau' \cup ToSet(korb'.bereit) /\ ImKorb = ImBau' \cup ImKorb'
    BY <1>4, BauNimmtTut
  <2>2. Unterwegs' \subseteq Unterwegs /\ Vorn' \subseteq Vorn /\ Angewendet' = Angewendet
    BY <2>1 DEF Unterwegs, Vorn, Schnelle, Angewendet
  <2>3. QED BY <1>1, <2>1, <2>2, VerblocktRuhig
<1>5. CASE BauMischt
  <2>1. /\ Laeuft /\ bau.phase = "genommen" /\ UNCHANGED <<wal, schwebend, lauf, folge>> /\ bau'.alt = bau.alt
        /\ ImBau' \subseteq ImBau \cup Offen
        /\ korb'.naechste = korb.naechste /\ korb'.warten = korb.warten
        /\ ToSet(korb'.bereit) = ToSet(korb.bereit) \cup (ImBau \ ImBau')
        /\ db'.zeilen = db.zeilen /\ db'.marke = db.marke /\ db'.bloecke = db.bloecke
    BY <1>5, BauMischtTut
  <2>2. Offen \subseteq db.zeilen /\ (\A x \in ImBau : AusWAL(x)) /\ \A z \in db.zeilen : ~AusWAL(z)
    BY <2>1 DEF Offen, Grund, Nummern, RuheOK, Zeilen, ZeilenOK, ZeilenE
  <2>3. Unterwegs' \subseteq Unterwegs /\ Vorn' \subseteq Vorn /\ Angewendet' = Angewendet /\ BauHaelt
    BY <2>1, <2>2 DEF Unterwegs, Vorn, Schnelle, Angewendet, BauHaelt, ImKorb
  <2>4. QED BY <1>1, <2>1, <2>3, VerblocktRuhig
<1>6. CASE BauScheitert
  <2>1. /\ Laeuft /\ UNCHANGED <<wal, schwebend, lauf, folge>> /\ bau' = KeinBau /\ ImBau' = {}
        /\ korb'.naechste = korb.naechste /\ korb'.warten = korb.warten
        /\ ToSet(korb'.bereit) = ToSet(korb.bereit) \cup Schnelle(ImBau)
        /\ db'.zeilen = db.zeilen /\ db'.marke = db.marke /\ db'.bloecke = db.bloecke
    BY <1>6, BauScheitertTut
  <2>2. Unterwegs' \subseteq Unterwegs /\ Vorn' \subseteq Vorn /\ Angewendet' = Angewendet /\ ~BauHaelt'
    BY <2>1, KeinBauTyp DEF Unterwegs, Vorn, Schnelle, Angewendet, BauHaelt, ImKorb
  <2>3. QED BY <1>1, <2>1, <2>2, VerblocktRuhig
<1>7. CASE VerwerfenLeert
  <2>1. /\ Laeuft /\ UNCHANGED <<wal, db, schwebend, bau, lauf, folge>>
        /\ ImKorb' = {} /\ korb'.bereit = <<>> /\ korb.naechste <= korb'.naechste
    BY <1>7, VerwerfenLeertTut
  <2>2. ImBau' = ImBau /\ BauHaelt' = BauHaelt /\ bau'.alt = bau.alt /\ ToSet(korb'.bereit) = {}
    BY <2>1, KeinBauTyp DEF ImBau, BauHaelt
  <2>3. Unterwegs' \subseteq Unterwegs /\ Vorn' \subseteq Vorn /\ Angewendet' = Angewendet
    BY <2>1, <2>2 DEF Unterwegs, Vorn, Schnelle, Angewendet
  <2>4. QED BY <1>1, <2>1, <2>2, <2>3, VerblocktRuhig
<1>8. CASE \E j : BauKuerzt(j)
  <2>1. PICK j : BauKuerzt(j)
    BY <1>8
  <2>2. /\ Laeuft /\ UNCHANGED <<wal, schwebend, lauf, folge>> /\ bau'.alt = db.marke /\ ImBau' \subseteq ImBau
        /\ korb'.naechste = korb.naechste /\ korb'.warten = korb.warten
        /\ ToSet(korb'.bereit) = ToSet(korb.bereit) \cup Schnelle(ImBau \ ImBau')
        /\ db'.zeilen = db.zeilen /\ db'.marke = db.marke /\ db'.bloecke = db.bloecke
    BY <2>1, BauKuerztTut
  <2>3. Unterwegs' \subseteq Unterwegs /\ Vorn' \subseteq Vorn /\ Angewendet' = Angewendet
    BY <2>2 DEF Unterwegs, Vorn, Schnelle, Angewendet, ImKorb
  <2>4. QED BY <1>1, <2>2, <2>3, VerblocktRuhig
<1>9. QED BY <1>2, <1>3, <1>4, <1>5, <1>6, <1>7, <1>8

\* New orders are in no block.
LEMMA VerblocktNeu ==
  ASSUME Grund, Grund', VerblocktOK,
         (\E t \in annahmen : Anhaengen(t) \/ LangsamBeginnt(t)) \/ \E e \in schwebend : LangsamFertig(e)
  PROVE  VerblocktOK'
<1>1. CASE \E t \in annahmen : Anhaengen(t)
  <2>1. PICK t \in annahmen : Anhaengen(t)
    BY <1>1
  <2> DEFINE e == [seq |-> wal.naechste, id |-> 0, tx |-> t]
  <2>2. /\ wal'.saetze = wal.saetze \cup {e} /\ wal'.haltbar = wal.haltbar
        /\ schwebend' = schwebend \cup {e} /\ Angewendet' = Angewendet \cup {t}
        /\ UNCHANGED <<db, korb, bau, lauf>>
    BY <2>1, AnhaengenTut
  <2>3. e.tx = t
    OBVIOUS
  <2> HIDE DEF e
  <2>4. t \notin Verblockt
    BY DEF Grund, Nummern, AnnahmenOK, VerblocktOK
  <2>5. /\ Unterwegs' = Unterwegs \cup {e} /\ Vorn' = Vorn /\ Verblockt' = Verblockt /\ NichtDoppelt' = NichtDoppelt
        /\ BauHaelt' = BauHaelt /\ Laeuft' = Laeuft
    BY <2>2 DEF Unterwegs, Vorn, Schnelle, ImKorb, ImBau, Verblockt, NichtDoppelt, BauHaelt, Laeuft
  <2>6. QED BY <2>2, <2>3, <2>4, <2>5 DEF VerblocktOK
<1>2. CASE \E t \in annahmen : LangsamBeginnt(t)
  <2>1. PICK t \in annahmen : LangsamBeginnt(t)
    BY <1>2
  <2> DEFINE e == [seq |-> wal.naechste, id |-> db.id + 1, tx |-> t]
  <2>2. /\ db'.zeilen = db.zeilen /\ db'.marke = db.marke /\ db'.bloecke = db.bloecke
        /\ schwebend' = schwebend \cup {e} /\ UNCHANGED <<wal, korb, bau, lauf, folge>>
    BY <2>1, LangsamBeginntTut
  <2>3. e.tx = t
    OBVIOUS
  <2> HIDE DEF e
  <2>4. t \notin Verblockt
    BY DEF Grund, Nummern, AnnahmenOK, VerblocktOK
  <2>5. /\ Unterwegs' = Unterwegs \cup {e} /\ Vorn' = Vorn /\ Verblockt' = Verblockt /\ NichtDoppelt' = NichtDoppelt
        /\ BauHaelt' = BauHaelt /\ Laeuft' = Laeuft /\ Angewendet' = Angewendet
    BY <2>2 DEF Unterwegs, Vorn, Schnelle, ImKorb, ImBau, Verblockt, NichtDoppelt, BauHaelt, Laeuft, Angewendet
  <2>6. QED BY <2>2, <2>3, <2>4, <2>5 DEF VerblocktOK
<1>3. CASE \E e \in schwebend : LangsamFertig(e)
  <2>1. PICK e \in schwebend : LangsamFertig(e)
    BY <1>3
  <2>2. /\ db'.zeilen = db.zeilen \cup {e} /\ db'.marke = db.marke /\ db'.bloecke = db.bloecke
        /\ Angewendet' = Angewendet \cup {e.tx}
        /\ schwebend' = schwebend \ {e} /\ UNCHANGED <<wal, korb, bau, lauf>>
    BY <2>1, LangsamFertigTut
  <2>3. /\ Unterwegs' \subseteq Unterwegs /\ Vorn' = Vorn /\ Verblockt' = Verblockt /\ NichtDoppelt' = NichtDoppelt
        /\ BauHaelt' = BauHaelt /\ Laeuft' = Laeuft
    BY <2>2 DEF Unterwegs, Vorn, Schnelle, ImKorb, ImBau, Verblockt, NichtDoppelt, BauHaelt, Laeuft
  <2>4. QED BY <2>2, <2>3 DEF VerblocktOK
<1>4. QED BY <1>1, <1>2, <1>3

\* What the builder holds is nowhere else: its orders differ from all others under way.
LEMMA BauAllein ==
  ASSUME Grund, NEW x \in ImKorb \cup schwebend \cup (db.zeilen \ ImBau), NEW y \in ImBau
  PROVE  x.tx # y.tx
<1>1. CASE AusWAL(y)
  <2>1. y \in SchnelleE /\ y \in Schnelle(ImBau)
    BY <1>1 DEF SchnelleE, Schnelle
  <2>2. y.tx \in Schnell
    BY <2>1 DEF Grund, Nummern, SchnelleOK
  <2>3. CASE x \in SchnelleE
    <3>1. SUFFICES ASSUME x = y PROVE FALSE
      BY <2>1, <2>3 DEF Grund, Nummern, SchnelleOK
    <3>2. y.seq \in Nat /\ korb.naechste \in Nat
      BY ZahlenTyp, StandTyp DEF Grund
    <3>3. CASE x \in schwebend
      BY <3>1, <3>3 DEF Grund, Nummern, AnnahmenOK
    <3>4. CASE x \in ImKorb
      <4>1. y.seq < korb.naechste /\ \A z \in ToSet(korb.bereit) : y.seq < z.seq
        BY <2>1 DEF Grund, Lage
      <4>2. \A w \in korb.warten : w.seq > korb.naechste
        BY DEF Grund, Lage
      <4>3. QED BY <3>1, <3>2, <3>4, <4>1, <4>2 DEF ImKorb
    <3>5. CASE x \in db.zeilen \ ImBau
      BY <3>1, <3>5
    <3>6. QED BY <3>3, <3>4, <3>5
  <2>4. CASE x \notin SchnelleE
    <3>1. x \in ZeilenE
      BY <2>4 DEF SchnelleE, ZeilenE, Schnelle, Zeilen
    <3>2. x.tx \in Langsam
      BY <3>1 DEF Grund, Nummern, ZeilenOK
    <3>3. QED BY <2>2, <3>2, SchnellOderLangsam
  <2>5. QED BY <2>3, <2>4
<1>2. CASE ~AusWAL(y)
  <2>1. y \in ZeilenE
    BY <1>2 DEF ZeilenE, Zeilen
  <2>2. y.tx \in Langsam
    BY <2>1 DEF Grund, Nummern, ZeilenOK
  <2>3. CASE x \in ZeilenE
    <3>1. SUFFICES ASSUME x = y PROVE FALSE
      BY <2>1, <2>3 DEF Grund, Nummern, ZeilenOK
    <3>2. x \notin ImKorb
      BY <1>2, <3>1 DEF Grund, Nummern, SchnelleOK, SchnelleE
    <3>3. QED BY <3>1, <3>2 DEF Grund, Nummern, AnnahmenOK
  <2>4. CASE x \notin ZeilenE
    <3>1. x \in SchnelleE
      BY <2>4 DEF SchnelleE, ZeilenE, Schnelle, Zeilen
    <3>2. x.tx \in Schnell
      BY <3>1 DEF Grund, Nummern, SchnelleOK
    <3>3. QED BY <2>2, <3>2, SchnellOderLangsam
  <2>5. QED BY <2>3, <2>4
<1>3. QED BY <1>1, <1>2

\* Two sequences without repetition and without a common member make one.
LEMMA EinmalVerkettet ==
  ASSUME NEW X, NEW s \in Seq(X), NEW r \in Seq(X), IsInjective(s), IsInjective(r), ToSet(s) \cap ToSet(r) = {}
  PROVE  IsInjective(s \o r)
<1> DEFINE q == s \o r
           n == Len(s)
           m == Len(r)
<1>1. /\ n \in Nat /\ m \in Nat /\ DOMAIN q = 1 .. n + m /\ DOMAIN s = 1 .. n /\ DOMAIN r = 1 .. m
      /\ \A i \in 1 .. n + m : q[i] = IF i <= n THEN s[i] ELSE r[i - n]
  BY ConcatProperties
<1>2. (\A i, j \in 1 .. n : s[i] = s[j] => i = j) /\ \A i, j \in 1 .. m : r[i] = r[j] => i = j
  BY <1>1 DEF IsInjective
<1>3. \A i \in 1 .. n, j \in 1 .. m : s[i] # r[j]
  BY <1>1 DEF ToSet
<1> HIDE DEF q, n, m
<1>4. ASSUME NEW i \in 1 .. n + m, NEW j \in 1 .. n + m, q[i] = q[j] PROVE i = j
  <2>1. CASE i <= n /\ j <= n
    BY <1>1, <1>2, <1>4, <2>1
  <2>2. CASE i <= n /\ ~(j <= n)
    <3>1. i \in 1 .. n /\ j - n \in 1 .. m /\ q[i] = s[i] /\ q[j] = r[j - n]
      BY <1>1, <2>2
    <3>2. QED BY <1>3, <1>4, <3>1
  <2>3. CASE ~(i <= n) /\ j <= n
    <3>1. j \in 1 .. n /\ i - n \in 1 .. m /\ q[j] = s[j] /\ q[i] = r[i - n]
      BY <1>1, <2>3
    <3>2. QED BY <1>3, <1>4, <3>1
  <2>4. CASE ~(i <= n) /\ ~(j <= n)
    <3>1. j - n \in 1 .. m /\ i - n \in 1 .. m /\ q[j] = r[j - n] /\ q[i] = r[i - n] /\ i \in Int /\ j \in Int
      BY <1>1, <2>4
    <3>2. i - n = j - n
      BY <1>2, <1>4, <3>1
    <3>3. QED BY <1>1, <3>1, <3>2
  <2>5. QED BY <2>1, <2>2, <2>3, <2>4
<1>5. IsInjective(q)
  BY <1>1, <1>4 DEF IsInjective
<1>6. QED BY <1>5 DEF q

\* A block is stored.
LEMMA VerblocktSpeichert ==
  ASSUME Grund, Grund', VerblocktOK, BauSpeichert
  PROVE  VerblocktOK'
<1> DEFINE txs == [i \in DOMAIN bau.inhalt |-> bau.inhalt[i].tx]
           F   == {e \in ToSet(bau.inhalt) : AusWAL(e)}
<1>1. /\ Laeuft /\ bau.phase \in {"gemischt", "gekuerzt"} /\ bau' = KeinBau /\ ImBau' = {}
      /\ UNCHANGED <<wal, korb, schwebend, lauf, folge>>
      /\ db'.zeilen = db.zeilen \ ImBau /\ db'.marke = Bis(bau.inhalt, bau.alt)
      /\ db'.bloecke = db.bloecke \o txs /\ Verblockt' = Verblockt \cup Txs(ImBau)
  BY BauSpeichertTut
<1>2. bau.inhalt \in Seq(Eintraege) /\ Aufsteigend(bau.inhalt) /\ bau.alt \in Nat /\ db.bloecke \in Seq(Auftraege)
  BY StandTyp DEF Grund, Lage
<1>3. /\ Bis(bau.inhalt, bau.alt) \in Nat /\ (F = {} => Bis(bau.inhalt, bau.alt) = bau.alt)
      /\ (F # {} => \E e \in F : e.seq = Bis(bau.inhalt, bau.alt))
      /\ \A e \in F : e.seq <= Bis(bau.inhalt, bau.alt)
  BY <1>2, BisIst
<1>4. F = Schnelle(ImBau)
  BY DEF Schnelle, ImBau
<1> HIDE DEF F
<1>5. BauHaelt /\ ~BauHaelt' /\ Laeuft' = Laeuft /\ Angewendet' = Angewendet
  BY <1>1, KeinBauTyp DEF BauHaelt, Laeuft, Angewendet
<1>6. \A x \in Unterwegs' : x.tx \notin Verblockt'
  <2>1. Unterwegs' = ImKorb \cup schwebend \cup (db.zeilen \ ImBau) /\ Unterwegs' \subseteq Unterwegs
    BY <1>1 DEF Unterwegs, ImKorb
  <2>2. \A x \in Unterwegs' : x.tx \notin Txs(ImBau)
    BY <2>1, BauAllein DEF Txs
  <2>3. QED BY <1>1, <2>1, <2>2 DEF VerblocktOK
<1>7. Verblockt' \subseteq Angewendet'
  <2>1. \A x \in ImBau : x.tx \in Angewendet
    BY DEF Grund, Nummern, AnnahmenOK, SchnelleOK, SchnelleE, Schnelle, Zeilen
  <2>2. QED BY <1>1, <1>5, <2>1 DEF VerblocktOK, Txs
<1>8. NichtDoppelt'
  <2>1. DOMAIN bau.inhalt = 1 .. Len(bau.inhalt) /\ \A i \in DOMAIN bau.inhalt : bau.inhalt[i] \in Eintraege
    BY <1>2
  <2>2. txs \in Seq(Auftraege)
    BY <1>2, <2>1, EintragTyp
  <2>3. \A i \in DOMAIN bau.inhalt : bau.inhalt[i] \in ImBau
    BY DEF ImBau, ToSet
  <2>4. IsInjective(txs)
    <3>1. ASSUME NEW i \in DOMAIN bau.inhalt, NEW j \in DOMAIN bau.inhalt, bau.inhalt[i].tx = bau.inhalt[j].tx
          PROVE  i = j
      <4>1. \A x, y \in ImBau : x.tx = y.tx => x = y
        <5>1. \A x \in ImBau : (x \in SchnelleE /\ x.tx \in Schnell) \/ (x \in ZeilenE /\ x.tx \in Langsam)
          BY DEF SchnelleE, ZeilenE, Schnelle, Zeilen, Grund, Nummern, SchnelleOK, ZeilenOK
        <5>2. QED BY <5>1, SchnellOderLangsam DEF Grund, Nummern, SchnelleOK, ZeilenOK
      <4>2. bau.inhalt[i] = bau.inhalt[j]
        BY <2>3, <3>1, <4>1
      <4>3. QED BY <1>2, <2>1, <4>2, AufsteigendEinmal
    <3>2. QED BY <3>1 DEF IsInjective
  <2>5. ToSet(txs) = Txs(ImBau)
    BY DEF ToSet, Txs, ImBau
  <2> HIDE DEF txs
  <2>6. ToSet(db.bloecke) \cap ToSet(txs) = {}
    BY <2>5 DEF VerblocktOK, Unterwegs, Txs, Verblockt
  <2>7. IsInjective(db.bloecke)
    BY DEF VerblocktOK, NichtDoppelt
  <2>8. IsInjective(db.bloecke \o txs)
    BY <1>2, <2>2, <2>4, <2>6, <2>7, EinmalVerkettet
  <2>9. QED BY <1>1, <2>8 DEF NichtDoppelt
<1>9. ASSUME NEW r \in wal'.saetze, r.tx \in Verblockt'
      PROVE  /\ r.seq <= db'.marke /\ r.seq <= wal'.haltbar
             /\ r.seq < korb'.naechste /\ \A x \in Vorn' : r.seq < x.seq
  <2>1. r \in wal.saetze /\ r.seq \in Nat /\ r \in SchnelleE /\ r.tx \in Schnell
    BY <1>1, <1>9, ZahlenTyp DEF Grund, SchnelleE, Nummern, SchnelleOK
  <2>2. Vorn' = ToSet(korb.bereit)
    BY <1>1 DEF Vorn, Schnelle
  <2>3. CASE r.tx \in Verblockt
    <3>1. /\ r.seq <= bau.alt /\ r.seq <= wal.haltbar /\ r.seq < korb.naechste /\ \A x \in Vorn : r.seq < x.seq
      BY <1>1, <1>5, <2>1, <2>3 DEF VerblocktOK
    <3>2. r.seq <= Bis(bau.inhalt, bau.alt)
      <4>1. CASE F = {}
        BY <1>3, <3>1, <4>1
      <4>2. CASE F # {}
        <5>1. PICK e \in F : e.seq = Bis(bau.inhalt, bau.alt)
          BY <1>3, <4>2
        <5>2. r.seq < e.seq
          BY <1>4, <3>1 DEF Vorn
        <5>3. QED BY <1>3, <2>1, <5>1, <5>2
      <4>3. QED BY <4>1, <4>2
    <3>3. QED BY <1>1, <2>2, <3>1, <3>2 DEF Vorn
  <2>4. CASE r.tx \in Txs(ImBau)
    <3>1. PICK e \in ImBau : e.tx = r.tx
      BY <2>4 DEF Txs
    <3>2. AusWAL(e)
      <4>1. SUFFICES ASSUME ~AusWAL(e) PROVE FALSE
        OBVIOUS
      <4>2. e \in ZeilenE
        BY <4>1 DEF ZeilenE, Zeilen
      <4>3. e.tx \in Langsam
        BY <4>2 DEF Grund, Nummern, ZeilenOK
      <4>4. QED BY <2>1, <3>1, <4>3, SchnellOderLangsam
    <3>3. e \in F /\ e \in SchnelleE
      BY <1>4, <3>2 DEF Schnelle, SchnelleE
    <3>4. r = e
      BY <2>1, <3>1, <3>3 DEF Grund, Nummern, SchnelleOK
    <3>5. r \in Schnelle(ImBau) /\ r.seq <= Bis(bau.inhalt, bau.alt)
      BY <1>3, <1>4, <3>3, <3>4
    <3>6. QED BY <1>1, <2>2, <3>5 DEF Grund, Lage
  <2>5. QED BY <1>1, <1>9, <2>3, <2>4
<1>10. QED BY <1>5, <1>6, <1>7, <1>8, <1>9 DEF VerblocktOK

\* A crash takes back only orders that are in no block: those are durable.
LEMMA VerblocktAbsturz ==
  ASSUME Grund, VerblocktOK, NEW bis, Absturz(bis)
  PROVE  VerblocktOK'
<1>1. /\ bis \in Nat /\ wal.haltbar <= bis /\ wal.haltbar \in Nat
      /\ wal'.saetze = {r \in wal.saetze : r.seq <= bis} /\ wal'.haltbar = wal.haltbar
      /\ Angewendet' = Angewendet \ Txs({r \in wal.saetze : r.seq > bis})
      /\ lauf' = "aus" /\ schwebend' = {} /\ bau' = KeinBau /\ ImKorb' = {} /\ ImBau' = {}
      /\ UNCHANGED db
  BY AbsturzTut, StandTyp DEF Grund
<1>2. /\ Unterwegs' \subseteq Unterwegs /\ Verblockt' = Verblockt /\ NichtDoppelt' = NichtDoppelt
      /\ ~BauHaelt' /\ ~Laeuft' /\ wal'.saetze \subseteq wal.saetze
  BY <1>1, KeinBauTyp DEF Unterwegs, Verblockt, NichtDoppelt, BauHaelt, Laeuft
<1>3. ASSUME NEW t \in Verblockt PROVE t \in Angewendet'
  <2>1. ASSUME NEW r \in wal.saetze, r.seq > bis, r.tx = t PROVE FALSE
    <3>1. r.seq <= wal.haltbar /\ r.seq \in Nat
      BY <1>3, <2>1, ZahlenTyp DEF VerblocktOK, Grund
    <3>2. QED BY <1>1, <2>1, <3>1
  <2>2. t \notin Txs({r \in wal.saetze : r.seq > bis})
    BY <2>1 DEF Txs
  <2>3. QED BY <1>1, <1>3, <2>2 DEF VerblocktOK
<1>4. QED BY <1>1, <1>2, <1>3 DEF VerblocktOK

\* A restart hands out only records above the mark, so none of a block.
LEMMA VerblocktWiederanlauf ==
  ASSUME Grund, VerblocktOK, Wiederanlauf
  PROVE  VerblocktOK'
<1> DEFINE ende == db.marke + Cardinality(Neu)
<1>1. /\ lauf = "aus" /\ ende \in Nat /\ UNCHANGED <<schwebend, bau, folge>>
      /\ \/ /\ lauf' = "laeuft" /\ wal'.saetze = wal.saetze /\ wal'.haltbar = PeekNachStart - 1
            /\ korb' \in KorbTyp /\ korb'.warten = {} /\ ToSet(korb'.bereit) = Neu
            /\ PeekNachStart <= korb'.naechste
            /\ db'.zeilen = db.zeilen /\ db'.marke = db.marke /\ db'.bloecke = db.bloecke
         \/ lauf' = "verweigert" /\ UNCHANGED <<wal, korb, db>>
  BY WiederanlaufTut
<1> HIDE DEF ende
<1>2. bau = KeinBau /\ ~Laeuft /\ ~BauHaelt /\ ImBau = {}
  <2>1. ~Laeuft
    BY <1>1 DEF Laeuft
  <2>2. bau = KeinBau
    BY <2>1 DEF Grund, Nummern, RuheOK
  <2>3. QED BY <2>1, <2>2, KeinBauTyp DEF BauHaelt, ImBau
<1>3. CASE lauf' = "verweigert" /\ UNCHANGED <<wal, korb, db>>
  <2>1. /\ Unterwegs' = Unterwegs /\ Verblockt' = Verblockt /\ NichtDoppelt' = NichtDoppelt
        /\ BauHaelt' = BauHaelt /\ ~Laeuft' /\ Angewendet' = Angewendet
    BY <1>1, <1>3 DEF Unterwegs, Verblockt, NichtDoppelt, BauHaelt, Laeuft, Angewendet, ImKorb, ImBau
  <2>2. QED BY <1>1, <1>3, <2>1 DEF VerblocktOK
<1>4. CASE /\ lauf' = "laeuft" /\ wal'.saetze = wal.saetze /\ wal'.haltbar = PeekNachStart - 1
           /\ korb' \in KorbTyp /\ korb'.warten = {} /\ ToSet(korb'.bereit) = Neu
           /\ PeekNachStart <= korb'.naechste
           /\ db'.zeilen = db.zeilen /\ db'.marke = db.marke /\ db'.bloecke = db.bloecke
  <2>1. /\ Verblockt' = Verblockt /\ NichtDoppelt' = NichtDoppelt /\ ~BauHaelt' /\ Angewendet' = Angewendet
        /\ ImBau' = {} /\ ImKorb' = Neu /\ Vorn' = Neu
    BY <1>1, <1>2, <1>4 DEF Verblockt, NichtDoppelt, BauHaelt, Angewendet, ImKorb, ImBau, Vorn, Schnelle
  <2>2. /\ db.marke \in Nat /\ korb'.naechste \in Nat /\ PeekNachStart \in Nat \ {0}
        /\ \A r \in wal.saetze : r.seq \in Nat /\ r.seq < PeekNachStart
    BY <1>4, StandTyp, ZahlenTyp, PeekIst DEF Grund, KorbTyp
  <2>3. \A x \in Neu : x \in wal.saetze /\ db.marke < x.seq
    BY <2>2 DEF Neu
  <2>4. \A x \in Unterwegs' : x.tx \notin Verblockt
    <3>1. \A x \in Neu : x.tx \notin Verblockt
      BY <2>2, <2>3 DEF VerblocktOK
    <3>2. Unterwegs' \subseteq Unterwegs \cup Neu
      BY <1>1, <1>4, <2>1 DEF Unterwegs
    <3>3. QED BY <3>1, <3>2 DEF VerblocktOK
  <2>5. ASSUME NEW r \in wal'.saetze, r.tx \in Verblockt
        PROVE  r.seq <= db'.marke /\ r.seq <= wal'.haltbar /\ r.seq < korb'.naechste /\ \A x \in Vorn' : r.seq < x.seq
    <3>1. r \in wal.saetze /\ r.seq <= db.marke
      BY <1>4, <2>5 DEF VerblocktOK
    <3>2. QED BY <1>4, <2>1, <2>2, <2>3, <3>1
  <2>6. Verblockt \subseteq Angewendet /\ NichtDoppelt
    BY DEF VerblocktOK
  <2>7. QED BY <2>1, <2>4, <2>5, <2>6 DEF VerblocktOK
<1>5. QED BY <1>1, <1>3, <1>4

\* Every step keeps the blocks in order.
LEMMA VerblocktSchritt == Grund /\ VerblocktOK /\ [Next]_vars => VerblocktOK'
<1> SUFFICES ASSUME Grund, VerblocktOK, [Next]_vars PROVE VerblocktOK'
  OBVIOUS
<1>1. Grund'
  BY GrundSchritt
<1>2. CASE UNCHANGED vars
  <2>1. UNCHANGED <<wal, db, korb, annahmen, schwebend, bau, lauf, folge>>
    BY <1>2 DEF vars
  <2>2. Unterwegs' = Unterwegs /\ Vorn' = Vorn /\ Verblockt' = Verblockt /\ NichtDoppelt' = NichtDoppelt
        /\ BauHaelt' = BauHaelt /\ Laeuft' = Laeuft /\ Angewendet' = Angewendet
    BY <2>1 DEF Unterwegs, Vorn, Schnelle, ImKorb, ImBau, Verblockt, NichtDoppelt, BauHaelt, Laeuft, Angewendet
  <2>3. QED BY <2>1, <2>2 DEF VerblocktOK
<1>3. CASE Next
  <2>1. CASE (\E t \in annahmen : Anhaengen(t) \/ LangsamBeginnt(t)) \/ \E e \in schwebend : LangsamFertig(e)
    BY <1>1, <2>1, VerblocktNeu
  <2>2. CASE BauSpeichert
    BY <1>1, <2>2, VerblocktSpeichert
  <2>3. CASE \E bis \in 0 .. wal.naechste : Absturz(bis)
    BY <2>3, VerblocktAbsturz
  <2>4. CASE Wiederanlauf
    BY <2>4, VerblocktWiederanlauf
  <2>5. CASE \/ \E e \in schwebend : Einreihen(e)
             \/ BauTor \/ BauNimmt \/ BauMischt \/ BauScheitert \/ VerwerfenLeert
             \/ \E j \in 1 .. Deckel : BauKuerzt(j)
    BY <1>1, <2>5, VerblocktBau
  <2>6. CASE \/ \E t \in Auftraege : AnnahmeBeginnt(t)
             \/ \E t \in annahmen : AnnahmeAbgelehnt(t)
             \/ \E bis \in 1 .. wal.naechste : Sichern(bis)
             \/ \E ab \in 1 .. KuerzenGrenze(db.marke) : Kuerzen(ab)
             \/ \E e \in schwebend : LangsamScheitert(e)
             \/ UeberholtGemeldet \/ VerwerfenPrueft \/ ResyncFertig
             \/ VerwerfenMarke
    BY <1>1, <2>6, VerblocktLeicht
  <2>7. QED BY <1>3, <2>1, <2>2, <2>3, <2>4, <2>5, <2>6 DEF Next
<1>4. QED BY <1>2, <1>3

\* At the start there is no block.
LEMMA VerblocktStart == Init => VerblocktOK
<1> SUFFICES ASSUME Init PROVE VerblocktOK
  OBVIOUS
<1>1. wal.saetze = {} /\ db.bloecke = <<>>
  BY DEF Init
<1>2. Verblockt = {} /\ NichtDoppelt
  BY <1>1 DEF Verblockt, NichtDoppelt, ToSet, IsInjective
<1>3. QED BY <1>1, <1>2 DEF VerblocktOK

\* No order is in the chain's blocks twice, whatever crashes, restarts, failed builds,
\* compactions and discardings come between.
THEOREM NichtDoppeltGilt == Spec => []NichtDoppelt
<1>1. Init => Grund /\ VerblocktOK
  BY GrundStart, VerblocktStart
<1>2. (Grund /\ VerblocktOK) /\ [Next]_vars => (Grund /\ VerblocktOK)'
  BY GrundSchritt, VerblocktSchritt
<1>3. VerblocktOK => NichtDoppelt
  BY DEF VerblocktOK
<1>4. QED BY <1>1, <1>2, <1>3, PTL DEF Spec

\* What stands in a block has been applied and no crash takes it back.
THEOREM NurAngewendetesGilt == Spec => []NurAngewendetes
<1>1. Init => Grund /\ VerblocktOK
  BY GrundStart, VerblocktStart
<1>2. (Grund /\ VerblocktOK) /\ [Next]_vars => (Grund /\ VerblocktOK)'
  BY GrundSchritt, VerblocktSchritt
<1>3. VerblocktOK => NurAngewendetes
  BY DEF VerblocktOK, NurAngewendetes
<1>4. QED BY <1>1, <1>2, <1>3, PTL DEF Spec

-----------------------------------------------------------------------------
(***************************************************************************)
(* Nothing that was applied is lost.                                       *)
(***************************************************************************)
\* Every log entry the process still holds.
Gehalten == ImKorb \cup Schnelle(ImBau) \cup Schnelle(schwebend)

\* A restart takes up a number above n: compaction noted n, or a durable record is
\* at or above it.
Gedeckt(n) == n <= wal.hwm \/ \E r \in wal.saetze : n <= r.seq /\ r.seq <= wal.haltbar

\* What is applied is in a block, a row, or a record above the mark; a running process
\* holds exactly the records above the mark, and claims exactly the rows it holds.
Ordentlich ==
  /\ \A t \in Angewendet \ (Verblockt \cup Txs(db.zeilen)) : t \in Txs(Neu)
  /\ Laeuft => /\ Gehalten = Neu
               /\ \A x \in Schnelle(schwebend) : korb.naechste <= x.seq
               /\ korb.naechste <= wal.naechste /\ db.marke < wal.naechste
               /\ db.belegt = {z.id : z \in Zeilen(ImBau)} /\ Zeilen(ImBau) \subseteq db.zeilen
  /\ BauHaelt => bau.alt = db.marke
  /\ Gedeckt(db.marke)

\* Once a superseded leader has looked at what is outgoing, all it had is in a block
\* or counted among what is discarded.
Abgegeben == Angewendet \cup annahmen \cup Txs(schwebend) \subseteq Verblockt \cup verworfen

\* Up to that look everything is in order; a crash before it may end the discarding.
PhaseOK ==
  /\ verw.phase \in {"nie", "wartet"} => verworfen = {} /\ Ordentlich
  /\ verw.phase \in {"frei", "geleert", "fertig"} => Abgegeben
  /\ verw.phase = "nach" => Abgegeben \/ Ordentlich

\* A step that leaves the log's records, the Korb and the builder's entries alone.
LEMMA OrdentlichRuhig ==
  ASSUME Grund, Grund', Ordentlich, Laeuft, wal'.saetze = wal.saetze, wal'.naechste = wal.naechste, wal'.hwm = wal.hwm,
         wal.haltbar <= wal'.haltbar, db'.marke = db.marke, db'.belegt = db.belegt, db'.bloecke = db.bloecke,
         db.zeilen \subseteq db'.zeilen, \A t \in Angewendet' : t \in Angewendet \/ t \in Txs(db'.zeilen),
         korb' = korb, bau'.inhalt = bau.inhalt, Schnelle(schwebend') = Schnelle(schwebend),
         BauHaelt' => BauHaelt /\ bau'.alt = bau.alt
  PROVE  Ordentlich'
<1>1. /\ Verblockt' = Verblockt /\ ImKorb' = ImKorb /\ ImBau' = ImBau /\ Neu' = Neu
  BY DEF Verblockt, ImKorb, ImBau, Neu
<1>2. Gehalten' = Gehalten
  BY <1>1 DEF Gehalten
<1>3. Gedeckt(db.marke)'
  <2>1. /\ wal.haltbar \in Nat /\ wal'.haltbar \in Nat /\ \A r \in wal.saetze : r.seq \in Nat
    BY ZahlenTyp, StandTyp DEF Grund, Typ, WalTyp
  <2>2. CASE db.marke <= wal.hwm
    BY <2>2 DEF Gedeckt
  <2>3. CASE \E r \in wal.saetze : db.marke <= r.seq /\ r.seq <= wal.haltbar
    <3>1. PICK r \in wal.saetze : db.marke <= r.seq /\ r.seq <= wal.haltbar
      BY <2>3
    <3>2. r \in wal'.saetze /\ db'.marke <= r.seq /\ r.seq <= wal'.haltbar
      BY <2>1, <3>1
    <3>3. QED BY <3>2 DEF Gedeckt
  <2>4. QED BY <2>2, <2>3 DEF Ordentlich, Gedeckt
<1>4. \A t \in Angewendet' \ (Verblockt' \cup Txs(db'.zeilen)) : t \in Txs(Neu')
  BY <1>1 DEF Ordentlich, Txs
<1>5. QED BY <1>1, <1>2, <1>3, <1>4 DEF Ordentlich

\* Steps that touch neither log entries nor marks keep the order.
LEMMA OrdentlichLeicht ==
  ASSUME Grund, Grund', Ordentlich,
         \/ \E t \in Auftraege : AnnahmeBeginnt(t)
         \/ \E t \in annahmen : AnnahmeAbgelehnt(t) \/ LangsamBeginnt(t)
         \/ \E e \in schwebend : LangsamFertig(e) \/ LangsamScheitert(e)
         \/ \E bis : Sichern(bis)
         \/ BauTor
         \/ UeberholtGemeldet \/ VerwerfenPrueft \/ ResyncFertig
  PROVE  Ordentlich'
<1>1. wal.haltbar \in Nat /\ wal.haltbar <= wal.haltbar
  BY StandTyp DEF Grund
<1>2. CASE (\E t \in Auftraege : AnnahmeBeginnt(t)) \/ (\E t \in annahmen : AnnahmeAbgelehnt(t))
  <2>1. Laeuft /\ UNCHANGED <<wal, db, korb, schwebend, bau, folge>>
    BY <1>2, AnnahmeTut
  <2>2. Angewendet' = Angewendet /\ BauHaelt' = BauHaelt
    BY <2>1 DEF Angewendet, BauHaelt
  <2>3. QED BY <1>1, <2>1, <2>2, OrdentlichRuhig
<1>3. CASE \E t \in annahmen : LangsamBeginnt(t)
  <2>1. PICK t \in annahmen : LangsamBeginnt(t)
    BY <1>3
  <2> DEFINE e == [seq |-> wal.naechste, id |-> db.id + 1, tx |-> t]
  <2>2. /\ Laeuft /\ ~AusWAL(e) /\ schwebend' = schwebend \cup {e}
        /\ db'.zeilen = db.zeilen /\ db'.belegt = db.belegt /\ db'.marke = db.marke /\ db'.bloecke = db.bloecke
        /\ UNCHANGED <<wal, korb, bau, folge>>
    BY <2>1, LangsamBeginntTut
  <2> HIDE DEF e
  <2>3. Angewendet' = Angewendet /\ BauHaelt' = BauHaelt /\ Schnelle(schwebend') = Schnelle(schwebend)
    BY <2>2 DEF Angewendet, BauHaelt, Schnelle
  <2>4. QED BY <1>1, <2>2, <2>3, OrdentlichRuhig
<1>4. CASE \E e \in schwebend : LangsamFertig(e)
  <2>1. PICK e \in schwebend : LangsamFertig(e)
    BY <1>4
  <2>2. /\ Laeuft /\ ~AusWAL(e) /\ schwebend' = schwebend \ {e} /\ Angewendet' = Angewendet \cup {e.tx}
        /\ db'.zeilen = db.zeilen \cup {e} /\ db'.belegt = db.belegt /\ db'.marke = db.marke /\ db'.bloecke = db.bloecke
        /\ UNCHANGED <<wal, korb, bau>>
    BY <2>1, LangsamFertigTut
  <2>3. BauHaelt' = BauHaelt /\ Schnelle(schwebend') = Schnelle(schwebend) /\ e.tx \in Txs(db'.zeilen)
    BY <2>2 DEF BauHaelt, Schnelle, Txs
  <2>4. QED BY <1>1, <2>2, <2>3, OrdentlichRuhig
<1>5. CASE \E e \in schwebend : LangsamScheitert(e)
  <2>1. PICK e \in schwebend : LangsamScheitert(e)
    BY <1>5
  <2>2. Laeuft /\ ~AusWAL(e) /\ schwebend' = schwebend \ {e} /\ UNCHANGED <<wal, db, korb, bau, folge>>
    BY <2>1, LangsamScheitertTut
  <2>3. Angewendet' = Angewendet /\ BauHaelt' = BauHaelt /\ Schnelle(schwebend') = Schnelle(schwebend)
    BY <2>2 DEF Angewendet, BauHaelt, Schnelle
  <2>4. QED BY <1>1, <2>2, <2>3, OrdentlichRuhig
<1>6. CASE \E bis : Sichern(bis)
  <2>1. PICK bis : Sichern(bis)
    BY <1>6
  <2>2. /\ Laeuft /\ bis \in Nat /\ wal.haltbar < bis /\ wal'.haltbar = bis /\ wal'.saetze = wal.saetze
        /\ wal'.naechste = wal.naechste /\ wal'.hwm = wal.hwm
        /\ UNCHANGED <<db, korb, schwebend, bau, folge>>
    BY <2>1, SichernTut
  <2>3. Angewendet' = Angewendet /\ BauHaelt' = BauHaelt /\ wal.haltbar <= wal'.haltbar
    BY <1>1, <2>2 DEF Angewendet, BauHaelt
  <2>4. QED BY <2>2, <2>3, OrdentlichRuhig
<1>7. CASE BauTor
  <2>1. Laeuft /\ bau'.phase = "tor" /\ bau'.inhalt = bau.inhalt /\ UNCHANGED <<wal, db, korb, schwebend, folge>>
    BY <1>7, BauTorTut
  <2>2. Angewendet' = Angewendet /\ ~BauHaelt'
    BY <2>1 DEF Angewendet, BauHaelt
  <2>3. QED BY <1>1, <2>1, <2>2, OrdentlichRuhig
<1>8. CASE UeberholtGemeldet \/ VerwerfenPrueft \/ ResyncFertig
  <2>1. Laeuft /\ UNCHANGED <<wal, db, korb, schwebend, bau, folge>>
    BY <1>8, VerwerfenTut
  <2>2. Angewendet' = Angewendet /\ BauHaelt' = BauHaelt
    BY <2>1 DEF Angewendet, BauHaelt
  <2>3. QED BY <1>1, <2>1, <2>2, OrdentlichRuhig
<1>9. QED BY <1>2, <1>3, <1>4, <1>5, <1>6, <1>7, <1>8

\* A new record is above the mark and held.
LEMMA OrdentlichAnhaengen ==
  ASSUME Grund, Ordentlich, NEW t \in annahmen, Anhaengen(t)
  PROVE  Ordentlich'
<1> DEFINE e == [seq |-> wal.naechste, id |-> 0, tx |-> t]
<1>1. /\ Laeuft /\ AusWAL(e) /\ wal'.saetze = wal.saetze \cup {e} /\ wal'.naechste = wal.naechste + 1
      /\ wal'.haltbar = wal.haltbar /\ wal'.hwm = wal.hwm
      /\ schwebend' = schwebend \cup {e} /\ Angewendet' = Angewendet \cup {t}
      /\ UNCHANGED <<db, korb, bau, lauf>>
  BY AnhaengenTut
<1>2. e.seq = wal.naechste /\ e.tx = t
  OBVIOUS
<1> HIDE DEF e
<1>3. wal.naechste \in Nat /\ db.marke \in Nat /\ korb.naechste \in Nat
  BY StandTyp DEF Grund
<1>4. korb.naechste <= wal.naechste /\ db.marke < wal.naechste
  BY <1>1 DEF Ordentlich
<1>5. /\ ImKorb' = ImKorb /\ ImBau' = ImBau /\ Verblockt' = Verblockt /\ BauHaelt' = BauHaelt
      /\ Schnelle(schwebend') = Schnelle(schwebend) \cup {e}
  BY <1>1 DEF ImKorb, ImBau, Verblockt, BauHaelt, Schnelle
<1>6. Neu' = Neu \cup {e} /\ Gehalten' = Gehalten \cup {e}
  BY <1>1, <1>2, <1>3, <1>4, <1>5 DEF Neu, Gehalten
<1>7. Txs(Neu') = Txs(Neu) \cup {t}
  BY <1>2, <1>6 DEF Txs
<1>8. Gedeckt(db.marke)'
  BY <1>1 DEF Ordentlich, Gedeckt
<1>9. korb'.naechste <= wal'.naechste /\ db'.marke < wal'.naechste /\ korb'.naechste <= e.seq
  BY <1>1, <1>2, <1>3, <1>4
<1>10. QED BY <1>1, <1>5, <1>6, <1>7, <1>8, <1>9 DEF Ordentlich

\* Compaction keeps what is above the mark.
LEMMA OrdentlichKuerzen ==
  ASSUME Grund, Ordentlich, NEW ab, Kuerzen(ab)
  PROVE  Ordentlich'
<1>1. /\ Laeuft /\ ab \in Nat /\ ab <= db.marke + 1 /\ wal'.saetze = {r \in wal.saetze : r.seq >= ab}
      /\ wal'.hwm = wal.naechste - 1 /\ wal'.naechste = wal.naechste
      /\ UNCHANGED <<db, korb, schwebend, bau, lauf, folge>>
  BY KuerzenTut
<1>2. wal.naechste \in Nat /\ db.marke \in Nat /\ \A r \in wal.saetze : r.seq \in Nat
  BY StandTyp, ZahlenTyp DEF Grund
<1>3. Neu' = Neu
  BY <1>1, <1>2 DEF Neu
<1>4. Gehalten' = Gehalten /\ ImBau' = ImBau /\ Verblockt' = Verblockt /\ BauHaelt' = BauHaelt /\ Angewendet' = Angewendet
  BY <1>1 DEF Gehalten, ImKorb, ImBau, Verblockt, BauHaelt, Schnelle, Angewendet
<1>5. Gedeckt(db.marke)'
  BY <1>1, <1>2 DEF Ordentlich, Gedeckt
<1>6. QED BY <1>1, <1>3, <1>4, <1>5 DEF Ordentlich

\* The numbers the Korb passes when a gap closes are all there.
LEMMA OrdentlichEinreihen ==
  ASSUME Grund, Grund', Ordentlich, NEW e \in schwebend, Einreihen(e)
  PROVE  Ordentlich'
<1>1. /\ Laeuft /\ e \in Eintraege /\ AusWAL(e) /\ schwebend' = schwebend \ {e}
      /\ UNCHANGED <<wal, db, bau, lauf, folge>>
      /\ korb' \in KorbTyp /\ ImKorb \subseteq ImKorb' /\ ImKorb' \subseteq ImKorb \cup {e}
      /\ (korb.naechste <= e.seq => e \in ImKorb') /\ korb.naechste <= korb'.naechste
      /\ \A s \in korb.naechste .. korb'.naechste - 1 : s \in Seqs(ImKorb')
  BY EinreihenTut
<1>2. /\ korb.naechste \in Nat /\ korb'.naechste \in Nat /\ wal.naechste \in Nat /\ e \in Schnelle(schwebend)
      /\ \A x \in SchnelleE' : x.seq \in Nat
  <2>1. SchnelleE' \in SUBSET Eintraege
    <3>1. SchnelleE' \subseteq SchnelleE
      BY <1>1 DEF SchnelleE, ImBau, Schnelle
    <3>2. QED BY <3>1, StandTyp DEF Grund
  <2>2. QED BY <1>1, <2>1, StandTyp, EintragTyp DEF Grund, KorbTyp, Schnelle
<1>3. korb.naechste <= e.seq /\ e \in ImKorb'
  BY <1>1, <1>2 DEF Ordentlich
<1>4. /\ ImBau' = ImBau /\ Verblockt' = Verblockt /\ BauHaelt' = BauHaelt /\ Angewendet' = Angewendet /\ Neu' = Neu
      /\ Schnelle(schwebend') = Schnelle(schwebend) \ {e}
  BY <1>1 DEF ImBau, Verblockt, BauHaelt, Angewendet, Neu, Schnelle
<1>5. Gehalten' = Gehalten
  BY <1>1, <1>2, <1>3, <1>4 DEF Gehalten
<1>6. ASSUME NEW s \in korb.naechste .. korb'.naechste - 1 PROVE \E x \in ImKorb' : x.seq = s
  BY <1>1 DEF Seqs
<1>7. \A x \in Schnelle(schwebend') : korb'.naechste <= x.seq
  <2>1. ASSUME NEW x \in Schnelle(schwebend'), ~(korb'.naechste <= x.seq) PROVE FALSE
    <3>1. korb.naechste <= x.seq /\ x \in SchnelleE' /\ x.seq \in Nat /\ x \in schwebend'
      <4>1. x \in Schnelle(schwebend) /\ x \in SchnelleE' /\ x \in schwebend'
        BY <1>4, <2>1 DEF SchnelleE, Schnelle
      <4>2. QED BY <1>1, <1>2, <4>1 DEF Ordentlich
    <3>2. PICK y \in ImKorb' : y.seq = x.seq
      BY <1>2, <1>6, <2>1, <3>1
    <3>3. y = x
      BY <3>1, <3>2 DEF Grund, Nummern, SchnelleOK, SchnelleE
    <3>4. QED BY <3>1, <3>2, <3>3 DEF Grund, Nummern, AnnahmenOK
  <2>2. QED BY <2>1
<1>8. korb'.naechste <= wal'.naechste
  <2>1. CASE korb'.naechste = korb.naechste
    BY <1>1, <2>1 DEF Ordentlich
  <2>2. CASE korb'.naechste # korb.naechste
    <3>1. korb'.naechste - 1 \in korb.naechste .. korb'.naechste - 1
      BY <1>1, <1>2, <2>2
    <3>2. PICK x \in ImKorb' : x.seq = korb'.naechste - 1
      BY <1>6, <3>1
    <3>3. x \in SchnelleE' /\ Laeuft'
      BY <1>1, <3>2 DEF SchnelleE, Laeuft
    <3>4. x.seq < wal'.naechste
      BY <3>3 DEF Grund, Nummern, SchnelleOK
    <3>5. QED BY <1>1, <1>2, <3>2, <3>4
  <2>3. QED BY <2>1, <2>2
<1>9. Gedeckt(db.marke)'
  BY <1>1 DEF Ordentlich, Gedeckt
<1>10. QED BY <1>1, <1>4, <1>5, <1>7, <1>8, <1>9 DEF Ordentlich

\* The builder and the Korb hand entries to each other.
LEMMA OrdentlichBau ==
  ASSUME Grund, Ordentlich, Laeuft, Gehalten' = Gehalten, db'.belegt = {z.id : z \in Zeilen(ImBau')},
         Zeilen(ImBau') \subseteq db'.zeilen, BauHaelt' => bau'.alt = db'.marke,
         korb'.naechste = korb.naechste, db'.marke = db.marke, db'.bloecke = db.bloecke, db'.zeilen = db.zeilen,
         UNCHANGED <<wal, schwebend, lauf, folge>>
  PROVE  Ordentlich'
<1>1. Verblockt' = Verblockt /\ Angewendet' = Angewendet /\ Neu' = Neu
  BY DEF Verblockt, Angewendet, Neu
<1>2. Gedeckt(db.marke)'
  BY DEF Ordentlich, Gedeckt
<1>3. QED BY <1>1, <1>2 DEF Ordentlich

\* The builder's steps short of storing keep the order.
LEMMA OrdentlichBauSchritte ==
  ASSUME Grund, Ordentlich, BauNimmt \/ BauMischt \/ BauScheitert \/ \E j : BauKuerzt(j)
  PROVE  Ordentlich'
<1>1. \A z \in db.zeilen : ~AusWAL(z)
  BY DEF Grund, Nummern, ZeilenOK, ZeilenE
<1>2. CASE BauNimmt
  <2>1. /\ Laeuft /\ ImBau = {} /\ UNCHANGED <<wal, db, schwebend, lauf, folge>> /\ bau'.alt = db.marke
        /\ korb'.naechste = korb.naechste /\ ImKorb = ImBau' \cup ImKorb'
        /\ \A x \in ImBau' : AusWAL(x)
    BY <1>2, BauNimmtTut
  <2>2. Zeilen(ImBau') = {} /\ Zeilen(ImBau) = {} /\ Gehalten' = Gehalten
    BY <2>1 DEF Zeilen, Gehalten, Schnelle
  <2>3. db'.belegt = {z.id : z \in Zeilen(ImBau')}
    BY <2>1, <2>2 DEF Ordentlich
  <2>4. QED BY <2>1, <2>2, <2>3, OrdentlichBau
<1>3. CASE BauMischt
  <2>1. /\ Laeuft /\ bau.phase = "genommen" /\ UNCHANGED <<wal, schwebend, lauf, folge>> /\ bau'.alt = bau.alt
        /\ ImBau' \subseteq ImBau \cup Offen
        /\ korb'.naechste = korb.naechste /\ korb'.warten = korb.warten
        /\ ToSet(korb'.bereit) = ToSet(korb.bereit) \cup (ImBau \ ImBau')
        /\ db'.belegt = db.belegt \cup {z.id : z \in Zeilen(ImBau')}
        /\ db'.zeilen = db.zeilen /\ db'.marke = db.marke /\ db'.bloecke = db.bloecke
    BY <1>3, BauMischtTut
  <2>2. Offen \subseteq db.zeilen /\ (\A x \in ImBau : AusWAL(x)) /\ Zeilen(ImBau) = {}
    BY <2>1 DEF Offen, Grund, Nummern, RuheOK, Zeilen
  <2>3. Zeilen(ImBau') \subseteq db.zeilen /\ Schnelle(ImBau') = ImBau \cap ImBau' /\ Schnelle(ImBau) = ImBau
    BY <1>1, <2>1, <2>2 DEF Zeilen, Schnelle
  <2>4. Gehalten' = Gehalten
    BY <2>1, <2>3 DEF Gehalten, ImKorb
  <2>5. db'.belegt = {z.id : z \in Zeilen(ImBau')}
    BY <2>1, <2>2 DEF Ordentlich
  <2>6. bau'.alt = db'.marke
    BY <2>1 DEF Ordentlich, BauHaelt
  <2>7. QED BY <2>1, <2>3, <2>4, <2>5, <2>6, OrdentlichBau
<1>4. CASE BauScheitert
  <2>1. /\ Laeuft /\ UNCHANGED <<wal, schwebend, lauf, folge>> /\ bau' = KeinBau /\ ImBau' = {}
        /\ korb'.naechste = korb.naechste /\ korb'.warten = korb.warten
        /\ ToSet(korb'.bereit) = ToSet(korb.bereit) \cup Schnelle(ImBau)
        /\ db'.belegt = db.belegt \ {e.id : e \in ImBau}
        /\ db'.zeilen = db.zeilen /\ db'.marke = db.marke /\ db'.bloecke = db.bloecke
    BY <1>4, BauScheitertTut
  <2>2. Gehalten' = Gehalten /\ Zeilen(ImBau') = {} /\ ~BauHaelt'
    BY <2>1, KeinBauTyp DEF Gehalten, ImKorb, Schnelle, Zeilen, BauHaelt
  <2>3. db'.belegt = {z.id : z \in Zeilen(ImBau')}
    BY <2>1, <2>2 DEF Ordentlich, Zeilen
  <2>4. QED BY <2>1, <2>2, <2>3, OrdentlichBau
<1>5. CASE \E j : BauKuerzt(j)
  <2>1. PICK j : BauKuerzt(j)
    BY <1>5
  <2>2. /\ Laeuft /\ UNCHANGED <<wal, schwebend, lauf, folge>> /\ bau'.alt = db.marke /\ ImBau' \subseteq ImBau
        /\ korb'.naechste = korb.naechste /\ korb'.warten = korb.warten
        /\ ToSet(korb'.bereit) = ToSet(korb.bereit) \cup Schnelle(ImBau \ ImBau')
        /\ db'.belegt = db.belegt \ {e.id : e \in ImBau \ ImBau'}
        /\ db'.zeilen = db.zeilen /\ db'.marke = db.marke /\ db'.bloecke = db.bloecke
    BY <2>1, BauKuerztTut
  <2>3. Gehalten' = Gehalten /\ Zeilen(ImBau') \subseteq db.zeilen
    BY <2>2 DEF Gehalten, ImKorb, Schnelle, Zeilen, Ordentlich
  <2>4. db'.belegt = {z.id : z \in Zeilen(ImBau')}
    <3>1. \A z \in Zeilen(ImBau'), e \in ImBau \ ImBau' : z.id # e.id
      <4>1. ASSUME NEW z \in Zeilen(ImBau'), NEW e \in ImBau \ ImBau', z.id = e.id PROVE FALSE
        <5>1. z \in ImBau' /\ ~AusWAL(z)
          BY <4>1 DEF Zeilen
        <5>2. ~AusWAL(e)
          BY <4>1, <5>1 DEF AusWAL
        <5>3. z \in ZeilenE /\ e \in ZeilenE
          BY <2>2, <5>1, <5>2 DEF ZeilenE, Zeilen
        <5>4. z = e
          BY <4>1, <5>3 DEF Grund, Nummern, ZeilenOK
        <5>5. QED BY <4>1, <5>1, <5>4
      <4>2. QED BY <4>1
    <3>2. db.belegt = {z.id : z \in Zeilen(ImBau)}
      BY <2>2 DEF Ordentlich
    <3>3. \A z \in Zeilen(ImBau) : z \in Zeilen(ImBau') \/ z \in ImBau \ ImBau'
      BY DEF Zeilen
    <3>4. Zeilen(ImBau') \subseteq Zeilen(ImBau)
      BY <2>2 DEF Zeilen
    <3>5. QED BY <2>2, <3>1, <3>2, <3>3, <3>4
  <2>5. QED BY <2>2, <2>3, <2>4, OrdentlichBau
<1>6. QED BY <1>2, <1>3, <1>4, <1>5

\* Storing a block moves the mark to the last fast transfer in it; what is held
\* beside the builder is above that.
LEMMA OrdentlichSpeichert ==
  ASSUME Grund, Ordentlich, BauSpeichert
  PROVE  Ordentlich'
<1> DEFINE F == {e \in ToSet(bau.inhalt) : AusWAL(e)}
           m == Bis(bau.inhalt, bau.alt)
           R == ImKorb \cup Schnelle(schwebend)
<1>1. /\ Laeuft /\ bau.phase \in {"gemischt", "gekuerzt"} /\ bau' = KeinBau /\ ImBau' = {}
      /\ UNCHANGED <<wal, korb, schwebend, lauf, folge>>
      /\ db'.zeilen = db.zeilen \ ImBau /\ db'.marke = m /\ db'.belegt = db.belegt \ {e.id : e \in ImBau}
      /\ Verblockt' = Verblockt \cup Txs(ImBau)
  BY BauSpeichertTut
<1>2. /\ m \in Nat /\ (F = {} => m = bau.alt) /\ (F # {} => \E e \in F : e.seq = m) /\ \A e \in F : e.seq <= m
  BY StandTyp, BisIst DEF Grund, Lage
<1>3. F = Schnelle(ImBau)
  BY DEF Schnelle, ImBau
<1> HIDE DEF F, m
<1>4. bau.alt = db.marke
  BY <1>1 DEF Ordentlich, BauHaelt
<1>5. db.marke \in Nat /\ wal.naechste \in Nat /\ korb.naechste \in Nat /\ wal.haltbar \in Nat
      /\ \A x \in Gehalten \cup wal.saetze : x.seq \in Nat
  BY StandTyp, ZahlenTyp DEF Grund, Gehalten, Schnelle
<1>6. Gehalten = Neu /\ F \subseteq Gehalten /\ Gehalten = R \cup F
  BY <1>1, <1>3 DEF Ordentlich, Gehalten
<1>7. db.marke <= m /\ m < wal.naechste /\ Gedeckt(m)
  <2>1. CASE F = {}
    BY <1>1, <1>2, <1>4, <1>5, <2>1 DEF Ordentlich
  <2>2. CASE F # {}
    <3>1. PICK e \in F : e.seq = m
      BY <1>2, <2>2
    <3>2. e \in wal.saetze /\ db.marke < e.seq /\ e \in SchnelleE /\ e \in Schnelle(ImBau)
      BY <1>3, <1>5, <1>6, <3>1 DEF Neu, SchnelleE
    <3>3. e.seq < wal.naechste /\ e.seq <= wal.haltbar
      BY <1>1, <3>2 DEF Grund, Nummern, SchnelleOK, Lage
    <3>4. m <= e.seq /\ e.seq <= wal.haltbar
      BY <1>2, <3>1, <3>3
    <3>5. Gedeckt(m)
      BY <3>2, <3>4 DEF Gedeckt
    <3>6. QED BY <1>2, <1>5, <3>1, <3>2, <3>3, <3>5
  <2>3. QED BY <2>1, <2>2
<1>8. \A x \in R : m < x.seq
  <2>1. CASE F = {}
    BY <1>2, <1>4, <1>5, <1>6, <2>1 DEF Neu
  <2>2. CASE F # {}
    <3>1. PICK e \in F : e.seq = m
      BY <1>2, <2>2
    <3>2. e.seq < korb.naechste /\ \A y \in ToSet(korb.bereit) : e.seq < y.seq
      BY <1>3, <3>1 DEF Grund, Lage
    <3>3. \A w \in korb.warten : korb.naechste < w.seq
      BY <1>5 DEF Grund, Lage, Gehalten, ImKorb
    <3>4. \A x \in Schnelle(schwebend) : korb.naechste <= x.seq
      BY <1>1 DEF Ordentlich
    <3>5. ASSUME NEW x \in R PROVE m < x.seq
      <4>1. x.seq \in Nat
        BY <1>5, <1>6, <3>5
      <4>2. QED BY <1>2, <1>5, <3>1, <3>2, <3>3, <3>4, <3>5, <4>1 DEF ImKorb
    <3>6. QED BY <3>5
  <2>3. QED BY <2>1, <2>2
<1>9. Neu' = R /\ Gehalten' = R
  <2>1. Neu' = {r \in wal.saetze : r.seq > m}
    BY <1>1 DEF Neu
  <2>2. \A r \in wal.saetze : r.seq > m <=> r \in R
    <3>1. ASSUME NEW r \in wal.saetze, r.seq > m PROVE r \in R
      <4>1. r \in Neu /\ r \notin F
        BY <1>2, <1>5, <1>7, <3>1 DEF Neu
      <4>2. QED BY <1>6, <4>1
    <3>2. QED BY <1>2, <1>5, <1>8, <3>1
  <2>3. R \subseteq wal.saetze
    BY <1>6 DEF Neu
  <2>4. Gehalten' = R
    BY <1>1 DEF Gehalten, ImKorb, Schnelle
  <2>5. QED BY <2>1, <2>2, <2>3, <2>4
<1>10. \A t \in Angewendet' \ (Verblockt' \cup Txs(db'.zeilen)) : t \in Txs(Neu')
  <2>1. ASSUME NEW t \in Angewendet, t \notin Verblockt, t \notin Txs(ImBau), t \notin Txs(db.zeilen \ ImBau)
        PROVE  t \in Txs(R)
    <3>1. t \notin Txs(db.zeilen)
      BY <2>1 DEF Txs
    <3>2. PICK r \in Neu : r.tx = t
      BY <2>1, <3>1 DEF Ordentlich, Txs
    <3>3. r \notin F
      BY <1>3, <2>1, <3>2 DEF Txs, Schnelle
    <3>4. QED BY <1>6, <3>2, <3>3 DEF Txs
  <2>2. Angewendet' = Angewendet
    BY <1>1 DEF Angewendet
  <2> HIDE DEF R
  <2>3. QED BY <1>1, <1>9, <2>1, <2>2
<1>11. db'.belegt = {} /\ Zeilen(ImBau') = {} /\ ~BauHaelt'
  BY <1>1, KeinBauTyp DEF Ordentlich, Zeilen, BauHaelt
<1>12. Gedeckt(db.marke)'
  BY <1>1, <1>7 DEF Gedeckt
<1>13. \A x \in Schnelle(schwebend') : korb'.naechste <= x.seq
  BY <1>1 DEF Ordentlich
<1>14. korb'.naechste <= wal'.naechste /\ db'.marke < wal'.naechste
  BY <1>1, <1>7 DEF Ordentlich
<1>15. db'.belegt = {z.id : z \in Zeilen(ImBau')} /\ Zeilen(ImBau') \subseteq db'.zeilen
  BY <1>11
<1> HIDE DEF R
<1>16. QED BY <1>9, <1>10, <1>11, <1>12, <1>13, <1>14, <1>15 DEF Ordentlich

\* A crash takes back what its cut took from the log, and no more.
LEMMA OrdentlichAbsturz ==
  ASSUME Grund, Ordentlich, NEW bis, Absturz(bis)
  PROVE  Ordentlich'
<1>1. /\ bis \in Nat /\ wal.haltbar <= bis /\ wal.haltbar \in Nat
      /\ wal'.saetze = {r \in wal.saetze : r.seq <= bis} /\ wal'.haltbar = wal.haltbar /\ wal'.hwm = wal.hwm
      /\ Angewendet' = Angewendet \ Txs({r \in wal.saetze : r.seq > bis})
      /\ lauf' = "aus" /\ bau' = KeinBau /\ UNCHANGED db
  BY AbsturzTut, StandTyp DEF Grund
<1>2. \A r \in wal.saetze : r.seq \in Nat
  BY ZahlenTyp DEF Grund
<1>3. Verblockt' = Verblockt /\ ~BauHaelt' /\ ~Laeuft'
  BY <1>1, KeinBauTyp DEF Verblockt, BauHaelt, Laeuft
<1>4. ASSUME NEW t \in Angewendet', t \notin Verblockt, t \notin Txs(db.zeilen) PROVE t \in Txs(Neu')
  <2>1. PICK r \in Neu : r.tx = t
    BY <1>1, <1>4 DEF Ordentlich, Txs
  <2>2. r \in wal.saetze /\ r.seq > db.marke
    BY <2>1 DEF Neu
  <2>3. ~(r.seq > bis)
    BY <1>1, <1>4, <2>1, <2>2 DEF Txs
  <2>4. r \in Neu'
    BY <1>1, <1>2, <2>2, <2>3 DEF Neu
  <2>5. QED BY <2>1, <2>4 DEF Txs
<1>5. Gedeckt(db.marke)'
  <2>1. CASE db.marke <= wal.hwm
    BY <1>1, <2>1 DEF Gedeckt
  <2>2. CASE \E r \in wal.saetze : db.marke <= r.seq /\ r.seq <= wal.haltbar
    <3>1. PICK r \in wal.saetze : db.marke <= r.seq /\ r.seq <= wal.haltbar
      BY <2>2
    <3>2. r \in wal'.saetze
      BY <1>1, <1>2, <3>1
    <3>3. QED BY <1>1, <3>1, <3>2 DEF Gedeckt
  <2>3. QED BY <2>1, <2>2 DEF Ordentlich, Gedeckt
<1>6. QED BY <1>1, <1>3, <1>4, <1>5 DEF Ordentlich

\* After a restart the Korb holds what stands above the mark, and expects the number
\* the log gives out next.
LEMMA OrdentlichWiederanlauf ==
  ASSUME Grund, Ordentlich, Wiederanlauf
  PROVE  Ordentlich'
<1> DEFINE ende == db.marke + Cardinality(Neu)
<1>1. /\ lauf = "aus" /\ ende \in Nat /\ UNCHANGED <<schwebend, bau, folge>>
      /\ \/ /\ Seqs(Neu) = db.marke + 1 .. ende /\ lauf' = "laeuft"
            /\ wal'.saetze = wal.saetze /\ wal'.naechste = PeekNachStart
            /\ wal'.haltbar = PeekNachStart - 1 /\ wal'.hwm = wal.hwm
            /\ korb'.warten = {} /\ ToSet(korb'.bereit) = Neu
            /\ korb'.naechste \in {PeekNachStart, ende + 1}
            /\ db'.belegt = {} /\ db'.zeilen = db.zeilen
            /\ db'.marke = db.marke /\ db'.bloecke = db.bloecke
         \/ lauf' = "verweigert" /\ UNCHANGED <<wal, korb, db>>
  BY WiederanlaufTut
<1>2. bau = KeinBau /\ ~Laeuft /\ ~BauHaelt /\ ImBau = {} /\ schwebend = {}
  <2>1. ~Laeuft
    BY <1>1 DEF Laeuft
  <2>2. bau = KeinBau /\ schwebend = {}
    BY <2>1 DEF Grund, Nummern, RuheOK
  <2>3. QED BY <2>1, <2>2, KeinBauTyp DEF BauHaelt, ImBau
<1>3. ende = db.marke + Cardinality(Neu)
  OBVIOUS
<1> HIDE DEF ende
<1>4. CASE lauf' = "verweigert" /\ UNCHANGED <<wal, korb, db>>
  <2>1. Verblockt' = Verblockt /\ Angewendet' = Angewendet /\ Neu' = Neu /\ BauHaelt' = BauHaelt /\ ~Laeuft'
    BY <1>1, <1>4 DEF Verblockt, Angewendet, Neu, BauHaelt, Laeuft
  <2>2. Gedeckt(db.marke)'
    BY <1>4 DEF Ordentlich, Gedeckt
  <2>3. QED BY <1>2, <1>4, <2>1, <2>2 DEF Ordentlich
<1>5. CASE /\ Seqs(Neu) = db.marke + 1 .. ende /\ lauf' = "laeuft"
           /\ wal'.saetze = wal.saetze /\ wal'.naechste = PeekNachStart
           /\ wal'.haltbar = PeekNachStart - 1 /\ wal'.hwm = wal.hwm
           /\ korb'.warten = {} /\ ToSet(korb'.bereit) = Neu
           /\ korb'.naechste \in {PeekNachStart, ende + 1}
           /\ db'.belegt = {} /\ db'.zeilen = db.zeilen
           /\ db'.marke = db.marke /\ db'.bloecke = db.bloecke
  <2>1. /\ PeekNachStart \in Nat \ {0} /\ wal.hwm < PeekNachStart /\ wal.hwm \in Nat /\ db.marke \in Nat
        /\ \A r \in wal.saetze : r.seq \in Nat /\ r.seq < PeekNachStart
    BY PeekIst, StandTyp, ZahlenTyp DEF Grund
  <2>2. db.marke < PeekNachStart
    <3>1. CASE db.marke <= wal.hwm
      BY <2>1, <3>1
    <3>2. CASE \E r \in wal.saetze : db.marke <= r.seq /\ r.seq <= wal.haltbar
      BY <2>1, <3>2
    <3>3. QED BY <3>1, <3>2 DEF Ordentlich, Gedeckt
  <2>3. ende + 1 <= PeekNachStart
    <3>1. CASE Neu = {}
      <4>1. Cardinality(Neu) = 0
        BY <3>1, FS_EmptySet
      <4>2. QED BY <1>3, <2>1, <2>2, <4>1
    <3>2. CASE Neu # {}
      <4>1. PICK x \in Neu : TRUE
        BY <3>2
      <4>2. x.seq \in db.marke + 1 .. ende
        BY <1>5, <4>1 DEF Seqs
      <4>3. ende \in Seqs(Neu)
        BY <1>1, <1>5, <2>1, <4>2
      <4>4. PICK y \in Neu : y.seq = ende
        BY <4>3 DEF Seqs
      <4>5. y \in wal.saetze
        BY <4>4 DEF Neu
      <4>6. QED BY <1>1, <2>1, <4>4, <4>5
    <3>3. QED BY <3>1, <3>2
  <2>4. /\ Verblockt' = Verblockt /\ Angewendet' = Angewendet /\ Neu' = Neu /\ ~BauHaelt' /\ ImBau' = {}
        /\ Schnelle(schwebend') = {} /\ Zeilen(ImBau') = {} /\ Gehalten' = Neu
    BY <1>1, <1>2, <1>5 DEF Verblockt, Angewendet, Neu, BauHaelt, ImBau, Schnelle, Zeilen, Gehalten, ImKorb
  <2>5. korb'.naechste <= wal'.naechste /\ db'.marke < wal'.naechste
    BY <1>1, <1>5, <2>1, <2>2, <2>3
  <2>6. Gedeckt(db.marke)'
    <3>1. CASE db.marke <= wal.hwm
      BY <1>5, <3>1 DEF Gedeckt
    <3>2. CASE \E r \in wal.saetze : db.marke <= r.seq /\ r.seq <= wal.haltbar
      <4>1. PICK r \in wal.saetze : db.marke <= r.seq
        BY <3>2
      <4>2. r.seq <= wal'.haltbar
        BY <1>5, <2>1
      <4>3. QED BY <1>5, <4>1, <4>2 DEF Gedeckt
    <3>3. QED BY <3>1, <3>2 DEF Ordentlich, Gedeckt
  <2>7. db'.belegt = {z.id : z \in Zeilen(ImBau')} /\ Zeilen(ImBau') \subseteq db'.zeilen
    BY <1>5, <2>4
  <2>8. \A t \in Angewendet' \ (Verblockt' \cup Txs(db'.zeilen)) : t \in Txs(Neu')
    BY <1>5, <2>4 DEF Ordentlich
  <2>9. QED BY <2>4, <2>5, <2>6, <2>7, <2>8 DEF Ordentlich
<1>6. QED BY <1>1, <1>4, <1>5

\* Everything but the two steps of the discarding keeps the order.
LEMMA OrdentlichSchritt ==
  ASSUME Grund, Grund', Ordentlich, Next, ~VerwerfenLeert, ~VerwerfenMarke
  PROVE  Ordentlich'
<1>1. CASE \/ \E t \in Auftraege : AnnahmeBeginnt(t)
           \/ \E t \in annahmen : AnnahmeAbgelehnt(t) \/ LangsamBeginnt(t)
           \/ \E e \in schwebend : LangsamFertig(e) \/ LangsamScheitert(e)
           \/ \E bis \in 1 .. wal.naechste : Sichern(bis)
           \/ BauTor
           \/ UeberholtGemeldet \/ VerwerfenPrueft \/ ResyncFertig
  BY <1>1, OrdentlichLeicht
<1>2. CASE \E t \in annahmen : Anhaengen(t)
  BY <1>2, OrdentlichAnhaengen
<1>3. CASE \E ab \in 1 .. KuerzenGrenze(db.marke) : Kuerzen(ab)
  BY <1>3, OrdentlichKuerzen
<1>4. CASE \E e \in schwebend : Einreihen(e)
  BY <1>4, OrdentlichEinreihen
<1>5. CASE BauNimmt \/ BauMischt \/ BauScheitert \/ \E j \in 1 .. Deckel : BauKuerzt(j)
  BY <1>5, OrdentlichBauSchritte
<1>6. CASE BauSpeichert
  BY <1>6, OrdentlichSpeichert
<1>7. CASE \E bis \in 0 .. wal.naechste : Absturz(bis)
  BY <1>7, OrdentlichAbsturz
<1>8. CASE Wiederanlauf
  BY <1>8, OrdentlichWiederanlauf
<1>9. QED BY <1>1, <1>2, <1>3, <1>4, <1>5, <1>6, <1>7, <1>8 DEF Next

\* No new order comes in any more.
LEMMA AbgegebenSchritt ==
  ASSUME Grund, Abgegeben, verw.phase \notin {"nie", "wartet"}, Next
  PROVE  Abgegeben' /\ verworfen' = verworfen
<1>1. /\ Verblockt \subseteq Verblockt' /\ verworfen' = verworfen
      /\ Angewendet' \cup annahmen' \cup Txs(schwebend') \subseteq Angewendet \cup annahmen \cup Txs(schwebend)
  <2>1. CASE \E t \in Auftraege : AnnahmeBeginnt(t)
    BY <2>1 DEF AnnahmeBeginnt
  <2>2. CASE \E t \in annahmen : AnnahmeAbgelehnt(t)
    BY <2>2 DEF AnnahmeAbgelehnt, Verblockt, Angewendet, Txs
  <2>3. CASE \E t \in annahmen : Anhaengen(t)
    <3>1. PICK t \in annahmen : Anhaengen(t)
      BY <2>3
    <3> DEFINE e == [seq |-> wal.naechste, id |-> 0, tx |-> t]
    <3>2. /\ schwebend' = schwebend \cup {e}
          /\ Angewendet' = Angewendet \cup {t} /\ annahmen' = annahmen \ {t} /\ UNCHANGED <<db, verworfen>>
      BY <3>1, AnhaengenTut
    <3>3. e.tx = t
      OBVIOUS
    <3> HIDE DEF e
    <3>4. Txs(schwebend') = Txs(schwebend) \cup {t}
      BY <3>2, <3>3 DEF Txs
    <3>5. Verblockt' = Verblockt
      BY <3>2 DEF Verblockt
    <3>6. QED BY <3>2, <3>4, <3>5
  <2>4. CASE \E t \in annahmen : LangsamBeginnt(t)
    <3>1. PICK t \in annahmen : LangsamBeginnt(t)
      BY <2>4
    <3> DEFINE e == [seq |-> wal.naechste, id |-> db.id + 1, tx |-> t]
    <3>2. /\ schwebend' = schwebend \cup {e}
          /\ db'.bloecke = db.bloecke /\ annahmen' = annahmen \ {t} /\ UNCHANGED <<folge, verworfen>>
      BY <3>1, LangsamBeginntTut
    <3>3. e.tx = t
      OBVIOUS
    <3> HIDE DEF e
    <3>4. Txs(schwebend') = Txs(schwebend) \cup {t}
      BY <3>2, <3>3 DEF Txs
    <3>5. Verblockt' = Verblockt /\ Angewendet' = Angewendet
      BY <3>2 DEF Verblockt, Angewendet
    <3>6. QED BY <3>2, <3>4, <3>5
  <2>5. CASE \E e \in schwebend : Einreihen(e)
    BY <2>5 DEF Einreihen, Verblockt, Angewendet, Txs
  <2>6. CASE \E e \in schwebend : LangsamFertig(e)
    <3>1. PICK e \in schwebend : LangsamFertig(e)
      BY <2>6
    <3>2. /\ schwebend' = schwebend \ {e} /\ Angewendet' = Angewendet \cup {e.tx} /\ db'.bloecke = db.bloecke
          /\ UNCHANGED <<annahmen, verworfen>>
      BY <3>1, LangsamFertigTut
    <3>3. QED BY <3>2 DEF Txs, Verblockt
  <2>7. CASE \E e \in schwebend : LangsamScheitert(e)
    BY <2>7 DEF LangsamScheitert, Verblockt, Angewendet, Txs
  <2>8. CASE \E bis \in 1 .. wal.naechste : Sichern(bis)
    BY <2>8 DEF Sichern, Verblockt, Angewendet
  <2>9. CASE BauTor \/ BauNimmt
    BY <2>9 DEF BauTor, BauNimmt, Verblockt, Angewendet
  <2>10. CASE BauMischt
    <3>1. db'.bloecke = db.bloecke /\ UNCHANGED <<annahmen, schwebend, folge, verworfen>>
      BY <2>10, BauMischtTut
    <3>2. QED BY <3>1 DEF Verblockt, Angewendet
  <2>11. CASE BauSpeichert
    <3>1. Verblockt \subseteq Verblockt' /\ UNCHANGED <<annahmen, schwebend, folge, verworfen>>
      BY <2>11, BauSpeichertTut
    <3>2. QED BY <3>1 DEF Angewendet
  <2>12. CASE BauScheitert
    <3>1. db'.bloecke = db.bloecke /\ UNCHANGED <<annahmen, schwebend, folge, verworfen>>
      BY <2>12, BauScheitertTut
    <3>2. QED BY <3>1 DEF Verblockt, Angewendet
  <2>13. CASE \E j \in 1 .. Deckel : BauKuerzt(j)
    <3>1. PICK j \in 1 .. Deckel : BauKuerzt(j)
      BY <2>13
    <3>2. db'.bloecke = db.bloecke /\ UNCHANGED <<annahmen, schwebend, folge, verworfen>>
      BY <3>1, BauKuerztTut
    <3>3. QED BY <3>2 DEF Verblockt, Angewendet
  <2>14. CASE \E ab \in 1 .. KuerzenGrenze(db.marke) : Kuerzen(ab)
    BY <2>14 DEF Kuerzen, Verblockt, Angewendet
  <2>15. CASE \E bis \in 0 .. wal.naechste : Absturz(bis)
    <3>1. PICK bis \in 0 .. wal.naechste : Absturz(bis)
      BY <2>15
    <3>2. Angewendet' \subseteq Angewendet /\ annahmen' = {} /\ schwebend' = {} /\ UNCHANGED <<db, verworfen>>
      BY <3>1, AbsturzTut
    <3>3. QED BY <3>2 DEF Verblockt, Txs
  <2>16. CASE Wiederanlauf
    <3>1. db'.bloecke = db.bloecke /\ UNCHANGED <<annahmen, schwebend, folge, verworfen>>
      BY <2>16, WiederanlaufTut
    <3>2. QED BY <3>1 DEF Verblockt, Angewendet
  <2>17. CASE UeberholtGemeldet \/ VerwerfenPrueft
    BY <2>17 DEF UeberholtGemeldet, VerwerfenPrueft
  <2>18. CASE VerwerfenLeert \/ ResyncFertig
    BY <2>18 DEF VerwerfenLeert, ResyncFertig, Verblockt, Angewendet
  <2>19. CASE VerwerfenMarke
    <3>1. db'.bloecke = db.bloecke /\ UNCHANGED <<annahmen, schwebend, folge, verworfen>>
      BY <2>19, VerwerfenMarkeTut
    <3>2. QED BY <3>1 DEF Verblockt, Angewendet
  <2>20. QED BY <2>1, <2>2, <2>3, <2>4, <2>5, <2>6, <2>7, <2>8, <2>9, <2>10, <2>11, <2>12, <2>13, <2>14, <2>15,
                <2>16, <2>17, <2>18, <2>19 DEF Next
<1>2. QED BY <1>1 DEF Abgegeben

\* How a step moves the discarding on, and when it counts what is discarded.
LEMMA PhaseTut ==
  ASSUME Grund, Next
  PROVE  \/ /\ verworfen' = verworfen
            /\ \/ verw'.phase = verw.phase
               \/ verw.phase = "nie" /\ verw'.phase = "wartet"
               \/ verw.phase = "wartet" /\ verw'.phase = "nach"
               \/ verw.phase \in {"frei", "geleert", "fertig"} /\ verw'.phase \in {"geleert", "fertig", "nach"}
         \/ /\ verw.phase = "wartet" /\ verw'.phase = "frei" /\ UNCHANGED <<db, annahmen, schwebend, folge>>
            /\ verworfen' = (Angewendet \cup annahmen \cup Txs(schwebend)) \ Verblockt
<1>1. CASE \/ \E t \in Auftraege : AnnahmeBeginnt(t)
           \/ \E t \in annahmen : AnnahmeAbgelehnt(t) \/ Anhaengen(t) \/ LangsamBeginnt(t)
           \/ \E e \in schwebend : Einreihen(e) \/ LangsamFertig(e) \/ LangsamScheitert(e)
           \/ \E bis \in 1 .. wal.naechste : Sichern(bis)
           \/ BauTor \/ BauNimmt \/ BauMischt \/ BauSpeichert \/ BauScheitert
           \/ \E j \in 1 .. Deckel : BauKuerzt(j)
           \/ \E ab \in 1 .. KuerzenGrenze(db.marke) : Kuerzen(ab)
           \/ Wiederanlauf
  <2>1. verw' = verw /\ verworfen' = verworfen
    BY <1>1 DEF AnnahmeBeginnt, AnnahmeAbgelehnt, Anhaengen, LangsamBeginnt, Einreihen, LangsamFertig, LangsamScheitert,
                Sichern, BauTor, BauNimmt, BauMischt, BauSpeichert, BauScheitert, BauKuerzt, Kuerzen, Wiederanlauf
  <2>2. QED BY <2>1
<1>2. CASE \E bis \in 0 .. wal.naechste : Absturz(bis)
  <2>1. /\ verw.phase # "nach" /\ verworfen' = verworfen
        /\ (verw.phase = "nie" => verw'.phase = "nie") /\ (verw.phase # "nie" => verw'.phase = "nach")
    BY <1>2, AbsturzTut
  <2>2. verw.phase \in {"nie", "wartet", "frei", "geleert", "fertig", "nach"}
    BY DEF Grund, Typ, VerwTyp
  <2>3. QED BY <2>1, <2>2
<1>3. CASE UeberholtGemeldet \/ VerwerfenPrueft \/ ResyncFertig
  BY <1>3, VerwerfenTut
<1>4. CASE VerwerfenLeert
  BY <1>4, VerwerfenLeertTut
<1>5. CASE VerwerfenMarke
  BY <1>5, VerwerfenMarkeTut
<1>6. QED BY <1>1, <1>2, <1>3, <1>4, <1>5 DEF Next

\* The two steps of the discarding come after the look at what is outgoing.
LEMMA VerwerfenPhase ==
  /\ VerwerfenLeert => verw.phase = "frei"
  /\ VerwerfenMarke => verw.phase = "geleert"
  BY DEF VerwerfenLeert, VerwerfenMarke

\* Every step keeps what is in order in each phase of the discarding.
LEMMA PhaseSchritt ==
  ASSUME Grund, Grund', PhaseOK, [Next]_vars
  PROVE  PhaseOK'
<1>0. verw.phase \in {"nie", "wartet", "frei", "geleert", "fertig", "nach"}
  BY DEF Grund, Typ, VerwTyp
<1>1. CASE Next
  <2>1. Ordentlich /\ verw.phase \notin {"frei", "geleert"} => Ordentlich'
    BY <1>1, OrdentlichSchritt, VerwerfenPhase
  <2>2. Abgegeben /\ verw.phase \notin {"nie", "wartet"} => Abgegeben' /\ verworfen' = verworfen
    BY <1>1, AbgegebenSchritt
  <2>3. CASE verw.phase \in {"nie", "wartet"} /\ verw'.phase \in {"nie", "wartet", "nach"} /\ verworfen' = verworfen
    BY <2>1, <2>3 DEF PhaseOK
  <2>4. CASE verw'.phase = "frei" /\ UNCHANGED <<db, annahmen, schwebend, folge>>
             /\ verworfen' = (Angewendet \cup annahmen \cup Txs(schwebend)) \ Verblockt
    <3>1. Angewendet' = Angewendet /\ Verblockt' = Verblockt /\ Txs(schwebend') = Txs(schwebend)
      BY <2>4 DEF Angewendet, Verblockt
    <3>2. Abgegeben'
      BY <2>4, <3>1 DEF Abgegeben
    <3>3. QED BY <2>4, <3>2 DEF PhaseOK
  <2>5. CASE verw.phase \in {"frei", "geleert", "fertig"} /\ verw'.phase \in {"frei", "geleert", "fertig", "nach"}
    BY <2>2, <2>5 DEF PhaseOK
  <2>6. CASE verw.phase = "nach" /\ verw'.phase = "nach"
    BY <2>1, <2>2, <2>6 DEF PhaseOK
  <2>7. QED BY <1>0, <1>1, <2>3, <2>4, <2>5, <2>6, PhaseTut
<1>2. CASE UNCHANGED vars
  BY <1>2 DEF vars, PhaseOK, Ordentlich, Abgegeben, Gedeckt, Gehalten, Neu, Laeuft, ImKorb, ImBau, Angewendet, Verblockt,
              BauHaelt, Schnelle, Zeilen, Txs, AusWAL
<1>3. QED BY <1>1, <1>2

\* At the start there is nothing to lose.
LEMMA PhaseStart == Init => PhaseOK
<1> SUFFICES ASSUME Init PROVE PhaseOK
  OBVIOUS
<1>1. /\ wal.saetze = {} /\ wal.naechste = 1 /\ wal.hwm = 0 /\ db.zeilen = {} /\ db.belegt = {} /\ db.marke = 0
      /\ korb.naechste = 1 /\ korb.bereit = <<>> /\ korb.warten = {} /\ schwebend = {} /\ bau.phase = "ruht"
      /\ bau.inhalt = <<>> /\ verw.phase = "nie" /\ folge = <<>> /\ verworfen = {}
  BY DEF Init, LeererKorb, KeinBau
<1>2. ToSet(<<>>) = {}
  BY KeinBauTyp
<1>3. Gehalten = {} /\ Neu = {} /\ Angewendet = {} /\ Zeilen(ImBau) = {} /\ Schnelle(schwebend) = {}
  BY <1>1, <1>2 DEF Gehalten, Neu, Angewendet, ImBau, ImKorb, Zeilen, Schnelle
<1>4. ~BauHaelt /\ Gedeckt(db.marke)
  BY <1>1 DEF BauHaelt, Gedeckt
<1>5. Ordentlich
  BY <1>1, <1>3, <1>4 DEF Ordentlich
<1>6. QED BY <1>1, <1>5 DEF PhaseOK

\* What is applied and not discarded is in a block, a row or a record above the mark,
\* and while the process runs the Korb, the builder or the acceptance holds it: for
\* every set of orders, every crash, failure, compaction and discarding.
THEOREM NichtsVerlorenGilt == Spec => []NichtsVerloren
<1>1. Init => Grund /\ PhaseOK
  BY GrundStart, PhaseStart
<1>2. Grund /\ PhaseOK /\ [Next]_vars => (Grund /\ PhaseOK)'
  BY GrundSchritt, PhaseSchritt
<1>3. Grund /\ PhaseOK => NichtsVerloren
  <2> SUFFICES ASSUME Grund, PhaseOK, NEW t \in Angewendet \ (Verblockt \cup verworfen \cup Txs(db.zeilen))
               PROVE  /\ \E r \in wal.saetze : r.tx = t /\ r.seq > db.marke
                      /\ lauf = "laeuft" =>
                            t \in Txs(ToSet(korb.bereit) \cup korb.warten \cup ToSet(bau.inhalt) \cup schwebend)
    BY DEF NichtsVerloren
  <2>1. Ordentlich
    <3>1. ~Abgegeben
      BY DEF Abgegeben
    <3>2. verw.phase \in {"nie", "wartet", "frei", "geleert", "fertig", "nach"}
      BY DEF Grund, Typ, VerwTyp
    <3>3. QED BY <3>1, <3>2 DEF PhaseOK
  <2>2. PICK r \in Neu : r.tx = t
    BY <2>1 DEF Ordentlich, Txs
  <2>3. r \in wal.saetze /\ r.seq > db.marke
    BY <2>2 DEF Neu
  <2>4. ASSUME lauf = "laeuft" PROVE r \in ToSet(korb.bereit) \cup korb.warten \cup ToSet(bau.inhalt) \cup schwebend
    <3>1. r \in Gehalten
      BY <2>1, <2>2, <2>4 DEF Ordentlich, Laeuft
    <3>2. QED BY <3>1 DEF Gehalten, ImKorb, ImBau, Schnelle
  <2>5. QED BY <2>2, <2>3, <2>4 DEF Txs
<1>4. QED BY <1>1, <1>2, <1>3, PTL DEF Spec

-----------------------------------------------------------------------------
(***************************************************************************)
(* The first restart is not refused.                                       *)
(***************************************************************************)
\* Every number given out above the mark has its record.
Lueckenlos == \A n \in Nat : db.marke < n /\ n < wal.naechste => n \in Seqs(wal.saetze)

\* Before the first crash the mark is durable and the log has no gap above it; after it
\* the file ends somewhere at or above the mark, without a gap.
StartOK ==
  verw.phase \in {"nie", "wartet"} =>
    /\ zaehler.abstuerze = 0 => Laeuft /\ db.marke <= wal.haltbar /\ Lueckenlos
    /\ zaehler.abstuerze = 1 /\ lauf = "aus" => \E b \in Nat : db.marke <= b /\ Seqs(Neu) = db.marke + 1 .. b
    /\ zaehler.abstuerze <= 1 => lauf # "verweigert"

\* A step of the running process.
LEMMA StartRuhig ==
  ASSUME Grund, StartOK, Laeuft, lauf' = lauf, zaehler'.abstuerze = zaehler.abstuerze,
         verw'.phase \in {"nie", "wartet"} => verw.phase \in {"nie", "wartet"},
         db.marke <= wal.haltbar /\ Lueckenlos => db'.marke <= wal'.haltbar /\ Lueckenlos'
  PROVE  StartOK'
  BY DEF StartOK, Laeuft

\* The mark moves up, to a durable number.
LEMMA MarkeHaltbar ==
  ASSUME Grund, Ordentlich, BauSpeichert
  PROVE  db.marke <= db'.marke /\ (db'.marke <= wal.haltbar \/ db'.marke = db.marke)
<1> DEFINE F == {e \in ToSet(bau.inhalt) : AusWAL(e)}
           m == Bis(bau.inhalt, bau.alt)
<1>1. Laeuft /\ bau.phase \in {"gemischt", "gekuerzt"} /\ db'.marke = m
  BY BauSpeichertTut
<1>2. /\ m \in Nat /\ (F = {} => m = bau.alt) /\ (F # {} => \E e \in F : e.seq = m)
  BY StandTyp, BisIst DEF Grund, Lage
<1>3. F = Schnelle(ImBau)
  BY DEF Schnelle, ImBau
<1> HIDE DEF F, m
<1>4. bau.alt = db.marke /\ db.marke \in Nat
  BY <1>1, StandTyp DEF Ordentlich, BauHaelt, Grund
<1>5. CASE F = {}
  BY <1>1, <1>2, <1>4, <1>5
<1>6. CASE F # {}
  <2>1. PICK e \in F : e.seq = m
    BY <1>2, <1>6
  <2>2. e \in Neu /\ e.seq <= wal.haltbar
    BY <1>1, <1>3, <2>1 DEF Ordentlich, Gehalten, Grund, Lage
  <2>3. e.seq > db.marke
    BY <2>2 DEF Neu
  <2>4. QED BY <1>1, <1>2, <1>4, <2>1, <2>2, <2>3
<1>7. QED BY <1>5, <1>6

\* Everything short of a crash and a restart.
LEMMA StartLaeuft ==
  ASSUME Grund, StartOK, Ordentlich, Next, verw'.phase \in {"nie", "wartet"} => verw.phase \in {"nie", "wartet"},
         ~VerwerfenLeert, ~VerwerfenMarke, ~Wiederanlauf, ~\E bis \in 0 .. wal.naechste : Absturz(bis)
  PROVE  StartOK'
<1>0. wal.naechste \in Nat /\ wal.haltbar \in Nat /\ db.marke \in Nat /\ \A r \in wal.saetze : r.seq \in Nat
  BY StandTyp, ZahlenTyp DEF Grund
<1>1. CASE \/ \E t \in Auftraege : AnnahmeBeginnt(t)
           \/ \E t \in annahmen : AnnahmeAbgelehnt(t) \/ LangsamBeginnt(t)
           \/ \E e \in schwebend : Einreihen(e) \/ LangsamFertig(e) \/ LangsamScheitert(e)
           \/ BauTor \/ BauNimmt \/ BauMischt \/ BauScheitert
           \/ \E j \in 1 .. Deckel : BauKuerzt(j)
           \/ UeberholtGemeldet \/ VerwerfenPrueft \/ ResyncFertig
  <2>1. Laeuft /\ wal' = wal /\ lauf' = lauf
    BY <1>1 DEF AnnahmeBeginnt, AnnahmeAbgelehnt, LangsamBeginnt, Einreihen, LangsamFertig, LangsamScheitert,
                BauTor, BauNimmt, BauMischt, BauScheitert, BauKuerzt, UeberholtGemeldet, VerwerfenPrueft, ResyncFertig,
                Laeuft
  <2>2. zaehler'.abstuerze = zaehler.abstuerze
    <3>1. CASE \/ \E t \in Auftraege : AnnahmeBeginnt(t)
               \/ \E t \in annahmen : AnnahmeAbgelehnt(t) \/ LangsamBeginnt(t)
               \/ \E e \in schwebend : Einreihen(e) \/ LangsamFertig(e)
               \/ BauTor \/ BauNimmt \/ BauMischt
               \/ \E j \in 1 .. Deckel : BauKuerzt(j)
               \/ UeberholtGemeldet \/ VerwerfenPrueft \/ ResyncFertig
      BY <3>1 DEF AnnahmeBeginnt, AnnahmeAbgelehnt, LangsamBeginnt, Einreihen, LangsamFertig,
                BauTor, BauNimmt, BauMischt, BauKuerzt, UeberholtGemeldet, VerwerfenPrueft, ResyncFertig
    <3>2. CASE \E e \in schwebend : LangsamScheitert(e)
      BY <3>2, LangsamScheitertTut
    <3>3. CASE BauScheitert
      BY <3>3, BauScheitertTut
    <3>4. QED BY <1>1, <3>1, <3>2, <3>3
  <2>3. db'.marke = db.marke
    <3>1. CASE \/ \E t \in Auftraege : AnnahmeBeginnt(t)
               \/ \E t \in annahmen : AnnahmeAbgelehnt(t)
               \/ \E e \in schwebend : Einreihen(e) \/ LangsamScheitert(e)
               \/ BauTor \/ BauNimmt
               \/ UeberholtGemeldet \/ VerwerfenPrueft \/ ResyncFertig
      BY <3>1 DEF AnnahmeBeginnt, AnnahmeAbgelehnt, Einreihen, LangsamScheitert, BauTor, BauNimmt, UeberholtGemeldet,
                  VerwerfenPrueft, ResyncFertig
    <3>2. CASE \E t \in annahmen : LangsamBeginnt(t)
      BY <3>2, LangsamBeginntTut
    <3>3. CASE \E e \in schwebend : LangsamFertig(e)
      BY <3>3, LangsamFertigTut
    <3>4. CASE BauMischt
      BY <3>4, BauMischtTut
    <3>5. CASE BauScheitert
      BY <3>5, BauScheitertTut
    <3>6. CASE \E j \in 1 .. Deckel : BauKuerzt(j)
      BY <3>6, BauKuerztTut
    <3>7. QED BY <1>1, <3>1, <3>2, <3>3, <3>4, <3>5, <3>6
  <2>4. Lueckenlos' = Lueckenlos
    BY <2>1, <2>3 DEF Lueckenlos
  <2>5. QED BY <2>1, <2>2, <2>3, <2>4, StartRuhig
<1>2. CASE \E t \in annahmen : Anhaengen(t)
  <2>1. PICK t \in annahmen : Anhaengen(t)
    BY <1>2
  <2> DEFINE e == [seq |-> wal.naechste, id |-> 0, tx |-> t]
  <2>2. /\ Laeuft /\ wal'.saetze = wal.saetze \cup {e} /\ wal'.naechste = wal.naechste + 1 /\ wal'.haltbar = wal.haltbar
        /\ UNCHANGED <<db, lauf, zaehler>>
    BY <2>1, AnhaengenTut
  <2>3. e.seq = wal.naechste
    OBVIOUS
  <2> HIDE DEF e
  <2>4. Seqs(wal'.saetze) = Seqs(wal.saetze) \cup {wal.naechste}
    BY <2>2, <2>3 DEF Seqs
  <2>5. Lueckenlos => Lueckenlos'
    <3>1. ASSUME Lueckenlos, NEW n \in Nat, db.marke < n, n < wal.naechste + 1 PROVE n \in Seqs(wal'.saetze)
      <4>1. n = wal.naechste \/ n < wal.naechste
        BY <1>0, <3>1
      <4>2. QED BY <2>4, <3>1, <4>1 DEF Lueckenlos
    <3>2. db'.marke = db.marke
      BY <2>2
    <3>3. QED BY <2>2, <3>1, <3>2 DEF Lueckenlos
  <2>6. QED BY <2>2, <2>5, StartRuhig
<1>3. CASE \E bis \in 1 .. wal.naechste : Sichern(bis)
  <2>1. PICK bis \in 1 .. wal.naechste : Sichern(bis)
    BY <1>3
  <2>2. /\ Laeuft /\ bis \in Nat /\ wal.haltbar < bis /\ wal'.haltbar = bis /\ wal'.saetze = wal.saetze
        /\ wal'.naechste = wal.naechste /\ UNCHANGED <<db, lauf, zaehler>>
    BY <2>1, SichernTut
  <2>3. Lueckenlos' = Lueckenlos
    BY <2>2 DEF Lueckenlos
  <2>4. db.marke <= wal.haltbar => db'.marke <= wal'.haltbar
    BY <1>0, <2>2
  <2>5. QED BY <2>2, <2>3, <2>4, StartRuhig
<1>4. CASE \E ab \in 1 .. KuerzenGrenze(db.marke) : Kuerzen(ab)
  <2>1. PICK ab \in 1 .. KuerzenGrenze(db.marke) : Kuerzen(ab)
    BY <1>4
  <2>2. /\ Laeuft /\ ab \in Nat /\ ab <= db.marke + 1 /\ wal'.saetze = {r \in wal.saetze : r.seq >= ab}
        /\ wal'.naechste = wal.naechste /\ wal'.haltbar = wal.haltbar /\ UNCHANGED <<db, lauf, zaehler>>
    BY <2>1, KuerzenTut
  <2>3. Lueckenlos => Lueckenlos'
    <3>1. ASSUME Lueckenlos, NEW n \in Nat, db.marke < n, n < wal.naechste PROVE n \in Seqs(wal'.saetze)
      <4>1. PICK r \in wal.saetze : r.seq = n
        BY <3>1 DEF Lueckenlos, Seqs
      <4>2. r \in wal'.saetze
        BY <1>0, <2>2, <3>1, <4>1
      <4>3. QED BY <4>1, <4>2 DEF Seqs
    <3>2. QED BY <2>2, <3>1 DEF Lueckenlos
  <2>4. QED BY <2>2, <2>3, StartRuhig
<1>5. CASE BauSpeichert
  <2>1. Laeuft /\ db'.marke \in Nat /\ UNCHANGED <<wal, lauf, zaehler>>
    BY <1>5, BauSpeichertTut DEF DbTyp
  <2>2. db.marke <= db'.marke /\ (db'.marke <= wal.haltbar \/ db'.marke = db.marke)
    BY <1>5, MarkeHaltbar
  <2>3. Lueckenlos => Lueckenlos'
    BY <1>0, <2>1, <2>2 DEF Lueckenlos
  <2>4. db.marke <= wal.haltbar => db'.marke <= wal'.haltbar
    BY <1>0, <2>1, <2>2
  <2>5. QED BY <2>1, <2>3, <2>4, StartRuhig
<1>6. QED BY <1>1, <1>2, <1>3, <1>4, <1>5 DEF Next

\* The first crash leaves a file without a gap above the mark.
LEMMA StartAbsturz ==
  ASSUME Grund, StartOK, NEW bis, Absturz(bis), verw'.phase \in {"nie", "wartet"} => verw.phase \in {"nie", "wartet"}
  PROVE  StartOK'
<1>1. /\ Laeuft /\ bis \in Nat /\ wal.haltbar <= bis /\ bis <= wal.naechste - 1
      /\ wal'.saetze = {r \in wal.saetze : r.seq <= bis} /\ lauf' = "aus"
      /\ zaehler'.abstuerze = zaehler.abstuerze + 1 /\ db' = db
  BY AbsturzTut
<1>2. wal.naechste \in Nat /\ wal.haltbar \in Nat /\ db.marke \in Nat /\ (\A r \in wal.saetze : r.seq \in Nat)
      /\ zaehler.abstuerze \in Nat
  BY StandTyp, ZahlenTyp, GrenzenTyp DEF Grund, Typ, ZaehlerTyp
<1>3. ASSUME zaehler'.abstuerze = 1, verw'.phase \in {"nie", "wartet"}
      PROVE  db'.marke <= bis /\ Seqs(Neu') = db'.marke + 1 .. bis
  <2>1. db.marke <= wal.haltbar /\ Lueckenlos
    BY <1>1, <1>2, <1>3 DEF StartOK
  <2>2. Neu' = {r \in wal.saetze : r.seq <= bis /\ r.seq > db.marke}
    BY <1>1 DEF Neu
  <2>3. ASSUME NEW n \in db.marke + 1 .. bis PROVE n \in Seqs(Neu')
    <3>1. n \in Nat /\ db.marke < n /\ n < wal.naechste /\ n <= bis
      BY <1>1, <1>2, <2>3
    <3>2. PICK r \in wal.saetze : r.seq = n
      BY <2>1, <3>1 DEF Lueckenlos, Seqs
    <3>3. r \in Neu'
      BY <1>2, <2>2, <3>1, <3>2
    <3>4. QED BY <3>2, <3>3 DEF Seqs
  <2>4. \A n \in Seqs(Neu') : n \in db.marke + 1 .. bis
    BY <1>1, <1>2, <2>2 DEF Seqs
  <2>5. db.marke <= bis
    BY <1>1, <1>2, <2>1
  <2>6. QED BY <1>1, <2>3, <2>4, <2>5
<1>4. zaehler'.abstuerze # 0
  BY <1>1, <1>2
<1>5. QED BY <1>1, <1>3, <1>4 DEF StartOK

\* The first restart finds it.
LEMMA StartWiederanlauf ==
  ASSUME Grund, StartOK, Wiederanlauf
  PROVE  StartOK'
<1> DEFINE ende == db.marke + Cardinality(Neu)
<1>1. /\ lauf = "aus" /\ UNCHANGED <<verw, zaehler>>
      /\ \/ Seqs(Neu) = db.marke + 1 .. ende /\ lauf' = "laeuft"
         \/ Seqs(Neu) # db.marke + 1 .. ende /\ lauf' = "verweigert"
  BY WiederanlaufTut
<1>2. db.marke \in Nat /\ zaehler.abstuerze \in Nat
  BY StandTyp, GrenzenTyp DEF Grund, Typ, ZaehlerTyp
<1>3. Cardinality(Seqs(Neu)) = Cardinality(Neu)
  <2>1. IsFiniteSet(Neu) /\ Neu \subseteq SchnelleE
    <3>1. Neu \subseteq wal.saetze
      BY DEF Neu
    <3>2. QED BY <3>1, FS_Subset DEF Grund, Typ, SchnelleE
  <2>2. EigeneNummern(Neu)
    BY <2>1 DEF EigeneNummern, Grund, Nummern, SchnelleOK
  <2>3. QED BY <2>1, <2>2, SeqsAnzahl
<1>4. ASSUME NEW b \in Nat, db.marke <= b, Seqs(Neu) = db.marke + 1 .. b
      PROVE  ende = b
  <2> DEFINE a == db.marke + 1
  <2>1. a \in Int /\ b \in Int
    BY <1>2
  <2>2. Seqs(Neu) = a .. b
    BY <1>4
  <2> HIDE DEF a
  <2>3. Cardinality(a .. b) = IF a > b THEN 0 ELSE b - a + 1
    BY <2>1, FS_Interval
  <2>4. Cardinality(Neu) = IF a > b THEN 0 ELSE b - a + 1
    BY <1>3, <2>2, <2>3
  <2>5. QED BY <1>2, <1>4, <2>4 DEF a
<1> HIDE DEF ende
<1>5. verw.phase \in {"nie", "wartet"} => zaehler.abstuerze # 0
  BY <1>1 DEF StartOK, Laeuft
<1>6. verw.phase \in {"nie", "wartet"} /\ zaehler.abstuerze <= 1 => lauf' # "verweigert"
  <2> SUFFICES ASSUME verw.phase \in {"nie", "wartet"}, zaehler.abstuerze <= 1 PROVE lauf' = "laeuft"
    OBVIOUS
  <2>1. zaehler.abstuerze = 1
    BY <1>2, <1>5
  <2>2. PICK b \in Nat : db.marke <= b /\ Seqs(Neu) = db.marke + 1 .. b
    BY <1>1, <2>1 DEF StartOK
  <2>3. QED BY <1>1, <1>4, <2>2
<1>7. lauf' # "aus"
  BY <1>1
<1>8. QED BY <1>1, <1>5, <1>6, <1>7 DEF StartOK

\* Every step keeps what the first restart needs.
LEMMA StartSchritt ==
  ASSUME Grund, PhaseOK, StartOK, [Next]_vars
  PROVE  StartOK'
<1>1. CASE Next
  <2>1. verw'.phase \in {"nie", "wartet"} => verw.phase \in {"nie", "wartet"}
    BY <1>1, PhaseTut
  <2>2. CASE verw'.phase \notin {"nie", "wartet"}
    BY <2>2 DEF StartOK
  <2>3. CASE verw.phase \in {"nie", "wartet"}
    <3>1. Ordentlich /\ ~VerwerfenLeert /\ ~VerwerfenMarke
      BY <2>3, VerwerfenPhase DEF PhaseOK
    <3>2. CASE \E bis \in 0 .. wal.naechste : Absturz(bis)
      BY <2>1, <3>2, StartAbsturz
    <3>3. CASE Wiederanlauf
      BY <3>3, StartWiederanlauf
    <3>4. QED BY <1>1, <2>1, <3>1, <3>2, <3>3, StartLaeuft
  <2>4. QED BY <2>1, <2>2, <2>3
<1>2. CASE UNCHANGED vars
  BY <1>2 DEF vars, StartOK, Lueckenlos, Laeuft, Neu, Seqs
<1>3. QED BY <1>1, <1>2

\* A node that has not lost the leadership starts again after its first crash, wherever
\* the crash cut the file and whatever compaction took away.
THEOREM StartNachEinemAbsturzGilt == Spec => []StartNachEinemAbsturz
<1>1. Init => Grund /\ PhaseOK /\ StartOK
  <2>1. Init => StartOK
    BY DEF Init, StartOK, Laeuft, Lueckenlos
  <2>2. QED BY <2>1, GrundStart, PhaseStart
<1>2. Grund /\ PhaseOK /\ StartOK /\ [Next]_vars => (Grund /\ PhaseOK /\ StartOK)'
  BY GrundSchritt, PhaseSchritt, StartSchritt
<1>3. StartOK => StartNachEinemAbsturz
  BY DEF StartOK, StartNachEinemAbsturz
<1>4. QED BY <1>1, <1>2, <1>3, PTL DEF Spec

-----------------------------------------------------------------------------
(***************************************************************************)
(* The order of application, as long as no crash has taken back numbers a  *)
(* committed row is counted among.                                         *)
(***************************************************************************)
\* x was applied before y.
Vor(x, y) == \E i, j \in DOMAIN folge : i < j /\ folge[i] = x /\ folge[j] = y

\* Where the entries of the next blocks come from, and all that says when an order was
\* applied.
Platz   == ImKorb \cup ImBau \cup db.zeilen \cup Schnelle(schwebend)
Bekannt == Platz \cup wal.saetze

\* Entries that share an account stand in the order of application.
NachFolge == \A e, y \in Bekannt : Teilen(e.tx, y.tx) /\ Vor(e.tx, y.tx) => Frueher(e, y)

\* A row under way comes after all that is applied on its accounts.
HintenAn == \A y \in Zeilen(schwebend), e \in Bekannt : Teilen(e.tx, y.tx) => Frueher(e, y)

\* The records a row was counted among, on its own accounts, are durable.
Gesichert ==
  \A y \in ZeilenE, r \in wal.saetze :
    Teilen(r.tx, y.tx) /\ (y \in schwebend \/ Vor(r.tx, y.tx)) => r.seq <= wal.haltbar

\* The shard locks.
Getrennt == \A e, y \in schwebend : e # y => ~Teilen(e.tx, y.tx)

Reihe == NachFolge /\ HintenAn /\ Gesichert /\ Getrennt

\* No row has a number the log has not reached.
NichtVoraus == Laeuft => \A z \in ZeilenE : z.seq <= wal.naechste

\* The block under construction has all that belongs before what it has.
Vollstaendig ==
  bau.phase \in {"gemischt", "gekuerzt"} =>
    \A y \in ImBau, e \in Platz : Teilen(e.tx, y.tx) /\ Vor(e.tx, y.tx) => e \in ImBau

\* In the blocks every order comes after those applied before it on its accounts.
BlockFolgt ==
  \A j \in DOMAIN db.bloecke, x \in Auftraege :
    Vor(x, db.bloecke[j]) /\ Teilen(x, db.bloecke[j]) /\ x \notin verworfen
      => \E v \in 1 .. j - 1 : db.bloecke[v] = x

\* Every row shares an account with every fast transfer.
AlleTreffen == \A z \in Langsam, s \in Schnell : Teilen(z, s)

\* A restart takes up no number a row is already counted behind.
ZeilenGedeckt == AlleTreffen => \A z \in ZeilenE : Gedeckt(z.seq - 1)

\* The last number given out is in the file or noted by compaction.
LetzteNummer == Laeuft => wal.naechste - 1 <= wal.hwm \/ \E r \in wal.saetze : r.seq = wal.naechste - 1

\* Before a superseded leader looks at what is outgoing, and with no crash or all rows
\* behind the whole log.
Bedingt == verw.phase \in {"nie", "wartet"} /\ (zaehler.abstuerze = 0 \/ AlleTreffen)

ReiheOK == Bedingt => Reihe /\ NichtVoraus /\ Vollstaendig /\ ZeilenGedeckt /\ BlockFolgt

\* What the proofs use of an entry somewhere: it is applied.
LEMMA BekanntTyp ==
  ASSUME Grund
  PROVE  /\ Bekannt \in SUBSET Eintraege /\ Platz \subseteq Bekannt
         /\ Bekannt \subseteq SchnelleE \cup ZeilenE /\ schwebend \subseteq SchnelleE \cup ZeilenE
         /\ Bekannt \cup schwebend \in SUBSET Eintraege
         /\ \A e \in Bekannt : e.tx \in Angewendet
         /\ \A e \in Bekannt : AusWAL(e) => e \in SchnelleE
         /\ \A e \in Bekannt : ~AusWAL(e) => e \in db.zeilen \cup Zeilen(ImBau)
<1>1. Bekannt \in SUBSET Eintraege /\ schwebend \in SUBSET Eintraege
  <2>1. /\ ImKorb \in SUBSET Eintraege /\ ImBau \in SUBSET Eintraege /\ db.zeilen \in SUBSET Eintraege
        /\ schwebend \in SUBSET Eintraege /\ wal.saetze \in SUBSET Eintraege
    BY StandTyp DEF Grund, Typ
  <2>2. QED BY <2>1 DEF Bekannt, Platz, Schnelle
<1>2. ASSUME NEW e \in Bekannt, AusWAL(e) PROVE e \in SchnelleE
  <2>1. CASE e \in db.zeilen
    BY <1>2, <2>1 DEF Grund, Nummern, ZeilenOK, ZeilenE
  <2>2. QED BY <1>2, <2>1 DEF Bekannt, Platz, SchnelleE, Schnelle
<1>3. ASSUME NEW e \in Bekannt, ~AusWAL(e) PROVE e \in db.zeilen \cup Zeilen(ImBau)
  <2>1. \A x \in wal.saetze \cup ImKorb \cup Schnelle(schwebend) : AusWAL(x)
    BY DEF Grund, Nummern, SchnelleOK, SchnelleE
  <2>2. QED BY <1>3, <2>1 DEF Bekannt, Platz, Zeilen
<1>4. ASSUME NEW e \in Bekannt PROVE e.tx \in Angewendet
  <2>1. CASE AusWAL(e)
    BY <1>2, <2>1 DEF Grund, Nummern, SchnelleOK
  <2>2. CASE ~AusWAL(e)
    BY <1>3, <2>2 DEF Grund, Nummern, AnnahmenOK
  <2>3. QED BY <2>1, <2>2
<1>5. Platz \subseteq Bekannt
  BY DEF Bekannt
<1>6. Bekannt \subseteq SchnelleE \cup ZeilenE
  BY <1>2, <1>3 DEF ZeilenE
<1>7. schwebend \subseteq SchnelleE \cup ZeilenE
  BY DEF SchnelleE, ZeilenE, Schnelle, Zeilen
<1>8. QED BY <1>1, <1>2, <1>3, <1>4, <1>5, <1>6, <1>7

\* Applying one more order puts it behind all others.
LEMMA VorAngehaengt ==
  ASSUME folge \in Seq(Auftraege), NEW t \in Auftraege, t \notin Angewendet, folge' = Append(folge, t)
  PROVE  \A x, y : Vor(x, y)' => /\ x \in Angewendet /\ x # t
                                 /\ y # t => Vor(x, y)
<1> SUFFICES ASSUME NEW x, NEW y, Vor(x, y)'
             PROVE  x \in Angewendet /\ x # t /\ (y # t => Vor(x, y))
  OBVIOUS
<1>1. PICK i \in DOMAIN folge', j \in DOMAIN folge' : i < j /\ folge'[i] = x /\ folge'[j] = y
  BY DEF Vor
<1>2. DOMAIN folge' = 1 .. Len(folge) + 1 /\ Len(folge) \in Nat /\ folge'[Len(folge) + 1] = t
      /\ \A k \in 1 .. Len(folge) : folge'[k] = folge[k]
  OBVIOUS
<1>3. i \in 1 .. Len(folge) /\ (j \in 1 .. Len(folge) \/ j = Len(folge) + 1)
  BY <1>1, <1>2
<1>4. x = folge[i] /\ DOMAIN folge = 1 .. Len(folge)
  BY <1>1, <1>2, <1>3
<1>5. x \in Angewendet
  BY <1>3, <1>4 DEF Angewendet, ToSet
<1>6. y # t => Vor(x, y)
  BY <1>1, <1>2, <1>3, <1>4 DEF Vor
<1>7. QED BY <1>5, <1>6

\* Orders applied one before the other.
LEMMA VorTyp ==
  \A x, y : Vor(x, y) => x \in Angewendet /\ y \in Angewendet
  BY DEF Vor, Angewendet, ToSet

\* A crash takes orders back and leaves the others in their order.
LEMMA VorAbsturz ==
  ASSUME Grund, NEW bis, Absturz(bis)
  PROVE  \A x, y : Vor(x, y)' => Vor(x, y)
<1> DEFINE I == {i \in DOMAIN folge : folge[i] \notin Txs({r \in wal.saetze : r.seq > bis})}
<1>1. folge' = Ausgewaehlt(folge, I) /\ folge \in Seq(Auftraege) /\ I \in SUBSET DOMAIN folge
  BY DEF Absturz, Grund, Typ
<1> HIDE DEF I
<1>2. PICK n \in Nat : \E p : Waehlt(n, p, folge, I)
  BY <1>1, AusgewaehltReihe
<1>3. PICK p : Waehlt(n, p, folge, I)
  BY <1>2
<1>4. /\ folge' = [i \in 1 .. n |-> folge[p[i]]] /\ p \in [1 .. n -> I]
      /\ \A i, j \in 1 .. n : i < j => p[i] < p[j]
  BY <1>1, <1>3 DEF Waehlt
<1>5. SUFFICES ASSUME NEW x, NEW y, Vor(x, y)' PROVE Vor(x, y)
  OBVIOUS
<1>6. PICK i \in DOMAIN folge', j \in DOMAIN folge' : i < j /\ folge'[i] = x /\ folge'[j] = y
  BY <1>5 DEF Vor
<1>7. i \in 1 .. n /\ j \in 1 .. n
  BY <1>4, <1>6
<1>8. p[i] \in DOMAIN folge /\ p[j] \in DOMAIN folge /\ p[i] < p[j] /\ folge[p[i]] = x /\ folge[p[j]] = y
  BY <1>1, <1>4, <1>6, <1>7
<1>9. QED BY <1>8 DEF Vor

\* A step that adds no entry and no order.
LEMMA ReiheBleibt ==
  ASSUME Grund, Reihe, Bekannt' \subseteq Bekannt, schwebend' \subseteq schwebend, ZeilenE' \subseteq ZeilenE,
         wal'.saetze \subseteq wal.saetze, wal.haltbar <= wal'.haltbar, wal'.haltbar \in Nat,
         \A x, y : Vor(x, y)' => Vor(x, y)
  PROVE  Reihe'
<1>1. NachFolge'
  BY DEF Reihe, NachFolge
<1>2. HintenAn'
  BY DEF Reihe, HintenAn, Zeilen
<1>3. Gesichert'
  <2> SUFFICES ASSUME NEW y \in ZeilenE', NEW r \in wal'.saetze, Teilen(r.tx, y.tx), y \in schwebend' \/ Vor(r.tx, y.tx)'
               PROVE  r.seq <= wal'.haltbar
    BY DEF Gesichert
  <2>1. y \in schwebend \/ Vor(r.tx, y.tx)
    OBVIOUS
  <2>2. r.seq <= wal.haltbar
    BY <2>1 DEF Reihe, Gesichert
  <2>3. wal.haltbar \in Nat /\ r.seq \in Nat
    BY StandTyp, ZahlenTyp DEF Grund
  <2>4. QED BY <2>2, <2>3
<1>4. Getrennt'
  BY DEF Reihe, Getrennt
<1>5. QED BY <1>1, <1>2, <1>3, <1>4 DEF Reihe

\* A step that leaves blocks and discarded orders alone, and puts no order before one that
\* is in a block.
LEMMA BlockFolgtBleibt ==
  ASSUME Grund, VerblocktOK, BlockFolgt, db'.bloecke = db.bloecke, verworfen \subseteq verworfen',
         \A x, y : y \in Angewendet /\ Vor(x, y)' => Vor(x, y)
  PROVE  BlockFolgt'
<1> SUFFICES ASSUME NEW j \in DOMAIN db'.bloecke, NEW x \in Auftraege,
                    Vor(x, db.bloecke[j])', Teilen(x, db.bloecke[j]), x \notin verworfen'
             PROVE  \E v \in 1 .. j - 1 : db.bloecke[v] = x
  BY DEF BlockFolgt
<1>1. j \in DOMAIN db.bloecke /\ db.bloecke[j] \in Angewendet
  BY DEF VerblocktOK, Verblockt, ToSet
<1>2. Vor(x, db.bloecke[j])
  BY <1>1
<1>3. x \notin verworfen
  OBVIOUS
<1>4. QED BY <1>1, <1>2, <1>3 DEF BlockFolgt

\* What the steps that add no entry leave behind.
Weniger ==
  /\ Platz' \subseteq Platz /\ Bekannt' \subseteq Bekannt /\ schwebend' \subseteq schwebend /\ ZeilenE' \subseteq ZeilenE
  /\ wal'.saetze \subseteq wal.saetze /\ wal.haltbar <= wal'.haltbar /\ wal'.haltbar \in Nat
  /\ Laeuft /\ lauf' = lauf /\ wal'.naechste = wal.naechste /\ folge' = folge

\* Steps of acceptance, log and discarding that add none.
LEMMA WenigerLeicht ==
  ASSUME Grund,
         \/ \E t \in Auftraege : AnnahmeBeginnt(t)
         \/ \E t \in annahmen : AnnahmeAbgelehnt(t)
         \/ \E e \in schwebend : LangsamScheitert(e)
         \/ \E bis : Sichern(bis)
         \/ \E ab : Kuerzen(ab)
         \/ BauTor
         \/ UeberholtGemeldet \/ VerwerfenPrueft \/ ResyncFertig
  PROVE  Weniger /\ bau'.inhalt = bau.inhalt /\ db' = db /\ zaehler'.abstuerze = zaehler.abstuerze
<1>0. wal.haltbar \in Nat
  BY StandTyp DEF Grund
<1>1. /\ db' = db /\ korb' = korb /\ bau'.inhalt = bau.inhalt /\ schwebend' \subseteq schwebend /\ folge' = folge
      /\ wal'.saetze \subseteq wal.saetze /\ wal.haltbar <= wal'.haltbar /\ wal'.haltbar \in Nat
      /\ Laeuft /\ lauf' = lauf /\ wal'.naechste = wal.naechste /\ zaehler'.abstuerze = zaehler.abstuerze
  <2>1. CASE (\E t \in Auftraege : AnnahmeBeginnt(t)) \/ \E t \in annahmen : AnnahmeAbgelehnt(t)
    BY <1>0, <2>1, AnnahmeTut
  <2>2. CASE \E e \in schwebend : LangsamScheitert(e)
    BY <1>0, <2>2, LangsamScheitertTut
  <2>3. CASE \E bis : Sichern(bis)
    BY <1>0, <2>3, SichernTut
  <2>4. CASE \E ab : Kuerzen(ab)
    BY <1>0, <2>4, KuerzenTut
  <2>5. CASE BauTor
    BY <1>0, <2>5, BauTorTut
  <2>6. CASE UeberholtGemeldet \/ VerwerfenPrueft \/ ResyncFertig
    BY <1>0, <2>6, VerwerfenTut
  <2>7. QED BY <2>1, <2>2, <2>3, <2>4, <2>5, <2>6
<1>2. ImKorb' = ImKorb /\ ImBau' = ImBau
  BY <1>1 DEF ImKorb, ImBau
<1>3. Schnelle(schwebend') \subseteq Schnelle(schwebend) /\ Zeilen(schwebend') \subseteq Zeilen(schwebend)
  BY <1>1 DEF Schnelle, Zeilen
<1>4. Platz' \subseteq Platz /\ ZeilenE' \subseteq ZeilenE
  BY <1>1, <1>2, <1>3 DEF Platz, ZeilenE, Schnelle, Zeilen
<1>5. Bekannt' \subseteq Bekannt
  BY <1>1, <1>4 DEF Bekannt
<1>6. QED BY <1>1, <1>4, <1>5 DEF Weniger

\* The Korb's part of a step, and the builder's.
LEMMA WenigerBau ==
  ASSUME Grund, ImKorb' \cup ImBau' \subseteq ImKorb \cup ImBau \cup db.zeilen \cup Schnelle(schwebend),
         db'.zeilen \subseteq db.zeilen, Zeilen(ImBau') \subseteq Zeilen(ImBau) \cup db.zeilen,
         schwebend' \subseteq schwebend, UNCHANGED <<wal, lauf, folge>>, Laeuft
  PROVE  Weniger
<1>1. wal.haltbar \in Nat
  BY StandTyp DEF Grund
<1>2. Schnelle(schwebend') \subseteq Schnelle(schwebend) /\ Zeilen(schwebend') \subseteq Zeilen(schwebend)
  BY DEF Schnelle, Zeilen
<1>3. Platz' \subseteq Platz
  BY <1>2 DEF Platz, Schnelle
<1>4. ZeilenE' \subseteq ZeilenE
  BY <1>2 DEF ZeilenE, Zeilen
<1>5. wal' = wal /\ Bekannt' \subseteq Bekannt
  BY <1>3 DEF Bekannt
<1>6. QED BY <1>1, <1>3, <1>4, <1>5 DEF Weniger

\* The steps of Korb and builder add none.
LEMMA WenigerBauSchritte ==
  ASSUME Grund,
         \/ \E e \in schwebend : Einreihen(e)
         \/ BauNimmt \/ BauMischt \/ BauSpeichert \/ BauScheitert
         \/ \E j : BauKuerzt(j)
  PROVE  Weniger /\ wal' = wal /\ zaehler'.abstuerze = zaehler.abstuerze
<1>1. CASE \E e \in schwebend : Einreihen(e)
  <2>1. PICK e \in schwebend : Einreihen(e)
    BY <1>1
  <2>2. /\ Laeuft /\ AusWAL(e) /\ schwebend' = schwebend \ {e} /\ ImKorb' \subseteq ImKorb \cup {e}
        /\ UNCHANGED <<wal, db, bau, lauf, folge, zaehler>>
    BY <2>1, EinreihenTut
  <2>3. ImBau' = ImBau /\ e \in Schnelle(schwebend) /\ Zeilen(ImBau') = Zeilen(ImBau) /\ db'.zeilen = db.zeilen
    BY <2>2 DEF ImBau, Schnelle, Zeilen
  <2>4. QED BY <2>2, <2>3, WenigerBau
<1>2. CASE BauNimmt
  <2>1. /\ Laeuft /\ UNCHANGED <<wal, db, schwebend, lauf, folge, zaehler>> /\ ImKorb = ImBau' \cup ImKorb'
        /\ \A x \in ImBau' : AusWAL(x)
    BY <1>2, BauNimmtTut
  <2>2. Zeilen(ImBau') = {} /\ db'.zeilen = db.zeilen
    BY <2>1 DEF Zeilen
  <2>3. QED BY <2>1, <2>2, WenigerBau
<1>3. CASE BauMischt
  <2>1. /\ Laeuft /\ UNCHANGED <<wal, schwebend, lauf, folge, zaehler>> /\ ImBau' \subseteq ImBau \cup Offen
        /\ korb'.warten = korb.warten /\ ToSet(korb'.bereit) = ToSet(korb.bereit) \cup (ImBau \ ImBau')
        /\ db'.zeilen = db.zeilen
    BY <1>3, BauMischtTut
  <2>2. Offen \subseteq db.zeilen
    BY DEF Offen
  <2>3. Zeilen(ImBau') \subseteq Zeilen(ImBau) \cup db.zeilen
    BY <2>1, <2>2 DEF Zeilen
  <2>4. ImKorb' \subseteq ImKorb \cup ImBau
    BY <2>1 DEF ImKorb
  <2>5. QED BY <2>1, <2>2, <2>3, <2>4, WenigerBau
<1>4. CASE BauScheitert
  <2>1. /\ Laeuft /\ UNCHANGED <<wal, schwebend, lauf, folge>> /\ ImBau' = {} /\ zaehler'.abstuerze = zaehler.abstuerze
        /\ korb'.warten = korb.warten /\ ToSet(korb'.bereit) = ToSet(korb.bereit) \cup Schnelle(ImBau)
        /\ db'.zeilen = db.zeilen
    BY <1>4, BauScheitertTut
  <2>2. Zeilen(ImBau') = {} /\ ImKorb' \subseteq ImKorb \cup ImBau
    BY <2>1 DEF Zeilen, ImKorb, Schnelle
  <2>3. QED BY <2>1, <2>2, WenigerBau
<1>5. CASE \E j : BauKuerzt(j)
  <2>1. /\ Laeuft /\ UNCHANGED <<wal, schwebend, lauf, folge, zaehler>> /\ ImBau' \subseteq ImBau
        /\ korb'.warten = korb.warten /\ ToSet(korb'.bereit) = ToSet(korb.bereit) \cup Schnelle(ImBau \ ImBau')
        /\ db'.zeilen = db.zeilen
    BY <1>5, BauKuerztTut
  <2>2. Zeilen(ImBau') \subseteq Zeilen(ImBau) /\ ImKorb' \subseteq ImKorb \cup ImBau
    BY <2>1 DEF Zeilen, ImKorb, Schnelle
  <2>3. QED BY <2>1, <2>2, WenigerBau
<1>6. CASE BauSpeichert
  <2>1. /\ Laeuft /\ UNCHANGED <<wal, korb, schwebend, lauf, folge, zaehler>> /\ ImBau' = {}
        /\ db'.zeilen = db.zeilen \ ImBau
    BY <1>6, BauSpeichertTut
  <2>2. Zeilen(ImBau') = {} /\ ImKorb' = ImKorb
    BY <2>1 DEF Zeilen, ImKorb
  <2>3. QED BY <2>1, <2>2, WenigerBau
<1>7. QED BY <1>1, <1>2, <1>3, <1>4, <1>5, <1>6

\* The order of application survives such a step.
LEMMA ReiheWeniger ==
  ASSUME Grund, Reihe, NichtVoraus, Weniger
  PROVE  Reihe' /\ NichtVoraus'
<1>1. \A x, y : Vor(x, y)' => Vor(x, y)
  BY DEF Weniger, Vor
<1>2. Reihe'
  BY <1>1, ReiheBleibt DEF Weniger
<1>3. NichtVoraus'
  BY DEF NichtVoraus, Weniger, Laeuft
<1>4. QED BY <1>2, <1>3

\* Compaction notes the number that goes with the records; else nothing that covers a
\* row's number goes.
LEMMA ZeilenGedecktWeniger ==
  ASSUME Grund, NichtVoraus, ZeilenGedeckt, Weniger, wal'.hwm \in Nat,
         (wal'.saetze = wal.saetze /\ wal'.hwm = wal.hwm) \/ wal'.hwm = wal.naechste - 1
  PROVE  ZeilenGedeckt'
<1>1. /\ wal.haltbar \in Nat /\ wal.naechste \in Nat /\ wal.hwm \in Nat /\ (\A r \in wal.saetze : r.seq \in Nat)
      /\ \A z \in ZeilenE : z.seq \in Nat
  BY StandTyp, ZahlenTyp DEF Grund
<1>2. ASSUME AlleTreffen, NEW z \in ZeilenE' PROVE Gedeckt(z.seq - 1)'
  <2>1. z \in ZeilenE /\ z.seq <= wal.naechste /\ Gedeckt(z.seq - 1)
    BY <1>2 DEF Weniger, NichtVoraus, ZeilenGedeckt
  <2>2. CASE wal'.saetze = wal.saetze /\ wal'.hwm = wal.hwm
    <3>1. CASE z.seq - 1 <= wal.hwm
      BY <2>2, <3>1 DEF Gedeckt
    <3>2. CASE \E r \in wal.saetze : z.seq - 1 <= r.seq /\ r.seq <= wal.haltbar
      <4>1. PICK r \in wal.saetze : z.seq - 1 <= r.seq /\ r.seq <= wal.haltbar
        BY <3>2
      <4>2. r.seq <= wal'.haltbar
        BY <1>1, <4>1 DEF Weniger
      <4>3. QED BY <2>2, <4>1, <4>2 DEF Gedeckt
    <3>3. QED BY <2>1, <3>1, <3>2 DEF Gedeckt
  <2>3. CASE wal'.hwm = wal.naechste - 1
    <3>1. z.seq - 1 <= wal'.hwm
      BY <1>1, <2>1, <2>3
    <3>2. QED BY <3>1 DEF Gedeckt
  <2>4. QED BY <2>2, <2>3
<1>3. QED BY <1>2 DEF ZeilenGedeckt

\* Sharing an account works both ways.
LEMMA TeilenBeide == \A x, y : Teilen(x, y) => Teilen(y, x)
  BY DEF Teilen

\* An order that may lock its accounts shares none with those under way.
LEMMA FreiTeiltNicht ==
  ASSUME NEW t, Konten[t] \cap Gesperrt = {}
  PROVE  \A y \in schwebend : ~Teilen(t, y.tx) /\ ~Teilen(y.tx, t)
  BY DEF Teilen, Gesperrt

\* AppendAsync: the new number is above all others, and no row stands above it.
LEMMA ReiheAnhaengen ==
  ASSUME Grund, Reihe, NichtVoraus, ZeilenGedeckt, Vollstaendig, NEW t \in annahmen, Anhaengen(t)
  PROVE  Reihe' /\ NichtVoraus' /\ ZeilenGedeckt' /\ Vollstaendig'
<1> DEFINE e == [seq |-> wal.naechste, id |-> 0, tx |-> t]
<1>0. /\ wal.naechste \in Nat /\ wal.haltbar \in Nat /\ t \in Auftraege /\ folge \in Seq(Auftraege)
      /\ \A z \in ZeilenE : z.seq \in Nat
  BY StandTyp, ZahlenTyp DEF Grund, Typ
<1>1. /\ Laeuft /\ t \in Schnell /\ Konten[t] \cap Gesperrt = {} /\ e \in Eintraege /\ AusWAL(e)
      /\ wal'.saetze = wal.saetze \cup {e} /\ wal'.naechste = wal.naechste + 1
      /\ wal'.haltbar = wal.haltbar /\ wal'.hwm = wal.hwm
      /\ schwebend' = schwebend \cup {e} /\ folge' = Append(folge, t)
      /\ UNCHANGED <<db, korb, bau, lauf>>
  BY AnhaengenTut
<1>2. e.seq = wal.naechste /\ e.tx = t
  OBVIOUS
<1> HIDE DEF e
<1>3. t \notin Angewendet
  BY DEF Grund, Nummern, AnnahmenOK
<1>4. \A x, y : Vor(x, y)' => x \in Angewendet /\ x # t /\ (y # t => Vor(x, y))
  BY <1>0, <1>1, <1>3, VorAngehaengt
<1>5. /\ Schnelle(schwebend') = Schnelle(schwebend) \cup {e} /\ Zeilen(schwebend') = Zeilen(schwebend)
      /\ ImKorb' = ImKorb /\ ImBau' = ImBau /\ db'.zeilen = db.zeilen
  BY <1>1 DEF Schnelle, Zeilen, ImKorb, ImBau
<1>6. Platz' = Platz \cup {e} /\ Bekannt' = Bekannt \cup {e} /\ ZeilenE' = ZeilenE
  <2>1. Platz' = Platz \cup {e}
    BY <1>5 DEF Platz
  <2>2. ZeilenE' = ZeilenE
    BY <1>5 DEF ZeilenE, Zeilen
  <2>3. QED BY <1>1, <2>1, <2>2 DEF Bekannt
<1>7. \A x \in Bekannt : x \in Eintraege /\ x.seq \in Nat /\ x.tx \in Angewendet /\ x.tx # t
  BY <1>3, BekanntTyp, EintragTyp
<1>8. ASSUME NEW x \in Bekannt PROVE Frueher(x, e)
  <2>1. CASE AusWAL(x)
    <3>1. x.seq < wal.naechste
      BY <1>1, <2>1, BekanntTyp DEF Grund, Nummern, SchnelleOK
    <3>2. QED BY <1>2, <3>1 DEF Frueher
  <2>2. CASE ~AusWAL(x)
    <3>1. x \in ZeilenE
      BY <2>2, BekanntTyp DEF ZeilenE
    <3>2. x.seq <= wal.naechste /\ x.seq \in Nat
      BY <1>0, <1>1, <3>1 DEF NichtVoraus
    <3>3. x.seq < wal.naechste \/ x.seq = wal.naechste
      BY <1>0, <3>2
    <3>4. QED BY <1>1, <1>2, <2>2, <3>3 DEF Frueher
  <2>3. QED BY <2>1, <2>2
<1>9. NachFolge'
  <2> SUFFICES ASSUME NEW x \in Bekannt', NEW y \in Bekannt', Teilen(x.tx, y.tx), Vor(x.tx, y.tx)'
               PROVE  Frueher(x, y)
    BY DEF NachFolge
  <2>1. x \in Bekannt
    BY <1>2, <1>4, <1>6
  <2>2. CASE y = e
    BY <1>8, <2>1, <2>2
  <2>3. CASE y \in Bekannt
    <3>1. Vor(x.tx, y.tx)
      BY <1>4, <1>7, <2>3
    <3>2. QED BY <2>1, <2>3, <3>1 DEF Reihe, NachFolge
  <2>4. QED BY <1>6, <2>2, <2>3
<1>10. HintenAn'
  <2> SUFFICES ASSUME NEW y \in Zeilen(schwebend), NEW x \in Bekannt', Teilen(x.tx, y.tx)
               PROVE  Frueher(x, y)
    BY <1>5 DEF HintenAn
  <2>1. y \in schwebend
    BY DEF Zeilen
  <2>2. x # e
    BY <1>1, <1>2, <2>1, FreiTeiltNicht
  <2>3. QED BY <1>6, <2>2 DEF Reihe, HintenAn
<1>11. Gesichert'
  <2> SUFFICES ASSUME NEW y \in ZeilenE, NEW r \in wal'.saetze, Teilen(r.tx, y.tx), y \in schwebend' \/ Vor(r.tx, y.tx)'
               PROVE  r.seq <= wal.haltbar
    BY <1>1, <1>6 DEF Gesichert
  <2>1. ~AusWAL(y) /\ y.tx # t
    BY <1>1, SchnellOderLangsam DEF Grund, Nummern, ZeilenOK
  <2>2. y \in schwebend \/ Vor(r.tx, y.tx)'
    BY <1>1, <2>1
  <2>3. r # e
    BY <1>1, <1>2, <1>4, <2>2, FreiTeiltNicht
  <2>4. y \in schwebend \/ Vor(r.tx, y.tx)
    BY <1>4, <2>1, <2>2
  <2>5. QED BY <1>1, <2>3, <2>4 DEF Reihe, Gesichert
<1>12. Getrennt'
  BY <1>1, <1>2, FreiTeiltNicht DEF Reihe, Getrennt
<1>13. NichtVoraus'
  <2>1. ASSUME NEW z \in ZeilenE PROVE z.seq <= wal.naechste + 1
    BY <1>0, <1>1 DEF NichtVoraus
  <2>2. QED BY <1>1, <1>6, <2>1 DEF NichtVoraus
<1>14. ZeilenGedeckt'
  BY <1>1, <1>6 DEF ZeilenGedeckt, Gedeckt
<1>15. Vollstaendig'
  <2> SUFFICES ASSUME bau.phase \in {"gemischt", "gekuerzt"}, NEW y \in ImBau, NEW x \in Platz',
                      Teilen(x.tx, y.tx), Vor(x.tx, y.tx)'
               PROVE  x \in ImBau
    BY <1>1, <1>5 DEF Vollstaendig
  <2>1. y \in Bekannt /\ x # e
    BY <1>2, <1>4 DEF Bekannt, Platz
  <2>2. Vor(x.tx, y.tx)
    BY <1>4, <1>7, <2>1
  <2>3. QED BY <1>6, <2>1, <2>2 DEF Vollstaendig
<1>16. QED BY <1>9, <1>10, <1>11, <1>12, <1>13, <1>14, <1>15 DEF Reihe

\* The INSERT of the serial path: the row's number is above all records, its id above all
\* ids, and the records on its accounts are durable.
LEMMA ReiheLangsamBeginnt ==
  ASSUME Grund, Reihe, NichtVoraus, ZeilenGedeckt, Vollstaendig, LetzteNummer, NEW t \in annahmen, LangsamBeginnt(t)
  PROVE  Reihe' /\ NichtVoraus' /\ ZeilenGedeckt' /\ Vollstaendig'
<1> DEFINE e == [seq |-> wal.naechste, id |-> db.id + 1, tx |-> t]
<1>0. /\ wal.naechste \in Nat /\ wal.haltbar \in Nat /\ db.id \in Nat
      /\ \A z \in ZeilenE : z.seq \in Nat /\ z.id \in Nat
  BY StandTyp, ZahlenTyp DEF Grund
<1>1. /\ Laeuft /\ t \in Langsam /\ Konten[t] \cap Gesperrt = {} /\ ~AusWAL(e)
      /\ \A r \in wal.saetze : Teilen(r.tx, t) => r.seq <= wal.haltbar
      /\ db'.zeilen = db.zeilen /\ schwebend' = schwebend \cup {e}
      /\ UNCHANGED <<wal, korb, bau, lauf, folge>>
  BY LangsamBeginntTut
<1>2. e.seq = wal.naechste /\ e.tx = t /\ e.id = db.id + 1
  OBVIOUS
<1> HIDE DEF e
<1>3. \A x, y : Vor(x, y)' <=> Vor(x, y)
  BY <1>1 DEF Vor
<1>4. /\ Schnelle(schwebend') = Schnelle(schwebend) /\ Zeilen(schwebend') = Zeilen(schwebend) \cup {e}
      /\ ImKorb' = ImKorb /\ ImBau' = ImBau
  BY <1>1 DEF Schnelle, Zeilen, ImKorb, ImBau
<1>5. Platz' = Platz /\ Bekannt' = Bekannt /\ ZeilenE' = ZeilenE \cup {e}
  <2>1. Platz' = Platz
    BY <1>1, <1>4 DEF Platz
  <2>2. ZeilenE' = ZeilenE \cup {e}
    BY <1>1, <1>4 DEF ZeilenE, Zeilen
  <2>3. wal'.saetze = wal.saetze
    BY <1>1
  <2>4. QED BY <2>1, <2>2, <2>3 DEF Bekannt
<1>6. ASSUME NEW x \in Bekannt PROVE Frueher(x, e)
  <2>1. CASE AusWAL(x)
    <3>1. x.seq < wal.naechste
      BY <1>1, <2>1, BekanntTyp DEF Grund, Nummern, SchnelleOK
    <3>2. QED BY <1>2, <3>1 DEF Frueher
  <2>2. CASE ~AusWAL(x)
    <3>1. x \in ZeilenE
      BY <2>2, BekanntTyp DEF ZeilenE
    <3>2. x.seq <= wal.naechste /\ x.id <= db.id
      BY <1>1, <3>1 DEF NichtVoraus, Grund, Nummern, ZeilenOK
    <3>3. (x.seq < wal.naechste \/ x.seq = wal.naechste) /\ x.id < db.id + 1
      BY <1>0, <3>1, <3>2
    <3>4. QED BY <1>2, <2>2, <3>3 DEF Frueher
  <2>3. QED BY <2>1, <2>2
<1>7. NachFolge'
  BY <1>3, <1>5 DEF Reihe, NachFolge
<1>8. HintenAn'
  BY <1>4, <1>5, <1>6 DEF Reihe, HintenAn
<1>9. Gesichert'
  <2> SUFFICES ASSUME NEW y \in ZeilenE', NEW r \in wal.saetze, Teilen(r.tx, y.tx), y \in schwebend' \/ Vor(r.tx, y.tx)'
               PROVE  r.seq <= wal.haltbar
    BY <1>1 DEF Gesichert
  <2>1. CASE y = e
    BY <1>1, <1>2, <2>1
  <2>2. CASE y # e
    BY <1>1, <1>3, <1>5, <2>2 DEF Reihe, Gesichert
  <2>3. QED BY <2>1, <2>2
<1>10. Getrennt'
  BY <1>1, <1>2, FreiTeiltNicht DEF Reihe, Getrennt
<1>11. NichtVoraus'
  <2>1. ASSUME NEW z \in ZeilenE' PROVE z.seq <= wal.naechste
    BY <1>0, <1>1, <1>2, <1>5 DEF NichtVoraus
  <2>2. QED BY <1>1, <2>1 DEF NichtVoraus
<1>12. ZeilenGedeckt'
  <2>1. ASSUME AlleTreffen PROVE Gedeckt(e.seq - 1)
    <3>1. CASE wal.naechste - 1 <= wal.hwm
      BY <1>2, <3>1 DEF Gedeckt
    <3>2. CASE \E r \in wal.saetze : r.seq = wal.naechste - 1
      <4>1. PICK r \in wal.saetze : r.seq = wal.naechste - 1
        BY <3>2
      <4>2. r.tx \in Schnell
        BY DEF Grund, Nummern, SchnelleOK, SchnelleE
      <4>3. Teilen(r.tx, t)
        BY <1>1, <2>1, <4>2, TeilenBeide DEF AlleTreffen
      <4>4. r.seq <= wal.haltbar /\ e.seq - 1 = r.seq
        BY <1>1, <1>2, <4>1, <4>3
      <4>5. e.seq - 1 <= r.seq
        BY <1>0, <4>1, <4>4
      <4>6. QED BY <4>4, <4>5 DEF Gedeckt
    <3>3. QED BY <1>1, <3>1, <3>2 DEF LetzteNummer
  <2>2. \A n : Gedeckt(n)' <=> Gedeckt(n)
    BY <1>1 DEF Gedeckt
  <2>3. QED BY <1>5, <2>1, <2>2 DEF ZeilenGedeckt
<1>13. Vollstaendig'
  <2>1. bau' = bau
    BY <1>1
  <2>2. QED BY <1>3, <1>4, <1>5, <2>1 DEF Vollstaendig
<1>14. QED BY <1>7, <1>8, <1>9, <1>10, <1>11, <1>12, <1>13 DEF Reihe

\* The COMMIT of the serial path: the row was behind all that is applied on its accounts.
LEMMA ReiheLangsamFertig ==
  ASSUME Grund, Reihe, NichtVoraus, ZeilenGedeckt, Vollstaendig, NEW e \in schwebend, LangsamFertig(e)
  PROVE  Reihe' /\ NichtVoraus' /\ ZeilenGedeckt' /\ Vollstaendig'
<1>1. /\ Laeuft /\ e \in Eintraege /\ ~AusWAL(e) /\ db'.zeilen = db.zeilen \cup {e}
      /\ folge' = Append(folge, e.tx) /\ schwebend' = schwebend \ {e}
      /\ UNCHANGED <<wal, korb, bau, lauf>>
  BY LangsamFertigTut
<1>2. e \in Zeilen(schwebend) /\ e \in ZeilenE /\ e.tx \in Auftraege /\ folge \in Seq(Auftraege)
  BY <1>1, EintragTyp DEF Zeilen, ZeilenE, Grund, Typ
<1>3. e.tx \notin Angewendet
  BY <1>2 DEF Grund, Nummern, AnnahmenOK
<1>4. \A x, y : Vor(x, y)' => x \in Angewendet /\ x # e.tx /\ (y # e.tx => Vor(x, y))
  BY <1>1, <1>2, <1>3, VorAngehaengt
<1>5. /\ Schnelle(schwebend') = Schnelle(schwebend) /\ Zeilen(schwebend') = Zeilen(schwebend) \ {e}
      /\ ImKorb' = ImKorb /\ ImBau' = ImBau /\ wal' = wal
  BY <1>1 DEF Schnelle, Zeilen, ImKorb, ImBau
<1>6. Platz' = Platz \cup {e} /\ Bekannt' = Bekannt \cup {e} /\ ZeilenE' = ZeilenE
  <2>1. Platz' = Platz \cup {e}
    BY <1>1, <1>5 DEF Platz
  <2>2. ZeilenE' = ZeilenE
    BY <1>1, <1>2, <1>5 DEF ZeilenE
  <2>3. QED BY <1>5, <2>1, <2>2 DEF Bekannt
<1>7. \A x \in Bekannt : x.tx \in Angewendet /\ x.tx # e.tx
  BY <1>3, BekanntTyp
<1>8. NachFolge'
  <2> SUFFICES ASSUME NEW x \in Bekannt', NEW y \in Bekannt', Teilen(x.tx, y.tx), Vor(x.tx, y.tx)'
               PROVE  Frueher(x, y)
    BY DEF NachFolge
  <2>1. x \in Bekannt
    BY <1>4, <1>6
  <2>2. CASE y = e
    BY <1>2, <2>1, <2>2 DEF Reihe, HintenAn
  <2>3. CASE y \in Bekannt
    <3>1. Vor(x.tx, y.tx)
      BY <1>4, <1>7, <2>3
    <3>2. QED BY <2>1, <2>3, <3>1 DEF Reihe, NachFolge
  <2>4. QED BY <1>6, <2>2, <2>3
<1>9. HintenAn'
  <2> SUFFICES ASSUME NEW y \in Zeilen(schwebend) \ {e}, NEW x \in Bekannt', Teilen(x.tx, y.tx)
               PROVE  Frueher(x, y)
    BY <1>5 DEF HintenAn
  <2>1. y \in schwebend
    BY DEF Zeilen
  <2>2. x # e
    BY <2>1 DEF Reihe, Getrennt
  <2>3. QED BY <1>6, <2>2 DEF Reihe, HintenAn
<1>10. Gesichert'
  <2> SUFFICES ASSUME NEW y \in ZeilenE, NEW r \in wal.saetze, Teilen(r.tx, y.tx), y \in schwebend' \/ Vor(r.tx, y.tx)'
               PROVE  r.seq <= wal.haltbar
    BY <1>5, <1>6 DEF Gesichert
  <2>1. CASE y = e
    BY <2>1 DEF Reihe, Gesichert
  <2>2. CASE y # e
    <3>1. y.tx # e.tx
      BY <1>2, <2>2 DEF Grund, Nummern, ZeilenOK
    <3>2. y \in schwebend \/ Vor(r.tx, y.tx)
      BY <1>1, <1>4, <3>1
    <3>3. QED BY <3>2 DEF Reihe, Gesichert
  <2>3. QED BY <2>1, <2>2
<1>11. Getrennt'
  BY <1>1 DEF Reihe, Getrennt
<1>12. NichtVoraus'
  BY <1>1, <1>5, <1>6 DEF NichtVoraus
<1>13. ZeilenGedeckt'
  BY <1>5, <1>6 DEF ZeilenGedeckt, Gedeckt
<1>14. Vollstaendig'
  <2> SUFFICES ASSUME bau.phase \in {"gemischt", "gekuerzt"}, NEW y \in ImBau, NEW x \in Platz',
                      Teilen(x.tx, y.tx), Vor(x.tx, y.tx)'
               PROVE  x \in ImBau
    BY <1>1, <1>5 DEF Vollstaendig
  <2>1. y \in Bekannt /\ x # e
    BY <1>4 DEF Bekannt, Platz
  <2>2. Vor(x.tx, y.tx)
    BY <1>4, <1>7, <2>1
  <2>3. QED BY <1>6, <2>1, <2>2 DEF Vollstaendig
<1>15. QED BY <1>8, <1>9, <1>10, <1>11, <1>12, <1>13, <1>14 DEF Reihe

\* Of two different entries not both come first.
LEMMA FrueherEinseitig ==
  ASSUME NEW x \in Eintraege, NEW y \in Eintraege, Frueher(x, y)
  PROVE  ~Frueher(y, x)
  BY EintragTyp DEF Frueher, AusWAL

\* The mixture leaves out nothing that belongs before what it takes: all the builder got
\* from the Korb and all open rows are in it, and what is not is above both.
LEMMA VollstaendigMischt ==
  ASSUME Grund, Ordentlich, Reihe, BauMischt
  PROVE  Vollstaendig'
<1> DEFINE F == {e \in ToSet(bau.inhalt) : AusWAL(e)}
           m == Bis(bau.inhalt, bau.alt)
<1>1. /\ Laeuft /\ bau.phase = "genommen" /\ UNCHANGED <<wal, schwebend, folge>>
      /\ ImBau' \subseteq ImBau \cup Offen
      /\ \A x \in ImBau', y \in (ImBau \cup Offen) \ ImBau' : Frueher(x, y)
  BY BauMischtTut
<1>2. /\ m \in Nat /\ (F = {} => m = bau.alt) /\ (F # {} => \E e \in F : e.seq = m)
      /\ \A e \in F : e.seq <= m
  BY StandTyp, BisIst DEF Grund, Lage
<1>3. F = ImBau /\ \A x \in ImBau : AusWAL(x)
  <2>1. Zeilen(ImBau) = {}
    BY <1>1 DEF Grund, Nummern, RuheOK
  <2>2. QED BY <2>1 DEF Zeilen, ImBau
<1>4. Offen = {z \in db.zeilen : z.id \notin db.belegt /\ z.seq <= m + 1}
  BY DEF Offen
<1> HIDE DEF F, m
<1>5. /\ db.belegt = {} /\ bau.alt = db.marke /\ Gehalten = Neu /\ db.marke \in Nat
      /\ \A x \in Schnelle(schwebend) : korb.naechste <= x.seq
  <2>1. Zeilen(ImBau) = {}
    BY <1>3 DEF Zeilen
  <2>2. QED BY <1>1, <2>1, StandTyp DEF Ordentlich, BauHaelt, Grund
<1>6. \A x \in Bekannt : x \in Eintraege /\ x.seq \in Nat
  BY BekanntTyp, EintragTyp
<1>7. ImBau \cup Offen \subseteq Platz /\ Platz \subseteq Bekannt
  BY <1>4 DEF Platz, Bekannt
<1>8. \A y \in Offen : ~AusWAL(y) /\ y.seq <= m + 1
  BY <1>4 DEF Grund, Nummern, ZeilenOK, ZeilenE
<1>9. ASSUME NEW x \in Platz, AusWAL(x), x \notin ImBau PROVE m < x.seq
  <2>1. x \in ImKorb \cup Schnelle(schwebend)
    <3>1. x \notin db.zeilen
      BY <1>9 DEF Grund, Nummern, ZeilenOK, ZeilenE
    <3>2. QED BY <1>9, <3>1 DEF Platz
  <2>2. db.marke < x.seq
    <3>1. x \in Gehalten
      BY <2>1 DEF Gehalten
    <3>2. QED BY <1>5, <1>6, <1>7, <3>1 DEF Neu
  <2>3. ASSUME NEW f \in F PROVE f.seq < x.seq
    <3>0. f \in Schnelle(ImBau) /\ f.seq \in Nat /\ x.seq \in Nat /\ korb.naechste \in Nat
      BY <1>3, <1>6, <1>7, <2>3, StandTyp DEF Schnelle, Grund
    <3>1. CASE x \in ToSet(korb.bereit)
      BY <3>0, <3>1 DEF Grund, Lage
    <3>2. CASE x \in korb.warten
      <4>1. f.seq < korb.naechste /\ korb.naechste < x.seq
        BY <3>0, <3>2 DEF Grund, Lage
      <4>2. QED BY <3>0, <4>1
    <3>3. CASE x \in Schnelle(schwebend)
      <4>1. f.seq < korb.naechste /\ korb.naechste <= x.seq
        BY <1>5, <3>0, <3>3 DEF Grund, Lage
      <4>2. QED BY <3>0, <4>1
    <3>4. QED BY <2>1, <3>1, <3>2, <3>3 DEF ImKorb
  <2>4. CASE F = {}
    BY <1>2, <1>5, <2>2, <2>4
  <2>5. CASE F # {}
    BY <1>2, <2>3, <2>5
  <2>6. QED BY <2>4, <2>5
<1>10. ASSUME NEW x \in Platz, ~AusWAL(x), x \notin Offen PROVE m + 1 < x.seq
  <2>1. x \in db.zeilen
    <3>1. x \in db.zeilen \cup Zeilen(ImBau)
      BY <1>7, <1>10, BekanntTyp
    <3>2. QED BY <1>3, <3>1 DEF Zeilen
  <2>2. ~(x.seq <= m + 1) /\ x.seq \in Nat
    BY <1>4, <1>5, <1>6, <1>7, <1>10, <2>1
  <2>3. QED BY <1>2, <2>2
<1>11. ASSUME NEW y \in ImBau', NEW x \in Platz, Frueher(x, y) PROVE x \in ImBau'
  <2>0. y \in ImBau \cup Offen /\ x \in Eintraege /\ y \in Eintraege /\ x.seq \in Nat /\ y.seq \in Nat
    BY <1>1, <1>6, <1>7
  <2>1. x \in ImBau \cup Offen => x \in ImBau'
    BY <1>1, <1>11, <2>0, FrueherEinseitig
  <2>2. ASSUME x \notin ImBau \cup Offen PROVE FALSE
    <3>1. y.seq <= m \/ (~AusWAL(y) /\ y.seq <= m + 1)
      BY <1>2, <1>3, <1>8, <2>0
    <3>2. CASE AusWAL(x)
      <4>1. m < x.seq
        BY <1>9, <2>2, <3>2
      <4>2. x.seq < y.seq
        BY <1>11, <3>2 DEF Frueher
      <4>3. QED BY <1>2, <2>0, <3>1, <4>1, <4>2
    <3>3. CASE ~AusWAL(x)
      <4>1. m + 1 < x.seq
        BY <1>10, <2>2, <3>3
      <4>2. x.seq <= y.seq
        BY <1>11, <2>0 DEF Frueher
      <4>3. QED BY <1>2, <2>0, <3>1, <4>1, <4>2
    <3>4. QED BY <3>2, <3>3
  <2>3. QED BY <2>1, <2>2
<1>12. SUFFICES ASSUME NEW y \in ImBau', NEW x \in Platz', Teilen(x.tx, y.tx), Vor(x.tx, y.tx)'
                PROVE  x \in ImBau'
  BY DEF Vollstaendig
<1>13. x \in Platz /\ Vor(x.tx, y.tx)
  <2>1. Platz' \subseteq Platz
    BY WenigerBauSchritte DEF Weniger
  <2>2. Vor(x.tx, y.tx)
    BY <1>1, <1>12 DEF Vor
  <2>3. QED BY <1>12, <2>1, <2>2
<1>14. Frueher(x, y)
  BY <1>1, <1>7, <1>12, <1>13 DEF Reihe, NachFolge
<1>15. QED BY <1>11, <1>12, <1>13, <1>14

\* korbPraefix keeps the front: what belongs before it is in the front too.
LEMMA VollstaendigKuerzt ==
  ASSUME Grund, Reihe, Vollstaendig, NEW j, BauKuerzt(j)
  PROVE  Vollstaendig'
<1>1. /\ bau.phase = "gemischt" /\ UNCHANGED folge /\ ImBau' \subseteq ImBau
      /\ \A x \in ImBau', y \in ImBau \ ImBau' : Frueher(x, y)
  BY BauKuerztTut
<1>2. Platz' \subseteq Platz
  BY WenigerBauSchritte DEF Weniger
<1>3. ImBau \subseteq Bekannt /\ Bekannt \in SUBSET Eintraege
  BY BekanntTyp DEF Bekannt, Platz
<1>4. SUFFICES ASSUME NEW y \in ImBau', NEW x \in Platz', Teilen(x.tx, y.tx), Vor(x.tx, y.tx)'
               PROVE  x \in ImBau'
  BY DEF Vollstaendig
<1>5. Vor(x.tx, y.tx)
  BY <1>1, <1>4 DEF Vor
<1>6. x \in ImBau
  BY <1>1, <1>2, <1>4, <1>5 DEF Vollstaendig
<1>7. Frueher(x, y)
  BY <1>1, <1>3, <1>4, <1>5, <1>6 DEF Reihe, NachFolge
<1>8. QED BY <1>1, <1>3, <1>4, <1>6, <1>7, FrueherEinseitig

\* A step that leaves the block under construction alone.
LEMMA VollstaendigBleibt ==
  ASSUME Vollstaendig, Platz' \subseteq Platz, folge' = folge,
         bau'.phase \in {"gemischt", "gekuerzt"} => bau' = bau
  PROVE  Vollstaendig'
<1> SUFFICES ASSUME bau'.phase \in {"gemischt", "gekuerzt"},
                    NEW y \in ImBau', NEW x \in Platz', Teilen(x.tx, y.tx), Vor(x.tx, y.tx)'
             PROVE  x \in ImBau'
  BY DEF Vollstaendig
<1>1. bau' = bau /\ ImBau' = ImBau
  BY DEF ImBau
<1>2. Vor(x.tx, y.tx)
  BY DEF Vor
<1>3. QED BY <1>1, <1>2 DEF Vollstaendig

\* The places of two sequences in a row.
LEMMA Verkettet ==
  ASSUME NEW X, NEW s \in Seq(X), NEW r \in Seq(X)
  PROVE  /\ \A i \in 1 .. Len(s) : (s \o r)[i] = s[i]
         /\ \A i \in 1 .. Len(r) : (s \o r)[Len(s) + i] = r[i]
         /\ DOMAIN (s \o r) = 1 .. Len(s) + Len(r)
  OBVIOUS

\* A block is stored: all that was applied before its orders on their accounts is in an
\* earlier block or further to the front.  After the look of a superseded leader it is in
\* an earlier block or discarded.
LEMMA BlockFolgtSpeichert ==
  ASSUME Grund, VerblocktOK, BlockFolgt, BauSpeichert, (Ordentlich /\ Reihe /\ Vollstaendig) \/ Abgegeben
  PROVE  BlockFolgt'
<1> DEFINE n == Len(db.bloecke)
           txs == [i \in DOMAIN bau.inhalt |-> bau.inhalt[i].tx]
<1>1. /\ Laeuft /\ bau.phase \in {"gemischt", "gekuerzt"} /\ db'.bloecke = db.bloecke \o txs
      /\ UNCHANGED <<folge, verworfen>>
  BY BauSpeichertTut
<1>2. /\ n \in Nat /\ DOMAIN db.bloecke = 1 .. n /\ db.bloecke \in Seq(Auftraege)
      /\ bau.inhalt \in Seq(Eintraege) /\ Len(bau.inhalt) \in Nat /\ DOMAIN bau.inhalt = 1 .. Len(bau.inhalt)
      /\ Aufsteigend(bau.inhalt)
  BY StandTyp DEF Grund, Lage
<1>3. txs \in Seq(Auftraege) /\ Len(txs) = Len(bau.inhalt) /\ \A i \in 1 .. Len(bau.inhalt) : txs[i] = bau.inhalt[i].tx
  <2>1. \A i \in 1 .. Len(bau.inhalt) : bau.inhalt[i].tx \in Auftraege
    BY <1>2, EintragTyp
  <2>2. QED BY <1>2, <2>1
<1> HIDE DEF txs, n
<1>4. /\ \A i \in 1 .. n : db'.bloecke[i] = db.bloecke[i]
      /\ \A i \in 1 .. Len(bau.inhalt) : db'.bloecke[n + i] = bau.inhalt[i].tx
      /\ DOMAIN db'.bloecke = 1 .. n + Len(bau.inhalt)
  <2>1. /\ \A i \in 1 .. n : (db.bloecke \o txs)[i] = db.bloecke[i]
        /\ \A i \in 1 .. Len(txs) : (db.bloecke \o txs)[n + i] = txs[i]
        /\ DOMAIN (db.bloecke \o txs) = 1 .. n + Len(txs)
    <3>1. db.bloecke \in Seq(Auftraege) /\ txs \in Seq(Auftraege) /\ n = Len(db.bloecke)
      BY <1>2, <1>3 DEF n
    <3>2. /\ \A i \in 1 .. Len(db.bloecke) : (db.bloecke \o txs)[i] = db.bloecke[i]
          /\ \A i \in 1 .. Len(txs) : (db.bloecke \o txs)[Len(db.bloecke) + i] = txs[i]
          /\ DOMAIN (db.bloecke \o txs) = 1 .. Len(db.bloecke) + Len(txs)
      BY <3>1, Verkettet
    <3>3. QED BY <3>1, <3>2
  <2>2. QED BY <1>1, <1>3, <2>1
<1>5. SUFFICES ASSUME NEW j \in DOMAIN db'.bloecke, NEW x \in Auftraege,
                      Vor(x, db'.bloecke[j]), Teilen(x, db'.bloecke[j]), x \notin verworfen
               PROVE  \E v \in 1 .. j - 1 : db'.bloecke[v] = x
  <2>1. \A x, y : Vor(x, y)' <=> Vor(x, y)
    BY <1>1 DEF Vor
  <2>2. QED BY <1>1, <2>1 DEF BlockFolgt
<1>6. CASE j \in 1 .. n
  <2>1. db'.bloecke[j] = db.bloecke[j]
    BY <1>4, <1>6
  <2>2. PICK v \in 1 .. j - 1 : db.bloecke[v] = x
    BY <1>2, <1>5, <1>6, <2>1 DEF BlockFolgt
  <2>3. v \in 1 .. n
    BY <1>2, <1>6, <2>2
  <2>4. QED BY <1>4, <2>2, <2>3
<1>7. CASE j \notin 1 .. n
  <2> DEFINE i == j - n
             y == bau.inhalt[i]
  <2>1. i \in 1 .. Len(bau.inhalt) /\ j = n + i
    BY <1>2, <1>4, <1>7
  <2>2. db'.bloecke[j] = y.tx /\ y \in ImBau
    BY <1>2, <1>4, <2>1 DEF ImBau, ToSet
  <2> HIDE DEF y, i
  <2>3. Vor(x, y.tx) /\ Teilen(x, y.tx)
    BY <1>5, <2>2
  <2>4. CASE x \in Verblockt
    <3>1. PICK v \in 1 .. n : db.bloecke[v] = x
      BY <1>2, <2>4 DEF Verblockt, ToSet
    <3>2. v \in 1 .. j - 1 /\ db'.bloecke[v] = x
      BY <1>2, <1>4, <2>1, <3>1
    <3>3. QED BY <3>2
  <2>5. CASE x \notin Verblockt
    <3>0. Ordentlich /\ Reihe /\ Vollstaendig
      <4>1. x \in Angewendet
        BY <2>3, VorTyp
      <4>2. ~Abgegeben
        BY <1>5, <2>5, <4>1 DEF Abgegeben
      <4>3. QED BY <4>2
    <3>1. PICK e \in Platz : e.tx = x
      <4>1. x \in Angewendet
        BY <2>3, VorTyp
      <4>2. x \in Txs(db.zeilen) \/ x \in Txs(Neu)
        BY <2>5, <3>0, <4>1 DEF Ordentlich
      <4>3. Neu = Gehalten
        BY <1>1, <3>0 DEF Ordentlich
      <4>4. Gehalten \cup db.zeilen \subseteq Platz
        BY DEF Gehalten, Platz, Schnelle
      <4>5. QED BY <4>2, <4>3, <4>4 DEF Txs
    <3>2. e \in ImBau
      BY <1>1, <2>2, <2>3, <3>0, <3>1 DEF Vollstaendig
    <3>3. Frueher(e, y)
      BY <2>2, <2>3, <3>0, <3>1 DEF Reihe, NachFolge, Bekannt, Platz
    <3>4. PICK k \in 1 .. Len(bau.inhalt) : bau.inhalt[k] = e
      BY <1>2, <3>2 DEF ImBau, ToSet
    <3>5. e \in Eintraege /\ y \in Eintraege /\ ~Frueher(y, e)
      <4>1. e \in Eintraege /\ y \in Eintraege
        BY <2>2, <3>2, StandTyp DEF Grund
      <4>2. QED BY <3>3, <4>1, FrueherEinseitig
    <3>6. k < i
      <4>1. k # i
        BY <3>3, <3>4, <3>5 DEF y
      <4>2. ~(i < k)
        BY <1>2, <2>1, <3>4, <3>5 DEF y, Aufsteigend
      <4>3. QED BY <1>2, <2>1, <3>4, <4>1, <4>2
    <3>7. n + k \in 1 .. j - 1 /\ db'.bloecke[n + k] = x
      BY <1>2, <1>4, <2>1, <3>1, <3>4, <3>6
    <3>8. QED BY <3>7
  <2>6. QED BY <2>4, <2>5
<1>8. QED BY <1>6, <1>7

\* A crash takes no number away that a row is counted behind.
LEMMA ReiheAbsturz ==
  ASSUME Grund, Reihe, NichtVoraus, ZeilenGedeckt, Vollstaendig, NEW bis, Absturz(bis)
  PROVE  Reihe' /\ NichtVoraus' /\ ZeilenGedeckt' /\ Vollstaendig'
<1>1. /\ bis \in Nat /\ wal.haltbar <= bis /\ wal'.saetze = {r \in wal.saetze : r.seq <= bis}
      /\ wal'.haltbar = wal.haltbar /\ wal'.hwm = wal.hwm /\ lauf' = "aus"
      /\ schwebend' = {} /\ bau' = KeinBau /\ ImKorb' = {} /\ ImBau' = {} /\ db' = db
  BY AbsturzTut
<1>2. wal.haltbar \in Nat /\ \A r \in wal.saetze : r.seq \in Nat
  BY StandTyp, ZahlenTyp DEF Grund
<1>3. wal'.saetze \subseteq wal.saetze /\ db'.zeilen = db.zeilen /\ Schnelle(schwebend') = {} /\ Zeilen(schwebend') = {}
      /\ Zeilen(ImBau') = {}
  BY <1>1 DEF Schnelle, Zeilen
<1>4. Bekannt' \subseteq Bekannt /\ ZeilenE' \subseteq ZeilenE /\ schwebend' \subseteq schwebend
  <2>1. Platz' \subseteq Platz
    BY <1>1, <1>3 DEF Platz
  <2>2. ZeilenE' \subseteq ZeilenE
    BY <1>3 DEF ZeilenE
  <2>3. QED BY <1>1, <1>3, <2>1, <2>2 DEF Bekannt
<1>5. Reihe'
  <2>1. wal.haltbar <= wal'.haltbar /\ wal'.haltbar \in Nat
    BY <1>1, <1>2
  <2>2. \A x, y : Vor(x, y)' => Vor(x, y)
    BY VorAbsturz
  <2>3. QED BY <1>3, <1>4, <2>1, <2>2, ReiheBleibt
<1>6. NichtVoraus'
  BY <1>1 DEF NichtVoraus, Laeuft
<1>7. Vollstaendig'
  BY <1>1 DEF Vollstaendig, KeinBau
<1>8. ZeilenGedeckt'
  <2>1. ASSUME NEW n, Gedeckt(n) PROVE Gedeckt(n)'
    <3>1. CASE n <= wal.hwm
      BY <1>1, <3>1 DEF Gedeckt
    <3>2. CASE \E r \in wal.saetze : n <= r.seq /\ r.seq <= wal.haltbar
      <4>1. PICK r \in wal.saetze : n <= r.seq /\ r.seq <= wal.haltbar
        BY <3>2
      <4>2. r.seq <= bis
        BY <1>1, <1>2, <4>1
      <4>3. QED BY <1>1, <4>1, <4>2 DEF Gedeckt
    <3>3. QED BY <2>1, <3>1, <3>2 DEF Gedeckt
  <2>2. QED BY <1>4, <2>1 DEF ZeilenGedeckt
<1>9. QED BY <1>5, <1>6, <1>7, <1>8

\* A restart hands the records above the mark to the Korb, all durable now, and takes up
\* a number at or above those of the rows.
LEMMA ReiheWiederanlauf ==
  ASSUME Grund, AlleTreffen, Reihe, ZeilenGedeckt, Vollstaendig, Wiederanlauf
  PROVE  Reihe' /\ NichtVoraus' /\ ZeilenGedeckt' /\ Vollstaendig'
<1>1. lauf = "aus" /\ UNCHANGED <<schwebend, bau, folge>> /\ schwebend = {} /\ bau = KeinBau
  <2>1. lauf = "aus" /\ UNCHANGED <<schwebend, bau, folge>>
    BY WiederanlaufTut
  <2>2. QED BY <2>1 DEF Grund, Nummern, RuheOK, Laeuft
<1>2. Vollstaendig'
  BY <1>1 DEF Vollstaendig, KeinBau
<1>3. CASE lauf' = "verweigert" /\ UNCHANGED <<wal, korb, db>>
  <2>1. /\ ImKorb' = ImKorb /\ ImBau' = ImBau /\ Platz' = Platz /\ Bekannt' = Bekannt /\ ZeilenE' = ZeilenE
        /\ \A x, y : Vor(x, y)' <=> Vor(x, y)
    BY <1>1, <1>3 DEF ImKorb, ImBau, Platz, Bekannt, ZeilenE, Vor, Schnelle, Zeilen
  <2>2. Reihe'
    BY <1>1, <1>3, <2>1 DEF Reihe, NachFolge, HintenAn, Gesichert, Getrennt, Zeilen
  <2>3. NichtVoraus'
    BY <1>3 DEF NichtVoraus, Laeuft
  <2>4. ZeilenGedeckt'
    BY <1>3, <2>1 DEF ZeilenGedeckt, Gedeckt
  <2>5. QED BY <1>2, <2>2, <2>3, <2>4
<1>4. CASE /\ wal'.saetze = wal.saetze /\ wal'.naechste = PeekNachStart /\ wal'.haltbar = PeekNachStart - 1
           /\ wal'.hwm = wal.hwm /\ korb'.warten = {} /\ ToSet(korb'.bereit) = Neu /\ db'.zeilen = db.zeilen
  <2>1. /\ ImKorb' \subseteq wal.saetze /\ ImBau' = ImBau /\ Schnelle(schwebend') = {} /\ Zeilen(schwebend') = {}
        /\ ImBau = {} /\ Zeilen(ImBau') = {}
    BY <1>1, <1>4 DEF ImKorb, ImBau, Neu, Schnelle, Zeilen, KeinBau, ToSet
  <2>2. Bekannt' \subseteq Bekannt /\ ZeilenE' \subseteq ZeilenE
    <3>1. Platz' \subseteq wal.saetze \cup db.zeilen
      BY <1>4, <2>1 DEF Platz
    <3>2. ZeilenE' \subseteq ZeilenE
      BY <1>4, <2>1 DEF ZeilenE
    <3>3. QED BY <1>4, <3>1, <3>2 DEF Bekannt, Platz
  <2>3. PeekNachStart \in Nat /\ wal.hwm < PeekNachStart /\ \A r \in wal.saetze : r.seq < PeekNachStart
    BY PeekIst DEF Grund
  <2>4. /\ wal.hwm \in Nat /\ (\A r \in wal.saetze : r.seq \in Nat) /\ \A z \in ZeilenE : z.seq \in Nat
    BY StandTyp, ZahlenTyp DEF Grund
  <2>5. \A r \in wal.saetze : r.seq <= wal'.haltbar
    BY <1>4, <2>3, <2>4
  <2>6. NachFolge'
    <3>1. \A x, y : Vor(x, y)' <=> Vor(x, y)
      BY <1>1 DEF Vor
    <3>2. QED BY <2>2, <3>1 DEF Reihe, NachFolge
  <2>7. HintenAn' /\ Getrennt'
    BY <1>1, <2>1 DEF HintenAn, Getrennt
  <2>8. Gesichert'
    BY <1>4, <2>5 DEF Gesichert
  <2>9. ASSUME NEW z \in ZeilenE' PROVE z.seq <= PeekNachStart /\ Gedeckt(z.seq - 1)'
    <3>1. z \in ZeilenE /\ z.seq \in Nat
      BY <2>2, <2>4, <2>9
    <3>2. CASE z.seq - 1 <= wal.hwm
      <4>1. z.seq <= PeekNachStart
        BY <2>3, <2>4, <3>1, <3>2
      <4>2. QED BY <1>4, <3>2, <4>1 DEF Gedeckt
    <3>3. CASE \E r \in wal.saetze : z.seq - 1 <= r.seq /\ r.seq <= wal.haltbar
      <4>1. PICK r \in wal.saetze : z.seq - 1 <= r.seq /\ r.seq <= wal.haltbar
        BY <3>3
      <4>2. z.seq <= PeekNachStart
        BY <2>3, <2>4, <3>1, <4>1
      <4>3. r.seq <= wal'.haltbar
        BY <2>5
      <4>4. QED BY <1>4, <4>1, <4>2, <4>3 DEF Gedeckt
    <3>4. Gedeckt(z.seq - 1)
      BY <3>1 DEF ZeilenGedeckt
    <3>5. QED BY <3>2, <3>3, <3>4 DEF Gedeckt
  <2>10. NichtVoraus' /\ ZeilenGedeckt'
    BY <1>4, <2>9 DEF NichtVoraus, ZeilenGedeckt
  <2>11. QED BY <1>2, <2>6, <2>7, <2>8, <2>10 DEF Reihe
<1>5. QED BY <1>3, <1>4, WiederanlaufTut

\* The last number given out stays in the file until compaction notes it.
LEMMA LetzteNummerSchritt == Grund /\ LetzteNummer /\ [Next]_vars => LetzteNummer'
<1> SUFFICES ASSUME Grund, LetzteNummer, [Next]_vars PROVE LetzteNummer'
  OBVIOUS
<1>0. wal.naechste \in Nat
  BY StandTyp DEF Grund
<1>1. CASE wal' = wal /\ lauf' = lauf
  BY <1>1 DEF LetzteNummer, Laeuft
<1>2. CASE \E t \in annahmen : Anhaengen(t)
  <2>1. PICK t \in annahmen : Anhaengen(t)
    BY <1>2
  <2> DEFINE e == [seq |-> wal.naechste, id |-> 0, tx |-> t]
  <2>2. wal'.saetze = wal.saetze \cup {e} /\ wal'.naechste = wal.naechste + 1
    BY <2>1, AnhaengenTut
  <2>3. e.seq = wal.naechste
    OBVIOUS
  <2> HIDE DEF e
  <2>4. e \in wal'.saetze /\ e.seq = wal'.naechste - 1
    BY <1>0, <2>2, <2>3
  <2>5. QED BY <2>4 DEF LetzteNummer
<1>3. CASE \E bis \in 1 .. wal.naechste : Sichern(bis)
  <2>1. wal'.saetze = wal.saetze /\ wal'.naechste = wal.naechste /\ wal'.hwm = wal.hwm /\ lauf' = lauf
    BY <1>3, SichernTut
  <2>2. QED BY <2>1 DEF LetzteNummer, Laeuft
<1>4. CASE \E ab \in 1 .. KuerzenGrenze(db.marke) : Kuerzen(ab)
  <2>1. wal'.naechste = wal.naechste /\ wal'.hwm = wal.naechste - 1
    BY <1>4, KuerzenTut
  <2>2. wal'.naechste - 1 <= wal'.hwm
    BY <1>0, <2>1
  <2>3. QED BY <2>2 DEF LetzteNummer
<1>5. CASE \E bis \in 0 .. wal.naechste : Absturz(bis)
  <2>1. lauf' = "aus"
    BY <1>5, AbsturzTut
  <2>2. QED BY <2>1 DEF LetzteNummer, Laeuft
<1>6. CASE Wiederanlauf
  <2>1. CASE lauf' = "verweigert"
    BY <2>1 DEF LetzteNummer, Laeuft
  <2>2. CASE wal'.saetze = wal.saetze /\ wal'.naechste = PeekNachStart /\ wal'.hwm = wal.hwm
    <3>1. PeekNachStart - 1 \in {wal.hwm} \cup Seqs(wal.saetze) /\ wal.hwm \in Nat
      BY PeekIst, StandTyp DEF Grund
    <3>2. QED BY <2>2, <3>1 DEF LetzteNummer, Seqs
  <2>3. QED BY <1>6, <2>1, <2>2, WiederanlaufTut
<1>7. CASE UNCHANGED vars
  BY <1>1, <1>7 DEF vars
<1>8. CASE Next
  <2>1. CASE \/ \E t \in Auftraege : AnnahmeBeginnt(t)
             \/ \E t \in annahmen : AnnahmeAbgelehnt(t) \/ LangsamBeginnt(t)
             \/ \E e \in schwebend : Einreihen(e) \/ LangsamFertig(e) \/ LangsamScheitert(e)
             \/ BauTor \/ BauNimmt \/ BauMischt \/ BauSpeichert \/ BauScheitert
             \/ \E j \in 1 .. Deckel : BauKuerzt(j)
             \/ UeberholtGemeldet \/ VerwerfenPrueft \/ VerwerfenLeert \/ VerwerfenMarke \/ ResyncFertig
    <3>1. wal' = wal /\ lauf' = lauf
      BY <2>1 DEF AnnahmeBeginnt, AnnahmeAbgelehnt, LangsamBeginnt, Einreihen, LangsamFertig, LangsamScheitert,
                  BauTor, BauNimmt, BauMischt, BauSpeichert, BauScheitert, BauKuerzt, UeberholtGemeldet, VerwerfenPrueft,
                  VerwerfenLeert, VerwerfenMarke, ResyncFertig
    <3>2. QED BY <1>1, <3>1
  <2>2. QED BY <1>2, <1>3, <1>4, <1>5, <1>6, <1>8, <2>1 DEF Next
<1>9. QED BY <1>7, <1>8

\* Only a crash counts as one.
LEMMA AbstuerzeTut ==
  ASSUME Grund, Next
  PROVE  \/ zaehler'.abstuerze = zaehler.abstuerze
         \/ (\E bis \in 0 .. wal.naechste : Absturz(bis)) /\ zaehler'.abstuerze = zaehler.abstuerze + 1
<1>1. CASE \/ \E t \in Auftraege : AnnahmeBeginnt(t)
           \/ \E t \in annahmen : AnnahmeAbgelehnt(t) \/ Anhaengen(t) \/ LangsamBeginnt(t)
           \/ \E e \in schwebend : Einreihen(e) \/ LangsamFertig(e)
           \/ \E bis \in 1 .. wal.naechste : Sichern(bis)
           \/ \E ab \in 1 .. KuerzenGrenze(db.marke) : Kuerzen(ab)
           \/ BauTor \/ BauNimmt \/ BauMischt \/ BauSpeichert
           \/ \E j \in 1 .. Deckel : BauKuerzt(j)
           \/ Wiederanlauf
           \/ UeberholtGemeldet \/ VerwerfenPrueft \/ VerwerfenLeert \/ VerwerfenMarke \/ ResyncFertig
  <2>1. zaehler' = zaehler
    BY <1>1 DEF AnnahmeBeginnt, AnnahmeAbgelehnt, Anhaengen, LangsamBeginnt, Einreihen, LangsamFertig,
                Sichern, Kuerzen, BauTor, BauNimmt, BauMischt, BauSpeichert, BauKuerzt, Wiederanlauf,
                UeberholtGemeldet, VerwerfenPrueft, VerwerfenLeert, VerwerfenMarke, ResyncFertig
  <2>2. QED BY <2>1
<1>2. CASE \E e \in schwebend : LangsamScheitert(e)
  BY <1>2, LangsamScheitertTut
<1>3. CASE BauScheitert
  BY <1>3, BauScheitertTut
<1>4. CASE \E bis \in 0 .. wal.naechste : Absturz(bis)
  BY <1>4, AbsturzTut
<1>5. QED BY <1>1, <1>2, <1>3, <1>4 DEF Next

\* The condition once lost does not come back.
LEMMA BedingtRueck ==
  ASSUME Grund, Next, Bedingt'
  PROVE  Bedingt /\ verworfen' = verworfen
<1>1. verw.phase \in {"nie", "wartet"} /\ verworfen' = verworfen
  BY PhaseTut DEF Bedingt
<1>2. zaehler'.abstuerze = 0 => zaehler.abstuerze = 0
  <2>1. zaehler.abstuerze \in Nat
    BY GrenzenTyp DEF Grund, Typ, ZaehlerTyp
  <2>2. QED BY <2>1, AbstuerzeTut
<1>3. AlleTreffen' <=> AlleTreffen
  BY DEF AlleTreffen, Teilen
<1>4. QED BY <1>1, <1>2, <1>3 DEF Bedingt

\* Only a stored block adds to the chain, and no step puts an order before one applied.
LEMMA BloeckeTut ==
  ASSUME Grund, Next, ~BauSpeichert
  PROVE  /\ db'.bloecke = db.bloecke
         /\ \A x, y : y \in Angewendet /\ Vor(x, y)' => Vor(x, y)
<1>0. folge \in Seq(Auftraege)
  BY DEF Grund, Typ
<1>1. CASE folge' = folge /\ db'.bloecke = db.bloecke
  BY <1>1 DEF Vor
<1>2. CASE \E t \in annahmen : Anhaengen(t)
  <2>1. PICK t \in annahmen : Anhaengen(t)
    BY <1>2
  <2>2. t \in Auftraege /\ t \notin Angewendet
    BY DEF Grund, Typ, Nummern, AnnahmenOK
  <2>3. folge' = Append(folge, t) /\ db' = db
    BY <2>1, AnhaengenTut
  <2>4. QED BY <1>0, <2>2, <2>3, VorAngehaengt
<1>3. CASE \E e \in schwebend : LangsamFertig(e)
  <2>1. PICK e \in schwebend : LangsamFertig(e)
    BY <1>3
  <2>2. e \in Eintraege /\ ~AusWAL(e) /\ folge' = Append(folge, e.tx) /\ db'.bloecke = db.bloecke
    BY <2>1, LangsamFertigTut
  <2>3. e.tx \in Auftraege /\ e.tx \notin Angewendet
    BY <2>2, EintragTyp DEF Grund, Nummern, AnnahmenOK, Zeilen
  <2>4. QED BY <1>0, <2>2, <2>3, VorAngehaengt
<1>4. CASE \E bis \in 0 .. wal.naechste : Absturz(bis)
  BY <1>4, VorAbsturz, AbsturzTut
<1>5. CASE \/ \E t \in Auftraege : AnnahmeBeginnt(t)
           \/ \E t \in annahmen : AnnahmeAbgelehnt(t)
           \/ \E e \in schwebend : Einreihen(e) \/ LangsamScheitert(e)
           \/ \E bis \in 1 .. wal.naechste : Sichern(bis)
           \/ \E ab \in 1 .. KuerzenGrenze(db.marke) : Kuerzen(ab)
           \/ BauTor \/ BauNimmt
           \/ UeberholtGemeldet \/ VerwerfenPrueft \/ VerwerfenLeert \/ ResyncFertig
  <2>1. folge' = folge /\ db' = db
    BY <1>5 DEF AnnahmeBeginnt, AnnahmeAbgelehnt, Einreihen, LangsamScheitert, Sichern, Kuerzen, BauTor, BauNimmt,
                UeberholtGemeldet, VerwerfenPrueft, VerwerfenLeert, ResyncFertig
  <2>2. QED BY <1>1, <2>1
<1>6. CASE \E t \in annahmen : LangsamBeginnt(t)
  BY <1>1, <1>6, LangsamBeginntTut
<1>7. CASE BauMischt
  BY <1>1, <1>7, BauMischtTut
<1>8. CASE BauScheitert
  BY <1>1, <1>8, BauScheitertTut
<1>9. CASE \E j \in 1 .. Deckel : BauKuerzt(j)
  BY <1>1, <1>9, BauKuerztTut
<1>10. CASE Wiederanlauf
  BY <1>1, <1>10, WiederanlaufTut
<1>11. CASE VerwerfenMarke
  BY <1>1, <1>11, VerwerfenMarkeTut
<1>12. QED BY <1>2, <1>3, <1>4, <1>5, <1>6, <1>7, <1>8, <1>9, <1>10, <1>11 DEF Next

\* Every step keeps the order of application.
LEMMA ReiheSchritt ==
  ASSUME Grund, PhaseOK, StartOK, VerblocktOK, ReiheOK, LetzteNummer, [Next]_vars
  PROVE  ReiheOK'
<1>1. CASE UNCHANGED vars
  <2>1. UNCHANGED <<wal, db, korb, schwebend, bau, verw, lauf, folge, verworfen, zaehler>>
    BY <1>1 DEF vars
  <2>2. /\ ImKorb' = ImKorb /\ ImBau' = ImBau /\ Platz' = Platz /\ Bekannt' = Bekannt /\ ZeilenE' = ZeilenE
        /\ Laeuft' = Laeuft /\ Zeilen(schwebend') = Zeilen(schwebend)
    BY <2>1 DEF ImKorb, ImBau, Platz, Bekannt, ZeilenE, Laeuft, Schnelle, Zeilen
  <2>3. (\A x, y : Vor(x, y)' <=> Vor(x, y)) /\ (\A n : Gedeckt(n)' <=> Gedeckt(n)) /\ Bedingt' = Bedingt
    BY <2>1 DEF Vor, Gedeckt, Bedingt, AlleTreffen, Teilen
  <2>4. Reihe => Reihe'
    BY <2>1, <2>2, <2>3 DEF Reihe, NachFolge, HintenAn, Gesichert, Getrennt
  <2>5. NichtVoraus => NichtVoraus'
    BY <2>1, <2>2 DEF NichtVoraus
  <2>6. Vollstaendig => Vollstaendig'
    BY <2>1, <2>2, <2>3 DEF Vollstaendig
  <2>7. ZeilenGedeckt => ZeilenGedeckt'
    BY <2>2, <2>3 DEF ZeilenGedeckt
  <2>8. BlockFolgt => BlockFolgt'
    BY <2>1, <2>3 DEF BlockFolgt
  <2>9. QED BY <2>3, <2>4, <2>5, <2>6, <2>7, <2>8 DEF ReiheOK
<1>2. CASE Next
  <2>1. SUFFICES ASSUME Bedingt'
                 PROVE  Reihe' /\ NichtVoraus' /\ Vollstaendig' /\ ZeilenGedeckt' /\ BlockFolgt'
    BY DEF ReiheOK
  <2>2. Bedingt /\ verworfen' = verworfen
    BY <1>2, <2>1, BedingtRueck
  <2>3. Reihe /\ NichtVoraus /\ Vollstaendig /\ ZeilenGedeckt /\ BlockFolgt /\ Ordentlich
    BY <2>2 DEF ReiheOK, Bedingt, PhaseOK
  <2>4. ~VerwerfenLeert /\ ~VerwerfenMarke
    BY <2>2, VerwerfenPhase DEF Bedingt
  <2>5. BlockFolgt'
    <3>1. CASE BauSpeichert
      BY <2>3, <3>1, BlockFolgtSpeichert
    <3>2. CASE ~BauSpeichert
      BY <1>2, <2>2, <2>3, <3>2, BloeckeTut, BlockFolgtBleibt
    <3>3. QED BY <3>1, <3>2
  <2>6. CASE \E t \in annahmen : Anhaengen(t)
    BY <2>3, <2>5, <2>6, ReiheAnhaengen
  <2>7. CASE \E t \in annahmen : LangsamBeginnt(t)
    BY <2>3, <2>5, <2>7, ReiheLangsamBeginnt
  <2>8. CASE \E e \in schwebend : LangsamFertig(e)
    BY <2>3, <2>5, <2>8, ReiheLangsamFertig
  <2>9. CASE \E bis \in 0 .. wal.naechste : Absturz(bis)
    BY <2>3, <2>5, <2>9, ReiheAbsturz
  <2>10. CASE Wiederanlauf
    <3>1. zaehler.abstuerze # 0
      BY <2>2, <2>10, WiederanlaufTut DEF StartOK, Bedingt, Laeuft
    <3>2. AlleTreffen
      BY <2>2, <3>1 DEF Bedingt
    <3>3. QED BY <2>3, <2>5, <2>10, <3>2, ReiheWiederanlauf
  <2>11. CASE \/ \E t \in Auftraege : AnnahmeBeginnt(t)
              \/ \E t \in annahmen : AnnahmeAbgelehnt(t)
              \/ \E e \in schwebend : LangsamScheitert(e)
              \/ \E bis \in 1 .. wal.naechste : Sichern(bis)
              \/ \E ab \in 1 .. KuerzenGrenze(db.marke) : Kuerzen(ab)
              \/ BauTor
              \/ UeberholtGemeldet \/ VerwerfenPrueft \/ ResyncFertig
    <3>1. Weniger /\ bau'.inhalt = bau.inhalt
      BY <2>11, WenigerLeicht
    <3>2. Reihe' /\ NichtVoraus'
      BY <2>3, <3>1, ReiheWeniger
    <3>3. /\ wal'.hwm \in Nat
          /\ (wal'.saetze = wal.saetze /\ wal'.hwm = wal.hwm) \/ wal'.hwm = wal.naechste - 1
      <4>0. wal.hwm \in Nat
        BY StandTyp DEF Grund
      <4>1. CASE \E ab \in 1 .. KuerzenGrenze(db.marke) : Kuerzen(ab)
        BY <4>1, KuerzenTut DEF WalTyp
      <4>2. CASE \E bis \in 1 .. wal.naechste : Sichern(bis)
        BY <4>0, <4>2, SichernTut
      <4>3. CASE wal' = wal
        BY <4>0, <4>3
      <4>4. QED BY <2>11, <4>1, <4>2, <4>3 DEF AnnahmeBeginnt, AnnahmeAbgelehnt, LangsamScheitert, BauTor,
                                              UeberholtGemeldet, VerwerfenPrueft, ResyncFertig
    <3>4. ZeilenGedeckt'
      BY <2>3, <3>1, <3>3, ZeilenGedecktWeniger
    <3>5. bau'.phase \in {"gemischt", "gekuerzt"} => bau' = bau
      <4>1. CASE BauTor
        BY <4>1, BauTorTut
      <4>2. CASE ~BauTor
        BY <2>11, <4>2 DEF AnnahmeBeginnt, AnnahmeAbgelehnt, LangsamScheitert, Sichern, Kuerzen,
                           UeberholtGemeldet, VerwerfenPrueft, ResyncFertig
      <4>3. QED BY <4>1, <4>2
    <3>6. Vollstaendig'
      BY <2>3, <3>1, <3>5, VollstaendigBleibt DEF Weniger
    <3>7. QED BY <2>5, <3>2, <3>4, <3>6
  <2>12. CASE \/ \E e \in schwebend : Einreihen(e)
              \/ BauNimmt \/ BauMischt \/ BauSpeichert \/ BauScheitert
              \/ \E j \in 1 .. Deckel : BauKuerzt(j)
    <3>1. Weniger /\ wal' = wal
      BY <2>12, WenigerBauSchritte
    <3>2. Reihe' /\ NichtVoraus'
      BY <2>3, <3>1, ReiheWeniger
    <3>3. ZeilenGedeckt'
      <4>1. wal.hwm \in Nat
        BY StandTyp DEF Grund
      <4>2. QED BY <2>3, <3>1, <4>1, ZeilenGedecktWeniger
    <3>4. Vollstaendig'
      <4>1. CASE BauMischt
        BY <2>3, <4>1, VollstaendigMischt
      <4>2. CASE \E j \in 1 .. Deckel : BauKuerzt(j)
        BY <2>3, <4>2, VollstaendigKuerzt
      <4>3. CASE (\E e \in schwebend : Einreihen(e)) \/ BauNimmt \/ BauSpeichert \/ BauScheitert
        <5>1. bau'.phase \in {"gemischt", "gekuerzt"} => bau' = bau
          <6>1. CASE \E e \in schwebend : Einreihen(e)
            BY <6>1, EinreihenTut
          <6>2. CASE BauNimmt
            BY <6>2, BauNimmtTut
          <6>3. CASE BauSpeichert
            BY <6>3, BauSpeichertTut, KeinBauTyp
          <6>4. CASE BauScheitert
            BY <6>4, BauScheitertTut, KeinBauTyp
          <6>5. QED BY <4>3, <6>1, <6>2, <6>3, <6>4
        <5>2. QED BY <2>3, <3>1, <5>1, VollstaendigBleibt DEF Weniger
      <4>4. QED BY <2>12, <4>1, <4>2, <4>3
    <3>5. QED BY <2>5, <3>2, <3>3, <3>4
  <2>13. QED BY <1>2, <2>4, <2>6, <2>7, <2>8, <2>9, <2>10, <2>11, <2>12 DEF Next
<1>3. QED BY <1>1, <1>2

\* After the look of a superseded leader, with no crash so far: the blocks stay in order, for
\* all that was outgoing is in a block or discarded.
Danach == verw.phase \notin {"nie", "wartet"} /\ zaehler.abstuerze = 0 => Abgegeben /\ BlockFolgt

\* A process leaves the first phases by that look or by a crash.
LEMMA PhaseVerlassen ==
  ASSUME Grund, Next, verw.phase \in {"nie", "wartet"}, verw'.phase \notin {"nie", "wartet"}
  PROVE  VerwerfenPrueft \/ \E bis \in 0 .. wal.naechste : Absturz(bis)
<1>1. CASE \/ \E t \in Auftraege : AnnahmeBeginnt(t)
           \/ \E t \in annahmen : AnnahmeAbgelehnt(t) \/ Anhaengen(t) \/ LangsamBeginnt(t)
           \/ \E e \in schwebend : Einreihen(e) \/ LangsamFertig(e) \/ LangsamScheitert(e)
           \/ \E bis \in 1 .. wal.naechste : Sichern(bis)
           \/ BauTor \/ BauNimmt \/ BauMischt \/ BauSpeichert \/ BauScheitert
           \/ \E j \in 1 .. Deckel : BauKuerzt(j)
           \/ \E ab \in 1 .. KuerzenGrenze(db.marke) : Kuerzen(ab)
           \/ Wiederanlauf
  <2>1. verw' = verw
    BY <1>1 DEF AnnahmeBeginnt, AnnahmeAbgelehnt, Anhaengen, LangsamBeginnt, Einreihen, LangsamFertig, LangsamScheitert,
                Sichern, BauTor, BauNimmt, BauMischt, BauSpeichert, BauScheitert, BauKuerzt, Kuerzen, Wiederanlauf
  <2>2. QED BY <2>1
<1>2. CASE UeberholtGemeldet \/ ResyncFertig
  BY <1>2 DEF UeberholtGemeldet, ResyncFertig, Grund, Typ, VerwTyp
<1>3. CASE VerwerfenLeert \/ VerwerfenMarke
  BY <1>3, VerwerfenPhase
<1>4. QED BY <1>1, <1>2, <1>3 DEF Next

\* Every step keeps that.
LEMMA DanachSchritt ==
  ASSUME Grund, PhaseOK, VerblocktOK, ReiheOK, Danach, [Next]_vars
  PROVE  Danach'
<1>1. CASE UNCHANGED vars
  BY <1>1 DEF vars, Danach, Abgegeben, BlockFolgt, Vor, Angewendet, Verblockt, Txs, Teilen
<1>2. CASE Next
  <2>1. SUFFICES ASSUME verw'.phase \notin {"nie", "wartet"}, zaehler'.abstuerze = 0
                 PROVE  Abgegeben' /\ BlockFolgt'
    BY DEF Danach
  <2>2. zaehler.abstuerze = 0 /\ ~\E bis \in 0 .. wal.naechste : Absturz(bis)
    <3>1. zaehler.abstuerze \in Nat
      BY GrenzenTyp DEF Grund, Typ, ZaehlerTyp
    <3>2. \A bis : Absturz(bis) => zaehler'.abstuerze = zaehler.abstuerze + 1
      BY AbsturzTut
    <3>3. zaehler'.abstuerze = zaehler.abstuerze \/ zaehler'.abstuerze = zaehler.abstuerze + 1
      BY <1>2, AbstuerzeTut
    <3>4. QED BY <2>1, <3>1, <3>2, <3>3
  <2>3. CASE verw.phase \in {"nie", "wartet"}
    <3>1. VerwerfenPrueft
      BY <1>2, <2>1, <2>2, <2>3, PhaseVerlassen
    <3>2. /\ UNCHANGED <<db, annahmen, schwebend, folge>>
          /\ verworfen' = (Angewendet \cup annahmen \cup Txs(schwebend)) \ Verblockt
      BY <3>1 DEF VerwerfenPrueft
    <3>3. Angewendet' = Angewendet /\ Verblockt' = Verblockt /\ Txs(schwebend') = Txs(schwebend)
      BY <3>2 DEF Angewendet, Verblockt
    <3>4. Abgegeben'
      BY <3>2, <3>3 DEF Abgegeben
    <3>5. BlockFolgt /\ verworfen = {}
      BY <2>2, <2>3 DEF ReiheOK, Bedingt, PhaseOK
    <3>6. \A x, y : Vor(x, y)' => Vor(x, y)
      BY <3>2 DEF Vor
    <3>7. BlockFolgt'
      <4>1. db'.bloecke = db.bloecke /\ verworfen \subseteq verworfen'
        BY <3>2, <3>5
      <4>2. QED BY <3>5, <3>6, <4>1, BlockFolgtBleibt
    <3>8. QED BY <3>4, <3>7
  <2>4. CASE verw.phase \notin {"nie", "wartet"}
    <3>1. Abgegeben /\ BlockFolgt
      BY <2>2, <2>4 DEF Danach
    <3>2. Abgegeben' /\ verworfen' = verworfen
      BY <1>2, <2>4, <3>1, AbgegebenSchritt
    <3>3. CASE BauSpeichert
      BY <3>1, <3>2, <3>3, BlockFolgtSpeichert
    <3>4. CASE ~BauSpeichert
      BY <1>2, <3>1, <3>2, <3>4, BloeckeTut, BlockFolgtBleibt
    <3>5. QED BY <3>2, <3>3, <3>4
  <2>5. QED BY <2>3, <2>4
<1>3. QED BY <1>1, <1>2

\* At the start nothing is applied.
LEMMA ReiheStart == Init => ReiheOK /\ LetzteNummer /\ Danach
<1> SUFFICES ASSUME Init PROVE ReiheOK /\ LetzteNummer /\ Danach
  OBVIOUS
<1>1. /\ wal = [saetze |-> {}, naechste |-> 1, haltbar |-> 0, hwm |-> 0] /\ db.zeilen = {} /\ db.bloecke = <<>>
      /\ korb.bereit = <<>> /\ korb.warten = {} /\ schwebend = {} /\ bau = KeinBau /\ verw.phase = "nie" /\ folge = <<>>
  BY DEF Init, LeererKorb
<1>2. /\ ImKorb = {} /\ ImBau = {} /\ Schnelle(schwebend) = {} /\ Zeilen(schwebend) = {} /\ Zeilen(ImBau) = {}
      /\ wal.saetze = {} /\ wal.naechste = 1 /\ wal.hwm = 0
  BY <1>1 DEF ImKorb, ImBau, Schnelle, Zeilen, KeinBau, ToSet
<1>3. Bekannt = {} /\ ZeilenE = {}
  BY <1>1, <1>2 DEF Bekannt, Platz, ZeilenE
<1>4. Reihe
  BY <1>1, <1>2, <1>3 DEF Reihe, NachFolge, HintenAn, Gesichert, Getrennt
<1>5. NichtVoraus /\ ZeilenGedeckt /\ Vollstaendig
  BY <1>1, <1>2, <1>3 DEF NichtVoraus, ZeilenGedeckt, Vollstaendig, KeinBau
<1>6. BlockFolgt
  BY <1>1 DEF BlockFolgt
<1>7. LetzteNummer
  BY <1>2 DEF LetzteNummer
<1>8. Danach
  BY <1>1 DEF Danach
<1>9. QED BY <1>4, <1>5, <1>6, <1>7, <1>8 DEF ReiheOK

\* As long as there was no crash, every order in the blocks comes after all orders applied
\* before it on one of its accounts, for every set of orders and accounts, every block size,
\* and whatever failures, compactions and discardings come between.
THEOREM ReiheOhneAbsturzGilt == Spec => []ReiheOhneAbsturz
<1> DEFINE IInv == Grund /\ PhaseOK /\ StartOK /\ VerblocktOK /\ ReiheOK /\ LetzteNummer /\ Danach
<1>1. Init => IInv
  <2>1. Init => StartOK
    BY DEF Init, StartOK, Laeuft, Lueckenlos
  <2>2. QED BY <2>1, GrundStart, PhaseStart, VerblocktStart, ReiheStart
<1>2. IInv /\ [Next]_vars => IInv'
  BY GrundSchritt, PhaseSchritt, StartSchritt, VerblocktSchritt, ReiheSchritt, LetzteNummerSchritt, DanachSchritt
<1>3. IInv => ReiheOhneAbsturz
  <2> SUFFICES ASSUME IInv, zaehler.abstuerze = 0, NEW j \in DOMAIN db.bloecke, NEW i \in DOMAIN folge, NEW k \in DOMAIN folge,
                      folge[k] = db.bloecke[j], i < k, Teilen(folge[i], folge[k]), folge[i] \notin verworfen
               PROVE  \E v \in 1 .. (j - 1) : db.bloecke[v] = folge[i]
    BY DEF ReiheOhneAbsturz, BlockReihenfolge
  <2>1. BlockFolgt
    BY DEF ReiheOK, Bedingt, Danach
  <2>2. folge[i] \in Auftraege
    BY DEF Grund, Typ
  <2>3. Vor(folge[i], db.bloecke[j])
    BY DEF Vor
  <2>4. QED BY <2>1, <2>2, <2>3 DEF BlockFolgt
<1> HIDE DEF IInv
<1>4. QED BY <1>1, <1>2, <1>3, PTL DEF Spec

\* The abstract order of application is this one.
LEMMA AusgangVor ==
  ASSUME folge \in Seq(Auftraege)
  PROVE  \A x, y : Ausgang!Vor(x, y) => Vor(x, y)
<1> SUFFICES ASSUME NEW x, NEW y, Ausgang!Vor(x, y) PROVE Vor(x, y)
  OBVIOUS
<1>1. PICK j \in DOMAIN folge : folge[j] = y /\ \E i \in 1 .. (j - 1) : folge[i] = x
  BY DEF Ausgang!Vor
<1>2. PICK i \in 1 .. (j - 1) : folge[i] = x
  BY <1>1
<1>3. i \in DOMAIN folge /\ i < j
  OBVIOUS
<1>4. QED BY <1>1, <1>2, <1>3 DEF Vor

\* The operators on sequences are the same ones.
LEMMA AusgangReihen ==
  /\ \A S : Ausgang!Cardinality(S) = Cardinality(S)
  /\ \A s : Ausgang!ToSet(s) = ToSet(s)
  /\ \A s : Ausgang!IsInjective(s) <=> IsInjective(s)
  /\ \A s, I : Ausgang!Ausgewaehlt(s, I) = Ausgewaehlt(s, I)
  /\ \A S : Ausgang!SetToAllKPermutations(S) = SetToAllKPermutations(S)
<1>0. \A S : Ausgang!Cardinality(S) = Cardinality(S)
  BY DEF Cardinality, Ausgang!Cardinality
<1>1. \A s : Ausgang!ToSet(s) = ToSet(s)
  BY DEF ToSet, Ausgang!ToSet
<1>2. \A s : Ausgang!IsInjective(s) <=> IsInjective(s)
  BY DEF IsInjective, Ausgang!IsInjective
<1>3. ASSUME NEW s, NEW I PROVE Ausgang!Ausgewaehlt(s, I) = Ausgewaehlt(s, I)
  <2>1. Ausgang!Sortiert(I, <) = Sortiert(I, <)
    BY <1>0 DEF Sortiert, Ausgang!Sortiert
  <2>2. QED BY <1>0, <2>1 DEF Ausgewaehlt, Ausgang!Ausgewaehlt
<1>4. ASSUME NEW S PROVE Ausgang!SetToAllKPermutations(S) = SetToAllKPermutations(S)
  <2>1. \A T : Ausgang!SetToSeqs(T) = SetToSeqs(T)
    BY <1>0 DEF SetToSeqs, Ausgang!SetToSeqs
  <2>2. QED BY <2>1 DEF SetToAllKPermutations, Ausgang!SetToAllKPermutations
<1>5. QED BY <1>0, <1>1, <1>2, <1>3, <1>4

\* Applying an order that is not applied yet.
LEMMA AusgangAnnehmen ==
  ASSUME NEW t \in Auftraege, t \notin Angewendet, folge' = Append(folge, t), db'.bloecke = db.bloecke
  PROVE  Ausgang!Next
<1>1. Ausgang!Annehmen(t)
  BY AusgangReihen DEF Ausgang!Annehmen, Angewendet
<1>2. QED BY <1>1 DEF Ausgang!Next

\* A crash takes back only what is in no block, and with it all that was applied later on
\* the same accounts: a row's records are durable, and the log is cut at one number.
LEMMA AusgangAbsturz ==
  ASSUME Grund, Ordentlich, VerblocktOK, Reihe, BlockFolgt, verworfen = {}, NEW bis, Absturz(bis)
  PROVE  Ausgang!Next
<1> DEFINE weg == Txs({r \in wal.saetze : r.seq > bis})
<1>1. /\ bis \in Nat /\ wal.haltbar <= bis /\ db' = db
      /\ folge' = Ausgewaehlt(folge, {i \in DOMAIN folge : folge[i] \notin weg})
  BY AbsturzTut DEF Absturz
<1>2. wal.haltbar \in Nat /\ (\A r \in wal.saetze : r.seq \in Nat) /\ folge \in Seq(Auftraege)
  BY StandTyp, ZahlenTyp DEF Grund, Typ
<1>3. \A x \in weg : \E r \in wal.saetze : r.tx = x /\ r.seq > bis
  BY DEF Txs
<1>4. \A r \in wal.saetze : r.seq > bis => r.tx \in weg
  BY DEF Txs
<1> HIDE DEF weg
<1>5. weg \in SUBSET ToSet(folge)
  <2>1. ASSUME NEW x \in weg PROVE x \in ToSet(folge)
    <3>1. PICK r \in wal.saetze : r.tx = x
      BY <1>3
    <3>2. QED BY <3>1 DEF Grund, Nummern, SchnelleOK, SchnelleE, Angewendet
  <2>2. QED BY <2>1
<1>6. ASSUME NEW x \in weg PROVE x \notin Verblockt
  <2>1. PICK r \in wal.saetze : r.tx = x /\ r.seq > bis
    BY <1>3
  <2>2. x \in Verblockt => r.seq <= wal.haltbar
    BY <2>1 DEF VerblocktOK
  <2>3. QED BY <1>1, <1>2, <2>1, <2>2
<1>7. ASSUME NEW x \in weg, NEW y \in Angewendet, Teilen(x, y), Vor(x, y) PROVE y \in weg
  <2>1. PICK r \in wal.saetze : r.tx = x /\ r.seq > bis
    BY <1>3
  <2>2. y \notin Verblockt
    <3>1. SUFFICES ASSUME y \in Verblockt PROVE x \in Verblockt
      BY <1>6
    <3>2. PICK j \in DOMAIN db.bloecke : db.bloecke[j] = y
      BY <3>1 DEF Verblockt, ToSet
    <3>3. x \in Auftraege
      BY <1>5, StandTyp DEF Grund, Angewendet
    <3>4. PICK v \in 1 .. j - 1 : db.bloecke[v] = x
      BY <1>7, <3>2, <3>3 DEF BlockFolgt
    <3>5. v \in DOMAIN db.bloecke
      <4>1. Len(db.bloecke) \in Nat /\ DOMAIN db.bloecke = 1 .. Len(db.bloecke)
        BY StandTyp DEF Grund
      <4>2. QED BY <4>1
    <3>6. QED BY <3>4, <3>5 DEF Verblockt, ToSet
  <2>3. y \notin Txs(db.zeilen)
    <3>1. ASSUME NEW z \in db.zeilen, z.tx = y PROVE FALSE
      <4>1. z \in ZeilenE /\ Teilen(r.tx, z.tx) /\ Vor(r.tx, z.tx)
        BY <1>7, <2>1, <3>1 DEF ZeilenE
      <4>2. r.seq <= wal.haltbar
        BY <4>1 DEF Reihe, Gesichert
      <4>3. QED BY <1>1, <1>2, <2>1, <4>2
    <3>2. QED BY <3>1 DEF Txs
  <2>4. PICK q \in wal.saetze : q.tx = y
    <3>1. y \in Txs(Neu)
      BY <2>2, <2>3 DEF Ordentlich
    <3>2. QED BY <3>1 DEF Txs, Neu
  <2>5. Frueher(r, q)
    <3>1. r \in Bekannt /\ q \in Bekannt
      BY DEF Bekannt
    <3>2. QED BY <1>7, <2>1, <2>4, <3>1 DEF Reihe, NachFolge
  <2>6. AusWAL(r)
    BY DEF Grund, Nummern, SchnelleOK, SchnelleE
  <2>7. r.seq < q.seq
    BY <2>5, <2>6 DEF Frueher
  <2>8. q.seq > bis
    BY <1>1, <1>2, <2>1, <2>7
  <2>9. QED BY <1>4, <2>4, <2>8
<1>8. Ausgang!Zuruecknehmen(weg)
  <2>1. weg \cap ToSet(db.bloecke) = {}
    BY <1>6 DEF Verblockt
  <2>2. \A x \in weg : \A y \in ToSet(folge) : Ausgang!Teilen(x, y) /\ Ausgang!Vor(x, y) => y \in weg
    <3>1. \A x, y : Ausgang!Vor(x, y) => Vor(x, y)
      BY <1>2, AusgangVor
    <3>2. \A x, y : Ausgang!Teilen(x, y) => Teilen(x, y)
      BY DEF Teilen, Ausgang!Teilen
    <3>3. ToSet(folge) = Angewendet
      BY DEF Angewendet
    <3>4. QED BY <1>7, <3>1, <3>2, <3>3
  <2>3. db'.bloecke = db.bloecke
    BY <1>1
  <2>4. QED BY <1>1, <2>1, <2>2, <2>3, AusgangReihen DEF Ausgang!Zuruecknehmen
<1>9. QED BY <1>5, <1>8, AusgangReihen DEF Ausgang!Next

\* A sequence without repetition is among those the members of its set make.
LEMMA EinmalIstAnordnung ==
  ASSUME NEW X, NEW s \in Seq(X), IsInjective(s)
  PROVE  s \in SetToSeqs(ToSet(s))
<1> DEFINE n == Len(s)
           S == ToSet(s)
<1>1. n \in Nat /\ DOMAIN s = 1 .. n
  OBVIOUS
<1>2. S = {s[i] : i \in 1 .. n}
  BY <1>1 DEF ToSet
<1>3. s \in [1 .. n -> S] /\ \A i, j \in 1 .. n : s[i] = s[j] => i = j
  <2>1. \A i, j \in 1 .. n : s[i] = s[j] => i = j
    BY <1>1 DEF IsInjective
  <2>2. s \in [1 .. n -> S]
    BY <1>1, <1>2
  <2>3. QED BY <2>1, <2>2
<1> HIDE DEF S, n
<1>4. s \in Bijection(1 .. n, S)
  BY <1>2, <1>3 DEF Bijection, Injection, Surjection, IsInjective
<1>5. Cardinality(S) = n
  <2>1. IsFiniteSet(1 .. n) /\ Cardinality(1 .. n) = n
    BY <1>1, FS_Interval
  <2>2. ExistsBijection(1 .. n, S)
    BY <1>4 DEF ExistsBijection
  <2>3. QED BY <2>1, <2>2, FS_Bijection
<1>6. QED BY <1>3, <1>5 DEF SetToSeqs, S

\* A stored block takes its orders in the order of application, or is empty.
LEMMA AusgangVerblocken ==
  ASSUME Grund, VerblocktOK, VerblocktOK', BlockFolgt', verworfen = {}, BauSpeichert
  PROVE  Ausgang!Next \/ (folge' = folge /\ db'.bloecke = db.bloecke)
<1> DEFINE n == Len(db.bloecke)
           neu == [i \in DOMAIN bau.inhalt |-> bau.inhalt[i].tx]
<1>1. db'.bloecke = db.bloecke \o neu /\ folge' = folge /\ verworfen' = verworfen
  BY BauSpeichertTut
<1>2. neu \in Seq(Auftraege)
  <2>1. bau.inhalt \in Seq(Eintraege) /\ DOMAIN bau.inhalt = 1 .. Len(bau.inhalt) /\ Len(bau.inhalt) \in Nat
    BY StandTyp DEF Grund
  <2>2. \A i \in 1 .. Len(bau.inhalt) : bau.inhalt[i].tx \in Auftraege
    BY <2>1, EintragTyp
  <2>3. QED BY <2>1, <2>2
<1> HIDE DEF neu, n
<1>3. n \in Nat /\ n = Len(db.bloecke) /\ db.bloecke \in Seq(Auftraege) /\ folge \in Seq(Auftraege)
      /\ DOMAIN db.bloecke = 1 .. n /\ DOMAIN neu = 1 .. Len(neu) /\ Len(neu) \in Nat
  BY <1>2, StandTyp DEF n, Grund, Typ
<1>4. /\ \A i \in 1 .. n : db'.bloecke[i] = db.bloecke[i]
      /\ \A i \in 1 .. Len(neu) : db'.bloecke[n + i] = neu[i]
      /\ DOMAIN db'.bloecke = 1 .. n + Len(neu)
  <2>1. /\ \A i \in 1 .. Len(db.bloecke) : (db.bloecke \o neu)[i] = db.bloecke[i]
        /\ \A i \in 1 .. Len(neu) : (db.bloecke \o neu)[Len(db.bloecke) + i] = neu[i]
        /\ DOMAIN (db.bloecke \o neu) = 1 .. Len(db.bloecke) + Len(neu)
    BY <1>2, <1>3, Verkettet
  <2>2. QED BY <1>1, <1>3, <2>1
<1>5. \A i, j \in 1 .. n + Len(neu) : db'.bloecke[i] = db'.bloecke[j] => i = j
  BY <1>4 DEF VerblocktOK, NichtDoppelt, IsInjective
<1>6. IsInjective(neu)
  <2>1. ASSUME NEW i \in 1 .. Len(neu), NEW j \in 1 .. Len(neu), neu[i] = neu[j] PROVE i = j
    <3>1. db'.bloecke[n + i] = db'.bloecke[n + j]
      BY <1>4, <2>1
    <3>2. n + i \in 1 .. n + Len(neu) /\ n + j \in 1 .. n + Len(neu)
      BY <1>3
    <3>3. n + i = n + j
      BY <1>5, <3>1, <3>2
    <3>4. QED BY <1>3, <3>3
  <2>2. QED BY <1>3, <2>1 DEF IsInjective
<1>7. ToSet(neu) \subseteq ToSet(folge) \ ToSet(db.bloecke)
  <2>1. ASSUME NEW i \in 1 .. Len(neu) PROVE neu[i] \in ToSet(folge) /\ neu[i] \notin ToSet(db.bloecke)
    <3>1. n + i \in DOMAIN db'.bloecke /\ db'.bloecke[n + i] = neu[i]
      BY <1>3, <1>4
    <3>2. neu[i] \in Verblockt'
      BY <3>1 DEF Verblockt, ToSet
    <3>3. neu[i] \in ToSet(folge)
      BY <1>1, <3>2 DEF VerblocktOK, Angewendet
    <3>4. ASSUME neu[i] \in ToSet(db.bloecke) PROVE FALSE
      <4>1. PICK k \in 1 .. n : db.bloecke[k] = neu[i]
        BY <1>3, <3>4 DEF ToSet
      <4>2. k \in 1 .. n + Len(neu) /\ k # n + i /\ db'.bloecke[k] = db'.bloecke[n + i]
        BY <1>3, <1>4, <3>1, <4>1
      <4>3. QED BY <1>4, <1>5, <3>1, <4>2
    <3>5. QED BY <3>3, <3>4
  <2>2. QED BY <1>3, <2>1 DEF ToSet
<1>8. ASSUME NEW j \in DOMAIN neu, NEW x \in ToSet(folge), Ausgang!Teilen(x, neu[j]) /\ Ausgang!Vor(x, neu[j])
      PROVE  x \in ToSet(db.bloecke) \cup {neu[i] : i \in 1 .. (j - 1)}
  <2>1. n + j \in DOMAIN db'.bloecke /\ db'.bloecke[n + j] = neu[j]
    BY <1>3, <1>4
  <2>2. Vor(x, db'.bloecke[n + j]) /\ Teilen(x, db'.bloecke[n + j])
    BY <1>3, <1>8, <2>1, AusgangVor DEF Teilen, Ausgang!Teilen
  <2>3. x \in Auftraege
    BY <1>8, StandTyp DEF Grund, Angewendet
  <2>4. PICK v \in 1 .. n + j - 1 : db'.bloecke[v] = x
    <3>1. \A k \in DOMAIN db'.bloecke, y \in Auftraege :
            Vor(y, db'.bloecke[k]) /\ Teilen(y, db'.bloecke[k]) /\ y \notin verworfen'
              => \E v \in 1 .. k - 1 : db'.bloecke[v] = y
      <4>1. \A y, z : Vor(y, z)' <=> Vor(y, z)
        BY <1>1 DEF Vor
      <4>2. QED BY <4>1 DEF BlockFolgt
    <3>2. x \notin verworfen'
      <4>1. verworfen' = {}
        BY <1>1
      <4>2. QED BY <4>1
    <3> DEFINE k == n + j
    <3>3. k \in DOMAIN db'.bloecke /\ Vor(x, db'.bloecke[k]) /\ Teilen(x, db'.bloecke[k])
      BY <2>1, <2>2
    <3> HIDE DEF k
    <3>4. \E v \in 1 .. k - 1 : db'.bloecke[v] = x
      BY <2>3, <3>1, <3>2, <3>3
    <3>5. k = n + j
      BY DEF k
    <3>6. PICK v \in 1 .. k - 1 : db'.bloecke[v] = x
      BY <3>4
    <3>7. v \in 1 .. n + j - 1
      <4>1. n \in Nat /\ j \in Nat
        BY <1>3
      <4>2. k \in Int /\ k - 1 = n + j - 1
        BY <3>5, <4>1
      <4>3. QED BY <4>2
    <3>8. QED BY <3>6, <3>7
  <2>5. CASE v \in 1 .. n
    BY <1>3, <1>4, <2>4, <2>5 DEF ToSet
  <2>6. CASE v \notin 1 .. n
    <3>1. v - n \in 1 .. (j - 1) /\ v - n \in 1 .. Len(neu) /\ v = n + (v - n)
      BY <1>3, <2>4, <2>6
    <3>2. neu[v - n] = x
      BY <1>4, <2>4, <3>1
    <3>3. QED BY <3>1, <3>2
  <2>7. QED BY <2>5, <2>6
<1>9. CASE neu = <<>>
  BY <1>1, <1>3, <1>9
<1>10. CASE neu # <<>>
  <2>1. Ausgang!Verblocken(neu)
    BY <1>1, <1>6, <1>7, <1>8, <1>10, AusgangReihen DEF Ausgang!Verblocken
  <2>2. neu \in SetToAllKPermutations(ToSet(folge) \ ToSet(db.bloecke))
    <3>1. neu \in SetToSeqs(ToSet(neu))
      BY <1>2, <1>6, EinmalIstAnordnung
    <3>2. QED BY <1>7, <3>1 DEF SetToAllKPermutations
  <2>3. QED BY <2>1, <2>2, AusgangReihen DEF Ausgang!Next
<1>11. QED BY <1>9, <1>10

\* A leader nobody supersedes discards nothing.
LEMMA NieUeberholt ==
  ASSUME ~Ueberholt, Grund, [Next]_vars, verw.phase = "nie"
  PROVE  verw'.phase = "nie"
<1>1. CASE UNCHANGED vars
  BY <1>1 DEF vars
<1>2. CASE Next
  <2>1. ~UeberholtGemeldet /\ ~VerwerfenPrueft /\ ~VerwerfenLeert /\ ~VerwerfenMarke /\ ~ResyncFertig
    BY DEF UeberholtGemeldet, VerwerfenPrueft, VerwerfenLeert, VerwerfenMarke, ResyncFertig
  <2>2. CASE \E bis \in 0 .. wal.naechste : Absturz(bis)
    BY <2>2, AbsturzTut
  <2>3. CASE ~\E bis \in 0 .. wal.naechste : Absturz(bis)
    <3>1. \/ \E t \in Auftraege : AnnahmeBeginnt(t)
          \/ \E t \in annahmen : AnnahmeAbgelehnt(t) \/ Anhaengen(t) \/ LangsamBeginnt(t)
          \/ \E e \in schwebend : Einreihen(e) \/ LangsamFertig(e) \/ LangsamScheitert(e)
          \/ \E bis \in 1 .. wal.naechste : Sichern(bis)
          \/ BauTor \/ BauNimmt \/ BauMischt \/ BauSpeichert \/ BauScheitert
          \/ \E j \in 1 .. Deckel : BauKuerzt(j)
          \/ \E ab \in 1 .. KuerzenGrenze(db.marke) : Kuerzen(ab)
          \/ Wiederanlauf
      BY <1>2, <2>1, <2>3 DEF Next
    <3>2. verw' = verw
      BY <3>1 DEF AnnahmeBeginnt, AnnahmeAbgelehnt, Anhaengen, LangsamBeginnt, Einreihen, LangsamFertig, LangsamScheitert,
                  Sichern, BauTor, BauNimmt, BauMischt, BauSpeichert, BauScheitert, BauKuerzt, Kuerzen, Wiederanlauf
    <3>3. QED BY <3>2
  <2>4. QED BY <2>2, <2>3
<1>3. QED BY <1>1, <1>2

\* Steps that show neither in the chain nor in what is applied.
LEMMA AusgangStottert ==
  ASSUME Grund, Next, ~BauSpeichert, ~\E t \in annahmen : Anhaengen(t), ~\E e \in schwebend : LangsamFertig(e),
         ~\E bis \in 0 .. wal.naechste : Absturz(bis)
  PROVE  folge' = folge /\ db'.bloecke = db.bloecke
<1>1. db'.bloecke = db.bloecke
  BY BloeckeTut
<1>2. CASE \/ \E t \in Auftraege : AnnahmeBeginnt(t)
           \/ \E t \in annahmen : AnnahmeAbgelehnt(t) \/ LangsamBeginnt(t)
           \/ \E e \in schwebend : Einreihen(e) \/ LangsamScheitert(e)
           \/ \E bis \in 1 .. wal.naechste : Sichern(bis)
           \/ BauTor \/ BauNimmt \/ BauMischt \/ BauScheitert
           \/ \E j \in 1 .. Deckel : BauKuerzt(j)
           \/ \E ab \in 1 .. KuerzenGrenze(db.marke) : Kuerzen(ab)
           \/ Wiederanlauf
           \/ UeberholtGemeldet \/ VerwerfenPrueft \/ VerwerfenLeert \/ VerwerfenMarke \/ ResyncFertig
  <2>1. folge' = folge
    BY <1>2 DEF AnnahmeBeginnt, AnnahmeAbgelehnt, LangsamBeginnt, Einreihen, LangsamScheitert,
                Sichern, BauTor, BauNimmt, BauMischt, BauScheitert, BauKuerzt, Kuerzen, Wiederanlauf,
                UeberholtGemeldet, VerwerfenPrueft, VerwerfenLeert, VerwerfenMarke, ResyncFertig
  <2>2. QED BY <1>1, <2>1
<1>3. QED BY <1>2 DEF Next

\* Every step is one of Ausgangsfolge, or shows nothing.
LEMMA AusgangSchritt ==
  ASSUME AlleTreffen \/ MaxAbstuerze = 0, Grund, PhaseOK, VerblocktOK, VerblocktOK', ReiheOK, ReiheOK',
         Grund', verw.phase = "nie", verw'.phase = "nie", [Next]_vars
  PROVE  [Ausgang!Next]_<<folge, db.bloecke>>
<1>1. CASE UNCHANGED vars
  BY <1>1 DEF vars
<1>2. CASE Next
  <2>1. Bedingt /\ Bedingt'
    <3>1. MaxAbstuerze = 0 => zaehler.abstuerze = 0 /\ zaehler'.abstuerze = 0
      BY DEF Grund, Typ, ZaehlerTyp
    <3>2. AlleTreffen => AlleTreffen'
      BY DEF AlleTreffen, Teilen
    <3>3. QED BY <3>1, <3>2 DEF Bedingt
  <2>2. Reihe /\ BlockFolgt /\ BlockFolgt' /\ Ordentlich /\ verworfen = {}
    BY <2>1 DEF ReiheOK, PhaseOK
  <2>3. CASE BauSpeichert
    BY <2>2, <2>3, AusgangVerblocken
  <2>4. CASE \E t \in annahmen : Anhaengen(t)
    <3>1. PICK t \in annahmen : Anhaengen(t)
      BY <2>4
    <3>2. t \in Auftraege /\ t \notin Angewendet
      BY DEF Grund, Typ, Nummern, AnnahmenOK
    <3>3. folge' = Append(folge, t) /\ db'.bloecke = db.bloecke
      BY <3>1, AnhaengenTut
    <3>4. QED BY <3>2, <3>3, AusgangAnnehmen
  <2>5. CASE \E e \in schwebend : LangsamFertig(e)
    <3>1. PICK e \in schwebend : LangsamFertig(e)
      BY <2>5
    <3>2. e \in Eintraege /\ ~AusWAL(e) /\ folge' = Append(folge, e.tx) /\ db'.bloecke = db.bloecke
      BY <3>1, LangsamFertigTut
    <3>3. e.tx \in Auftraege /\ e.tx \notin Angewendet
      BY <3>2, EintragTyp DEF Grund, Nummern, AnnahmenOK, Zeilen
    <3>4. QED BY <3>2, <3>3, AusgangAnnehmen
  <2>6. CASE \E bis \in 0 .. wal.naechste : Absturz(bis)
    BY <2>2, <2>6, AusgangAbsturz
  <2>7. QED BY <1>2, <2>3, <2>4, <2>5, <2>6, AusgangStottert
<1>3. QED BY <1>1, <1>2

\* The log, the Korb, the rows and the mark implement Ausgangsfolge as long as the leader is
\* not superseded and either nothing crashes or every row shares an account with every fast
\* transfer: for every set of orders and accounts, every block size, and whatever crashes,
\* restarts, failures and compactions come.
THEOREM HaeltAusgangsfolgeGilt ==
  ASSUME ~Ueberholt, AlleTreffen \/ MaxAbstuerze = 0
  PROVE  Spec => HaeltAusgangsfolge
<1> DEFINE IInv == Grund /\ PhaseOK /\ StartOK /\ VerblocktOK /\ ReiheOK /\ LetzteNummer /\ verw.phase = "nie"
<1>1. Init => IInv
  <2>1. Init => StartOK /\ verw.phase = "nie"
    BY DEF Init, StartOK, Laeuft, Lueckenlos
  <2>2. QED BY <2>1, GrundStart, PhaseStart, VerblocktStart, ReiheStart
<1>2. IInv /\ [Next]_vars => IInv'
  BY GrundSchritt, PhaseSchritt, StartSchritt, VerblocktSchritt, ReiheSchritt, LetzteNummerSchritt, NieUeberholt
<1>3. Init => Ausgang!Init
  BY DEF Init, Ausgang!Init
<1>4. IInv /\ IInv' /\ [Next]_vars => [Ausgang!Next]_<<folge, db.bloecke>>
  BY AusgangSchritt
<1>5. <<folge, db.bloecke>> = Ausgang!vars
  BY DEF Ausgang!vars
<1> HIDE DEF IInv
<1>6. IInv /\ IInv' /\ [Next]_vars => [Ausgang!Next]_(Ausgang!vars)
  BY <1>4 DEF Ausgang!vars
<1>7. Spec => Ausgang!Spec
  BY <1>1, <1>2, <1>3, <1>6, PTL DEF Spec, Ausgang!Spec
<1>8. QED BY <1>7 DEF HaeltAusgangsfolge
=============================================================================
