------------------------ MODULE LeitungVerteiltProofs ------------------------
(***************************************************************************)
(* Proofs about distributed acceptance: the type of the state, that whoever*)
(* a handover lists has nothing left of its term, that what was accepted   *)
(* in an old term is discarded, for every Satz and all times, and, with    *)
(* the second half of the module and times like those of the code, that    *)
(* one node accepts for an account at a time.                              *)
(***************************************************************************)
EXTENDS LeitungVerteilt, FiniteSetTheorems, WellFoundedInduction, TLAPS

-----------------------------------------------------------------------------
(***************************************************************************)
(* The type of the state.                                                  *)
(***************************************************************************)
Ausfaelle == UNION {[S -> 0 .. LeaseDauer + Ruhezeit] : S \in SUBSET Validator}

\* What the operators on one node take and give.
LageTyp == [k : Knoten, vt : Stand, verwirft : BOOLEAN]

Wer == Validator \cup {Niemand}

\* The constants, and the bounds of the ages, are what they should be.
LEMMA Zahlen ==
  /\ LeaseDauer \in Nat /\ FolgerFrist \in Nat /\ Ruhezeit \in Nat /\ Verzug \in Nat
  /\ Stoerungen \in Nat /\ MaxTerm \in Nat /\ MaxTerm >= 1
  /\ Halbe \in Nat /\ LeaseDauer + Ruhezeit \in Nat
  /\ StartLeiter \in Validator /\ Niemand \notin Validator
<1>1. /\ LeaseDauer \in Nat /\ FolgerFrist \in Nat /\ Ruhezeit \in Nat /\ Verzug \in Nat
      /\ Stoerungen \in Nat /\ MaxTerm \in Nat \ {0}
      /\ StartLeiter \in Validator /\ Niemand \notin Validator
  BY VerteiltAnnahme
<1>2. Halbe \in Nat
  BY <1>1 DEF Halbe
<1>3. QED BY <1>1, <1>2

\* An age stays within its bound.
LEMMA AelterTyp ==
  ASSUME NEW g \in Nat, NEW t \in 0 .. g
  PROVE  Aelter(t, g) \in 0 .. g
BY DEF Aelter

\* Ages of any set of members are ages of members counted out.
LEMMA AusfaelleNeu ==
  ASSUME NEW S \in SUBSET Validator, NEW f, f \in [S -> 0 .. LeaseDauer + Ruhezeit]
  PROVE  f \in Ausfaelle
BY DEF Ausfaelle

\* And each of them is a function on members.
LEMMA AusfaelleFunktion ==
  ASSUME NEW f \in Ausfaelle
  PROVE  /\ DOMAIN f \in SUBSET Validator
         /\ f \in [DOMAIN f -> 0 .. LeaseDauer + Ruhezeit]
         /\ \A a \in DOMAIN f : f[a] \in 0 .. LeaseDauer + Ruhezeit
<1>1. PICK S \in SUBSET Validator : f \in [S -> 0 .. LeaseDauer + Ruhezeit]
  BY DEF Ausfaelle
<1>2. QED BY <1>1

\* The verteiltStand at the start of a term.
LEMMA FrischTyp ==
  ASSUME NEW t \in 0 .. MaxTerm, NEW S \in SUBSET Validator, NEW beleg \in SUBSET Validator
  PROVE  Frisch(t, S, beleg) \in Stand
<1>1. [a \in S |-> 0] \in Ausfaelle
  <2>1. [a \in S |-> 0] \in [S -> 0 .. LeaseDauer + Ruhezeit]
    BY Zahlen
  <2>2. QED BY <2>1, AusfaelleNeu
<1>2. /\ (IF beleg = {} THEN 0 ELSE Ruhezeit) \in 0 .. Ruhezeit /\ Halbe \in 0 .. Halbe
      /\ LeaseDauer \in 0 .. LeaseDauer
  BY Zahlen
<1>3. {} \in SUBSET Validator
  OBVIOUS
<1>4. QED BY <1>1, <1>2, <1>3 DEF Frisch, Stand, Ausfaelle

\* No acknowledgment is one for every member.
LEMMA KeineAcksTyp == KeineAcks \in [Validator -> 0 .. LeaseDauer]
BY Zahlen DEF KeineAcks

\* WerdeFolger, field by field.
LEMMA WerdeFolgerTut ==
  ASSUME NEW s \in LageTyp, NEW t \in 1 .. MaxTerm, NEW l \in Wer, NEW r, r = WerdeFolger(s, t, l)
  PROVE  /\ r \in LageTyp
         /\ r.k.rolle = "folger" /\ r.k.term = t /\ r.k.leiter = l
         /\ r.k.uebergabeAn = Niemand /\ r.k.beleg = {}
         /\ r.vt.term = s.vt.term /\ r.vt.abschlussGesehen = s.vt.abschlussGesehen
         /\ r.vt.hatAngenommen = s.vt.hatAngenommen /\ r.vt.abschlussVon = s.vt.abschlussVon
         /\ r.vt.ueberholtGemeldet
              <=> s.vt.ueberholtGemeldet \/ (s.k.rolle = "leiter" /\ t > s.k.term)
         /\ r.verwirft <=> s.verwirft \/ (s.k.rolle = "leiter" /\ t > s.k.term)
<1> DEFINE verloren == s.k.rolle = "leiter" /\ t > s.k.term
           z == [s.k EXCEPT !.rolle = "folger", !.term = t, !.leiter = l, !.letzteLease = 0,
                            !.acks = KeineAcks, !.uebergabeAn = Niemand, !.beleg = {}]
           v == [s.vt EXCEPT !.ueberholtGemeldet = @ \/ verloren]
<1>1. s.k \in Knoten /\ s.vt \in Stand /\ s.verwirft \in BOOLEAN
  BY DEF LageTyp
<1>2. r = [k |-> z, vt |-> v, verwirft |-> s.verwirft \/ verloren]
  BY DEF WerdeFolger
<1>3. /\ z \in Knoten /\ z.rolle = "folger" /\ z.term = t /\ z.leiter = l
      /\ z.uebergabeAn = Niemand /\ z.beleg = {}
  <2>1. /\ "folger" \in {"folger", "leiter", "aus"} /\ l \in Validator \cup {Niemand}
        /\ Niemand \in Validator \cup {Niemand} /\ 0 \in 0 .. FolgerFrist
        /\ {} \in SUBSET Validator
    BY Zahlen DEF Wer
  <2>2. QED BY <1>1, <2>1, KeineAcksTyp DEF Knoten
<1>4. verloren \in BOOLEAN
  OBVIOUS
<1>5. /\ v \in Stand /\ v.term = s.vt.term /\ v.abschlussGesehen = s.vt.abschlussGesehen
      /\ v.hatAngenommen = s.vt.hatAngenommen /\ v.abschlussVon = s.vt.abschlussVon
      /\ v.ueberholtGemeldet = (s.vt.ueberholtGemeldet \/ verloren)
  <2> HIDE DEF verloren
  <2>1. QED BY <1>1, <1>4 DEF Stand
<1>6. r.k = z /\ r.vt = v /\ r.verwirft = (s.verwirft \/ verloren)
  BY <1>2
<1>7. r \in LageTyp
  <2> HIDE DEF z, v, verloren
  <2>1. QED BY <1>1, <1>2, <1>3, <1>4, <1>5 DEF LageTyp
<1>8. QED
  <2> HIDE DEF z, v
  <2>1. QED BY <1>3, <1>5, <1>6, <1>7

\* NeuerTermVerteilt, field by field.
LEMMA NeuerTermTut ==
  ASSUME NEW n \in Validator, NEW s \in LageTyp, NEW t \in 0 .. MaxTerm,
         NEW beleg \in SUBSET Validator, NEW r, r = NeuerTermVerteilt(n, s, t, beleg)
  PROVE  /\ r \in LageTyp /\ r.k = s.k /\ r.vt = Frisch(t, {}, beleg)
         /\ r.verwirft <=> s.verwirft \/ /\ s.vt.hatAngenommen /\ s.vt.term < t
                                         /\ ~s.vt.ueberholtGemeldet /\ n \notin beleg
<1> DEFINE w == s.verwirft \/ /\ s.vt.hatAngenommen /\ s.vt.term < t
                              /\ ~s.vt.ueberholtGemeldet /\ n \notin beleg
           v == Frisch(t, {}, beleg)
<1>1. s.k \in Knoten /\ s = [k |-> s.k, vt |-> s.vt, verwirft |-> s.verwirft] /\ w \in BOOLEAN
  BY DEF LageTyp
<1>2. v \in Stand
  BY FrischTyp
<1>3. r = [k |-> s.k, vt |-> v, verwirft |-> w]
  <2>1. r = [s EXCEPT !.vt = v, !.verwirft = w]
    BY <1>1, Zenon DEF NeuerTermVerteilt
  <2> HIDE DEF w, v
  <2>2. QED BY <1>1, <2>1
<1>4. r.k = s.k /\ r.vt = v /\ r.verwirft = w
  BY <1>3
<1>5. r \in LageTyp
  <2> HIDE DEF w, v
  <2>1. QED BY <1>1, <1>2, <1>3 DEF LageTyp
<1>6. QED BY <1>4, <1>5

\* WerdeLeiter, field by field.
LEMMA WerdeLeiterTut ==
  ASSUME NEW n \in Validator, NEW s \in LageTyp, NEW beleg \in SUBSET Validator,
         NEW r, r = WerdeLeiter(n, s, beleg)
  PROVE  /\ r \in LageTyp
         /\ r.k.rolle = "leiter" /\ r.k.term = s.k.term /\ r.k.leiter = n
         /\ r.k.uebergabeAn = Niemand /\ r.k.beleg = beleg
         /\ r.vt = Frisch(s.k.term, {}, beleg)
         /\ r.verwirft <=> s.verwirft \/ /\ s.vt.hatAngenommen /\ s.vt.term < s.k.term
                                         /\ ~s.vt.ueberholtGemeldet /\ n \notin beleg
<1> DEFINE z == [s.k EXCEPT !.rolle = "leiter", !.leiter = n, !.leiterSeit = 0,
                            !.acks = KeineAcks, !.uebergabeAn = Niemand, !.beleg = beleg]
           q == [s EXCEPT !.k = z]
<1>1. s.k \in Knoten /\ s.vt \in Stand /\ s.verwirft \in BOOLEAN
      /\ s = [k |-> s.k, vt |-> s.vt, verwirft |-> s.verwirft]
  BY DEF LageTyp
<1>2. /\ z \in Knoten /\ z.rolle = "leiter" /\ z.term = s.k.term /\ z.leiter = n
      /\ z.uebergabeAn = Niemand /\ z.beleg = beleg
  <2>1. /\ "leiter" \in {"folger", "leiter", "aus"} /\ n \in Validator \cup {Niemand}
        /\ Niemand \in Validator \cup {Niemand} /\ 0 \in 0 .. LeaseDauer
    BY Zahlen
  <2>2. QED BY <1>1, <2>1, KeineAcksTyp DEF Knoten
<1>3. q = [k |-> z, vt |-> s.vt, verwirft |-> s.verwirft]
  <2> HIDE DEF z
  <2>1. QED BY <1>1
<1>4. q \in LageTyp /\ q.k = z /\ q.vt = s.vt /\ q.verwirft = s.verwirft
  <2> HIDE DEF z
  <2>1. QED BY <1>1, <1>2, <1>3 DEF LageTyp
<1>5. s.k.term \in 0 .. MaxTerm
  BY <1>1, Zahlen DEF Knoten
<1>6. r = NeuerTermVerteilt(n, q, s.k.term, beleg)
  BY DEF WerdeLeiter
<1> HIDE DEF q, z
<1>7. /\ r \in LageTyp /\ r.k = q.k /\ r.vt = Frisch(s.k.term, {}, beleg)
      /\ r.verwirft <=> q.verwirft \/ /\ q.vt.hatAngenommen /\ q.vt.term < s.k.term
                                      /\ ~q.vt.ueberholtGemeldet /\ n \notin beleg
  BY <1>4, <1>5, <1>6, NeuerTermTut
<1>8. QED BY <1>2, <1>4, <1>7

\* A lease of the term m.term noted: the Stand is that of this term.
LEMMA FolgerLeaseTut ==
  ASSUME NEW n \in Validator, NEW s \in LageTyp, NEW m \in Lease,
         NEW r, r = FolgerLeaseVerteilt(n, s, m)
  PROVE  /\ r \in LageTyp /\ r.k = s.k /\ r.vt.term = m.term
         /\ m.abschluss => r.vt.abschlussGesehen
         /\ s.vt.term = m.term =>
              /\ s.vt.abschlussGesehen => r.vt.abschlussGesehen
              /\ r.vt.hatAngenommen = s.vt.hatAngenommen
              /\ r.vt.ueberholtGemeldet = s.vt.ueberholtGemeldet
              /\ r.verwirft = s.verwirft
         /\ s.vt.term # m.term =>
              /\ ~r.vt.hatAngenommen /\ ~r.vt.ueberholtGemeldet
              /\ r.verwirft <=> s.verwirft \/ /\ s.vt.hatAngenommen /\ s.vt.term < m.term
                                              /\ ~s.vt.ueberholtGemeldet /\ n \notin m.uebergabe
<1> DEFINE q == IF s.vt.term = m.term THEN s ELSE NeuerTermVerteilt(n, s, m.term, m.uebergabe)
           D == DOMAIN q.vt.ausgefallen
           f == [a \in D \cup m.ausgefallen |-> IF a \in D THEN q.vt.ausgefallen[a] ELSE 0]
           g == q.vt.abschlussGesehen \/ m.abschluss
           h == IF m.bestaetigt THEN 0 ELSE q.vt.letzteBestaetigt
           v == [q.vt EXCEPT !.ausgefallen = f, !.abschlussGesehen = g, !.letzteBestaetigt = h]
<1>1. /\ m.term \in 0 .. MaxTerm /\ m.uebergabe \in SUBSET Validator
      /\ m.ausgefallen \in SUBSET Validator
  BY Zahlen DEF Lease
<1>2. ASSUME s.vt.term # m.term
      PROVE  /\ q \in LageTyp /\ q.k = s.k /\ q.vt = Frisch(m.term, {}, m.uebergabe)
             /\ q.verwirft <=> s.verwirft \/ /\ s.vt.hatAngenommen /\ s.vt.term < m.term
                                             /\ ~s.vt.ueberholtGemeldet /\ n \notin m.uebergabe
  <2>1. q = NeuerTermVerteilt(n, s, m.term, m.uebergabe)
    BY <1>2
  <2> HIDE DEF q
  <2>2. QED BY <1>1, <2>1, NeuerTermTut
<1>3. q \in LageTyp /\ q.k = s.k /\ q.vt.term = m.term
  <2>1. CASE s.vt.term = m.term
    BY <2>1
  <2>2. CASE s.vt.term # m.term
    <3> HIDE DEF q
    <3>1. QED BY <1>2, <2>2 DEF Frisch
  <2>3. QED BY <2>1, <2>2
<1>4. s.vt.term = m.term => q = s
  OBVIOUS
<1> HIDE DEF q
<1>5. q.vt \in Stand /\ q.k \in Knoten /\ q.verwirft \in BOOLEAN
      /\ q = [k |-> q.k, vt |-> q.vt, verwirft |-> q.verwirft]
  BY <1>3 DEF LageTyp
<1>6. q.vt.ausgefallen \in Ausfaelle /\ q.vt.letzteBestaetigt \in 0 .. Halbe
      /\ q.vt.abschlussGesehen \in BOOLEAN
  BY <1>5 DEF Stand, Ausfaelle
<1>7. f \in Ausfaelle
  <2>1. /\ D \in SUBSET Validator
        /\ \A a \in D : q.vt.ausgefallen[a] \in 0 .. LeaseDauer + Ruhezeit
    BY <1>6, AusfaelleFunktion
  <2>2. 0 \in 0 .. LeaseDauer + Ruhezeit
    BY Zahlen
  <2> HIDE DEF D
  <2>3. f \in [D \cup m.ausgefallen -> 0 .. LeaseDauer + Ruhezeit]
    BY <2>1, <2>2
  <2>4. D \cup m.ausgefallen \in SUBSET Validator
    BY <1>1, <2>1
  <2> HIDE DEF f
  <2>5. QED BY <2>3, <2>4, AusfaelleNeu
<1>8. g \in BOOLEAN /\ h \in 0 .. Halbe
  BY <1>6, Zahlen
<1>9. /\ v \in Stand /\ v.term = q.vt.term /\ v.abschlussGesehen = g
      /\ v.hatAngenommen = q.vt.hatAngenommen /\ v.ueberholtGemeldet = q.vt.ueberholtGemeldet
  <2> HIDE DEF f, g, h
  <2>1. QED BY <1>5, <1>7, <1>8 DEF Stand, Ausfaelle
<1>10. r = [k |-> q.k, vt |-> v, verwirft |-> q.verwirft]
  <2>1. r = [q EXCEPT !.vt.ausgefallen = f, !.vt.abschlussGesehen = g, !.vt.letzteBestaetigt = h]
    BY DEF FolgerLeaseVerteilt, q
  <2> HIDE DEF f, g, h
  <2>2. QED BY <1>5, <2>1
<1>11. r \in LageTyp /\ r.k = q.k /\ r.vt = v /\ r.verwirft = q.verwirft
  <2> HIDE DEF v
  <2>1. QED BY <1>5, <1>9, <1>10 DEF LageTyp
<1> HIDE DEF v, f, h
<1>12. r.k = s.k /\ r.vt.term = m.term /\ (m.abschluss => r.vt.abschlussGesehen)
  BY <1>3, <1>9, <1>11
<1>13. ASSUME s.vt.term = m.term
       PROVE  /\ s.vt.abschlussGesehen => r.vt.abschlussGesehen
              /\ r.vt.hatAngenommen = s.vt.hatAngenommen
              /\ r.vt.ueberholtGemeldet = s.vt.ueberholtGemeldet
              /\ r.verwirft = s.verwirft
  BY <1>4, <1>9, <1>11, <1>13
<1>14. ASSUME s.vt.term # m.term
       PROVE  /\ ~r.vt.hatAngenommen /\ ~r.vt.ueberholtGemeldet
              /\ r.verwirft <=> s.verwirft \/ /\ s.vt.hatAngenommen /\ s.vt.term < m.term
                                              /\ ~s.vt.ueberholtGemeldet /\ n \notin m.uebergabe
  <2>1. ~q.vt.hatAngenommen /\ ~q.vt.ueberholtGemeldet
    BY <1>2, <1>14 DEF Frisch
  <2>2. ~r.vt.hatAngenommen /\ ~r.vt.ueberholtGemeldet
    BY <1>9, <1>11, <2>1
  <2>3. r.verwirft = q.verwirft
    BY <1>11
  <2>4. QED BY <1>2, <1>14, <2>2, <2>3
<1>15. QED BY <1>11, <1>12, <1>13, <1>14

-----------------------------------------------------------------------------
(***************************************************************************)
(* The inductive invariant.                                                *)
(***************************************************************************)
\* A node with the state s (g: its process has stopped before) leads the
\* term in which it is on record as leader, and takes part in no later term
\* than its own.
KnotenOK(n, s, g) ==
  /\ s.k.rolle = "leiter" => s.k.leiter = n
  /\ s.k.leiter = n => s.k.rolle # "folger" /\ s.vt.term = s.k.term
  /\ s.k.rolle = "aus" => /\ g /\ s.k.beleg = {} /\ s.k.uebergabeAn = Niemand
                          /\ s.k.leiter # n => s.vt.term = 0
  /\ s.vt.term <= s.k.term /\ s.k.uebergabeAn # n

\* What is open, O, is of the term in which the node takes part, and known
\* there, or is being discarded.  A term lost is discarded at once.
AltesOK(s, O) ==
  /\ \A t \in O : /\ t <= s.vt.term
                  /\ t < s.vt.term => s.verwirft
                  /\ t = s.vt.term => s.vt.hatAngenommen
  /\ s.vt.ueberholtGemeldet => s.k.term > s.vt.term /\ (s.verwirft \/ O = {})

\* A handover that somebody has sent, or none.
Belegt(beleg, t) == beleg = {} \/ \E u \in uebergaben : u.term + 1 = t /\ u.abschluesse = beleg

\* n has nothing open of the term t and accepts nothing in it anymore: it is
\* past it, or knows that its leader l ends it, or will learn that from any
\* lease that lets it take part.
Geschlossen(n, t, l) ==
  /\ t \notin offen[n]
  /\ n \notin abgestuerzt => vt[n].term >= t
  /\ \/ k[n].term > t
     \/ /\ k[n].term = t /\ k[n].leiter = l /\ n # l
        /\ IF vt[n].term = t THEN vt[n].abschlussGesehen
           ELSE \A m \in netz : m.an = n /\ m.von = l /\ m.term = t => m.abschluss

\* Whom a leader that is ending its term counts as drained, is.
LeiterOK(l) ==
  k[l].rolle = "leiter" =>
    /\ Belegt(k[l].beleg, k[l].term)
    /\ k[l].uebergabeAn # Niemand => \A n \in vt[l].abschlussVon : Geschlossen(n, k[l].term, l)

\* Who has handed its term over is past it, and all it lists are drained.
UebergabeOK(u) ==
  k[u.von].term > u.term /\ \A n \in u.abschluesse : Geschlossen(n, u.term, u.von)

IInv ==
  /\ TypeOK
  /\ \A n \in Validator :
       /\ KnotenOK(n, Lage(n), n \in abgestuerzt)
       /\ n \notin abgestuerzt => AltesOK(Lage(n), offen[n])
       /\ LeiterOK(n)
  /\ \A m \in netz : m.von # m.an /\ Belegt(m.uebergabe, m.term)
  /\ \A u \in uebergaben : UebergabeOK(u)

-----------------------------------------------------------------------------
(***************************************************************************)
(* The operators on one node keep what it accepted accounted for.          *)
(***************************************************************************)
\* The state of a node has its type, and its parts theirs.
LEMMA LageTypen ==
  ASSUME NEW s \in LageTyp
  PROVE  /\ s.k \in Knoten /\ s.vt \in Stand /\ s.verwirft \in BOOLEAN
         /\ s.k.term \in Nat /\ s.k.term \in 1 .. MaxTerm /\ s.vt.term \in Nat
         /\ s.vt.term \in 0 .. MaxTerm /\ s.k.leiter \in Wer /\ s.k.uebergabeAn \in Wer
         /\ s.k.beleg \in SUBSET Validator /\ s.k.rolle \in {"folger", "leiter", "aus"}
BY Zahlen DEF LageTyp, Knoten, Stand, Wer

\* Losing a term starts to discard what is open of it.
LEMMA WerdeFolgerAltes ==
  ASSUME NEW s \in LageTyp, NEW t \in 1 .. MaxTerm, NEW l \in Wer, t >= s.k.term,
         NEW O \in SUBSET (1 .. MaxTerm), AltesOK(s, O), s.vt.term <= s.k.term,
         NEW r, r = WerdeFolger(s, t, l)
  PROVE  AltesOK(r, O)
<1>1. /\ r.k.term = t /\ r.vt.term = s.vt.term /\ r.vt.hatAngenommen = s.vt.hatAngenommen
      /\ r.vt.ueberholtGemeldet
           <=> s.vt.ueberholtGemeldet \/ (s.k.rolle = "leiter" /\ t > s.k.term)
      /\ r.verwirft <=> s.verwirft \/ (s.k.rolle = "leiter" /\ t > s.k.term)
  BY WerdeFolgerTut
<1>2. s.k.term \in Nat /\ s.vt.term \in Nat
  BY LageTypen
<1>3. QED BY <1>1, <1>2 DEF AltesOK

\* A new term starts to discard what is open of an old one, unless the
\* handover says that nothing is.
LEMMA NeuerTermAltes ==
  ASSUME NEW n \in Validator, NEW s \in LageTyp, NEW r \in LageTyp, NEW beleg,
         NEW O \in SUBSET (1 .. MaxTerm), AltesOK(s, O),
         s.vt.term < r.vt.term, ~r.vt.hatAngenommen, ~r.vt.ueberholtGemeldet,
         r.verwirft <=> s.verwirft \/ /\ s.vt.hatAngenommen /\ s.vt.term < r.vt.term
                                      /\ ~s.vt.ueberholtGemeldet /\ n \notin beleg,
         n \in beleg => r.vt.term - 1 \notin O /\ s.vt.term >= r.vt.term - 1
  PROVE  AltesOK(r, O)
<1>1. s.vt.term \in Nat /\ r.vt.term \in Nat
  BY LageTypen
<1>2. ASSUME NEW t \in O PROVE t <= s.vt.term /\ r.verwirft
  <2>1. CASE t < s.vt.term
    BY <1>1, <2>1 DEF AltesOK
  <2>2. CASE t = s.vt.term
    <3>1. s.vt.hatAngenommen /\ (s.vt.ueberholtGemeldet => s.verwirft)
      BY <2>2 DEF AltesOK
    <3>2. n \notin beleg
      BY <1>1, <2>2
    <3>3. QED BY <2>2, <3>1, <3>2, <1>1
  <2>3. QED BY <1>1, <2>1, <2>2 DEF AltesOK
<1>3. QED BY <1>1, <1>2 DEF AltesOK

\* What a lease that is not rejected makes of the node that gets it.
LEMMA NachLeaseTut ==
  ASSUME NEW n \in Validator, NEW m \in Lease, m.von # n, NEW g, NEW s \in LageTyp, s = Lage(n),
         KnotenOK(n, s, g), s.k.rolle # "aus", ~LeaseAblehnen(k[n], m), NEW r, r = NachLease(n, m)
  PROVE  /\ r \in LageTyp /\ KnotenOK(n, r, g)
         /\ r.k.rolle = "folger" /\ r.k.term = m.term /\ r.k.leiter = m.von
         /\ r.vt.term = m.term /\ (m.abschluss => r.vt.abschlussGesehen)
         /\ s.k.term <= m.term
         /\ s.k.term = m.term => s.k.leiter \in {Niemand, m.von}
         /\ s.vt.term = m.term /\ s.vt.abschlussGesehen => r.vt.abschlussGesehen
         /\ \A O \in SUBSET (1 .. MaxTerm) :
              AltesOK(s, O) /\ (n \in m.uebergabe => m.term - 1 \notin O /\ s.vt.term >= m.term - 1)
              => AltesOK(r, O)
<1> DEFINE p == IF m.term > s.k.term \/ s.k.leiter = Niemand
                THEN WerdeFolger(s, m.term, m.von) ELSE s
           q == [p EXCEPT !.k.letzteLease = 0]
<1>1. /\ s.k = k[n] /\ s.k.term \in Nat /\ s.vt.term \in Nat /\ s.k.rolle \in {"folger", "leiter", "aus"}
      /\ m.term \in 1 .. MaxTerm /\ m.term \in Nat /\ m.von \in Wer /\ m.von \in Validator
      /\ m.von # Niemand
  BY LageTypen, Zahlen DEF Lage, Lease, Wer
<1>2. /\ s.k.term <= m.term
      /\ s.k.term = m.term => s.k.rolle # "leiter" /\ s.k.leiter \in {Niemand, m.von}
  BY <1>1 DEF LeaseAblehnen
<1>3. /\ p \in LageTyp /\ p.k.rolle = "folger" /\ p.k.term = m.term /\ p.k.leiter = m.von
      /\ p.k.uebergabeAn # n /\ p.vt.term = s.vt.term
      /\ p.vt.abschlussGesehen = s.vt.abschlussGesehen
  <2>1. CASE m.term > s.k.term \/ s.k.leiter = Niemand
    <3>1. p = WerdeFolger(s, m.term, m.von)
      BY <2>1
    <3> HIDE DEF p
    <3>2. Niemand # n
      BY Zahlen
    <3>3. QED BY <1>1, <3>1, <3>2, WerdeFolgerTut
  <2>2. CASE ~(m.term > s.k.term \/ s.k.leiter = Niemand)
    BY <1>1, <1>2, <2>2 DEF KnotenOK
  <2>3. QED BY <2>1, <2>2
<1>4. ASSUME NEW O \in SUBSET (1 .. MaxTerm), AltesOK(s, O) PROVE AltesOK(p, O)
  <2>1. CASE m.term > s.k.term \/ s.k.leiter = Niemand
    <3>1. p = WerdeFolger(s, m.term, m.von)
      BY <2>1
    <3> HIDE DEF p
    <3>2. QED BY <1>1, <1>2, <1>4, <3>1, WerdeFolgerAltes DEF KnotenOK
  <2>2. CASE ~(m.term > s.k.term \/ s.k.leiter = Niemand)
    BY <1>4, <2>2
  <2>3. QED BY <2>1, <2>2
<1> HIDE DEF p
<1>5. /\ q.k = [p.k EXCEPT !.letzteLease = 0] /\ q.vt = p.vt /\ q.verwirft = p.verwirft
      /\ q = [k |-> [p.k EXCEPT !.letzteLease = 0], vt |-> p.vt, verwirft |-> p.verwirft]
  BY <1>3 DEF LageTyp
<1>6. /\ [p.k EXCEPT !.letzteLease = 0] \in Knoten /\ q.k.rolle = "folger" /\ q.k.term = m.term
      /\ q.k.leiter = m.von /\ q.k.uebergabeAn # n
  <2>1. p.k \in Knoten /\ 0 \in 0 .. FolgerFrist
    BY <1>3, LageTypen, Zahlen
  <2>2. QED BY <1>3, <1>5, <2>1 DEF Knoten
<1>7. q \in LageTyp
  <2>1. p.vt \in Stand /\ p.verwirft \in BOOLEAN
    BY <1>3, LageTypen
  <2> HIDE DEF q
  <2>2. QED BY <1>5, <1>6, <2>1 DEF LageTyp
<1>8. r = FolgerLeaseVerteilt(n, q, m)
  BY <1>1 DEF NachLease, Lage, p
<1> HIDE DEF q
<1>9. /\ r \in LageTyp /\ r.k = q.k /\ r.vt.term = m.term
      /\ m.abschluss => r.vt.abschlussGesehen
      /\ q.vt.term = m.term =>
           /\ q.vt.abschlussGesehen => r.vt.abschlussGesehen
           /\ r.vt.hatAngenommen = q.vt.hatAngenommen
           /\ r.vt.ueberholtGemeldet = q.vt.ueberholtGemeldet
           /\ r.verwirft = q.verwirft
      /\ q.vt.term # m.term =>
           /\ ~r.vt.hatAngenommen /\ ~r.vt.ueberholtGemeldet
           /\ r.verwirft <=> q.verwirft \/ /\ q.vt.hatAngenommen /\ q.vt.term < m.term
                                           /\ ~q.vt.ueberholtGemeldet /\ n \notin m.uebergabe
  BY <1>7, <1>8, FolgerLeaseTut
<1>10. KnotenOK(n, r, g)
  BY <1>1, <1>6, <1>9 DEF KnotenOK
<1>11. ASSUME NEW O \in SUBSET (1 .. MaxTerm), AltesOK(s, O),
              n \in m.uebergabe => m.term - 1 \notin O /\ s.vt.term >= m.term - 1
       PROVE  AltesOK(r, O)
  <2>1. AltesOK(q, O)
    BY <1>3, <1>4, <1>5, <1>6, <1>11 DEF AltesOK
  <2>2. CASE q.vt.term = m.term
    BY <1>6, <1>9, <2>1, <2>2 DEF AltesOK
  <2>3. CASE q.vt.term # m.term
    <3>1. q.vt.term < r.vt.term
      BY <1>1, <1>2, <1>3, <1>5, <1>9, <2>3 DEF KnotenOK
    <3>2. q.vt.term = s.vt.term
      BY <1>3, <1>5
    <3>3. QED BY <1>7, <1>9, <1>11, <2>1, <2>3, <3>1, <3>2, NeuerTermAltes
  <2>4. QED BY <2>2, <2>3
<1>12. s.vt.term = m.term /\ s.vt.abschlussGesehen => r.vt.abschlussGesehen
  BY <1>3, <1>5, <1>9
<1>13. /\ r.k.rolle = "folger" /\ r.k.term = m.term /\ r.k.leiter = m.von
       /\ s.k.term = m.term => s.k.leiter \in {Niemand, m.von}
  BY <1>2, <1>6, <1>9
<1>14. QED BY <1>2, <1>9, <1>10, <1>11, <1>12, <1>13

\* What the answer of n, now in the state s, makes of the leader l.
LEMMA NachQuittungTut ==
  ASSUME NEW n \in Validator, NEW l \in Validator, NEW m \in Lease, NEW s \in LageTyp, NEW g,
         NEW o \in LageTyp, o = Lage(l), KnotenOK(l, o, g), o.k.rolle # "aus",
         NEW r, r = NachQuittung(l, n, s, m)
  PROVE  /\ r \in LageTyp /\ KnotenOK(l, r, g)
         /\ o.k.term <= r.k.term /\ r.vt.term = o.vt.term
         /\ r.vt.abschlussGesehen = o.vt.abschlussGesehen
         /\ r.k.term = o.k.term => r.k.leiter = o.k.leiter
         /\ r.k.rolle = "leiter" => /\ o.k.rolle = "leiter" /\ r.k.term = o.k.term
                                    /\ r.k.uebergabeAn = o.k.uebergabeAn
                                    /\ r.k.beleg = o.k.beleg
                                    /\ \/ r.vt.abschlussVon = o.vt.abschlussVon
                                       \/ /\ r.vt.abschlussVon = o.vt.abschlussVon \cup {n}
                                          /\ ~LeaseAblehnen(k[n], m) /\ o.k.term = m.term
                                          /\ s.vt.abschlussGesehen /\ offen[n] = {}
         /\ \A O \in SUBSET (1 .. MaxTerm) : AltesOK(o, O) => AltesOK(r, O)
<1>1. /\ o.k \in Knoten /\ o.vt \in Stand /\ o.verwirft \in BOOLEAN
      /\ o.k.term \in Nat /\ o.vt.term \in Nat /\ o.k.rolle \in {"folger", "leiter", "aus"}
      /\ s.k.term \in 1 .. MaxTerm /\ s.k.term \in Nat
      /\ Niemand \in Wer /\ Niemand # l /\ Niemand # n /\ m.alter \in Nat
      /\ o = [k |-> o.k, vt |-> o.vt, verwirft |-> o.verwirft]
  BY LageTypen, Zahlen DEF Wer, Lease, LageTyp
<1>2. CASE r = o
  BY <1>1, <1>2
<1>3. CASE s.k.term > o.k.term /\ r = WerdeFolger(o, s.k.term, Niemand)
  <2>1. /\ r \in LageTyp
        /\ r.k.rolle = "folger" /\ r.k.term = s.k.term /\ r.k.leiter = Niemand
        /\ r.k.uebergabeAn = Niemand /\ r.vt.term = o.vt.term
        /\ r.vt.abschlussGesehen = o.vt.abschlussGesehen
    BY <1>1, <1>3, WerdeFolgerTut
  <2>2. KnotenOK(l, r, g)
    BY <1>1, <1>3, <2>1 DEF KnotenOK
  <2>3. ASSUME NEW O \in SUBSET (1 .. MaxTerm), AltesOK(o, O) PROVE AltesOK(r, O)
    BY <1>1, <1>3, <2>3, WerdeFolgerAltes DEF KnotenOK
  <2>4. QED BY <1>1, <1>3, <2>1, <2>2, <2>3
<1>4. CASE ~LeaseAblehnen(k[n], m) /\ o.k.rolle = "leiter" /\ o.k.term = m.term
  <2> DEFINE a == IF m.alter < o.k.acks[n] THEN m.alter ELSE o.k.acks[n]
             A == IF o.k.uebergabeAn # Niemand /\ QuittungEntleert(n, s)
                  THEN o.vt.abschlussVon \cup {n} ELSE o.vt.abschlussVon
             z == [o.k EXCEPT !.acks[n] = a]
             v == [o.vt EXCEPT !.abschlussVon = A]
  <2>1. o.k.acks \in [Validator -> 0 .. LeaseDauer] /\ o.vt.abschlussVon \in SUBSET Validator
    BY <1>1 DEF Knoten, Stand
  <2>2. a \in 0 .. LeaseDauer /\ A \in SUBSET Validator
    <3>1. o.k.acks[n] \in 0 .. LeaseDauer
      BY <2>1
    <3>2. QED BY <1>1, <2>1, <3>1, Zahlen
  <2>3. \/ A = o.vt.abschlussVon
        \/ A = o.vt.abschlussVon \cup {n} /\ s.vt.abschlussGesehen /\ offen[n] = {}
    BY DEF QuittungEntleert, Entleert
  <2>4. r = [o EXCEPT !.k.acks[n] = a, !.vt.abschlussVon = A]
    BY <1>4 DEF NachQuittung
  <2> HIDE DEF a, A
  <2>5. z = [o.k EXCEPT !.acks = [o.k.acks EXCEPT ![n] = a]]
    BY <1>1, <2>1 DEF Knoten
  <2>6. [o.k.acks EXCEPT ![n] = a] \in [Validator -> 0 .. LeaseDauer]
    BY <2>1, <2>2
  <2>7. /\ z \in Knoten /\ z.rolle = o.k.rolle /\ z.term = o.k.term /\ z.leiter = o.k.leiter
        /\ z.uebergabeAn = o.k.uebergabeAn /\ z.beleg = o.k.beleg
    <3> HIDE DEF z
    <3>1. QED BY <1>1, <2>5, <2>6 DEF Knoten
  <2>8. /\ v \in Stand /\ v.term = o.vt.term /\ v.abschlussGesehen = o.vt.abschlussGesehen
        /\ v.hatAngenommen = o.vt.hatAngenommen
        /\ v.ueberholtGemeldet = o.vt.ueberholtGemeldet /\ v.abschlussVon = A
    BY <1>1, <2>2 DEF Stand
  <2>9. r = [k |-> z, vt |-> v, verwirft |-> o.verwirft]
    BY <1>1, <2>4
  <2> HIDE DEF z, v
  <2>10. r \in LageTyp /\ r.k = z /\ r.vt = v /\ r.verwirft = o.verwirft
    BY <1>1, <2>7, <2>8, <2>9 DEF LageTyp
  <2>11. KnotenOK(l, r, g)
    BY <2>7, <2>8, <2>10 DEF KnotenOK
  <2>12. ASSUME NEW O \in SUBSET (1 .. MaxTerm), AltesOK(o, O) PROVE AltesOK(r, O)
    BY <2>7, <2>8, <2>10, <2>12 DEF AltesOK
  <2>13. QED BY <1>1, <1>4, <2>3, <2>7, <2>8, <2>10, <2>11, <2>12
<1>5. \/ r = o
      \/ s.k.term > o.k.term /\ r = WerdeFolger(o, s.k.term, Niemand)
      \/ ~LeaseAblehnen(k[n], m) /\ o.k.rolle = "leiter" /\ o.k.term = m.term
  BY DEF NachQuittung
<1>6. QED BY <1>2, <1>3, <1>4, <1>5

-----------------------------------------------------------------------------
(***************************************************************************)
(* What every step keeps to, and that this is enough for the invariant.    *)
(***************************************************************************)
\* A lease that is under way, or that a leader can send now.
Brief(m) ==
  m \in netz \/ \E l, v \in Validator : v # l /\ k[l].rolle = "leiter" /\ m = LeaseVon(l, v)

\* A node raises its term, accepts only in the term in which it takes part and
\* before it has seen its end, and within a term forgets neither its leader
\* nor the end; it takes part by a lease, or its process stops and the leases
\* to it are lost.
Treu(n) ==
  /\ k[n].term <= k'[n].term
  /\ n \notin abgestuerzt' => n \notin abgestuerzt /\ vt[n].term <= vt'[n].term
  /\ \A t \in offen'[n] \ offen[n] :
       t = k[n].term /\ t = vt[n].term /\ (k[n].leiter = n \/ ~vt[n].abschlussGesehen)
  /\ k'[n].term = k[n].term /\ k[n].leiter \notin {n, Niemand} =>
       /\ k'[n].leiter = k[n].leiter
       /\ \/ /\ vt'[n].term = vt[n].term
             /\ vt[n].term = k[n].term /\ vt[n].abschlussGesehen => vt'[n].abschlussGesehen
          \/ /\ vt[n].term # k[n].term /\ vt'[n].term = k[n].term
             /\ \E m : /\ Brief(m) /\ m.an = n /\ m.von = k[n].leiter /\ m.term = k[n].term
                       /\ m.abschluss => vt'[n].abschlussGesehen
          \/ vt'[n].term # k[n].term /\ \A q \in netz' : q.an # n

\* A leader becomes one with a handover that was sent, and counts nobody as
\* drained who is not.
LeiterTreu(l) ==
  k'[l].rolle = "leiter" =>
    /\ \/ k[l].rolle = "leiter" /\ k'[l].beleg = k[l].beleg /\ k'[l].term = k[l].term
       \/ Belegt(k'[l].beleg, k'[l].term)
    /\ k'[l].uebergabeAn # Niemand =>
         \A n \in vt'[l].abschlussVon :
           \/ /\ k[l].rolle = "leiter" /\ k[l].uebergabeAn # Niemand
              /\ k'[l].term = k[l].term /\ n \in vt[l].abschlussVon
           \/ Geschlossen(n, k[l].term, l)'

\* The leases under way are copies.
NetzTreu ==
  \A q \in netz' : \E m : /\ Brief(m) /\ q.von = m.von /\ q.an = m.an /\ q.term = m.term
                          /\ q.abschluss = m.abschluss /\ q.uebergabe = m.uebergabe

\* A new handover ends a term and lists who is drained.
UebergabeTreu(u) ==
  /\ k'[u.von].term > u.term
  /\ \A n \in u.abschluesse :
       \/ /\ k[u.von].rolle = "leiter" /\ k[u.von].uebergabeAn # Niemand
          /\ k[u.von].term = u.term /\ n \in vt[u.von].abschlussVon
       \/ Geschlossen(n, u.term, u.von)'

Schritt ==
  /\ TypeOK'
  /\ \A n \in Validator :
       /\ KnotenOK(n, Lage(n), n \in abgestuerzt)'
       /\ n \notin abgestuerzt' => AltesOK(Lage(n), offen[n])'
       /\ Treu(n) /\ LeiterTreu(n)
  /\ NetzTreu
  /\ uebergaben \subseteq uebergaben' /\ \A u \in uebergaben' \ uebergaben : UebergabeTreu(u)

\* The leader l has ended the term t or is ending it: all its leases say so.
Schliesst(l, t) ==
  k[l].term > t \/ (k[l].rolle = "leiter" /\ k[l].term = t /\ k[l].uebergabeAn # Niemand)

\* The parts of a typed state.
LEMMA Typen ==
  ASSUME TypeOK
  PROVE  /\ \A n \in Validator :
              /\ k[n] \in Knoten /\ vt[n] \in Stand /\ verwirft[n] \in BOOLEAN /\ Lage(n) \in LageTyp
              /\ Lage(n).k = k[n] /\ Lage(n).vt = vt[n] /\ Lage(n).verwirft = verwirft[n]
              /\ k[n].term \in Nat /\ k[n].term \in 1 .. MaxTerm /\ vt[n].term \in Nat
              /\ vt[n].abschlussVon \in SUBSET Validator
              /\ k[n].uebergabeAn \in Wer /\ k[n].leiter \in Wer /\ k[n].beleg \in SUBSET Validator
              /\ offen[n] \in SUBSET (1 .. MaxTerm)
         /\ \A u \in uebergaben : /\ u \in Uebergabe /\ u.von \in Validator /\ u.an \in Validator
                                  /\ u.term \in Nat /\ u.abschluesse \in SUBSET Validator
         /\ \A m \in netz : m \in Lease /\ m.an \in Validator /\ m.von \in Validator
<1>1. ASSUME NEW n \in Validator
      PROVE  /\ k[n] \in Knoten /\ vt[n] \in Stand /\ verwirft[n] \in BOOLEAN
             /\ Lage(n) \in LageTyp
             /\ Lage(n).k = k[n] /\ Lage(n).vt = vt[n] /\ Lage(n).verwirft = verwirft[n]
             /\ k[n].term \in Nat /\ k[n].term \in 1 .. MaxTerm /\ vt[n].term \in Nat
             /\ vt[n].abschlussVon \in SUBSET Validator
             /\ k[n].uebergabeAn \in Wer /\ k[n].leiter \in Wer /\ k[n].beleg \in SUBSET Validator
             /\ offen[n] \in SUBSET (1 .. MaxTerm)
  <2>1. k[n] \in Knoten /\ vt[n] \in Stand /\ verwirft[n] \in BOOLEAN
        /\ offen[n] \in SUBSET (1 .. MaxTerm)
    BY DEF TypeOK
  <2>2. Lage(n) \in LageTyp /\ Lage(n).k = k[n] /\ Lage(n).vt = vt[n]
        /\ Lage(n).verwirft = verwirft[n]
    BY <2>1 DEF Lage, LageTyp
  <2>3. /\ k[n].term \in Nat /\ k[n].term \in 1 .. MaxTerm /\ vt[n].term \in Nat
        /\ k[n].uebergabeAn \in Wer /\ k[n].leiter \in Wer /\ k[n].beleg \in SUBSET Validator
    BY <2>2, LageTypen
  <2>4. vt[n].abschlussVon \in SUBSET Validator
    BY <2>1 DEF Stand
  <2>5. QED BY <2>1, <2>2, <2>3, <2>4
<1>2. ASSUME NEW u \in uebergaben
      PROVE  /\ u \in Uebergabe /\ u.von \in Validator /\ u.an \in Validator
             /\ u.term \in Nat /\ u.abschluesse \in SUBSET Validator
  BY Zahlen DEF TypeOK, Uebergabe
<1>3. ASSUME NEW m \in netz PROVE m \in Lease /\ m.an \in Validator /\ m.von \in Validator
  BY DEF TypeOK, Lease
<1>4. QED BY <1>1, <1>2, <1>3

\* Every lease of a leader that ends the term says so, if those on their way do.
LEMMA BriefSchliesst ==
  ASSUME TypeOK, NEW n \in Validator, NEW l \in Validator, NEW t \in Nat, Schliesst(l, t),
         \A q \in netz : q.an = n /\ q.von = l /\ q.term = t => q.abschluss,
         NEW m, Brief(m), m.an = n, m.von = l, m.term = t
  PROVE  m.abschluss
<1>1. CASE m \in netz
  BY <1>1
<1>2. ASSUME NEW x \in Validator, NEW v \in Validator, m = LeaseVon(x, v) PROVE m.abschluss
  <2>1. m.von = x /\ m.term = k[x].term /\ (m.abschluss <=> k[x].uebergabeAn # Niemand)
    BY <1>2 DEF LeaseVon
  <2>2. k[l].term \in Nat
    BY Typen
  <2>3. QED BY <2>1, <2>2 DEF Schliesst
<1>3. QED BY <1>1, <1>2 DEF Brief

\* Who is drained stays drained.
LEMMA GeschlossenBleibt ==
  ASSUME TypeOK, TypeOK', NEW n \in Validator, NEW l \in Validator, NEW t \in Nat,
         Treu(n), NetzTreu, Geschlossen(n, t, l), Schliesst(l, t)
  PROVE  Geschlossen(n, t, l)'
<1>1. /\ k[n].term \in Nat /\ k'[n].term \in Nat /\ vt[n].term \in Nat /\ vt'[n].term \in Nat
      /\ Niemand # l
  <2>1. k[n].term \in Nat /\ vt[n].term \in Nat
    BY Typen
  <2>2. k'[n] \in Knoten /\ vt'[n] \in Stand
    BY DEF TypeOK
  <2>3. QED BY <2>1, <2>2, Zahlen DEF Knoten, Stand
<1>2. n \notin abgestuerzt' => vt'[n].term >= t
  BY <1>1 DEF Treu, Geschlossen
<1>3. t \notin offen'[n]
  <2>1. SUFFICES ASSUME t \in offen'[n] PROVE FALSE
    OBVIOUS
  <2>2. t \notin offen[n]
    BY DEF Geschlossen
  <2>3. t = k[n].term /\ t = vt[n].term /\ (k[n].leiter = n \/ ~vt[n].abschlussGesehen)
    BY <2>1, <2>2 DEF Treu
  <2>4. QED BY <1>1, <2>3 DEF Geschlossen
<1>4. CASE k'[n].term > t
  BY <1>2, <1>3, <1>4 DEF Geschlossen
<1>5. CASE ~(k'[n].term > t)
  <2>1. k'[n].term = t /\ k[n].term = t /\ k[n].leiter = l /\ n # l
    BY <1>1, <1>5 DEF Treu, Geschlossen
  <2>2. k'[n].leiter = l
    BY <1>1, <2>1 DEF Treu
  <2>3. IF vt[n].term = t THEN vt[n].abschlussGesehen
        ELSE \A m \in netz : m.an = n /\ m.von = l /\ m.term = t => m.abschluss
    BY <1>1, <2>1 DEF Geschlossen
  <2>4. ASSUME vt[n].term # t, NEW q \in netz', q.an = n, q.von = l, q.term = t PROVE q.abschluss
    <3>1. PICK m : /\ Brief(m) /\ q.von = m.von /\ q.an = m.an /\ q.term = m.term
                   /\ q.abschluss = m.abschluss
      BY <2>4 DEF NetzTreu
    <3>2. m.abschluss
      BY <2>3, <2>4, <3>1, BriefSchliesst
    <3>3. QED BY <3>1, <3>2
  <2>5. CASE /\ vt'[n].term = vt[n].term
             /\ vt[n].term = k[n].term /\ vt[n].abschlussGesehen => vt'[n].abschlussGesehen
    BY <1>2, <1>3, <2>1, <2>2, <2>3, <2>4, <2>5 DEF Geschlossen
  <2>6. CASE /\ vt[n].term # k[n].term /\ vt'[n].term = k[n].term
             /\ \E m : /\ Brief(m) /\ m.an = n /\ m.von = k[n].leiter /\ m.term = k[n].term
                       /\ m.abschluss => vt'[n].abschlussGesehen
    <3>1. vt'[n].abschlussGesehen
      BY <2>1, <2>3, <2>6, BriefSchliesst
    <3>2. QED BY <1>2, <1>3, <2>1, <2>2, <2>6, <3>1 DEF Geschlossen
  <2>7. CASE vt'[n].term # k[n].term /\ \A q \in netz' : q.an # n
    BY <1>2, <1>3, <2>1, <2>2, <2>7 DEF Geschlossen
  <2>8. QED BY <1>1, <2>1, <2>5, <2>6, <2>7 DEF Treu
<1>6. QED BY <1>4, <1>5

\* Such a step keeps the invariant.
LEMMA SchrittErhaelt ==
  ASSUME IInv, Schritt
  PROVE  IInv'
<1>1. TypeOK /\ TypeOK'
  BY DEF IInv, Schritt
<1>2. \A n \in Validator : k[n].term \in Nat /\ k'[n].term \in Nat /\ vt'[n].abschlussVon \in SUBSET Validator
  <2>1. ASSUME NEW n \in Validator
        PROVE  k[n].term \in Nat /\ k'[n].term \in Nat /\ vt'[n].abschlussVon \in SUBSET Validator
    <3>1. k[n].term \in Nat
      BY <1>1, Typen
    <3>2. k'[n] \in Knoten /\ vt'[n] \in Stand
      BY <1>1 DEF TypeOK
    <3>3. QED BY <3>1, <3>2, Zahlen DEF Knoten, Stand
  <2>2. QED BY <2>1
<1>3. ASSUME NEW beleg, NEW t, Belegt(beleg, t) PROVE Belegt(beleg, t)'
  <2>1. CASE beleg = {}
    BY <2>1 DEF Belegt
  <2>2. CASE \E u \in uebergaben : u.term + 1 = t /\ u.abschluesse = beleg
    BY <2>2 DEF Belegt, Schritt
  <2>3. QED BY <1>3, <2>1, <2>2 DEF Belegt
<1>4. ASSUME NEW l \in Validator PROVE LeiterOK(l)'
  <2>1. SUFFICES ASSUME k'[l].rolle = "leiter" PROVE LeiterOK(l)'
    BY DEF LeiterOK
  <2>2. LeiterTreu(l)
    BY DEF Schritt
  <2>3. Belegt(k[l].beleg, k[l].term)'
    <3>1. SUFFICES ASSUME NEW b, NEW t, k'[l].beleg = b, k'[l].term = t PROVE Belegt(b, t)'
      BY DEF Belegt
    <3>2. Belegt(b, t)
      BY <2>1, <2>2, <3>1 DEF LeiterTreu, IInv, LeiterOK
    <3>3. QED BY <1>3, <3>2
  <2>4. ASSUME k'[l].uebergabeAn # Niemand, NEW n \in vt'[l].abschlussVon, NEW t \in Nat, k'[l].term = t
        PROVE  Geschlossen(n, t, l)'
    <3>1. n \in Validator
      BY <1>2, <2>4
    <3>2. CASE /\ k[l].rolle = "leiter" /\ k[l].uebergabeAn # Niemand
               /\ k'[l].term = k[l].term /\ n \in vt[l].abschlussVon
      <4>1. Geschlossen(n, t, l) /\ Schliesst(l, t)
        BY <2>4, <3>2 DEF IInv, LeiterOK, Schliesst
      <4>2. QED BY <1>1, <3>1, <4>1, GeschlossenBleibt DEF Schritt
    <3>3. CASE Geschlossen(n, k[l].term, l)'
      BY <2>4, <3>3 DEF Geschlossen
    <3>4. QED BY <2>1, <2>2, <2>4, <3>2, <3>3 DEF LeiterTreu
  <2>5. QED BY <1>2, <2>3, <2>4 DEF LeiterOK
<1>5. ASSUME NEW u \in uebergaben' PROVE UebergabeOK(u)'
  <2>1. u.von \in Validator /\ u.term \in Nat /\ u.abschluesse \in SUBSET Validator
    <3>1. u \in Uebergabe
      BY <1>1 DEF TypeOK
    <3>2. QED BY <3>1, Zahlen DEF Uebergabe
  <2>2. CASE u \in uebergaben
    <3>1. UebergabeOK(u)
      BY <2>2 DEF IInv
    <3>2. k'[u.von].term > u.term /\ Schliesst(u.von, u.term)
      BY <1>2, <2>1, <3>1 DEF UebergabeOK, Schritt, Treu, Schliesst
    <3>3. ASSUME NEW n \in u.abschluesse PROVE Geschlossen(n, u.term, u.von)'
      BY <1>1, <2>1, <3>1, <3>2, GeschlossenBleibt DEF UebergabeOK, Schritt
    <3>4. QED BY <3>2, <3>3 DEF UebergabeOK
  <2>3. CASE u \notin uebergaben
    <3>1. UebergabeTreu(u)
      BY <2>3 DEF Schritt
    <3>2. ASSUME NEW n \in u.abschluesse PROVE Geschlossen(n, u.term, u.von)'
      <4>1. CASE /\ k[u.von].rolle = "leiter" /\ k[u.von].uebergabeAn # Niemand
                 /\ k[u.von].term = u.term /\ n \in vt[u.von].abschlussVon
        <5>1. Geschlossen(n, u.term, u.von) /\ Schliesst(u.von, u.term)
          BY <2>1, <4>1 DEF IInv, LeiterOK, Schliesst
        <5>2. QED BY <1>1, <2>1, <5>1, GeschlossenBleibt DEF Schritt
      <4>2. QED BY <3>1, <4>1 DEF UebergabeTreu
    <3>3. QED BY <3>1, <3>2 DEF UebergabeOK, UebergabeTreu
  <2>4. QED BY <2>2, <2>3
<1>6. ASSUME NEW q \in netz' PROVE q.von # q.an /\ Belegt(q.uebergabe, q.term)'
  <2>1. PICK m : /\ Brief(m) /\ q.von = m.von /\ q.an = m.an /\ q.term = m.term
                 /\ q.abschluss = m.abschluss /\ q.uebergabe = m.uebergabe
    BY DEF Schritt, NetzTreu
  <2>2. m.von # m.an /\ Belegt(m.uebergabe, m.term)
    <3>1. CASE m \in netz
      BY <3>1 DEF IInv
    <3>2. ASSUME NEW l \in Validator, NEW v \in Validator, v # l, k[l].rolle = "leiter", m = LeaseVon(l, v)
          PROVE  m.von # m.an /\ Belegt(m.uebergabe, m.term)
      <4>1. m.von = l /\ m.an = v /\ m.uebergabe = k[l].beleg /\ m.term = k[l].term
        BY <3>2 DEF LeaseVon
      <4>2. QED BY <3>2, <4>1 DEF IInv, LeiterOK
    <3>3. QED BY <2>1, <3>1, <3>2 DEF Brief
  <2>3. Belegt(q.uebergabe, q.term)
    BY <2>1, <2>2
  <2>4. Belegt(q.uebergabe, q.term)'
    BY <1>3, <2>3
  <2>5. QED BY <2>1, <2>2, <2>4
<1>7. QED BY <1>1, <1>4, <1>5, <1>6 DEF IInv, Schritt

-----------------------------------------------------------------------------
(***************************************************************************)
(* The actions, one by one.                                                *)
(***************************************************************************)
\* Nothing of n changes but its ages and whom it counted out.
Gleich(n) ==
  /\ k'[n].rolle = k[n].rolle /\ k'[n].term = k[n].term /\ k'[n].leiter = k[n].leiter
  /\ k'[n].uebergabeAn = k[n].uebergabeAn /\ k'[n].beleg = k[n].beleg
  /\ vt'[n].term = vt[n].term /\ vt'[n].abschlussGesehen = vt[n].abschlussGesehen
  /\ vt'[n].hatAngenommen = vt[n].hatAngenommen
  /\ vt'[n].ueberholtGemeldet = vt[n].ueberholtGemeldet
  /\ vt'[n].abschlussVon = vt[n].abschlussVon
  /\ verwirft'[n] = verwirft[n] /\ offen'[n] = offen[n]
  /\ n \in abgestuerzt' <=> n \in abgestuerzt

\* Such a node keeps to all that is asked of a step.
LEMMA GleichTreu ==
  ASSUME IInv, NEW n \in Validator, Gleich(n)
  PROVE  /\ KnotenOK(n, Lage(n), n \in abgestuerzt)'
         /\ n \notin abgestuerzt' => AltesOK(Lage(n), offen[n])'
         /\ Treu(n) /\ LeiterTreu(n)
<1>1. /\ KnotenOK(n, Lage(n), n \in abgestuerzt)
      /\ n \notin abgestuerzt => AltesOK(Lage(n), offen[n])
      /\ k[n].term \in Nat /\ vt[n].term \in Nat
  BY Typen DEF IInv
<1>2. KnotenOK(n, Lage(n), n \in abgestuerzt)'
  BY <1>1 DEF KnotenOK, Lage, Gleich
<1>3. n \notin abgestuerzt' => AltesOK(Lage(n), offen[n])'
  BY <1>1 DEF AltesOK, Lage, Gleich
<1>4. Treu(n)
  BY <1>1 DEF Treu, Gleich
<1>5. LeiterTreu(n)
  BY <1>1 DEF LeiterTreu, Gleich
<1>6. QED BY <1>2, <1>3, <1>4, <1>5

\* A step of the node n alone.
LEMMA Einbau ==
  ASSUME IInv, TypeOK', NEW n \in Validator, \A x \in Validator \ {n} : Gleich(x),
         KnotenOK(n, Lage(n), n \in abgestuerzt)',
         n \notin abgestuerzt' => AltesOK(Lage(n), offen[n])',
         Treu(n), LeiterTreu(n), NetzTreu, uebergaben' = uebergaben
  PROVE  IInv'
<1>1. Schritt
  BY GleichTreu DEF Schritt
<1>2. QED BY <1>1, SchrittErhaelt

\* Leases under way that stay there.
LEMMA NetzBleibt ==
  ASSUME netz' \subseteq netz
  PROVE  NetzTreu
BY DEF NetzTreu, Brief

\* The type after a step that sets the state of one node.
LEMMA SetzeTut ==
  ASSUME TypeOK, NEW n \in Validator, NEW s \in LageTyp, Setze(n, s)
  PROVE  /\ k' \in [Validator -> Knoten] /\ vt' \in [Validator -> Stand]
         /\ verwirft' \in [Validator -> BOOLEAN]
         /\ k'[n] = s.k /\ vt'[n] = s.vt /\ verwirft'[n] = s.verwirft
         /\ \A x \in Validator \ {n} : k'[x] = k[x] /\ vt'[x] = vt[x] /\ verwirft'[x] = verwirft[x]
<1>1. s.k \in Knoten /\ s.vt \in Stand /\ s.verwirft \in BOOLEAN
  BY DEF LageTyp
<1>2. k \in [Validator -> Knoten] /\ vt \in [Validator -> Stand] /\ verwirft \in [Validator -> BOOLEAN]
  BY DEF TypeOK
<1>3. QED BY <1>1, <1>2 DEF Setze

\* At the start one member leads term 1 and nobody has anything open.
LEMMA InitOK ==
  ASSUME Init
  PROVE  IInv
<1>1. \A n \in Validator : Frisch(IF n = StartLeiter THEN 1 ELSE 0, {}, {}) \in Stand
  BY FrischTyp, Zahlen
<1>2. ASSUME NEW n \in Validator
      PROVE  [rolle |-> IF n = StartLeiter THEN "leiter" ELSE "folger", term |-> 1,
              leiter |-> StartLeiter, letzteLease |-> 0, leiterSeit |-> 0,
              acks |-> KeineAcks, uebergabeAn |-> Niemand, beleg |-> {}] \in Knoten
  <2>1. /\ (IF n = StartLeiter THEN "leiter" ELSE "folger") \in {"folger", "leiter", "aus"}
        /\ 1 \in 1 .. MaxTerm /\ StartLeiter \in Validator \cup {Niemand} /\ 0 \in 0 .. FolgerFrist
        /\ 0 \in 0 .. LeaseDauer /\ Niemand \in Validator \cup {Niemand}
    BY Zahlen
  <2>2. QED BY <2>1, KeineAcksTyp DEF Knoten
<1>3. TypeOK
  <2>1. k \in [Validator -> Knoten] /\ vt \in [Validator -> Stand]
    BY <1>1, <1>2 DEF Init
  <2>2. /\ offen \in [Validator -> SUBSET (1 .. MaxTerm)] /\ verwirft \in [Validator -> BOOLEAN]
        /\ leitungen \in [getrennt : SUBSET Validator, hoert : BOOLEAN]
        /\ netz \subseteq Lease /\ uebergaben \subseteq Uebergabe
        /\ stoerungen \in 0 .. Stoerungen /\ abgestuerzt \subseteq Validator
    BY Zahlen DEF Init, Verbunden
  <2>3. QED BY <2>1, <2>2 DEF TypeOK
<1>4. ASSUME NEW n \in Validator
      PROVE  /\ KnotenOK(n, Lage(n), n \in abgestuerzt) /\ AltesOK(Lage(n), offen[n])
             /\ LeiterOK(n)
  <2>1. /\ k[n].rolle = IF n = StartLeiter THEN "leiter" ELSE "folger"
        /\ k[n].term = 1 /\ k[n].leiter = StartLeiter /\ k[n].uebergabeAn = Niemand
        /\ k[n].beleg = {} /\ vt[n].term = IF n = StartLeiter THEN 1 ELSE 0
        /\ ~vt[n].ueberholtGemeldet /\ offen[n] = {} /\ Niemand # n
    BY Zahlen DEF Init, Frisch
  <2>2. Lage(n).k = k[n] /\ Lage(n).vt = vt[n]
    BY DEF Lage
  <2>3. KnotenOK(n, Lage(n), n \in abgestuerzt)
    BY <2>1, <2>2 DEF KnotenOK
  <2>4. AltesOK(Lage(n), offen[n])
    BY <2>1, <2>2 DEF AltesOK
  <2>5. LeiterOK(n)
    BY <2>1 DEF LeiterOK, Belegt
  <2>6. QED BY <2>3, <2>4, <2>5
<1>5. netz = {} /\ uebergaben = {}
  BY DEF Init
<1>6. QED BY <1>3, <1>4, <1>5 DEF IInv

\* Time changes only ages, and may lose delayed leases.
LEMMA TickOK ==
  ASSUME IInv, Tick
  PROVE  IInv'
<1>1. TypeOK /\ LeaseDauer \in Nat /\ FolgerFrist \in Nat
  BY Zahlen DEF IInv
<1>2. ASSUME NEW n \in Validator
      PROVE  /\ k'[n] \in Knoten /\ vt'[n] \in Stand /\ Gleich(n)
  <2> DEFINE z == k[n]
             v == vt[n]
             a == IF z.rolle = "folger" THEN Aelter(z.letzteLease, FolgerFrist) ELSE 0
             b == IF z.rolle = "leiter" THEN Aelter(z.leiterSeit, LeaseDauer) ELSE 0
             c == [x \in Validator |-> Aelter(z.acks[x], LeaseDauer)]
             e == [x \in DOMAIN v.ausgefallen |-> Aelter(v.ausgefallen[x], LeaseDauer + Ruhezeit)]
  <2>1. z \in Knoten /\ v \in Stand
    BY <1>1, Typen
  <2>2. /\ k'[n] = [z EXCEPT !.letzteLease = a, !.leiterSeit = b, !.acks = c]
        /\ vt'[n] = [v EXCEPT !.ausgefallen = e, !.termSeit = Aelter(v.termSeit, Ruhezeit),
                              !.letzteBestaetigt = Aelter(v.letzteBestaetigt, Halbe),
                              !.abschliessenSeit = Aelter(v.abschliessenSeit, LeaseDauer)]
    <3>1. /\ k'[n] = [k[n] EXCEPT !.letzteLease = IF k[n].rolle = "folger" THEN Aelter(@, FolgerFrist) ELSE 0,
                         !.leiterSeit = IF k[n].rolle = "leiter" THEN Aelter(@, LeaseDauer) ELSE 0,
                         !.acks = [x \in Validator |-> Aelter(@[x], LeaseDauer)]]
          /\ vt'[n] = [vt[n] EXCEPT !.ausgefallen = [x \in DOMAIN @ |-> Aelter(@[x], LeaseDauer + Ruhezeit)],
                           !.termSeit = Aelter(@, Ruhezeit),
                           !.letzteBestaetigt = Aelter(@, Halbe),
                           !.abschliessenSeit = Aelter(@, LeaseDauer)]
      BY DEF Tick
    <3>2. QED BY <2>1, <3>1 DEF Knoten, Stand
  <2>3. a \in 0 .. FolgerFrist /\ b \in 0 .. LeaseDauer
    <3>1. z.letzteLease \in 0 .. FolgerFrist /\ z.leiterSeit \in 0 .. LeaseDauer
      BY <2>1 DEF Knoten
    <3>2. QED BY <3>1, AelterTyp, Zahlen
  <2>4. c \in [Validator -> 0 .. LeaseDauer]
    <3>1. \A x \in Validator : z.acks[x] \in 0 .. LeaseDauer
      BY <2>1 DEF Knoten
    <3>2. QED BY <3>1, AelterTyp, Zahlen
  <2>5. e \in Ausfaelle
    <3>1. /\ DOMAIN v.ausgefallen \in SUBSET Validator
          /\ \A x \in DOMAIN v.ausgefallen : v.ausgefallen[x] \in 0 .. LeaseDauer + Ruhezeit
      <4>1. v.ausgefallen \in Ausfaelle
        BY <2>1 DEF Stand, Ausfaelle
      <4>2. QED BY <4>1, AusfaelleFunktion
    <3>2. e \in [DOMAIN v.ausgefallen -> 0 .. LeaseDauer + Ruhezeit]
      BY <3>1, AelterTyp, Zahlen
    <3>3. QED BY <3>1, <3>2, AusfaelleNeu
  <2>6. /\ Aelter(v.termSeit, Ruhezeit) \in 0 .. Ruhezeit
        /\ Aelter(v.letzteBestaetigt, Halbe) \in 0 .. Halbe
        /\ Aelter(v.abschliessenSeit, LeaseDauer) \in 0 .. LeaseDauer
    <3>1. /\ v.termSeit \in 0 .. Ruhezeit /\ v.letzteBestaetigt \in 0 .. Halbe
          /\ v.abschliessenSeit \in 0 .. LeaseDauer
      BY <2>1 DEF Stand
    <3>2. QED BY <3>1, AelterTyp, Zahlen
  <2> HIDE DEF a, b, c, e
  <2>7. k'[n] \in Knoten
    BY <2>1, <2>2, <2>3, <2>4 DEF Knoten
  <2>8. vt'[n] \in Stand
    BY <2>1, <2>2, <2>5, <2>6 DEF Stand, Ausfaelle
  <2>9. /\ k'[n].rolle = z.rolle /\ k'[n].term = z.term /\ k'[n].leiter = z.leiter
        /\ k'[n].uebergabeAn = z.uebergabeAn /\ k'[n].beleg = z.beleg
    BY <2>1, <2>2 DEF Knoten
  <2>10. /\ vt'[n].term = v.term /\ vt'[n].abschlussGesehen = v.abschlussGesehen
         /\ vt'[n].hatAngenommen = v.hatAngenommen
         /\ vt'[n].ueberholtGemeldet = v.ueberholtGemeldet /\ vt'[n].abschlussVon = v.abschlussVon
    BY <2>1, <2>2 DEF Stand
  <2>11. verwirft' = verwirft /\ offen' = offen /\ abgestuerzt' = abgestuerzt
    BY DEF Tick
  <2>12. QED BY <2>7, <2>8, <2>9, <2>10, <2>11 DEF Gleich
<1>3. ASSUME NEW q \in netz'
      PROVE  /\ q \in Lease
             /\ \E m \in netz : q.von = m.von /\ q.an = m.an /\ q.term = m.term
                                /\ q.abschluss = m.abschluss /\ q.uebergabe = m.uebergabe
  <2>1. PICK m \in netz : m.alter < Verzug /\ q = [m EXCEPT !.alter = m.alter + 1]
    BY DEF Tick
  <2>2. m \in Lease
    BY <1>1, Typen
  <2>3. m.alter + 1 \in 0 .. Verzug
    BY <2>1, <2>2, Zahlen DEF Lease
  <2>4. QED BY <2>1, <2>2, <2>3 DEF Lease
<1>4. TypeOK'
  <2>1. k' \in [Validator -> Knoten] /\ vt' \in [Validator -> Stand]
    <3>1. k' = [x \in Validator |-> k'[x]] /\ vt' = [x \in Validator |-> vt'[x]]
      BY DEF Tick
    <3>2. QED BY <1>2, <3>1
  <2>2. netz' \subseteq Lease
    BY <1>3
  <2>3. UNCHANGED <<offen, verwirft, leitungen, uebergaben, stoerungen, abgestuerzt>>
    BY DEF Tick
  <2>4. QED BY <1>1, <2>1, <2>2, <2>3 DEF TypeOK
<1>5. NetzTreu
  BY <1>3 DEF NetzTreu, Brief
<1>6. uebergaben' = uebergaben
  BY DEF Tick
<1>7. Schritt
  BY <1>2, <1>4, <1>5, <1>6, GleichTreu DEF Schritt
<1>8. QED BY <1>7, SchrittErhaelt

\* A leader's lease is one.
LEMMA LeaseVonTyp ==
  ASSUME TypeOK, NEW n \in Validator, NEW v \in Validator
  PROVE  /\ LeaseVon(n, v) \in Lease
         /\ LeaseVon(n, v).von = n /\ LeaseVon(n, v).an = v /\ LeaseVon(n, v).term = k[n].term
         /\ LeaseVon(n, v).uebergabe = k[n].beleg
<1> DEFINE d == DarfAnnehmen(k[n])
           e == k[n].uebergabeAn # Niemand
           A == Ausgefallen(vt[n])
<1>1. k[n].term \in 1 .. MaxTerm /\ k[n].beleg \in SUBSET Validator /\ vt[n] \in Stand
  BY Typen
<1>2. d \in BOOLEAN /\ e \in BOOLEAN
  BY DEF DarfAnnehmen
<1>3. A \in SUBSET Validator
  <2>1. vt[n].ausgefallen \in Ausfaelle
    BY <1>1 DEF Stand, Ausfaelle
  <2>2. QED BY <2>1, AusfaelleFunktion DEF Ausgefallen
<1>4. 0 \in 0 .. Verzug
  BY Zahlen
<1>5. LeaseVon(n, v) = [von |-> n, an |-> v, term |-> k[n].term, alter |-> 0,
                        bestaetigt |-> d, abschluss |-> e,
                        ausgefallen |-> A, uebergabe |-> k[n].beleg, antwortbar |-> TRUE]
  BY DEF LeaseVon
<1> HIDE DEF d, e, A
<1>6. QED BY <1>1, <1>2, <1>3, <1>4, <1>5 DEF Lease

\* A delayed lease carries what its leader carries.
LEMMA LeaseSendenOK ==
  ASSUME IInv, NEW n \in Validator, NEW v \in Validator, LeaseSenden(n, v)
  PROVE  IInv'
<1>1. /\ TypeOK /\ k[n].rolle = "leiter" /\ v # n /\ netz' = netz \cup {LeaseVon(n, v)}
      /\ stoerungen < Stoerungen /\ stoerungen' = stoerungen + 1
      /\ k' = k /\ vt' = vt /\ offen' = offen /\ verwirft' = verwirft /\ leitungen' = leitungen
      /\ uebergaben' = uebergaben /\ abgestuerzt' = abgestuerzt
  BY DEF IInv, LeaseSenden, Stoerung
<1>2. TypeOK'
  <2>1. LeaseVon(n, v) \in Lease
    BY <1>1, LeaseVonTyp
  <2>2. stoerungen + 1 \in 0 .. Stoerungen
    BY <1>1, Zahlen DEF TypeOK
  <2>3. QED BY <1>1, <2>1, <2>2 DEF TypeOK
<1>3. \A x \in Validator : Gleich(x)
  BY <1>1 DEF Gleich
<1>4. NetzTreu
  <2>1. \A q \in netz' : Brief(q)
    BY <1>1 DEF Brief
  <2>2. QED BY <2>1 DEF NetzTreu
<1>5. Schritt
  BY <1>1, <1>2, <1>3, <1>4, GleichTreu DEF Schritt
<1>6. QED BY <1>5, SchrittErhaelt

\* Cut links change no node.
LEMMA TrennungOK ==
  ASSUME IInv, NEW l \in Trennungen \cup {Verbunden}, Trennung(l)
  PROVE  IInv'
<1>1. /\ TypeOK /\ leitungen' = l /\ stoerungen < Stoerungen /\ stoerungen' = stoerungen + 1
      /\ k' = k /\ vt' = vt /\ offen' = offen /\ verwirft' = verwirft /\ netz' = netz
      /\ uebergaben' = uebergaben /\ abgestuerzt' = abgestuerzt
  BY DEF IInv, Trennung, Stoerung
<1>2. TypeOK'
  <2>1. l \in [getrennt : SUBSET Validator, hoert : BOOLEAN]
    <3>1. Trennungen \subseteq [getrennt : SUBSET Validator, hoert : BOOLEAN]
      BY VerteiltAnnahme
    <3>2. Verbunden \in [getrennt : SUBSET Validator, hoert : BOOLEAN]
      BY DEF Verbunden
    <3>3. QED BY <3>1, <3>2
  <2>2. stoerungen + 1 \in 0 .. Stoerungen
    BY <1>1, Zahlen DEF TypeOK
  <2>3. QED BY <1>1, <2>1, <2>2 DEF TypeOK
<1>3. \A x \in Validator : Gleich(x)
  BY <1>1 DEF Gleich
<1>4. Schritt
  BY <1>1, <1>2, <1>3, NetzBleibt, GleichTreu DEF Schritt
<1>5. QED BY <1>4, SchrittErhaelt

\* A leader counts silent members out.
LEMMA AusfaelleErkennenOK ==
  ASSUME IInv, NEW n \in Validator, AusfaelleErkennen(n)
  PROVE  IInv'
<1> DEFINE v == vt[n]
           D == DOMAIN v.ausgefallen
           e == [a \in D \cup Stumme(n) |-> IF a \in Stumme(n) THEN 0 ELSE v.ausgefallen[a]]
<1>1. /\ TypeOK /\ v \in Stand /\ vt \in [Validator -> Stand]
      /\ k' = k /\ offen' = offen /\ verwirft' = verwirft /\ leitungen' = leitungen
      /\ netz' = netz /\ uebergaben' = uebergaben /\ abgestuerzt' = abgestuerzt
      /\ stoerungen' = stoerungen
  BY Typen DEF IInv, AusfaelleErkennen, TypeOK
<1>2. vt' = [vt EXCEPT ![n] = [v EXCEPT !.ausgefallen = e]]
  BY <1>1 DEF AusfaelleErkennen, Stand
<1>3. e \in Ausfaelle
  <2>1. /\ D \in SUBSET Validator
        /\ \A a \in D : v.ausgefallen[a] \in 0 .. LeaseDauer + Ruhezeit
    <3>1. v.ausgefallen \in Ausfaelle
      BY <1>1 DEF Stand, Ausfaelle
    <3>2. QED BY <3>1, AusfaelleFunktion
  <2>2. Stumme(n) \in SUBSET Validator /\ 0 \in 0 .. LeaseDauer + Ruhezeit
    BY Zahlen DEF Stumme
  <2> HIDE DEF D
  <2>3. e \in [D \cup Stumme(n) -> 0 .. LeaseDauer + Ruhezeit]
    BY <2>1, <2>2
  <2>4. QED BY <2>1, <2>2, <2>3, AusfaelleNeu
<1> HIDE DEF e, D
<1>4. /\ [v EXCEPT !.ausgefallen = e] \in Stand
      /\ [v EXCEPT !.ausgefallen = e].term = v.term
      /\ [v EXCEPT !.ausgefallen = e].abschlussGesehen = v.abschlussGesehen
      /\ [v EXCEPT !.ausgefallen = e].hatAngenommen = v.hatAngenommen
      /\ [v EXCEPT !.ausgefallen = e].ueberholtGemeldet = v.ueberholtGemeldet
      /\ [v EXCEPT !.ausgefallen = e].abschlussVon = v.abschlussVon
  BY <1>1, <1>3 DEF Stand, Ausfaelle
<1>5. TypeOK'
  BY <1>1, <1>2, <1>4 DEF TypeOK
<1>6. \A x \in Validator : Gleich(x)
  BY <1>1, <1>2, <1>4 DEF Gleich
<1>7. Schritt
  BY <1>1, <1>5, <1>6, NetzBleibt, GleichTreu DEF Schritt
<1>8. QED BY <1>7, SchrittErhaelt

\* A leader that begins to end its term counts nobody as drained yet.
LEMMA AbschlussBeginntOK ==
  ASSUME IInv, NEW n \in Validator, NEW naechster \in Validator, AbschlussBeginnt(n, naechster)
  PROVE  IInv'
<1> DEFINE z == [k[n] EXCEPT !.uebergabeAn = naechster]
           v == [vt[n] EXCEPT !.abschliessenSeit = 0, !.abschlussVon = {}]
<1>1. /\ TypeOK /\ k[n] \in Knoten /\ vt[n] \in Stand /\ naechster # n
      /\ k \in [Validator -> Knoten] /\ vt \in [Validator -> Stand]
      /\ k[n].rolle = "leiter" /\ k[n].term \in Nat /\ vt[n].term \in Nat
      /\ offen' = offen /\ verwirft' = verwirft /\ leitungen' = leitungen
      /\ netz' = netz /\ uebergaben' = uebergaben /\ abgestuerzt' = abgestuerzt
      /\ stoerungen' = stoerungen
  BY Typen DEF IInv, AbschlussBeginnt, TypeOK
<1>2. k' = [k EXCEPT ![n] = z] /\ vt' = [vt EXCEPT ![n] = v]
  BY <1>1 DEF AbschlussBeginnt
<1>3. /\ z \in Knoten /\ z.rolle = k[n].rolle /\ z.term = k[n].term /\ z.leiter = k[n].leiter
      /\ z.uebergabeAn = naechster /\ z.beleg = k[n].beleg
  BY <1>1 DEF Knoten
<1>4. /\ v \in Stand /\ v.term = vt[n].term /\ v.abschlussGesehen = vt[n].abschlussGesehen
      /\ v.hatAngenommen = vt[n].hatAngenommen
      /\ v.ueberholtGemeldet = vt[n].ueberholtGemeldet /\ v.abschlussVon = {}
  <2>1. 0 \in 0 .. LeaseDauer /\ {} \in SUBSET Validator
    BY Zahlen
  <2>2. QED BY <1>1, <2>1 DEF Stand
<1> HIDE DEF z, v
<1>5. /\ k'[n] = z /\ vt'[n] = v
      /\ \A x \in Validator \ {n} : Gleich(x)
  BY <1>1, <1>2 DEF Gleich
<1>6. TypeOK'
  BY <1>1, <1>2, <1>3, <1>4 DEF TypeOK
<1>7. /\ KnotenOK(n, Lage(n), n \in abgestuerzt)
      /\ n \notin abgestuerzt => AltesOK(Lage(n), offen[n])
  BY DEF IInv
<1>8. KnotenOK(n, Lage(n), n \in abgestuerzt)'
  BY <1>1, <1>3, <1>4, <1>5, <1>7 DEF KnotenOK, Lage
<1>9. n \notin abgestuerzt' => AltesOK(Lage(n), offen[n])'
  BY <1>1, <1>3, <1>4, <1>5, <1>7 DEF AltesOK, Lage
<1>10. Treu(n)
  BY <1>1, <1>3, <1>4, <1>5 DEF Treu
<1>11. LeiterTreu(n)
  BY <1>1, <1>3, <1>4, <1>5 DEF LeiterTreu
<1>12. QED BY <1>1, <1>5, <1>6, <1>8, <1>9, <1>10, <1>11, NetzBleibt, Einbau

\* Whoever accepts takes part in its term and has not seen the end of it.
LEMMA AnnehmenOK ==
  ASSUME IInv, NEW n \in Validator, Annehmen(n)
  PROVE  IInv'
<1> DEFINE v == [vt[n] EXCEPT !.hatAngenommen = @ \/ VerteiltImTerm(n)]
<1>1. /\ TypeOK /\ vt[n] \in Stand /\ vt \in [Validator -> Stand]
      /\ k[n].term \in 1 .. MaxTerm /\ k[n].term \in Nat /\ vt[n].term \in Nat
      /\ offen \in [Validator -> SUBSET (1 .. MaxTerm)]
      /\ k' = k /\ offen' = [offen EXCEPT ![n] = @ \cup {k[n].term}]
      /\ verwirft' = verwirft /\ leitungen' = leitungen /\ netz' = netz
      /\ uebergaben' = uebergaben /\ abgestuerzt' = abgestuerzt /\ stoerungen' = stoerungen
  BY Typen DEF IInv, Annehmen, TypeOK
<1>2. /\ KnotenOK(n, Lage(n), n \in abgestuerzt)
      /\ n \notin abgestuerzt => AltesOK(Lage(n), offen[n])
      /\ Lage(n).k = k[n] /\ Lage(n).vt = vt[n] /\ Lage(n).verwirft = verwirft[n]
  BY <1>1, Typen DEF IInv
<1>3. VerteiltImTerm(n) /\ (k[n].leiter = n \/ ~vt[n].abschlussGesehen)
  <2>1. Befugt(n)
    BY DEF Annehmen, NimmtAn
  <2>2. CASE k[n].rolle = "leiter"
    BY <1>2, <2>2 DEF KnotenOK, VerteiltImTerm
  <2>3. CASE k[n].rolle # "leiter"
    BY <2>1, <2>3 DEF Befugt, DarfAnnehmen
  <2>4. QED BY <2>2, <2>3
<1>4. vt' = [vt EXCEPT ![n] = v]
  BY <1>1 DEF Annehmen
<1>5. /\ v \in Stand /\ v.term = vt[n].term /\ v.abschlussGesehen = vt[n].abschlussGesehen
      /\ v.hatAngenommen /\ v.ueberholtGemeldet = vt[n].ueberholtGemeldet
      /\ v.abschlussVon = vt[n].abschlussVon
  BY <1>1, <1>3 DEF Stand
<1> HIDE DEF v
<1>6. /\ k'[n] = k[n] /\ vt'[n] = v /\ offen'[n] = offen[n] \cup {k[n].term}
      /\ \A x \in Validator \ {n} : Gleich(x)
  BY <1>1, <1>4 DEF Gleich
<1>7. TypeOK'
  <2>1. offen' \in [Validator -> SUBSET (1 .. MaxTerm)]
    BY <1>1
  <2>2. QED BY <1>1, <1>4, <1>5, <2>1 DEF TypeOK
<1>8. KnotenOK(n, Lage(n), n \in abgestuerzt)'
  BY <1>1, <1>2, <1>5, <1>6 DEF KnotenOK, Lage
<1>9. n \notin abgestuerzt' => AltesOK(Lage(n), offen[n])'
  BY <1>1, <1>2, <1>3, <1>5, <1>6 DEF AltesOK, Lage, VerteiltImTerm
<1>10. Treu(n)
  BY <1>1, <1>3, <1>5, <1>6 DEF Treu, VerteiltImTerm
<1>11. LeiterTreu(n)
  BY <1>1, <1>5, <1>6 DEF LeiterTreu
<1>12. QED BY <1>1, <1>6, <1>7, <1>8, <1>9, <1>10, <1>11, NetzBleibt, Einbau

\* A block or the discarding leaves nothing open.
LEMMA LeerenOK ==
  ASSUME IInv, NEW n \in Validator, BlockBauen(n) \/ Verwerfen(n)
  PROVE  IInv'
<1>1. /\ TypeOK /\ k[n].term \in Nat /\ vt[n].term \in Nat
      /\ offen \in [Validator -> SUBSET (1 .. MaxTerm)]
      /\ verwirft \in [Validator -> BOOLEAN]
      /\ k' = k /\ vt' = vt /\ offen' = [offen EXCEPT ![n] = {}]
      /\ leitungen' = leitungen /\ netz' = netz
      /\ uebergaben' = uebergaben /\ abgestuerzt' = abgestuerzt /\ stoerungen' = stoerungen
      /\ verwirft' = verwirft \/ verwirft' = [verwirft EXCEPT ![n] = FALSE]
  BY Typen DEF IInv, BlockBauen, Verwerfen, TypeOK
<1>2. /\ KnotenOK(n, Lage(n), n \in abgestuerzt)
      /\ n \notin abgestuerzt => AltesOK(Lage(n), offen[n])
      /\ Lage(n).k = k[n] /\ Lage(n).vt = vt[n] /\ Lage(n).verwirft = verwirft[n]
  BY <1>1, Typen DEF IInv
<1>3. /\ offen'[n] = {}
      /\ \A x \in Validator \ {n} : Gleich(x)
  BY <1>1 DEF Gleich
<1>4. TypeOK'
  <2>1. offen' \in [Validator -> SUBSET (1 .. MaxTerm)] /\ verwirft' \in [Validator -> BOOLEAN]
    BY <1>1
  <2>2. QED BY <1>1, <2>1 DEF TypeOK
<1>5. KnotenOK(n, Lage(n), n \in abgestuerzt)'
  BY <1>1, <1>2 DEF KnotenOK, Lage
<1>6. n \notin abgestuerzt' => AltesOK(Lage(n), offen[n])'
  BY <1>1, <1>2, <1>3 DEF AltesOK, Lage
<1>7. Treu(n)
  BY <1>1, <1>3 DEF Treu
<1>8. LeiterTreu(n)
  BY <1>1 DEF LeiterTreu
<1>9. QED BY <1>1, <1>3, <1>4, <1>5, <1>6, <1>7, <1>8, NetzBleibt, Einbau

\* The handover lists its sender, which has nothing open and is past its term,
\* and those that were drained.
LEMMA UebergebenOK ==
  ASSUME IInv, NEW n \in Validator, Uebergeben(n)
  PROVE  IInv'
<1> DEFINE z == [k[n] EXCEPT !.rolle = "folger", !.term = @ + 1, !.leiter = k[n].uebergabeAn,
                             !.letzteLease = 0, !.acks = KeineAcks, !.uebergabeAn = Niemand]
           v == [vt[n] EXCEPT !.ueberholtGemeldet = TRUE]
           u == [von |-> n, an |-> k[n].uebergabeAn, term |-> k[n].term,
                 abschluesse |-> vt[n].abschlussVon \cup {n}]
<1>1. /\ TypeOK /\ k[n] \in Knoten /\ vt[n] \in Stand
      /\ k \in [Validator -> Knoten] /\ vt \in [Validator -> Stand]
      /\ k[n].rolle = "leiter" /\ k[n].term \in 1 .. MaxTerm /\ k[n].term \in Nat
      /\ k[n].term < MaxTerm /\ vt[n].term \in Nat /\ Niemand # n
      /\ k[n].uebergabeAn \in Wer /\ k[n].uebergabeAn # Niemand
      /\ vt[n].abschlussVon \in SUBSET Validator /\ offen[n] = {}
      /\ offen' = offen /\ verwirft' = verwirft /\ leitungen' = leitungen
      /\ netz' = netz /\ abgestuerzt' = abgestuerzt /\ stoerungen' = stoerungen
  BY Typen, Zahlen DEF IInv, Uebergeben, TypeOK, Entleert
<1>2. k' = [k EXCEPT ![n] = z] /\ vt' = [vt EXCEPT ![n] = v] /\ uebergaben' = uebergaben \cup {u}
  BY <1>1 DEF Uebergeben
<1>3. /\ z \in Knoten /\ z.rolle = "folger" /\ z.term = k[n].term + 1
      /\ z.leiter = k[n].uebergabeAn /\ z.uebergabeAn = Niemand
  <2>1. /\ "folger" \in {"folger", "leiter", "aus"} /\ Niemand \in Validator \cup {Niemand}
        /\ 0 \in 0 .. FolgerFrist /\ k[n].term + 1 \in 1 .. MaxTerm
    BY <1>1, Zahlen
  <2>2. QED BY <1>1, <2>1, KeineAcksTyp DEF Knoten, Wer
<1>4. /\ v \in Stand /\ v.term = vt[n].term /\ v.abschlussGesehen = vt[n].abschlussGesehen
      /\ v.hatAngenommen = vt[n].hatAngenommen /\ v.ueberholtGemeldet
  BY <1>1 DEF Stand
<1>5. /\ u \in Uebergabe /\ u.von = n /\ u.term = k[n].term
      /\ u.abschluesse = vt[n].abschlussVon \cup {n}
  BY <1>1 DEF Uebergabe, Wer
<1> HIDE DEF z, v, u
<1>6. /\ k'[n] = z /\ vt'[n] = v
      /\ \A x \in Validator \ {n} : Gleich(x)
  BY <1>1, <1>2 DEF Gleich
<1>7. TypeOK'
  BY <1>1, <1>2, <1>3, <1>4, <1>5 DEF TypeOK
<1>8. /\ KnotenOK(n, Lage(n), n \in abgestuerzt)
      /\ n \notin abgestuerzt => AltesOK(Lage(n), offen[n])
      /\ Lage(n).k = k[n] /\ Lage(n).vt = vt[n] /\ Lage(n).verwirft = verwirft[n]
  BY <1>1, Typen DEF IInv
<1>9. k[n].uebergabeAn # n /\ vt[n].term = k[n].term
  BY <1>1, <1>8 DEF KnotenOK
<1>10. KnotenOK(n, Lage(n), n \in abgestuerzt)'
  BY <1>1, <1>3, <1>4, <1>6, <1>9 DEF KnotenOK, Lage
<1>11. n \notin abgestuerzt' => AltesOK(Lage(n), offen[n])'
  BY <1>1, <1>3, <1>4, <1>6, <1>8, <1>9 DEF AltesOK, Lage
<1>12. Treu(n)
  BY <1>1, <1>3, <1>4, <1>6 DEF Treu
<1>13. LeiterTreu(n)
  BY <1>3, <1>6 DEF LeiterTreu
<1>14. ASSUME NEW w \in uebergaben' \ uebergaben PROVE UebergabeTreu(w)
  <2>1. w.von = n /\ w.term = k[n].term /\ w.abschluesse = vt[n].abschlussVon \cup {n}
    BY <1>2, <1>5, <1>14
  <2>2. Geschlossen(n, w.term, n)'
    BY <1>1, <1>3, <1>4, <1>6, <1>9, <2>1 DEF Geschlossen
  <2>3. k'[w.von].term > w.term
    BY <1>1, <1>3, <1>6, <2>1
  <2>4. QED BY <1>1, <2>1, <2>2, <2>3 DEF UebergabeTreu
<1>15. Schritt
  BY <1>2, <1>1, <1>6, <1>7, <1>10, <1>11, <1>12, <1>13, <1>14, NetzBleibt, GleichTreu DEF Schritt
<1>16. QED BY <1>15, SchrittErhaelt

\* Whoever took part in the term before a handover that lists it has nothing
\* open of that term.
LEMMA BelegHeisstLeer ==
  ASSUME IInv, NEW n \in Validator, n \notin abgestuerzt, NEW t \in Nat, NEW beleg,
         Belegt(beleg, t), n \in beleg
  PROVE  t - 1 \notin offen[n] /\ vt[n].term >= t - 1
<1>1. PICK u \in uebergaben : u.term + 1 = t /\ u.abschluesse = beleg
  BY DEF Belegt
<1>2. u.term \in Nat /\ u.term = t - 1
  BY <1>1, Typen DEF IInv
<1>3. Geschlossen(n, t - 1, u.von)
  BY <1>1, <1>2 DEF IInv, UebergabeOK
<1>4. QED BY <1>3 DEF Geschlossen

\* A new leader: its state s before has only raised its term, and perhaps
\* forgotten its old leader.
LEMMA WerdeLeiterOK ==
  ASSUME IInv, NEW n \in Validator, NEW s \in LageTyp, s.k.term > k[n].term,
         s.vt = vt[n], s.verwirft = verwirft[n], k[n].rolle # "aus",
         NEW beleg \in SUBSET Validator, Belegt(beleg, s.k.term),
         NEW r, r = WerdeLeiter(n, s, beleg),
         k'[n] = r.k, vt'[n] = r.vt, verwirft'[n] = r.verwirft,
         offen' = offen, abgestuerzt' = abgestuerzt
  PROVE  /\ KnotenOK(n, Lage(n), n \in abgestuerzt)'
         /\ n \notin abgestuerzt' => AltesOK(Lage(n), offen[n])'
         /\ Treu(n) /\ LeiterTreu(n)
<1>1. /\ r \in LageTyp
      /\ r.k.rolle = "leiter" /\ r.k.term = s.k.term /\ r.k.leiter = n
      /\ r.k.uebergabeAn = Niemand /\ r.k.beleg = beleg
      /\ r.vt = Frisch(s.k.term, {}, beleg)
      /\ r.verwirft <=> s.verwirft \/ /\ s.vt.hatAngenommen /\ s.vt.term < s.k.term
                                      /\ ~s.vt.ueberholtGemeldet /\ n \notin beleg
  BY WerdeLeiterTut
<1>2. r.vt.term = s.k.term /\ ~r.vt.hatAngenommen /\ ~r.vt.ueberholtGemeldet
  BY <1>1 DEF Frisch
<1>3. /\ TypeOK /\ k[n].term \in Nat /\ vt[n].term \in Nat /\ s.k.term \in Nat /\ Niemand # n
      /\ offen[n] \in SUBSET (1 .. MaxTerm)
      /\ Lage(n) \in LageTyp
      /\ Lage(n).k = k[n] /\ Lage(n).vt = vt[n] /\ Lage(n).verwirft = verwirft[n]
  BY Typen, LageTypen, Zahlen DEF IInv
<1>4. vt[n].term <= k[n].term
  BY <1>3 DEF IInv, KnotenOK
<1>5. KnotenOK(n, Lage(n), n \in abgestuerzt)'
  BY <1>1, <1>2, <1>3 DEF KnotenOK, Lage
<1>6. ASSUME n \notin abgestuerzt PROVE AltesOK(r, offen[n])
  <2>1. AltesOK(Lage(n), offen[n])
    BY <1>6 DEF IInv
  <2>2. AltesOK(s, offen[n])
    <3>1. ~s.vt.ueberholtGemeldet \/ s.k.term > s.vt.term
      BY <1>3, <1>4
    <3>2. QED BY <1>3, <2>1, <3>1 DEF AltesOK
  <2>3. n \in beleg => s.k.term - 1 \notin offen[n] /\ vt[n].term >= s.k.term - 1
    BY <1>3, <1>6, BelegHeisstLeer
  <2>4. s.vt.term < r.vt.term
    BY <1>2, <1>3, <1>4
  <2>5. QED BY <1>1, <1>2, <1>3, <2>2, <2>3, <2>4, NeuerTermAltes
<1>7. n \notin abgestuerzt' => AltesOK(Lage(n), offen[n])'
  <2>1. SUFFICES ASSUME n \notin abgestuerzt PROVE AltesOK(Lage(n), offen[n])'
    OBVIOUS
  <2>2. AltesOK(r, offen[n])
    BY <1>6, <2>1
  <2>3. QED BY <2>2 DEF AltesOK, Lage
<1>8. Treu(n)
  BY <1>1, <1>2, <1>3, <1>4 DEF Treu
<1>9. LeiterTreu(n)
  BY <1>1 DEF LeiterTreu
<1>10. QED BY <1>5, <1>7, <1>8, <1>9

\* The handover gives the next leader its term and its list.
LEMMA UebernehmenOK ==
  ASSUME IInv, NEW n \in Validator, Uebernehmen(n)
  PROVE  IInv'
<1>1. PICK u \in uebergaben :
        /\ GueltigeUebergabe(n, u)
        /\ Setze(n, WerdeLeiter(n, [Lage(n) EXCEPT !.k.term = @ + 1], u.abschluesse))
  BY DEF Uebernehmen
<1> DEFINE s == [Lage(n) EXCEPT !.k.term = @ + 1]
           r == WerdeLeiter(n, s, u.abschluesse)
<1>2. /\ TypeOK /\ Lage(n) \in LageTyp /\ k[n] \in Knoten /\ k[n].term \in 1 .. MaxTerm
      /\ k[n].term \in Nat /\ k[n].term < MaxTerm /\ k[n].rolle # "aus"
      /\ Lage(n).k = k[n] /\ Lage(n).vt = vt[n] /\ Lage(n).verwirft = verwirft[n]
      /\ u.abschluesse \in SUBSET Validator /\ u.term \in Nat
      /\ offen' = offen /\ leitungen' = leitungen /\ netz' = netz /\ uebergaben' = uebergaben
      /\ abgestuerzt' = abgestuerzt /\ stoerungen' = stoerungen
  BY Typen DEF IInv, Uebernehmen, An
<1>3. /\ s \in LageTyp /\ s.k.term = k[n].term + 1 /\ s.vt = vt[n] /\ s.verwirft = verwirft[n]
  <2>1. k[n].term + 1 \in 1 .. MaxTerm
    BY <1>2, Zahlen
  <2>2. [k[n] EXCEPT !.term = @ + 1] \in Knoten /\ [k[n] EXCEPT !.term = @ + 1].term = k[n].term + 1
    BY <1>2, <2>1 DEF Knoten
  <2>3. s = [k |-> [k[n] EXCEPT !.term = @ + 1], vt |-> vt[n], verwirft |-> verwirft[n]]
    BY DEF Lage
  <2>4. vt[n] \in Stand /\ verwirft[n] \in BOOLEAN
    BY <1>2, Typen
  <2> HIDE DEF s
  <2>5. QED BY <2>2, <2>3, <2>4 DEF LageTyp
<1>4. Belegt(u.abschluesse, s.k.term)
  BY <1>1, <1>3 DEF Belegt, GueltigeUebergabe
<1> HIDE DEF s
<1>5. r \in LageTyp
  BY <1>2, <1>3, WerdeLeiterTut
<1>6. Setze(n, r)
  BY <1>1 DEF s
<1>7. r = WerdeLeiter(n, s, u.abschluesse)
  OBVIOUS
<1> HIDE DEF r
<1>8. /\ k' \in [Validator -> Knoten] /\ vt' \in [Validator -> Stand]
      /\ verwirft' \in [Validator -> BOOLEAN]
      /\ k'[n] = r.k /\ vt'[n] = r.vt /\ verwirft'[n] = r.verwirft
      /\ \A x \in Validator \ {n} : k'[x] = k[x] /\ vt'[x] = vt[x] /\ verwirft'[x] = verwirft[x]
  BY <1>2, <1>5, <1>6, SetzeTut
<1>9. TypeOK'
  BY <1>2, <1>8 DEF TypeOK
<1>10. \A x \in Validator \ {n} : Gleich(x)
  BY <1>2, <1>8 DEF Gleich
<1>11. /\ KnotenOK(n, Lage(n), n \in abgestuerzt)'
       /\ n \notin abgestuerzt' => AltesOK(Lage(n), offen[n])'
       /\ Treu(n) /\ LeiterTreu(n)
  BY <1>2, <1>3, <1>4, <1>7, <1>8, WerdeLeiterOK
<1>12. QED BY <1>2, <1>9, <1>10, <1>11, NetzBleibt, Einbau

\* An election makes a leader without a list; its voters only raise their term.
LEMMA WahlOK ==
  ASSUME IInv, NEW n \in Validator, NEW waehler \in Mehrheiten, Wahl(n, waehler)
  PROVE  IInv'
<1> DEFINE neu == k[n].term + 1
           stimmt(v) == [k[v] EXCEPT !.term = neu, !.leiter = Niemand, !.letzteLease = 0]
           s == [Lage(n) EXCEPT !.k = stimmt(n)]
           r == WerdeLeiter(n, s, {})
<1>1. /\ TypeOK /\ k[n].term \in Nat /\ k[n].term \in 1 .. MaxTerm /\ neu <= MaxTerm
      /\ n \in waehler /\ \A v \in waehler : k[v].rolle = "folger" /\ k[v].term < neu
      /\ k' = [v \in Validator |-> IF v = n THEN r.k ELSE IF v \in waehler THEN stimmt(v) ELSE k[v]]
      /\ vt' = [vt EXCEPT ![n] = r.vt] /\ verwirft' = [verwirft EXCEPT ![n] = r.verwirft]
      /\ offen' = offen /\ leitungen' = leitungen /\ netz' = netz /\ uebergaben' = uebergaben
      /\ abgestuerzt' = abgestuerzt /\ stoerungen' = stoerungen
  BY Typen DEF IInv, Wahl
<1>2. ASSUME NEW v \in Validator
      PROVE  /\ stimmt(v) \in Knoten /\ stimmt(v).term = neu /\ stimmt(v).leiter = Niemand
             /\ stimmt(v).rolle = k[v].rolle /\ stimmt(v).uebergabeAn = k[v].uebergabeAn
             /\ stimmt(v).beleg = k[v].beleg
  <2>1. /\ k[v] \in Knoten /\ neu \in 1 .. MaxTerm /\ 0 \in 0 .. FolgerFrist
        /\ Niemand \in Validator \cup {Niemand}
    <3>1. k[v] \in Knoten
      BY <1>1, Typen
    <3>2. neu \in 1 .. MaxTerm /\ 0 \in 0 .. FolgerFrist
      <4>1. k[n].term \in Nat /\ neu <= MaxTerm
        BY <1>1
      <4>2. QED BY <4>1, Zahlen
    <3>3. QED BY <3>1, <3>2
  <2> HIDE DEF neu
  <2>2. QED BY <2>1 DEF Knoten
<1>3. s \in LageTyp /\ s.k = stimmt(n) /\ s.vt = vt[n] /\ s.verwirft = verwirft[n]
  <2>1. s = [k |-> stimmt(n), vt |-> vt[n], verwirft |-> verwirft[n]]
    BY DEF Lage
  <2>2. vt[n] \in Stand /\ verwirft[n] \in BOOLEAN
    BY <1>1, Typen
  <2> HIDE DEF s, stimmt
  <2>3. QED BY <1>2, <2>1, <2>2 DEF LageTyp
<1>4. s.k.term = neu /\ s.k.term > k[n].term
  <2>1. s.k.term = neu
    BY <1>2, <1>3
  <2>2. QED BY <1>1, <2>1
<1>5. Belegt({}, s.k.term) /\ {} \in SUBSET Validator
  BY DEF Belegt
<1>6. r = WerdeLeiter(n, s, {})
  OBVIOUS
<1> HIDE DEF s, r, stimmt
<1>7. r \in LageTyp /\ r.k \in Knoten /\ r.vt \in Stand /\ r.verwirft \in BOOLEAN
  <2>1. r \in LageTyp
    BY <1>3, <1>5, <1>6, WerdeLeiterTut
  <2>2. QED BY <2>1, LageTypen
<1>8. /\ k'[n] = r.k /\ vt'[n] = r.vt /\ verwirft'[n] = r.verwirft
      /\ \A v \in Validator \ {n} : vt'[v] = vt[v] /\ verwirft'[v] = verwirft[v]
      /\ \A v \in Validator \ {n} : k'[v] = IF v \in waehler THEN stimmt(v) ELSE k[v]
  BY <1>1 DEF TypeOK
<1>9. TypeOK'
  <2>1. \A v \in Validator : k[v] \in Knoten
    BY <1>1 DEF TypeOK
  <2>2. k' \in [Validator -> Knoten]
    BY <1>1, <1>2, <1>7, <2>1
  <2>3. vt' \in [Validator -> Stand] /\ verwirft' \in [Validator -> BOOLEAN]
    BY <1>1, <1>7 DEF TypeOK
  <2>4. QED BY <1>1, <2>2, <2>3 DEF TypeOK
<1>10. /\ KnotenOK(n, Lage(n), n \in abgestuerzt)'
       /\ n \notin abgestuerzt' => AltesOK(Lage(n), offen[n])'
       /\ Treu(n) /\ LeiterTreu(n)
  <2>1. k[n].rolle # "aus"
    BY <1>1
  <2>2. QED BY <1>1, <1>3, <1>4, <1>5, <1>6, <1>8, <2>1, WerdeLeiterOK
<1>11. ASSUME NEW v \in Validator \ {n}
       PROVE  /\ KnotenOK(v, Lage(v), v \in abgestuerzt)'
              /\ v \notin abgestuerzt' => AltesOK(Lage(v), offen[v])'
              /\ Treu(v) /\ LeiterTreu(v)
  <2>1. CASE v \notin waehler
    <3>1. Gleich(v)
      BY <1>1, <1>8, <1>11, <2>1 DEF Gleich
    <3>2. QED BY <3>1, GleichTreu
  <2>2. CASE v \in waehler
    <3>1. /\ k'[v].term = neu /\ k'[v].leiter = Niemand /\ k'[v].rolle = "folger"
          /\ k'[v].uebergabeAn = k[v].uebergabeAn /\ k[v].term < neu
      BY <1>1, <1>2, <1>8, <2>2
    <3>2. /\ vt'[v] = vt[v] /\ verwirft'[v] = verwirft[v]
          /\ k[v].term \in Nat /\ vt[v].term \in Nat /\ neu \in Nat /\ Niemand # v
          /\ Lage(v).k = k[v] /\ Lage(v).vt = vt[v] /\ Lage(v).verwirft = verwirft[v]
      BY <1>1, <1>8, Typen, Zahlen
    <3>3. /\ KnotenOK(v, Lage(v), v \in abgestuerzt)
          /\ v \notin abgestuerzt => AltesOK(Lage(v), offen[v])
      BY DEF IInv
    <3>4. KnotenOK(v, Lage(v), v \in abgestuerzt)'
      <4> HIDE DEF neu
      <4>1. QED BY <3>1, <3>2, <3>3 DEF KnotenOK, Lage
    <3>5. v \notin abgestuerzt' => AltesOK(Lage(v), offen[v])'
      <4> HIDE DEF neu
      <4>1. v \notin abgestuerzt => neu > vt[v].term
        BY <3>1, <3>2, <3>3 DEF KnotenOK
      <4>2. QED BY <1>1, <3>1, <3>2, <3>3, <4>1 DEF AltesOK, Lage
    <3>6. Treu(v)
      <4> HIDE DEF neu
      <4>1. QED BY <1>1, <3>1, <3>2 DEF Treu
    <3>7. LeiterTreu(v)
      BY <3>1 DEF LeiterTreu
    <3>8. QED BY <3>4, <3>5, <3>6, <3>7
  <2>3. QED BY <2>1, <2>2
<1>12. Schritt
  BY <1>1, <1>9, <1>10, <1>11, NetzBleibt DEF Schritt
<1>13. QED BY <1>12, SchrittErhaelt

\* Leases, under way or sent now, are never for the sender itself, and name a
\* handover that was sent.
LEMMA BriefOK ==
  ASSUME IInv, NEW m, Brief(m)
  PROVE  m \in Lease /\ m.von # m.an /\ Belegt(m.uebergabe, m.term)
<1>1. CASE m \in netz
  BY <1>1 DEF IInv, TypeOK
<1>2. ASSUME NEW l \in Validator, NEW v \in Validator, v # l, k[l].rolle = "leiter", m = LeaseVon(l, v)
      PROVE  m \in Lease /\ m.von # m.an /\ Belegt(m.uebergabe, m.term)
  <2>1. /\ LeaseVon(l, v) \in Lease /\ LeaseVon(l, v).von = l /\ LeaseVon(l, v).an = v
        /\ LeaseVon(l, v).term = k[l].term /\ LeaseVon(l, v).uebergabe = k[l].beleg
    BY LeaseVonTyp DEF IInv
  <2>2. Belegt(k[l].beleg, k[l].term)
    BY <1>2 DEF IInv, LeiterOK
  <2>3. QED BY <1>2, <2>1, <2>2
<1>3. QED BY <1>1, <1>2 DEF Brief

\* A lease and its answer: the member learns of the end before it is counted as
\* drained.
LEMMA AntwortenOK ==
  ASSUME IInv, NEW m, Brief(m), Antworten(m), netz' \subseteq netz
  PROVE  IInv'
<1> DEFINE n == m.an
           l == m.von
           s == NachLease(n, m)
           kommtAn == An(l) /\ m.antwortbar /\ Erreicht(n, l)
           r == IF kommtAn THEN NachQuittung(l, n, s, m) ELSE Lage(l)
<1>1. /\ m \in Lease /\ n # l /\ Belegt(m.uebergabe, m.term) /\ TypeOK
      /\ n \in Validator /\ l \in Validator /\ m.term \in Nat
  BY BriefOK, Zahlen DEF IInv, Lease
<1>2. /\ k' = [k EXCEPT ![n] = s.k, ![l] = r.k] /\ vt' = [vt EXCEPT ![n] = s.vt, ![l] = r.vt]
      /\ verwirft' = [verwirft EXCEPT ![n] = s.verwirft, ![l] = r.verwirft]
      /\ k[n].rolle # "aus"
      /\ offen' = offen /\ leitungen' = leitungen /\ uebergaben' = uebergaben
      /\ abgestuerzt' = abgestuerzt /\ stoerungen' = stoerungen
  BY DEF Antworten, An
<1>3. /\ kommtAn => k[l].rolle # "aus" /\ r = NachQuittung(l, n, s, m)
      /\ ~kommtAn => r = Lage(l)
  BY DEF An
<1>4. s = NachLease(n, m)
  OBVIOUS
<1> HIDE DEF s, r, kommtAn
<1>5. \A x \in Validator :
        /\ Lage(x) \in LageTyp /\ KnotenOK(x, Lage(x), x \in abgestuerzt)
        /\ x \notin abgestuerzt => AltesOK(Lage(x), offen[x])
        /\ Lage(x).k = k[x] /\ Lage(x).vt = vt[x] /\ Lage(x).verwirft = verwirft[x]
        /\ k[x].term \in Nat /\ vt[x].term \in Nat /\ offen[x] \in SUBSET (1 .. MaxTerm)
  BY <1>1, Typen DEF IInv
<1>6. LeaseAblehnen(k[n], m) => s = Lage(n)
  BY <1>4 DEF NachLease, Lage
<1>7. ASSUME ~LeaseAblehnen(k[n], m)
      PROVE  /\ s \in LageTyp /\ KnotenOK(n, s, n \in abgestuerzt)
             /\ s.k.rolle = "folger" /\ s.k.term = m.term /\ s.k.leiter = m.von
             /\ s.vt.term = m.term /\ (m.abschluss => s.vt.abschlussGesehen)
             /\ k[n].term <= m.term
             /\ k[n].term = m.term => k[n].leiter \in {Niemand, m.von}
             /\ vt[n].term = m.term /\ vt[n].abschlussGesehen => s.vt.abschlussGesehen
             /\ \A O \in SUBSET (1 .. MaxTerm) :
                  /\ AltesOK(Lage(n), O)
                  /\ n \in m.uebergabe => m.term - 1 \notin O /\ vt[n].term >= m.term - 1
                  => AltesOK(s, O)
  <2>1. SUFFICES ASSUME NEW o \in LageTyp, o = Lage(n), o.k = k[n], o.vt = vt[n],
                        KnotenOK(n, o, n \in abgestuerzt)
                 PROVE  /\ s \in LageTyp /\ KnotenOK(n, s, n \in abgestuerzt)
                        /\ s.k.rolle = "folger" /\ s.k.term = m.term /\ s.k.leiter = m.von
                        /\ s.vt.term = m.term /\ (m.abschluss => s.vt.abschlussGesehen)
                        /\ o.k.term <= m.term
                        /\ o.k.term = m.term => o.k.leiter \in {Niemand, m.von}
                        /\ o.vt.term = m.term /\ o.vt.abschlussGesehen => s.vt.abschlussGesehen
                        /\ \A O \in SUBSET (1 .. MaxTerm) :
                             /\ AltesOK(o, O)
                             /\ n \in m.uebergabe => m.term - 1 \notin O /\ o.vt.term >= m.term - 1
                             => AltesOK(s, O)
    BY <1>1, <1>5
  <2> HIDE DEF n
  <2>2. m \in Lease /\ n \in Validator /\ m.von # n /\ o.k.rolle # "aus"
    BY <1>1, <1>2, <2>1
  <2>3. QED BY <1>4, <1>7, <2>1, <2>2, NachLeaseTut
<1>8. s \in LageTyp
  BY <1>1, <1>5, <1>6, <1>7
<1>9. ASSUME kommtAn
      PROVE  /\ r \in LageTyp /\ KnotenOK(l, r, l \in abgestuerzt)
             /\ k[l].term <= r.k.term /\ r.vt.term = vt[l].term
             /\ r.vt.abschlussGesehen = vt[l].abschlussGesehen
             /\ r.k.term = k[l].term => r.k.leiter = k[l].leiter
             /\ r.k.rolle = "leiter" =>
                  /\ k[l].rolle = "leiter" /\ r.k.term = k[l].term
                  /\ r.k.uebergabeAn = k[l].uebergabeAn /\ r.k.beleg = k[l].beleg
                  /\ \/ r.vt.abschlussVon = vt[l].abschlussVon
                     \/ /\ r.vt.abschlussVon = vt[l].abschlussVon \cup {n}
                        /\ ~LeaseAblehnen(k[n], m) /\ k[l].term = m.term
                        /\ s.vt.abschlussGesehen /\ offen[n] = {}
             /\ \A O \in SUBSET (1 .. MaxTerm) : AltesOK(Lage(l), O) => AltesOK(r, O)
  <2>1. SUFFICES ASSUME NEW o \in LageTyp, o = Lage(l), o.k = k[l], o.vt = vt[l],
                        KnotenOK(l, o, l \in abgestuerzt)
                 PROVE  /\ r \in LageTyp /\ KnotenOK(l, r, l \in abgestuerzt)
                        /\ o.k.term <= r.k.term /\ r.vt.term = o.vt.term
                        /\ r.vt.abschlussGesehen = o.vt.abschlussGesehen
                        /\ r.k.term = o.k.term => r.k.leiter = o.k.leiter
                        /\ r.k.rolle = "leiter" =>
                             /\ o.k.rolle = "leiter" /\ r.k.term = o.k.term
                             /\ r.k.uebergabeAn = o.k.uebergabeAn /\ r.k.beleg = o.k.beleg
                             /\ \/ r.vt.abschlussVon = o.vt.abschlussVon
                                \/ /\ r.vt.abschlussVon = o.vt.abschlussVon \cup {n}
                                   /\ ~LeaseAblehnen(k[n], m) /\ o.k.term = m.term
                                   /\ s.vt.abschlussGesehen /\ offen[n] = {}
                        /\ \A O \in SUBSET (1 .. MaxTerm) : AltesOK(o, O) => AltesOK(r, O)
    BY <1>1, <1>5
  <2> HIDE DEF n, l
  <2>2. QED BY <1>1, <1>3, <1>8, <1>9, <2>1, NachQuittungTut
<1>10. r \in LageTyp
  BY <1>1, <1>3, <1>5, <1>9
<1>11. /\ k'[n] = s.k /\ vt'[n] = s.vt /\ verwirft'[n] = s.verwirft
       /\ k'[l] = r.k /\ vt'[l] = r.vt /\ verwirft'[l] = r.verwirft
       /\ \A x \in Validator \ {n, l} : Gleich(x)
  BY <1>1, <1>2 DEF TypeOK, Gleich
<1>12. TypeOK'
  <2>1. /\ s.k \in Knoten /\ s.vt \in Stand /\ s.verwirft \in BOOLEAN
        /\ r.k \in Knoten /\ r.vt \in Stand /\ r.verwirft \in BOOLEAN
    BY <1>8, <1>10 DEF LageTyp
  <2>2. /\ k' \in [Validator -> Knoten] /\ vt' \in [Validator -> Stand]
        /\ verwirft' \in [Validator -> BOOLEAN]
    BY <1>1, <1>2, <2>1 DEF TypeOK
  <2>3. netz' \subseteq Lease
    BY <1>1 DEF TypeOK
  <2>4. QED BY <1>1, <1>2, <2>2, <2>3 DEF TypeOK
<1>13. /\ KnotenOK(n, Lage(n), n \in abgestuerzt)'
       /\ n \notin abgestuerzt' => AltesOK(Lage(n), offen[n])'
       /\ Treu(n) /\ LeiterTreu(n)
  <2>1. SUFFICES ASSUME NEW x \in Validator, x = n
                 PROVE  /\ KnotenOK(x, Lage(x), x \in abgestuerzt)'
                        /\ x \notin abgestuerzt' => AltesOK(Lage(x), offen[x])'
                        /\ Treu(x) /\ LeiterTreu(x)
    BY <1>1
  <2> HIDE DEF n, l
  <2>2. CASE LeaseAblehnen(k[x], m)
    <3>1. k'[x] = k[x] /\ vt'[x] = vt[x] /\ verwirft'[x] = verwirft[x]
      <4>1. s = Lage(x)
        BY <1>6, <2>1, <2>2
      <4>2. QED BY <1>5, <1>11, <2>1, <4>1
    <3>2. Gleich(x)
      BY <1>2, <3>1 DEF Gleich
    <3>3. QED BY <3>2, GleichTreu
  <2>3. CASE ~LeaseAblehnen(k[x], m)
    <3>1. KnotenOK(x, Lage(x), x \in abgestuerzt)'
      BY <1>2, <1>7, <1>11, <2>1, <2>3 DEF KnotenOK, Lage
    <3>2. ASSUME x \notin abgestuerzt PROVE AltesOK(Lage(x), offen[x])'
      <4>1. x \in m.uebergabe => m.term - 1 \notin offen[x] /\ vt[x].term >= m.term - 1
        BY <1>1, <3>2, BelegHeisstLeer
      <4>2. AltesOK(s, offen[x])
        BY <1>5, <1>7, <2>1, <2>3, <3>2, <4>1
      <4>3. QED BY <1>2, <1>11, <2>1, <4>2 DEF AltesOK, Lage
    <3>3. vt[x].term <= k[x].term
      BY <1>5 DEF KnotenOK
    <3>4. Treu(x)
      <4>1. k[x].term <= k'[x].term /\ vt[x].term <= vt'[x].term /\ offen'[x] = offen[x]
        BY <1>1, <1>2, <1>5, <1>7, <1>11, <2>1, <2>3, <3>3
      <4>2. ASSUME k'[x].term = k[x].term, k[x].leiter \notin {x, Niemand}
            PROVE  /\ k'[x].leiter = k[x].leiter
                   /\ \/ /\ vt'[x].term = vt[x].term
                         /\ vt[x].term = k[x].term /\ vt[x].abschlussGesehen
                            => vt'[x].abschlussGesehen
                      \/ /\ vt[x].term # k[x].term /\ vt'[x].term = k[x].term
                         /\ \E q : /\ Brief(q) /\ q.an = x /\ q.von = k[x].leiter
                                   /\ q.term = k[x].term
                                   /\ q.abschluss => vt'[x].abschlussGesehen
        <5>1. k[x].term = m.term /\ k[x].leiter = m.von /\ k'[x].leiter = m.von
              /\ vt'[x].term = m.term
          BY <1>7, <1>11, <2>1, <2>3, <4>2
        <5>2. CASE vt[x].term = m.term
          BY <1>7, <1>11, <2>1, <2>3, <5>1, <5>2
        <5>3. CASE vt[x].term # m.term
          <6>1. m.an = x /\ (m.abschluss => vt'[x].abschlussGesehen)
            BY <1>7, <1>11, <2>1, <2>3 DEF n
          <6>2. QED BY <5>1, <5>3, <6>1
        <5>4. QED BY <5>2, <5>3
      <4>3. QED BY <1>2, <4>1, <4>2 DEF Treu
    <3>5. LeiterTreu(x)
      BY <1>7, <1>11, <2>1, <2>3 DEF LeiterTreu
    <3>6. QED BY <1>2, <3>1, <3>2, <3>4, <3>5
  <2>4. QED BY <2>2, <2>3
<1>14. /\ KnotenOK(l, Lage(l), l \in abgestuerzt)'
       /\ l \notin abgestuerzt' => AltesOK(Lage(l), offen[l])'
       /\ Treu(l) /\ LeiterTreu(l)
  <2>1. SUFFICES ASSUME NEW x \in Validator, x = l
                 PROVE  /\ KnotenOK(x, Lage(x), x \in abgestuerzt)'
                        /\ x \notin abgestuerzt' => AltesOK(Lage(x), offen[x])'
                        /\ Treu(x) /\ LeiterTreu(x)
    BY <1>1
  <2> HIDE DEF n, l
  <2>2. CASE ~kommtAn
    <3>1. k'[x] = k[x] /\ vt'[x] = vt[x] /\ verwirft'[x] = verwirft[x]
      <4>1. r = Lage(x)
        BY <1>3, <2>1, <2>2
      <4>2. QED BY <1>5, <1>11, <2>1, <4>1
    <3>2. Gleich(x)
      BY <1>2, <3>1 DEF Gleich
    <3>3. QED BY <3>2, GleichTreu
  <2>3. CASE kommtAn
    <3>1. KnotenOK(x, Lage(x), x \in abgestuerzt)'
      BY <1>2, <1>9, <1>11, <2>1, <2>3 DEF KnotenOK, Lage
    <3>2. ASSUME x \notin abgestuerzt PROVE AltesOK(Lage(x), offen[x])'
      <4>1. AltesOK(r, offen[x])
        BY <1>5, <1>9, <2>1, <2>3, <3>2
      <4>2. QED BY <1>2, <1>11, <2>1, <4>1 DEF AltesOK, Lage
    <3>3. Treu(x)
      BY <1>2, <1>5, <1>9, <1>11, <2>1, <2>3 DEF Treu
    <3>4. LeiterTreu(x)
      <4>1. SUFFICES ASSUME k'[x].rolle = "leiter" PROVE LeiterTreu(x)
        BY DEF LeiterTreu
      <4>2. /\ k[x].rolle = "leiter" /\ k'[x].term = k[x].term
            /\ k'[x].uebergabeAn = k[x].uebergabeAn /\ k'[x].beleg = k[x].beleg
            /\ \/ vt'[x].abschlussVon = vt[x].abschlussVon
               \/ /\ vt'[x].abschlussVon = vt[x].abschlussVon \cup {n}
                  /\ ~LeaseAblehnen(k[n], m) /\ k[x].term = m.term
                  /\ s.vt.abschlussGesehen /\ offen[n] = {}
        BY <1>9, <1>11, <2>1, <2>3, <4>1
      <4>3. ASSUME k'[x].uebergabeAn # Niemand, NEW y \in vt'[x].abschlussVon, y \notin vt[x].abschlussVon
            PROVE  Geschlossen(y, k[x].term, x)'
        <5>1. /\ y = n /\ ~LeaseAblehnen(k[n], m) /\ k[x].term = m.term
              /\ s.vt.abschlussGesehen /\ offen[n] = {}
          BY <4>2, <4>3
        <5>2. /\ offen'[y] = {} /\ vt'[y].term = m.term /\ vt'[y].abschlussGesehen
              /\ k'[y].term = m.term /\ k'[y].leiter = x /\ y # x /\ k'[x].term = m.term
          BY <1>1, <1>2, <1>7, <1>11, <2>1, <4>2, <5>1 DEF l
        <5>3. QED BY <1>1, <5>2 DEF Geschlossen
      <4>4. QED BY <4>2, <4>3 DEF LeiterTreu
    <3>5. QED BY <1>2, <3>1, <3>2, <3>3, <3>4
  <2>4. QED BY <2>2, <2>3
<1>15. Schritt
  <2>1. ASSUME NEW x \in Validator
        PROVE  /\ KnotenOK(x, Lage(x), x \in abgestuerzt)'
               /\ x \notin abgestuerzt' => AltesOK(Lage(x), offen[x])'
               /\ Treu(x) /\ LeiterTreu(x)
    <3>1. CASE x = n
      BY <1>13, <3>1
    <3>2. CASE x = l
      BY <1>14, <3>2
    <3>3. CASE x \notin {n, l}
      BY <1>11, <3>3, GleichTreu
    <3>4. QED BY <3>1, <3>2, <3>3
  <2>2. QED BY <1>2, <1>12, <2>1, NetzBleibt DEF Schritt
<1>16. QED BY <1>15, SchrittErhaelt

\* A process stops: the leases to it are lost, and what it was told of the term.
LEMMA AbsturzOK ==
  ASSUME IInv, NEW n \in Validator, Absturz(n)
  PROVE  IInv'
<1> DEFINE z == [k[n] EXCEPT !.rolle = "aus", !.letzteLease = 0, !.acks = KeineAcks,
                             !.uebergabeAn = Niemand, !.beleg = {}]
           v == Gespeichert(n)
<1>1. /\ TypeOK /\ k[n] \in Knoten /\ vt[n] \in Stand
      /\ k \in [Validator -> Knoten] /\ vt \in [Validator -> Stand]
      /\ verwirft \in [Validator -> BOOLEAN]
      /\ k[n].term \in 1 .. MaxTerm /\ k[n].term \in Nat /\ vt[n].term \in Nat /\ Niemand # n
      /\ stoerungen < Stoerungen /\ stoerungen' = stoerungen + 1
      /\ verwirft' = [verwirft EXCEPT ![n] = FALSE] /\ abgestuerzt' = abgestuerzt \cup {n}
      /\ offen' = offen /\ leitungen' = leitungen /\ uebergaben' = uebergaben
      /\ netz' = {[m EXCEPT !.antwortbar = @ /\ m.von # n] : m \in {l \in netz : l.an # n}}
  BY Typen, Zahlen DEF IInv, Absturz, Stoerung, TypeOK
<1>2. k' = [k EXCEPT ![n] = z] /\ vt' = [vt EXCEPT ![n] = v]
  BY DEF Absturz
<1>3. /\ z \in Knoten /\ z.rolle = "aus" /\ z.term = k[n].term /\ z.leiter = k[n].leiter
      /\ z.uebergabeAn = Niemand /\ z.beleg = {}
  <2>1. /\ "aus" \in {"folger", "leiter", "aus"} /\ Niemand \in Validator \cup {Niemand}
        /\ 0 \in 0 .. FolgerFrist /\ {} \in SUBSET Validator
    BY Zahlen
  <2>2. QED BY <1>1, <2>1, KeineAcksTyp DEF Knoten
<1>4. /\ v \in Stand /\ v.term = IF k[n].leiter = n THEN k[n].term ELSE 0
  <2>1. Ausgefallen(vt[n]) \in SUBSET Validator
    <3>1. vt[n].ausgefallen \in Ausfaelle
      BY <1>1 DEF Stand, Ausfaelle
    <3>2. QED BY <3>1, AusfaelleFunktion DEF Ausgefallen
  <2>2. /\ k[n].term \in 0 .. MaxTerm /\ 0 \in 0 .. MaxTerm /\ {} \in SUBSET Validator
    BY <1>1, Zahlen
  <2>3. /\ Frisch(k[n].term, Ausgefallen(vt[n]), {}) \in Stand
        /\ Frisch(0, {}, {}) \in Stand
    BY <2>1, <2>2, FrischTyp
  <2>4. /\ Frisch(k[n].term, Ausgefallen(vt[n]), {}).term = k[n].term
        /\ Frisch(0, {}, {}).term = 0
    BY DEF Frisch
  <2>5. QED BY <2>3, <2>4 DEF Gespeichert
<1> HIDE DEF z, v
<1>5. /\ k'[n] = z /\ vt'[n] = v
      /\ \A x \in Validator \ {n} : Gleich(x)
  BY <1>1, <1>2 DEF Gleich
<1>6. ASSUME NEW q \in netz'
      PROVE  /\ q \in Lease /\ q.an # n
             /\ \E m \in netz : q.von = m.von /\ q.an = m.an /\ q.term = m.term
                                /\ q.abschluss = m.abschluss /\ q.uebergabe = m.uebergabe
  <2>1. PICK m \in netz : m.an # n /\ q = [m EXCEPT !.antwortbar = @ /\ m.von # n]
    BY <1>1
  <2> DEFINE b == m.antwortbar /\ m.von # n
  <2>2. m \in Lease /\ b \in BOOLEAN
    BY <1>1, Typen
  <2>3. q = [m EXCEPT !.antwortbar = b]
    BY <2>1
  <2> HIDE DEF b
  <2>4. QED BY <2>1, <2>2, <2>3 DEF Lease
<1>7. TypeOK'
  <2>1. k' \in [Validator -> Knoten] /\ vt' \in [Validator -> Stand]
        /\ verwirft' \in [Validator -> BOOLEAN]
    BY <1>1, <1>2, <1>3, <1>4
  <2>2. netz' \subseteq Lease
    BY <1>6
  <2>3. stoerungen' \in 0 .. Stoerungen /\ abgestuerzt' \subseteq Validator
    BY <1>1, Zahlen DEF TypeOK
  <2>4. QED BY <1>1, <2>1, <2>2, <2>3 DEF TypeOK
<1>8. KnotenOK(n, Lage(n), n \in abgestuerzt)'
  BY <1>1, <1>3, <1>4, <1>5 DEF KnotenOK, Lage
<1>9. n \notin abgestuerzt' => AltesOK(Lage(n), offen[n])'
  BY <1>1
<1>10. Treu(n)
  BY <1>1, <1>3, <1>4, <1>5, <1>6 DEF Treu
<1>11. LeiterTreu(n)
  BY <1>3, <1>5 DEF LeiterTreu
<1>12. NetzTreu
  BY <1>6 DEF NetzTreu, Brief
<1>13. QED BY <1>1, <1>5, <1>7, <1>8, <1>9, <1>10, <1>11, <1>12, Einbau

\* A process starts with what it had saved.
LEMMA StartOK ==
  ASSUME IInv, NEW n \in Validator, Start(n)
  PROVE  IInv'
<1> DEFINE z == [k[n] EXCEPT !.rolle = IF k[n].leiter = n THEN "leiter" ELSE "folger",
                             !.letzteLease = 0, !.leiterSeit = 0]
           v == Frisch(vt[n].term, Ausgefallen(vt[n]), {})
<1>1. /\ TypeOK /\ k[n] \in Knoten /\ vt[n] \in Stand
      /\ k \in [Validator -> Knoten] /\ vt \in [Validator -> Stand]
      /\ k[n].rolle = "aus" /\ k[n].term \in 1 .. MaxTerm /\ k[n].term \in Nat
      /\ vt[n].term \in Nat /\ Niemand # n
      /\ offen' = offen /\ verwirft' = verwirft /\ leitungen' = leitungen /\ netz' = netz
      /\ uebergaben' = uebergaben /\ abgestuerzt' = abgestuerzt /\ stoerungen' = stoerungen
  BY Typen, Zahlen DEF IInv, Start, An, TypeOK
<1>2. k' = [k EXCEPT ![n] = z] /\ vt' = [vt EXCEPT ![n] = v]
  BY <1>1 DEF Start
<1>3. /\ z \in Knoten /\ z.rolle = (IF k[n].leiter = n THEN "leiter" ELSE "folger")
      /\ z.term = k[n].term /\ z.leiter = k[n].leiter
      /\ z.uebergabeAn = k[n].uebergabeAn /\ z.beleg = k[n].beleg
  <2>1. /\ (IF k[n].leiter = n THEN "leiter" ELSE "folger") \in {"folger", "leiter", "aus"}
        /\ 0 \in 0 .. FolgerFrist /\ 0 \in 0 .. LeaseDauer
    BY Zahlen
  <2>2. QED BY <1>1, <2>1 DEF Knoten
<1>4. v \in Stand /\ v.term = vt[n].term /\ ~v.hatAngenommen /\ ~v.ueberholtGemeldet
  <2>1. Ausgefallen(vt[n]) \in SUBSET Validator
    <3>1. vt[n].ausgefallen \in Ausfaelle
      BY <1>1 DEF Stand, Ausfaelle
    <3>2. QED BY <3>1, AusfaelleFunktion DEF Ausgefallen
  <2>2. vt[n].term \in 0 .. MaxTerm /\ {} \in SUBSET Validator
    BY <1>1 DEF Stand
  <2>3. v \in Stand
    BY <2>1, <2>2, FrischTyp
  <2>4. QED BY <2>3 DEF Frisch
<1> HIDE DEF z, v
<1>5. /\ k'[n] = z /\ vt'[n] = v
      /\ \A x \in Validator \ {n} : Gleich(x)
  BY <1>1, <1>2 DEF Gleich
<1>6. TypeOK'
  BY <1>1, <1>2, <1>3, <1>4 DEF TypeOK
<1>7. /\ n \in abgestuerzt /\ k[n].beleg = {} /\ k[n].uebergabeAn = Niemand
      /\ k[n].leiter # n => vt[n].term = 0
      /\ k[n].leiter = n => vt[n].term = k[n].term
      /\ vt[n].term <= k[n].term
  <2>1. KnotenOK(n, Lage(n), n \in abgestuerzt) /\ Lage(n).k = k[n] /\ Lage(n).vt = vt[n]
    BY <1>1, Typen DEF IInv
  <2>2. QED BY <1>1, <2>1 DEF KnotenOK
<1>8. KnotenOK(n, Lage(n), n \in abgestuerzt)'
  BY <1>1, <1>3, <1>4, <1>5, <1>7 DEF KnotenOK, Lage
<1>9. n \notin abgestuerzt' => AltesOK(Lage(n), offen[n])'
  BY <1>1, <1>7
<1>10. Treu(n)
  BY <1>1, <1>3, <1>4, <1>5, <1>7 DEF Treu
<1>11. LeiterTreu(n)
  BY <1>3, <1>5, <1>7 DEF LeiterTreu, Belegt
<1>12. QED BY <1>1, <1>5, <1>6, <1>8, <1>9, <1>10, <1>11, NetzBleibt, Einbau

\* Nothing happens.
LEMMA StillstandOK ==
  ASSUME IInv, UNCHANGED vars
  PROVE  IInv'
<1>1. /\ k' = k /\ vt' = vt /\ offen' = offen /\ verwirft' = verwirft /\ netz' = netz
      /\ leitungen' = leitungen /\ uebergaben' = uebergaben /\ stoerungen' = stoerungen
      /\ abgestuerzt' = abgestuerzt
  BY DEF vars
<1>2. TypeOK' /\ \A x \in Validator : Gleich(x)
  BY <1>1 DEF IInv, TypeOK, Gleich
<1>3. Schritt
  BY <1>1, <1>2, NetzBleibt, GleichTreu DEF Schritt
<1>4. QED BY <1>3, SchrittErhaelt

\* Every step of every node keeps the invariant.
LEMMA NextOK ==
  ASSUME IInv, [Next]_vars
  PROVE  IInv'
<1>1. CASE Tick
  BY <1>1, TickOK
<1>2. ASSUME NEW n \in Validator, NEW v \in Validator, LeaseSenden(n, v) PROVE IInv'
  BY <1>2, LeaseSendenOK
<1>3. ASSUME NEW n \in Validator, NEW v \in Validator, Austausch(n, v) PROVE IInv'
  <2>1. Brief(LeaseVon(n, v)) /\ Antworten(LeaseVon(n, v)) /\ netz' = netz
    BY <1>3 DEF Austausch, Brief
  <2>2. SUFFICES ASSUME NEW m, m = LeaseVon(n, v) PROVE IInv'
    OBVIOUS
  <2>3. Brief(m) /\ Antworten(m) /\ netz' \subseteq netz
    BY <2>1, <2>2
  <2>4. QED BY <2>3, AntwortenOK
<1>4. ASSUME NEW n \in Validator, AusfaelleErkennen(n) PROVE IInv'
  BY <1>4, AusfaelleErkennenOK
<1>5. ASSUME NEW n \in Validator, Uebergeben(n) PROVE IInv'
  BY <1>5, UebergebenOK
<1>6. ASSUME NEW n \in Validator, Uebernehmen(n) PROVE IInv'
  BY <1>6, UebernehmenOK
<1>7. ASSUME NEW n \in Validator, NEW naechster \in Validator, AbschlussBeginnt(n, naechster) PROVE IInv'
  BY <1>7, AbschlussBeginntOK
<1>8. ASSUME NEW n \in Validator, NEW waehler \in Mehrheiten, Wahl(n, waehler) PROVE IInv'
  BY <1>8, WahlOK
<1>9. ASSUME NEW n \in Validator, Annehmen(n) PROVE IInv'
  BY <1>9, AnnehmenOK
<1>10. ASSUME NEW n \in Validator, BlockBauen(n) \/ Verwerfen(n) PROVE IInv'
  BY <1>10, LeerenOK
<1>11. ASSUME NEW n \in Validator, Absturz(n) PROVE IInv'
  BY <1>11, AbsturzOK
<1>12. ASSUME NEW n \in Validator, Start(n) PROVE IInv'
  BY <1>12, StartOK
<1>13. ASSUME NEW m \in netz, EmpfangeLease(m) PROVE IInv'
  <2>1. Brief(m) /\ Antworten(m) /\ netz' \subseteq netz
    BY <1>13 DEF EmpfangeLease, Brief
  <2>2. QED BY <2>1, AntwortenOK
<1>14. ASSUME NEW l \in Trennungen \cup {Verbunden}, Trennung(l) PROVE IInv'
  BY <1>14, TrennungOK
<1>15. CASE UNCHANGED vars
  BY <1>15, StillstandOK
<1>16. QED BY <1>1, <1>2, <1>3, <1>4, <1>5, <1>6, <1>7, <1>8, <1>9, <1>10, <1>11, <1>12, <1>13,
              <1>14, <1>15 DEF Next

-----------------------------------------------------------------------------
(***************************************************************************)
(* The theorems.                                                           *)
(***************************************************************************)
\* The inductive invariant holds in every reachable state.
THEOREM Invariante == Spec => []IInv
<1>1. Init => IInv
  BY InitOK
<1>2. IInv /\ [Next]_vars => IInv'
  BY NextOK
<1>3. QED BY <1>1, <1>2, PTL DEF Spec

\* The type of the state, for every Satz of three or more and all bounds.
THEOREM TypKorrekt == Spec => []TypeOK
<1>1. IInv => TypeOK
  BY DEF IInv
<1>2. QED BY <1>1, Invariante, PTL

\* Whoever a handover lists has put all it accepted in that term into blocks:
\* leitung_verteilt.go counts only members that have seen the end of the term
\* and answered with nothing open.
THEOREM AbschlussHeisstLeerGilt == Spec => []AbschlussHeisstLeer
<1>1. IInv => AbschlussHeisstLeer
  BY DEF IInv, UebergabeOK, Geschlossen, AbschlussHeisstLeer
<1>2. QED BY <1>1, Invariante, PTL

\* What a member accepted in an old term and did not put into a block is being
\* discarded as soon as it takes part in a newer one: no handover, however
\* late it is noticed, keeps it open.
THEOREM AltesVerfaelltGilt == Spec => []AltesVerfaellt
<1>1. IInv => AltesVerfaellt
  <2>1. SUFFICES ASSUME IInv, NEW n \in Validator, n \notin abgestuerzt,
                        NEW t \in offen[n], t < vt[n].term
                 PROVE  verwirft[n]
    BY DEF AltesVerfaellt
  <2>2. AltesOK(Lage(n), offen[n]) /\ Lage(n).vt = vt[n] /\ Lage(n).verwirft = verwirft[n]
    BY <2>1, Typen DEF IInv
  <2>3. QED BY <2>1, <2>2 DEF AltesOK
<1>2. QED BY <1>1, Invariante, PTL

-----------------------------------------------------------------------------
(***************************************************************************)
(* One node accepts for an account at a time: majorities.                  *)
(***************************************************************************)
\* What the code's times satisfy (leitung.go: a lease lasts 6 s, a member is
\* patient for 12 s, a new term rests for 5 s; the client gives up after 3 s):
\* a lease, and what it allows, is over before anybody else may begin.
Fristen ==
  /\ LeaseDauer <= FolgerFrist /\ Halbe > 0 /\ Verzug + Halbe <= LeaseDauer
  /\ Verzug + Halbe <= (FolgerFrist - LeaseDauer) + Ruhezeit

\* With handovers the Satz has at most four members: of five, three that have
\* not heard of a handover can elect a leader of the same term.
Handhabbar == Abgebende = {} \/ N <= 4

\* How long a lease is over at least before a member is impatient.
Abstand == FolgerFrist - LeaseDauer

\* The majorities, and more.
Grosse == {w \in SUBSET Validator : Cardinality(w) >= Mehrheit}

\* The number of members and of a majority.
LEMMA Anzahl == N \in Nat /\ N >= 3 /\ Mehrheit \in Nat /\ 2 * Mehrheit > N /\ IsFiniteSet(Validator)
<1>1. IsFiniteSet(Validator) /\ N >= 3 /\ N \in Nat
  BY VerteiltAnnahme, FS_CardinalityType DEF N
<1>2. QED BY <1>1 DEF Mehrheit

\* Two majorities have a member in common.
LEMMA Schnitt ==
  ASSUME NEW v \in Grosse, NEW w \in Grosse
  PROVE  \E x \in Validator : x \in v /\ x \in w
<1>1. v \subseteq Validator /\ w \subseteq Validator /\ IsFiniteSet(v) /\ IsFiniteSet(w)
  BY Anzahl, FS_Subset DEF Grosse
<1>2. /\ Cardinality(v) \in Nat /\ Cardinality(w) \in Nat
      /\ Cardinality(v) >= Mehrheit /\ Cardinality(w) >= Mehrheit
  BY <1>1, FS_CardinalityType DEF Grosse
<1>3. Cardinality(v) + Cardinality(w) > Cardinality(Validator)
  BY <1>2, Anzahl DEF N
<1>4. v \cap w # {}
  BY <1>1, <1>3, Anzahl, FS_MajoritiesIntersect
<1>5. QED BY <1>1, <1>4

\* Of at most four members no majority is without two of them.
LEMMA Vier ==
  ASSUME N <= 4, NEW p \in Validator, NEW q \in Validator, p # q, NEW w \in Grosse
  PROVE  p \in w \/ q \in w
<1> SUFFICES ASSUME p \notin w, q \notin w PROVE FALSE
  OBVIOUS
<1>1. w \subseteq (Validator \ {p}) \ {q} /\ IsFiniteSet(Validator)
  BY Anzahl DEF Grosse
<1>2. /\ IsFiniteSet(Validator \ {p}) /\ Cardinality(Validator \ {p}) = N - 1
      /\ IsFiniteSet((Validator \ {p}) \ {q}) /\ Cardinality((Validator \ {p}) \ {q}) = N - 2
  <2>1. IsFiniteSet(Validator \ {p}) /\ Cardinality(Validator \ {p}) = N - 1
    BY <1>1, FS_RemoveElement DEF N
  <2>2. /\ IsFiniteSet((Validator \ {p}) \ {q})
        /\ Cardinality((Validator \ {p}) \ {q}) = Cardinality(Validator \ {p}) - 1
    <3>1. q \in Validator \ {p}
      OBVIOUS
    <3>2. QED BY <2>1, <3>1, FS_RemoveElement
  <2>3. QED BY <2>1, <2>2, Anzahl
<1>3. IsFiniteSet(w) /\ Cardinality(w) <= N - 2
  BY <1>1, <1>2, FS_Subset
<1>4. Cardinality(w) \in Nat /\ Cardinality(w) >= Mehrheit
  BY <1>3, FS_CardinalityType DEF Grosse
<1>5. N = 3 \/ N = 4
  BY Anzahl
<1>6. QED BY <1>3, <1>4, <1>5 DEF Mehrheit

\* Who may accept as leader has a majority of itself and fresh answers.
LEMMA DarfMehrheit ==
  ASSUME NEW z, DarfAnnehmen(z), NEW l \in Validator, ~(z.acks[l] < LeaseDauer)
  PROVE  \E w \in Grosse : \A v \in w : v = l \/ z.acks[v] < LeaseDauer
<1> DEFINE F == {v \in Validator : z.acks[v] < LeaseDauer}
<1>1. 1 + Cardinality(F) >= Mehrheit
  BY DEF DarfAnnehmen
<1>2. IsFiniteSet(F) /\ F \subseteq Validator
  BY Anzahl, FS_Subset
<1>3. Cardinality(F \cup {l}) = Cardinality(F) + 1
  <2>1. l \notin F
    OBVIOUS
  <2>2. QED BY <1>2, <2>1, FS_AddElement
<1>4. Cardinality(F) \in Nat
  BY <1>2, FS_CardinalityType
<1>5. F \cup {l} \in Grosse
  BY <1>1, <1>2, <1>3, <1>4, Anzahl DEF Grosse
<1>6. QED BY <1>5

\* A voter's majority is one.
LEMMA MehrheitenGross ==
  ASSUME NEW w \in Mehrheiten
  PROVE  w \in Grosse
BY Anzahl DEF Mehrheiten, Grosse

-----------------------------------------------------------------------------
(***************************************************************************)
(* One node accepts for an account at a time: the invariant.               *)
(***************************************************************************)
IstLeiter(l) == k[l].leiter = l
Ueber(t) == \E v \in Validator : k[v].term > t

\* A majority has left the term t; every majority has somebody who reached it.
Verlassen(t) == \E w \in Grosse : \A v \in w : k[v].term > t
Begonnen(t) == \A w \in Grosse : \E v \in w : k[v].term >= t

\* A majority without the leader l has left its term and answers it no more.
Abgehaengt(l) ==
  \E w \in Grosse : l \notin w /\ \A v \in w : k[v].term > k[l].term /\ k[l].acks[v] >= LeaseDauer

\* n may accept as a follower if it is not counted out.
Lebendig(n) ==
  vt[n].term = k[n].term /\ ~vt[n].abschlussGesehen /\ vt[n].letzteBestaetigt < Halbe

\* The lease m would let its member accept.
Wirkt(m) ==
  ~LeaseAblehnen(k[m.an], m) /\ ~(vt[m.an].term = m.term /\ vt[m.an].abschlussGesehen)

\* Whatever still allows to accept in the terms up to t was sent r ago.
Sterbend(t, r) ==
  /\ \A n \in Validator : Lebendig(n) /\ k[n].term <= t => vt[n].letzteBestaetigt + Verzug >= r
  /\ \A m \in netz : m.bestaetigt /\ m.term <= t /\ Wirkt(m) => m.alter >= r

\* A majority had followed l in the term t, r ago, and no member of it has
\* been without a lease for longer since, or it has left the term.
Zeugen(t, l, r) ==
  \E w \in Grosse : \A v \in w :
    \/ k[v].term > t
    \/ k[v].term = t /\ k[v].leiter = l /\ (v = l \/ k[v].letzteLease < LeaseDauer + r)

\* A handover to a member that has not left its term: nobody is in the next
\* term but by hearsay, or by following that member.
Unberuehrt(u) ==
  /\ \A v \in Validator : /\ k[v].term = u.term + 1 => k[v].leiter \in {Niemand, u.an}
                          /\ vt[v].term # u.term + 1
  /\ \A m \in netz : m.term # u.term + 1
  /\ \A w \in uebergaben : w.term # u.term + 1

\* A term is begun by a majority or a handover, has one leader, and ends with
\* at most one handover.
TermeOK ==
  /\ \A n \in Validator : k[n].leiter = Niemand => vt[n].term < k[n].term
  /\ \A n \in Validator, t \in Nat :
       1 <= t /\ t < k[n].term => Verlassen(t) \/ \E u \in uebergaben : u.term = t
  /\ \A n \in Validator, t \in Nat : 1 <= t /\ vt[n].term = t => Begonnen(t)
  /\ \A m \in netz : Begonnen(m.term) /\ m.term <= k[m.von].term
  /\ \A l, x \in Validator : IstLeiter(l) /\ IstLeiter(x) /\ l # x => k[l].term # k[x].term
  /\ \A l \in Validator : k[l].rolle = "leiter" /\ k[l].uebergabeAn # Niemand =>
       l \in Abgebende /\ k[k[l].uebergabeAn].term >= k[l].term

\* A handover is of a begun term that nobody leads anymore, the only one of it.
UebergabenOK ==
  \A u \in uebergaben :
    /\ Begonnen(u.term) /\ k[u.an].term >= u.term /\ u.an # u.von /\ u.von \in Abgebende
    /\ \A l \in Validator : IstLeiter(l) => k[l].term # u.term
    /\ \A w \in uebergaben : w.term = u.term => w = u
    /\ k[u.an].term = u.term => Unberuehrt(u)

\* Whom a leader has heard of lately follows it, or has left its term; once
\* somebody has left it, a majority has and answers no more.
LeiterFest(l) ==
  IstLeiter(l) =>
    /\ Ueber(k[l].term) => Abgehaengt(l)
    /\ k[l].acks[l] >= LeaseDauer
    /\ \A v \in Validator : k[l].acks[v] < LeaseDauer =>
         \/ k[v].term > k[l].term
         \/ /\ k[v].term = k[l].term /\ k[v].leiter = l
            /\ k[v].letzteLease <= k[l].acks[v]

\* What allowed to accept in an old term is dying out: the longer, the longer
\* the new term runs, a leader has been ending its own, or since a handover.
SterbenOK ==
  /\ \A t \in Nat : Ueber(t) => Sterbend(t, Abstand)
  /\ \A n \in Validator, t, r \in Nat :
       vt[n].term = t + 1 /\ r <= Abstand + vt[n].termSeit => Sterbend(t, r)
  /\ \A u \in uebergaben : Sterbend(u.term, Abstand + Ruhezeit)
  /\ \A l \in Validator, t, r \in Nat :
       /\ k[l].rolle = "leiter" /\ k[l].uebergabeAn # Niemand
       /\ k[l].term = t /\ r <= vt[l].abschliessenSeit
       => Sterbend(t, r)

\* Behind all that lets a member accept is a majority that followed its leader.
ZeugenOK ==
  /\ \A n \in Validator, t, r \in Nat, l \in Validator :
       Lebendig(n) /\ k[n].term = t /\ k[n].leiter = l /\ r = vt[n].letzteBestaetigt + Verzug
       => Zeugen(t, l, r)
  /\ \A m \in netz : m.bestaetigt => ~m.abschluss /\ Zeugen(m.term, m.von, m.alter)

\* The leader of a term counts out whoever is counted out in it, never itself.
AusfallLeiter(l) ==
  IstLeiter(l) =>
    /\ l \notin Ausgefallen(vt[l])
    /\ \A n \in Validator : vt[n].term = k[l].term => Ausgefallen(vt[n]) \subseteq Ausgefallen(vt[l])
    /\ \A m \in netz : m.term = k[l].term => m.ausgefallen \subseteq Ausgefallen(vt[l])

\* Whoever is counted out for a while and does not know it has had no lease
\* that allows to accept for as long, and none is under way.
AusfallOK ==
  /\ \A n, a \in Validator :
       /\ a \in Ausgefallen(vt[n]) /\ vt[n].term = vt[a].term
       /\ Lebendig(a) /\ a \notin Ausgefallen(vt[a])
       => vt[a].letzteBestaetigt + Verzug >= vt[n].ausgefallen[a]
  /\ \A n \in Validator : \A m \in netz :
       /\ m.bestaetigt /\ m.term = vt[n].term
       /\ m.an \in Ausgefallen(vt[n]) /\ m.an \notin m.ausgefallen
       => m.alter >= vt[n].ausgefallen[m.an]

\* The inductive invariant, beside IInv.
EInv ==
  /\ TermeOK /\ UebergabenOK
  /\ SterbenOK /\ ZeugenOK /\ AusfallOK
  /\ \A l \in Validator : LeiterFest(l) /\ AusfallLeiter(l)

-----------------------------------------------------------------------------
(***************************************************************************)
(* The parts of a state of the invariant IInv.                             *)
(***************************************************************************)
Felder(n) ==
  /\ k[n].rolle \in {"folger", "leiter", "aus"} /\ k[n].term \in Nat /\ k[n].term >= 1
  /\ k[n].leiter \in Wer /\ k[n].letzteLease \in Nat /\ k[n].letzteLease <= FolgerFrist
  /\ k[n].uebergabeAn \in Wer /\ k[n].uebergabeAn # n /\ n # Niemand
  /\ \A v \in Validator : k[n].acks[v] \in Nat /\ k[n].acks[v] <= LeaseDauer
  /\ vt[n].term \in Nat /\ vt[n].termSeit \in Nat /\ vt[n].termSeit <= Ruhezeit
  /\ vt[n].letzteBestaetigt \in Nat
  /\ vt[n].abschliessenSeit \in Nat /\ vt[n].abschliessenSeit <= LeaseDauer
  /\ vt[n].abschlussGesehen \in BOOLEAN
  /\ Ausgefallen(vt[n]) \subseteq Validator
  /\ \A a \in Ausgefallen(vt[n]) : vt[n].ausgefallen[a] \in Nat
  /\ vt[n].term <= k[n].term
  /\ k[n].rolle = "leiter" => k[n].leiter = n
  /\ k[n].leiter = n => k[n].rolle # "folger" /\ vt[n].term = k[n].term

\* The parts of a lease.
LeaseFelder(m) ==
  /\ m.von \in Validator /\ m.an \in Validator /\ m.von # m.an
  /\ m.term \in Nat /\ m.term >= 1 /\ m.alter \in Nat /\ m.alter <= Verzug
  /\ m.bestaetigt \in BOOLEAN /\ m.ausgefallen \subseteq Validator
  /\ Belegt(m.uebergabe, m.term)

\* Those of all nodes, leases and handovers.
AlleFelder ==
  /\ \A n \in Validator : Felder(n)
  /\ \A m \in netz : LeaseFelder(m)
  /\ \A u \in uebergaben : /\ u.von \in Validator /\ u.an \in Validator
                           /\ u.term \in Nat /\ u.term >= 1 /\ k[u.von].term > u.term

\* The invariant IInv says this of every node, lease and handover.
LEMMA AlleFelderOK == IInv => AlleFelder
<1> SUFFICES ASSUME IInv PROVE AlleFelder
  OBVIOUS
<1>1. ASSUME NEW n \in Validator PROVE Felder(n)
  <2>1. /\ k[n] \in Knoten /\ vt[n] \in Stand /\ KnotenOK(n, Lage(n), n \in abgestuerzt)
        /\ Lage(n).k = k[n] /\ Lage(n).vt = vt[n]
        /\ k[n].uebergabeAn \in Wer /\ k[n].leiter \in Wer
    BY Typen DEF IInv
  <2>2. /\ k[n].rolle \in {"folger", "leiter", "aus"} /\ k[n].term \in Nat /\ k[n].term >= 1
        /\ k[n].letzteLease \in Nat /\ k[n].letzteLease <= FolgerFrist
        /\ n # Niemand
    BY <2>1, Zahlen DEF Knoten
  <2>3. \A v \in Validator : k[n].acks[v] \in Nat /\ k[n].acks[v] <= LeaseDauer
    BY <2>1, Zahlen DEF Knoten
  <2>4. /\ vt[n].term \in Nat /\ vt[n].termSeit \in Nat /\ vt[n].termSeit <= Ruhezeit
        /\ vt[n].letzteBestaetigt \in Nat
        /\ vt[n].abschliessenSeit \in Nat /\ vt[n].abschliessenSeit <= LeaseDauer
        /\ vt[n].abschlussGesehen \in BOOLEAN
    BY <2>1, Zahlen DEF Stand
  <2>5. /\ Ausgefallen(vt[n]) \subseteq Validator
        /\ \A a \in Ausgefallen(vt[n]) : vt[n].ausgefallen[a] \in Nat
    <3>1. vt[n].ausgefallen \in Ausfaelle
      BY <2>1 DEF Stand, Ausfaelle
    <3>2. QED BY <3>1, AusfaelleFunktion, Zahlen DEF Ausgefallen
  <2>6. /\ k[n].rolle = "leiter" => k[n].leiter = n
        /\ k[n].leiter = n => k[n].rolle # "folger" /\ vt[n].term = k[n].term
        /\ vt[n].term <= k[n].term /\ k[n].uebergabeAn # n
    BY <2>1 DEF KnotenOK
  <2>7. QED BY <2>1, <2>2, <2>3, <2>4, <2>5, <2>6 DEF Felder
<1>2. ASSUME NEW m \in netz PROVE LeaseFelder(m)
  <2>1. m \in Lease /\ m.von # m.an /\ Belegt(m.uebergabe, m.term)
    BY Typen DEF IInv
  <2>2. QED BY <2>1, Zahlen DEF LeaseFelder, Lease
<1>3. ASSUME NEW u \in uebergaben
      PROVE  /\ u.von \in Validator /\ u.an \in Validator
             /\ u.term \in Nat /\ u.term >= 1 /\ k[u.von].term > u.term
  <2>1. u \in Uebergabe /\ k[u.von].term > u.term
    BY Typen DEF IInv, UebergabeOK
  <2>2. QED BY <2>1, Zahlen DEF Uebergabe
<1>4. QED BY <1>1, <1>2, <1>3 DEF AlleFelder

\* A lease that its leader can send now.
Neulich(m) ==
  /\ k[m.von].rolle = "leiter" /\ m.term = k[m.von].term /\ m.alter = 0
  /\ m.bestaetigt <=> DarfAnnehmen(k[m.von])
  /\ m.abschluss <=> k[m.von].uebergabeAn # Niemand
  /\ m.ausgefallen = Ausgefallen(vt[m.von])

\* A lease under way, or one that can be sent now, is of this kind.
LEMMA BriefArt ==
  ASSUME IInv, NEW m, Brief(m)
  PROVE  LeaseFelder(m) /\ (m \in netz \/ Neulich(m))
<1>1. AlleFelder
  BY AlleFelderOK
<1>2. CASE m \in netz
  BY <1>1, <1>2 DEF AlleFelder
<1>3. CASE m \notin netz
  <2>1. PICK l \in Validator, v \in Validator : v # l /\ k[l].rolle = "leiter" /\ m = LeaseVon(l, v)
    BY <1>3 DEF Brief
  <2>2. /\ m.von = l /\ m.an = v /\ m.term = k[l].term /\ m.alter = 0
        /\ m.bestaetigt = DarfAnnehmen(k[l]) /\ m.abschluss = (k[l].uebergabeAn # Niemand)
        /\ m.ausgefallen = Ausgefallen(vt[l])
    BY <2>1 DEF LeaseVon
  <2>3. Belegt(m.uebergabe, m.term)
    BY BriefOK
  <2>4. m.bestaetigt \in BOOLEAN
    BY <2>2 DEF DarfAnnehmen
  <2>5. Felder(l)
    BY <1>1 DEF AlleFelder
  <2>6. LeaseFelder(m)
    BY <2>1, <2>2, <2>3, <2>4, <2>5, Zahlen DEF LeaseFelder, Felder
  <2>7. Neulich(m)
    BY <2>1, <2>2 DEF Neulich
  <2>8. QED BY <2>6, <2>7
<1>4. QED BY <1>2, <1>3

-----------------------------------------------------------------------------
(***************************************************************************)
(* What every step but that of time does.                                  *)
(***************************************************************************)
\* A node raises its term, or keeps its leader and hears of it no later.
KTreu(n) ==
  \/ k'[n].term > k[n].term
  \/ /\ k'[n].term = k[n].term /\ k'[n].letzteLease <= k[n].letzteLease
     /\ k'[n].leiter = k[n].leiter \/ k[n].leiter = Niemand

\* It does not forget that its leader ends the term, unless the leases to it
\* are lost.
EndeTreu(n) ==
  vt[n].term = k[n].term /\ vt[n].abschlussGesehen =>
    \/ k'[n].term > k[n].term \/ IstLeiter(n)
    \/ vt'[n].term = vt[n].term /\ vt'[n].abschlussGesehen
    \/ \A q \in netz' : q.an # n

\* It may accept as a follower as before, or by a lease.
LebenTreu(n) ==
  Lebendig(n)' =>
    \/ /\ Lebendig(n) /\ k'[n].term = k[n].term /\ k'[n].leiter = k[n].leiter
       /\ vt'[n].letzteBestaetigt = vt[n].letzteBestaetigt
       /\ Ausgefallen(vt[n]) \subseteq Ausgefallen(vt'[n])
    \/ \E m : /\ Brief(m) /\ m.an = n /\ m.bestaetigt /\ Wirkt(m)
              /\ k'[n].term = m.term /\ k'[n].leiter = m.von
              /\ m.ausgefallen \subseteq Ausgefallen(vt'[n])

\* Whom it counts out, it did before, or learns of now.
AusTreu(n) ==
  \A a \in Ausgefallen(vt'[n]) :
    \/ /\ vt'[n].term = vt[n].term /\ a \in Ausgefallen(vt[n])
       /\ vt'[n].ausgefallen[a] <= vt[n].ausgefallen[a]
    \/ /\ vt'[n].ausgefallen[a] = 0
       /\ \/ IstLeiter(n)'
          \/ \E m : Brief(m) /\ m.an = n /\ vt'[n].term = m.term /\ a \in m.ausgefallen

\* A leader takes over: nobody answered it, and nobody is counted out yet.
Neu(l) ==
  /\ k'[l].rolle = "leiter" /\ k'[l].leiter = l /\ k'[l].term > k[l].term
  /\ k'[l].uebergabeAn = Niemand /\ Ausgefallen(vt'[l]) = {}
  /\ \A v \in Validator : k'[l].acks[v] >= LeaseDauer
  /\ vt'[l].termSeit = 0 \/ k'[l].beleg # {}

\* It takes part in the term as before, by a lease or as its leader.
TermTreu(n) ==
  \/ vt'[n].term = vt[n].term /\ vt'[n].termSeit <= vt[n].termSeit
  \/ vt'[n].term = 0
  \/ Neu(n)
  \/ \E m : /\ Brief(m) /\ m.an = n /\ vt'[n].term = m.term
            /\ k'[n].term = m.term /\ k'[n].leiter = m.von
            /\ vt'[n].termSeit = 0 \/ m.uebergabe # {}

\* A leader stays one, or takes over.
AmtTreu(l) ==
  IstLeiter(l)' =>
    \/ Neu(l)
    \/ /\ IstLeiter(l) /\ k'[l].term = k[l].term
       /\ Ausgefallen(vt[l]) \subseteq Ausgefallen(vt'[l]) /\ l \notin Ausgefallen(vt'[l])
       /\ \A v \in Validator :
            \/ k'[l].acks[v] >= LeaseDauer \/ k'[l].acks[v] = k[l].acks[v]
            \/ /\ v # l /\ k'[v].term = k[l].term /\ k'[v].leiter = l
               /\ k'[v].letzteLease = 0
       /\ k'[l].rolle = "leiter" /\ k'[l].uebergabeAn # Niemand =>
            /\ k[l].rolle = "leiter"
            /\ \/ /\ k'[l].uebergabeAn = k[l].uebergabeAn
                  /\ vt'[l].abschliessenSeit = vt[l].abschliessenSeit
               \/ /\ vt'[l].abschliessenSeit = 0 /\ l \in Abgebende
                  /\ k[l].acks[k'[l].uebergabeAn] < LeaseDauer

\* The leases under way are copies.
Kopie(q, m) ==
  /\ q.von = m.von /\ q.an = m.an /\ q.term = m.term /\ q.alter = m.alter
  /\ q.bestaetigt = m.bestaetigt /\ q.abschluss = m.abschluss /\ q.ausgefallen = m.ausgefallen

\* A step of all nodes: none of them lets anybody accept who might not before.
Gang ==
  /\ \A n \in Validator : /\ KTreu(n) /\ EndeTreu(n) /\ LebenTreu(n) /\ AusTreu(n)
                          /\ TermTreu(n) /\ AmtTreu(n)
  /\ \A q \in netz' : \E m : Brief(m) /\ Kopie(q, m)
  /\ uebergaben \subseteq uebergaben'

-----------------------------------------------------------------------------
(***************************************************************************)
(* Facts about a state of both invariants.                                 *)
(***************************************************************************)
\* Both invariants, and the parts of the state.
AllInv == IInv /\ EInv

\* A leader whose term somebody has left may not accept.
LEMMA AbgehaengtStill ==
  ASSUME AllInv, NEW l \in Validator, IstLeiter(l), Ueber(k[l].term)
  PROVE  ~DarfAnnehmen(k[l])
<1> SUFFICES ASSUME DarfAnnehmen(k[l]) PROVE FALSE
  OBVIOUS
<1>1. /\ Abgehaengt(l) /\ k[l].acks[l] >= LeaseDauer
  BY DEF AllInv, EInv, LeiterFest
<1>2. Felder(l)
  BY AlleFelderOK DEF AllInv, AlleFelder
<1>3. \A v \in Validator : k[l].acks[v] \in Nat
  BY <1>2 DEF Felder
<1>4. ~(k[l].acks[l] < LeaseDauer)
  BY <1>1, <1>3, Zahlen
<1>5. PICK w \in Grosse : \A v \in w : v = l \/ k[l].acks[v] < LeaseDauer
  BY <1>4, DarfMehrheit
<1>6. PICK y \in Grosse : l \notin y /\ \A v \in y : k[l].acks[v] >= LeaseDauer
  BY <1>1 DEF Abgehaengt
<1>7. PICK v \in Validator : v \in w /\ v \in y
  BY Schnitt
<1>8. v # l /\ k[l].acks[v] < LeaseDauer /\ k[l].acks[v] >= LeaseDauer
  BY <1>5, <1>6, <1>7
<1>9. QED BY <1>3, <1>8, Zahlen

\* No leader of a term up to t may accept.
Still(t) == \A l \in Validator : k[l].rolle = "leiter" /\ k[l].term <= t => ~DarfAnnehmen(k[l])

\* Where somebody is past a term, no leader of it or of an older one may accept.
LEMMA UeberStill ==
  ASSUME AllInv, NEW t \in Nat, Ueber(t)
  PROVE  Still(t)
<1> SUFFICES ASSUME NEW l \in Validator, k[l].rolle = "leiter", k[l].term <= t
             PROVE  ~DarfAnnehmen(k[l])
  BY DEF Still
<1>1. \A n \in Validator : Felder(n)
  BY AlleFelderOK DEF AllInv, AlleFelder
<1>2. IstLeiter(l) /\ k[l].term \in Nat
  BY <1>1 DEF Felder, IstLeiter
<1>3. Ueber(k[l].term)
  <2>1. PICK v \in Validator : k[v].term > t
    BY DEF Ueber
  <2>2. k[v].term \in Nat
    BY <1>1 DEF Felder
  <2>3. k[v].term > k[l].term
    BY <1>2, <2>1, <2>2
  <2>4. QED BY <2>3 DEF Ueber
<1>4. QED BY <1>2, <1>3, AbgehaengtStill

\* What a lease tells: a begun term, and a majority that followed if it lets
\* its member accept.
LEMMA BriefTaugt ==
  ASSUME AllInv, NEW m, Brief(m)
  PROVE  /\ LeaseFelder(m) /\ Begonnen(m.term) /\ m.term <= k[m.von].term
         /\ m.bestaetigt => ~m.abschluss /\ Zeugen(m.term, m.von, m.alter)
<1>1. LeaseFelder(m) /\ (m \in netz \/ Neulich(m))
  BY BriefArt DEF AllInv
<1>2. CASE m \in netz
  BY <1>1, <1>2 DEF AllInv, EInv, TermeOK, ZeugenOK
<1>3. CASE Neulich(m)
  <2>1. AlleFelder /\ m.von \in Validator
    BY <1>1, AlleFelderOK DEF AllInv, LeaseFelder
  <2>2. SUFFICES ASSUME NEW l \in Validator, l = m.von
                 PROVE  /\ Begonnen(m.term) /\ m.term <= k[l].term
                        /\ m.bestaetigt => ~m.abschluss /\ Zeugen(m.term, l, m.alter)
    BY <1>1, <2>1
  <2>3. /\ k[l].rolle = "leiter" /\ m.term = k[l].term /\ m.alter = 0
        /\ m.bestaetigt => DarfAnnehmen(k[l])
        /\ m.abschluss => k[l].uebergabeAn # Niemand
    BY <1>3, <2>2 DEF Neulich
  <2>4. Felder(l)
    BY <2>1 DEF AlleFelder
  <2>5. /\ k[l].leiter = l /\ vt[l].term = k[l].term /\ k[l].term \in Nat /\ k[l].term >= 1
        /\ \A v \in Validator : k[l].acks[v] \in Nat
    BY <2>3, <2>4 DEF Felder
  <2>6. Begonnen(m.term) /\ m.term <= k[l].term
    BY <2>3, <2>5 DEF AllInv, EInv, TermeOK
  <2>7. m.bestaetigt => ~m.abschluss
    BY <2>3 DEF DarfAnnehmen
  <2>8. ASSUME m.bestaetigt PROVE Zeugen(m.term, l, m.alter)
    <3>1. LeiterFest(l) /\ IstLeiter(l)
      BY <2>5 DEF AllInv, EInv, IstLeiter
    <3>2. ~(k[l].acks[l] < LeaseDauer)
      BY <2>5, <3>1, Zahlen DEF LeiterFest
    <3>3. PICK w \in Grosse : \A v \in w : v = l \/ k[l].acks[v] < LeaseDauer
      BY <2>3, <2>8, <3>2, DarfMehrheit
    <3>4. ASSUME NEW v \in w
          PROVE  \/ k[v].term > m.term
                 \/ /\ k[v].term = m.term /\ k[v].leiter = l
                    /\ v = l \/ k[v].letzteLease < LeaseDauer + m.alter
      <4>1. v \in Validator
        BY DEF Grosse
      <4>2. CASE v = l
        BY <2>3, <2>5, <4>2
      <4>3. CASE v # l
        <5>1. k[l].acks[v] < LeaseDauer
          BY <3>3, <4>3
        <5>2. CASE k[v].term > k[l].term
          BY <2>3, <5>2
        <5>3. CASE /\ k[v].term = k[l].term /\ k[v].leiter = l
                   /\ k[v].letzteLease <= k[l].acks[v]
          <6>1. Felder(v)
            BY <2>1, <4>1 DEF AlleFelder
          <6>2. k[v].letzteLease \in Nat
            BY <6>1 DEF Felder
          <6>3. k[v].letzteLease < LeaseDauer + m.alter
            BY <2>3, <2>5, <4>1, <5>1, <5>3, <6>2, Zahlen
          <6>4. QED BY <2>3, <5>3, <6>3
        <5>4. QED BY <3>1, <4>1, <5>1, <5>2, <5>3 DEF LeiterFest
      <4>4. QED BY <4>2, <4>3
    <3>5. QED BY <3>4 DEF Zeugen
  <2>9. QED BY <2>6, <2>7, <2>8
<1>4. QED BY <1>1, <1>2, <1>3

-----------------------------------------------------------------------------
(***************************************************************************)
(* What such a step keeps.                                                 *)
(***************************************************************************)
\* The terms of the nodes only grow.
LEMMA TermSteigt ==
  ASSUME AlleFelder, AlleFelder', NEW n \in Validator, KTreu(n)
  PROVE  k[n].term \in Nat /\ k'[n].term \in Nat /\ k'[n].term >= k[n].term
<1>1. Felder(n) /\ Felder(n)'
  BY DEF AlleFelder
<1>2. k[n].term \in Nat /\ k'[n].term \in Nat
  BY <1>1 DEF Felder
<1>3. QED BY <1>2 DEF KTreu

\* Terms stay begun, left and passed.
LEMMA BegonnenBleibt ==
  ASSUME AlleFelder, AlleFelder', \A n \in Validator : KTreu(n), NEW t \in Nat
  PROVE  /\ Begonnen(t) => Begonnen(t)'
         /\ Verlassen(t) => Verlassen(t)'
         /\ Ueber(t) => Ueber(t)'
<1>1. \A n \in Validator : k[n].term \in Nat /\ k'[n].term \in Nat /\ k'[n].term >= k[n].term
  BY TermSteigt
<1>2. \A w \in Grosse : w \subseteq Validator
  BY DEF Grosse
<1>3. ASSUME Begonnen(t) PROVE Begonnen(t)'
  <2>1. ASSUME NEW w \in Grosse PROVE \E v \in w : k'[v].term >= t
    <3>1. PICK v \in w : k[v].term >= t
      BY <1>3 DEF Begonnen
    <3>2. v \in Validator
      BY <1>2
    <3>3. k'[v].term >= t
      BY <1>1, <3>1, <3>2
    <3>4. QED BY <3>3
  <2>2. QED BY <2>1 DEF Begonnen
<1>4. ASSUME Verlassen(t) PROVE Verlassen(t)'
  <2>1. PICK w \in Grosse : \A v \in w : k[v].term > t
    BY <1>4 DEF Verlassen
  <2>2. ASSUME NEW v \in w PROVE k'[v].term > t
    BY <1>1, <1>2, <2>1
  <2>3. QED BY <2>2 DEF Verlassen
<1>5. ASSUME Ueber(t) PROVE Ueber(t)'
  <2>1. PICK v \in Validator : k[v].term > t
    BY <1>5 DEF Ueber
  <2>2. k'[v].term > t
    BY <1>1, <2>1
  <2>3. QED BY <2>2 DEF Ueber
<1>6. QED BY <1>3, <1>4, <1>5

\* A majority of witnesses stays one.
LEMMA ZeugenBleiben ==
  ASSUME AlleFelder, AlleFelder', \A n \in Validator : KTreu(n),
         NEW t \in Nat, NEW r \in Nat, NEW s \in Nat, r <= s, NEW l \in Validator, Zeugen(t, l, r)
  PROVE  Zeugen(t, l, s)'
<1>1. PICK w \in Grosse : \A v \in w :
         \/ k[v].term > t
         \/ k[v].term = t /\ k[v].leiter = l /\ (v = l \/ k[v].letzteLease < LeaseDauer + r)
  BY DEF Zeugen
<1>2. ASSUME NEW v \in w
      PROVE  \/ k'[v].term > t
             \/ k'[v].term = t /\ k'[v].leiter = l /\ (v = l \/ k'[v].letzteLease < LeaseDauer + s)
  <2>1. v \in Validator /\ KTreu(v) /\ l # Niemand
    BY Zahlen DEF Grosse
  <2>2. k[v].term \in Nat /\ k'[v].term \in Nat /\ k'[v].term >= k[v].term
    BY <2>1, TermSteigt
  <2>3. CASE k[v].term > t \/ k'[v].term > k[v].term
    BY <1>1, <2>2, <2>3
  <2>4. CASE ~(k[v].term > t) /\ ~(k'[v].term > k[v].term)
    <3>1. /\ k[v].term = t /\ k[v].leiter = l /\ (v = l \/ k[v].letzteLease < LeaseDauer + r)
      BY <1>1, <2>4
    <3>2. k'[v].term = t /\ k'[v].letzteLease <= k[v].letzteLease /\ k'[v].leiter = l
      BY <2>1, <2>4, <3>1 DEF KTreu
    <3>3. Felder(v) /\ Felder(v)'
      BY <2>1 DEF AlleFelder
    <3>4. k[v].letzteLease \in Nat /\ k'[v].letzteLease \in Nat
      BY <3>3 DEF Felder
    <3>5. k[v].letzteLease < LeaseDauer + r => k'[v].letzteLease < LeaseDauer + s
      BY <3>2, <3>4, Zahlen
    <3>6. QED BY <3>1, <3>2, <3>5
  <2>5. QED BY <2>3, <2>4
<1>3. QED BY <1>2 DEF Zeugen

\* A lease that would let its member accept, would have before.
LEMMA WirktFolgt ==
  ASSUME AlleFelder, AlleFelder', TermeOK, NEW q \in netz', NEW m, LeaseFelder(m), Kopie(q, m),
         KTreu(m.an), EndeTreu(m.an), Wirkt(q)'
  PROVE  Wirkt(m)
<1>1. /\ q.an = m.an /\ q.von = m.von /\ q.term = m.term
      /\ m.an \in Validator /\ m.von \in Validator /\ m.von # m.an /\ m.term \in Nat
  BY DEF Kopie, LeaseFelder
<1>2. SUFFICES ASSUME NEW n \in Validator, n = m.an, n = q.an PROVE Wirkt(m)
  BY <1>1
<1>3. Felder(n) /\ Felder(n)'
  BY DEF AlleFelder
<1>4. /\ k[n].term \in Nat /\ k'[n].term \in Nat /\ vt[n].term \in Nat /\ vt[n].term <= k[n].term
      /\ k[n].rolle = "leiter" => k[n].leiter = n
      /\ k'[n].term >= k[n].term
  BY <1>2, <1>3, TermSteigt DEF Felder
<1>5. /\ ~LeaseAblehnen(k'[n], q) /\ ~(vt'[n].term = q.term /\ vt'[n].abschlussGesehen)
  BY <1>2 DEF Wirkt
<1>6. /\ ~(m.term < k'[n].term)
      /\ m.term = k'[n].term => k'[n].leiter \in {Niemand, m.von}
  BY <1>1, <1>5 DEF LeaseAblehnen
<1>7. ~LeaseAblehnen(k[n], m)
  <2>1. ~(m.term < k[n].term)
    BY <1>1, <1>4, <1>6
  <2>2. ASSUME m.term = k[n].term, k[n].rolle = "leiter" \/ k[n].leiter \notin {Niemand, m.von}
        PROVE  FALSE
    <3>1. k'[n].term = k[n].term
      BY <1>1, <1>4, <1>6, <2>2
    <3>2. k[n].leiter \notin {Niemand, m.von}
      BY <1>1, <1>2, <1>4, <2>2, Zahlen
    <3>3. k'[n].leiter = k[n].leiter
      BY <1>2, <1>4, <3>1, <3>2 DEF KTreu
    <3>4. QED BY <1>6, <2>2, <3>1, <3>2, <3>3
  <2>3. QED BY <2>1, <2>2 DEF LeaseAblehnen
<1>8. ASSUME vt[n].term = m.term, vt[n].abschlussGesehen PROVE FALSE
  <2>1. vt[n].term = k[n].term /\ k'[n].term = k[n].term
    BY <1>1, <1>4, <1>6, <1>8
  <2>2. ~IstLeiter(n)
    <3>1. ASSUME k[n].leiter = n PROVE FALSE
      BY <1>1, <1>2, <1>7, <1>8, <2>1, <3>1, Zahlen DEF LeaseAblehnen
    <3>2. QED BY <3>1 DEF IstLeiter
  <2>3. ~(\A p \in netz' : p.an # n)
    BY <1>2
  <2>4. vt'[n].term = vt[n].term /\ vt'[n].abschlussGesehen
    BY <1>2, <1>4, <1>8, <2>1, <2>2, <2>3 DEF EndeTreu
  <2>5. QED BY <1>1, <1>5, <1>8, <2>4
<1>9. QED BY <1>2, <1>7, <1>8 DEF Wirkt

\* What is dying out does so in every step in which no leader may accept in
\* these terms.
LEMMA SterbendBleibt ==
  ASSUME AllInv, AlleFelder', Gang, NEW t \in Nat, NEW r \in Nat, Still(t), Sterbend(t, r)
  PROVE  Sterbend(t, r)'
<1>1. AlleFelder /\ TermeOK /\ Verzug \in Nat
  BY AlleFelderOK, Zahlen DEF AllInv, EInv
<1>2. ASSUME NEW m, Brief(m), m.bestaetigt, m.term <= t, Wirkt(m)
      PROVE  LeaseFelder(m) /\ m.alter >= r
  <2>1. LeaseFelder(m) /\ (m \in netz \/ Neulich(m))
    BY <1>2, BriefArt DEF AllInv
  <2>2. CASE m \in netz
    BY <1>2, <2>1, <2>2 DEF Sterbend
  <2>3. CASE Neulich(m)
    <3>1. m.von \in Validator
      BY <2>1 DEF LeaseFelder
    <3>2. k[m.von].rolle = "leiter" /\ k[m.von].term <= t /\ DarfAnnehmen(k[m.von])
      BY <1>2, <2>3 DEF Neulich
    <3>3. QED BY <3>1, <3>2 DEF Still
  <2>4. QED BY <2>1, <2>2, <2>3
<1>3. ASSUME NEW n \in Validator, Lebendig(n)', k'[n].term <= t
      PROVE  vt'[n].letzteBestaetigt + Verzug >= r
  <2>1. LebenTreu(n)
    BY DEF Gang
  <2>2. CASE /\ Lebendig(n) /\ k'[n].term = k[n].term
             /\ vt'[n].letzteBestaetigt = vt[n].letzteBestaetigt
    BY <1>3, <2>2 DEF Sterbend
  <2>3. CASE \E m : Brief(m) /\ m.bestaetigt /\ Wirkt(m) /\ k'[n].term = m.term
    <3>1. PICK m : Brief(m) /\ m.bestaetigt /\ Wirkt(m) /\ k'[n].term = m.term
      BY <2>3
    <3>2. LeaseFelder(m) /\ m.alter >= r
      BY <1>2, <1>3, <3>1
    <3>3. m.alter \in Nat /\ m.alter <= Verzug
      BY <3>2 DEF LeaseFelder
    <3>4. Felder(n)'
      BY DEF AlleFelder
    <3>5. vt'[n].letzteBestaetigt \in Nat
      BY <3>4 DEF Felder
    <3>6. QED BY <1>1, <3>2, <3>3, <3>5
  <2>4. QED BY <1>3, <2>1, <2>2, <2>3 DEF LebenTreu
<1>4. ASSUME NEW q \in netz', q.bestaetigt, q.term <= t, Wirkt(q)'
      PROVE  q.alter >= r
  <2>1. PICK m : Brief(m) /\ Kopie(q, m)
    BY DEF Gang
  <2>2. LeaseFelder(m)
    BY <2>1, BriefArt DEF AllInv
  <2>3. m.an \in Validator
    BY <2>2 DEF LeaseFelder
  <2>4. KTreu(m.an) /\ EndeTreu(m.an)
    BY <2>3 DEF Gang
  <2>5. Wirkt(m)
    BY <1>1, <1>4, <2>1, <2>2, <2>4, WirktFolgt
  <2>6. m.bestaetigt /\ m.term <= t /\ q.alter = m.alter
    BY <1>4, <2>1 DEF Kopie
  <2>7. QED BY <1>2, <2>1, <2>5, <2>6
<1>5. QED BY <1>3, <1>4 DEF Sterbend

\* The same where no lease arrives and none is sent.
Ruht ==
  /\ \A n \in Validator :
       /\ KTreu(n) /\ EndeTreu(n)
       /\ Lebendig(n)' => /\ Lebendig(n) /\ k'[n].term = k[n].term /\ k'[n].leiter = k[n].leiter
                          /\ vt'[n].letzteBestaetigt = vt[n].letzteBestaetigt
                          /\ Ausgefallen(vt[n]) \subseteq Ausgefallen(vt'[n])
  /\ netz' = netz

\* What is dying out does so in such a step, whoever may accept.
LEMMA SterbendRuht ==
  ASSUME AllInv, AlleFelder', Ruht, NEW t \in Nat, NEW r \in Nat, Sterbend(t, r)
  PROVE  Sterbend(t, r)'
<1>1. AlleFelder /\ TermeOK
  BY AlleFelderOK DEF AllInv, EInv
<1>2. ASSUME NEW n \in Validator, Lebendig(n)', k'[n].term <= t
      PROVE  vt'[n].letzteBestaetigt + Verzug >= r
  BY <1>2 DEF Ruht, Sterbend
<1>3. ASSUME NEW q \in netz', q.bestaetigt, q.term <= t, Wirkt(q)'
      PROVE  q.alter >= r
  <2>1. q \in netz /\ LeaseFelder(q) /\ Kopie(q, q)
    BY <1>1 DEF Ruht, AlleFelder, Kopie
  <2>2. q.an \in Validator
    BY <2>1 DEF LeaseFelder
  <2>3. KTreu(q.an) /\ EndeTreu(q.an)
    BY <2>2 DEF Ruht
  <2>4. Wirkt(q)
    BY <1>1, <1>3, <2>1, <2>3, WirktFolgt
  <2>5. QED BY <1>3, <2>1, <2>4 DEF Sterbend
<1>4. QED BY <1>2, <1>3 DEF Sterbend

\* A larger age or fewer terms.
Weniger == \A t, r, s, x \in Nat : Sterbend(t, r) /\ s <= t /\ x <= r => Sterbend(s, x)

\* What holds of more terms for longer, holds of fewer for less.
LEMMA SterbendWeniger == AlleFelder => Weniger
<1> SUFFICES ASSUME AlleFelder, NEW t \in Nat, NEW r \in Nat, NEW s \in Nat, NEW x \in Nat,
                    Sterbend(t, r), s <= t, x <= r
             PROVE  Sterbend(s, x)
  BY DEF Weniger
<1>1. ASSUME NEW n \in Validator, Lebendig(n), k[n].term <= s
      PROVE  vt[n].letzteBestaetigt + Verzug >= x
  <2>1. Felder(n)
    BY DEF AlleFelder
  <2>2. k[n].term \in Nat /\ vt[n].letzteBestaetigt \in Nat
    BY <2>1 DEF Felder
  <2>3. vt[n].letzteBestaetigt + Verzug >= r
    BY <1>1, <2>2 DEF Sterbend
  <2>4. QED BY <2>2, <2>3, Zahlen
<1>2. ASSUME NEW m \in netz, m.bestaetigt, m.term <= s, Wirkt(m)
      PROVE  m.alter >= x
  <2>1. LeaseFelder(m)
    BY DEF AlleFelder
  <2>2. m.term \in Nat /\ m.alter \in Nat
    BY <2>1 DEF LeaseFelder
  <2>3. m.alter >= r
    BY <1>2, <2>2 DEF Sterbend
  <2>4. QED BY <2>2, <2>3
<1>3. QED BY <1>1, <1>2 DEF Sterbend

\* And so it does after a step.
LEMMA SterbendWenigerDann ==
  ASSUME AlleFelder', NEW t \in Nat, NEW r \in Nat, NEW s \in Nat, NEW x \in Nat,
         Sterbend(t, r)', s <= t, x <= r
  PROVE  Sterbend(s, x)'
<1>1. Weniger'
  BY SterbendWeniger, PTL
<1>2. QED BY <1>1 DEF Weniger

\* The witnesses of what lets members accept.
LEMMA ZeugenOKBleibt ==
  ASSUME AllInv, AlleFelder', Gang
  PROVE  ZeugenOK'
<1>1. AlleFelder /\ \A n \in Validator : KTreu(n)
  BY AlleFelderOK DEF AllInv, Gang
<1>2. ASSUME NEW n \in Validator, NEW t \in Nat, NEW r \in Nat, NEW l \in Validator,
             Lebendig(n)', k'[n].term = t, k'[n].leiter = l, r = vt'[n].letzteBestaetigt + Verzug
      PROVE  Zeugen(t, l, r)'
  <2>1. LebenTreu(n)
    BY DEF Gang
  <2>2. CASE /\ Lebendig(n) /\ k'[n].term = k[n].term /\ k'[n].leiter = k[n].leiter
             /\ vt'[n].letzteBestaetigt = vt[n].letzteBestaetigt
    <3>1. Zeugen(t, l, r)
      BY <1>2, <2>2 DEF AllInv, EInv, ZeugenOK
    <3>2. r <= r
      OBVIOUS
    <3>3. QED BY <1>1, <3>1, <3>2, ZeugenBleiben
  <2>3. CASE \E m : Brief(m) /\ m.bestaetigt /\ k'[n].term = m.term /\ k'[n].leiter = m.von
    <3>1. PICK m : Brief(m) /\ m.bestaetigt /\ k'[n].term = m.term /\ k'[n].leiter = m.von
      BY <2>3
    <3>2. LeaseFelder(m) /\ Zeugen(m.term, m.von, m.alter)
      BY <3>1, BriefTaugt
    <3>3. m.alter \in Nat /\ m.alter <= Verzug
      BY <3>2 DEF LeaseFelder
    <3>4. Felder(n)'
      BY DEF AlleFelder
    <3>5. vt'[n].letzteBestaetigt \in Nat
      BY <3>4 DEF Felder
    <3>6. m.alter <= r
      BY <1>2, <3>3, <3>5, Zahlen
    <3>7. Zeugen(t, l, m.alter)
      BY <1>2, <3>1, <3>2
    <3>8. QED BY <1>1, <3>3, <3>6, <3>7, ZeugenBleiben
  <2>4. QED BY <1>2, <2>1, <2>2, <2>3 DEF LebenTreu
<1>3. ASSUME NEW q \in netz', q.bestaetigt
      PROVE  ~q.abschluss /\ Zeugen(q.term, q.von, q.alter)'
  <2>1. PICK m : Brief(m) /\ Kopie(q, m)
    BY DEF Gang
  <2>2. /\ m.bestaetigt /\ q.abschluss = m.abschluss /\ q.term = m.term /\ q.von = m.von
        /\ q.alter = m.alter
    BY <1>3, <2>1 DEF Kopie
  <2>3. LeaseFelder(m) /\ ~m.abschluss /\ Zeugen(m.term, m.von, m.alter)
    BY <2>1, <2>2, BriefTaugt
  <2>4. m.term \in Nat /\ m.von \in Validator /\ m.alter \in Nat
    BY <2>3 DEF LeaseFelder
  <2>5. ASSUME NEW t \in Nat, NEW l \in Validator, NEW r \in Nat, t = q.term, l = q.von, r = q.alter
        PROVE  Zeugen(t, l, r)'
    <3>1. Zeugen(t, l, r) /\ r <= r
      BY <2>2, <2>3, <2>5
    <3>2. QED BY <1>1, <3>1, ZeugenBleiben
  <2>6. QED BY <2>2, <2>3, <2>4, <2>5
<1>4. QED BY <1>2, <1>3 DEF ZeugenOK

\* Who is counted out without knowing it.
LEMMA AusfallOKBleibt ==
  ASSUME AllInv, AlleFelder', Gang
  PROVE  AusfallOK'
<1>1. AlleFelder /\ Verzug \in Nat
  BY AlleFelderOK, Zahlen DEF AllInv
<1>2. ASSUME NEW m, Brief(m), NEW n \in Validator, m.bestaetigt, m.term = vt[n].term,
             m.an \in Ausgefallen(vt[n]), m.an \notin m.ausgefallen
      PROVE  m.alter >= vt[n].ausgefallen[m.an]
  <2>1. LeaseFelder(m) /\ (m \in netz \/ Neulich(m))
    BY <1>2, BriefArt DEF AllInv
  <2>2. CASE m \in netz
    BY <1>2, <2>2 DEF AllInv, EInv, AusfallOK
  <2>3. CASE Neulich(m)
    <3>1. SUFFICES ASSUME NEW l \in Validator, l = m.von PROVE FALSE
      BY <2>1 DEF LeaseFelder
    <3>2. k[l].rolle = "leiter" /\ m.term = k[l].term /\ m.ausgefallen = Ausgefallen(vt[l])
      BY <2>3, <3>1 DEF Neulich
    <3>3. Felder(l)
      BY <1>1 DEF AlleFelder
    <3>4. IstLeiter(l)
      BY <3>2, <3>3 DEF Felder, IstLeiter
    <3>5. AusfallLeiter(l)
      BY DEF AllInv, EInv
    <3>6. Ausgefallen(vt[n]) \subseteq Ausgefallen(vt[l])
      BY <1>2, <3>2, <3>4, <3>5 DEF AusfallLeiter
    <3>7. QED BY <1>2, <3>2, <3>6
  <2>4. QED BY <2>1, <2>2, <2>3
<1>3. ASSUME NEW n \in Validator, NEW a \in Validator,
             a \in Ausgefallen(vt'[n]), vt'[n].term = vt'[a].term,
             Lebendig(a)', a \notin Ausgefallen(vt'[a])
      PROVE  vt'[a].letzteBestaetigt + Verzug >= vt'[n].ausgefallen[a]
  <2>1. Felder(a)' /\ Felder(n)' /\ Felder(n) /\ Felder(a)
    BY <1>1 DEF AlleFelder
  <2>2. /\ vt'[a].letzteBestaetigt \in Nat /\ vt'[n].ausgefallen[a] \in Nat
        /\ vt'[a].term = k'[a].term
    BY <1>3, <2>1 DEF Felder, Lebendig
  <2>3. AusTreu(n) /\ LebenTreu(a)
    BY DEF Gang
  <2>4. CASE vt'[n].ausgefallen[a] = 0
    BY <1>1, <2>2, <2>4
  <2>5. CASE /\ vt'[n].term = vt[n].term /\ a \in Ausgefallen(vt[n])
             /\ vt'[n].ausgefallen[a] <= vt[n].ausgefallen[a]
    <3>1. vt[n].ausgefallen[a] \in Nat
      BY <2>1, <2>5 DEF Felder
    <3>2. CASE /\ Lebendig(a) /\ k'[a].term = k[a].term
               /\ vt'[a].letzteBestaetigt = vt[a].letzteBestaetigt
               /\ Ausgefallen(vt[a]) \subseteq Ausgefallen(vt'[a])
      <4>1. vt[n].term = vt[a].term
        BY <1>3, <2>2, <2>5, <3>2 DEF Lebendig
      <4>2. a \notin Ausgefallen(vt[a])
        BY <1>3, <3>2
      <4>3. vt[a].letzteBestaetigt + Verzug >= vt[n].ausgefallen[a]
        BY <2>5, <3>2, <4>1, <4>2 DEF AllInv, EInv, AusfallOK
      <4>4. QED BY <1>1, <2>2, <2>5, <3>1, <3>2, <4>3
    <3>3. CASE \E m : /\ Brief(m) /\ m.an = a /\ m.bestaetigt
                      /\ k'[a].term = m.term /\ m.ausgefallen \subseteq Ausgefallen(vt'[a])
      <4>1. PICK m : /\ Brief(m) /\ m.an = a /\ m.bestaetigt
                     /\ k'[a].term = m.term /\ m.ausgefallen \subseteq Ausgefallen(vt'[a])
        BY <3>3
      <4>2. m.term = vt[n].term /\ m.an \in Ausgefallen(vt[n]) /\ m.an \notin m.ausgefallen
        BY <1>3, <2>2, <2>5, <4>1
      <4>3. m.alter >= vt[n].ausgefallen[a]
        BY <1>2, <4>1, <4>2
      <4>4. LeaseFelder(m)
        BY <4>1, BriefArt DEF AllInv
      <4>5. m.alter \in Nat /\ m.alter <= Verzug
        BY <4>4 DEF LeaseFelder
      <4>6. QED BY <1>1, <2>2, <2>5, <3>1, <4>3, <4>5
    <3>4. QED BY <1>3, <2>3, <3>2, <3>3 DEF LebenTreu
  <2>6. QED BY <1>3, <2>3, <2>4, <2>5 DEF AusTreu
<1>4. ASSUME NEW n \in Validator, NEW q \in netz', q.bestaetigt, q.term = vt'[n].term,
             q.an \in Ausgefallen(vt'[n]), q.an \notin q.ausgefallen
      PROVE  q.alter >= vt'[n].ausgefallen[q.an]
  <2>1. PICK m : Brief(m) /\ Kopie(q, m)
    BY DEF Gang
  <2>2. LeaseFelder(m)
    BY <2>1, BriefArt DEF AllInv
  <2>3. /\ q.an = m.an /\ q.term = m.term /\ q.alter = m.alter /\ m.alter \in Nat
        /\ m.bestaetigt /\ m.an \notin m.ausgefallen
    BY <1>4, <2>1, <2>2 DEF Kopie, LeaseFelder
  <2>4. SUFFICES ASSUME NEW a, a = q.an, a \in Ausgefallen(vt'[n]) PROVE m.alter >= vt'[n].ausgefallen[a]
    BY <1>4, <2>3
  <2>5. Felder(n)' /\ Felder(n)
    BY <1>1 DEF AlleFelder
  <2>6. vt'[n].ausgefallen[a] \in Nat
    BY <2>4, <2>5 DEF Felder
  <2>7. AusTreu(n)
    BY DEF Gang
  <2>8. CASE vt'[n].ausgefallen[a] = 0
    BY <2>3, <2>8
  <2>9. CASE /\ vt'[n].term = vt[n].term /\ a \in Ausgefallen(vt[n])
             /\ vt'[n].ausgefallen[a] <= vt[n].ausgefallen[a]
    <3>1. m.alter >= vt[n].ausgefallen[a]
      BY <1>2, <1>4, <2>1, <2>3, <2>4, <2>9
    <3>2. vt[n].ausgefallen[a] \in Nat
      BY <2>5, <2>9 DEF Felder
    <3>3. QED BY <2>3, <2>6, <2>9, <3>1, <3>2
  <2>10. QED BY <2>4, <2>7, <2>8, <2>9 DEF AusTreu
<1>5. QED BY <1>3, <1>4 DEF AusfallOK

\* Nobody has been in the term of a new leader, and no lease is of it.
NeuFrei(l) ==
  Neu(l) => /\ \A x \in Validator \ {l} : vt'[x].term # k'[l].term
            /\ \A q \in netz' : q.term # k'[l].term

\* Who is counted out in a term, its leader has counted out.
LEMMA AusfallLeiterBleibt ==
  ASSUME AllInv, AlleFelder', TermeOK', Gang, NEW l \in Validator, NeuFrei(l)
  PROVE  AusfallLeiter(l)'
<1> SUFFICES ASSUME IstLeiter(l)'
             PROVE  /\ l \notin Ausgefallen(vt'[l])
                    /\ \A n \in Validator : vt'[n].term = k'[l].term =>
                         Ausgefallen(vt'[n]) \subseteq Ausgefallen(vt'[l])
                    /\ \A m \in netz' : m.term = k'[l].term =>
                         m.ausgefallen \subseteq Ausgefallen(vt'[l])
  BY DEF AusfallLeiter
<1>1. AlleFelder /\ TermeOK
  BY AlleFelderOK DEF AllInv, EInv
<1>2. CASE Neu(l)
  <2>1. Ausgefallen(vt'[l]) = {}
    BY <1>2 DEF Neu
  <2>2. ASSUME NEW n \in Validator, vt'[n].term = k'[l].term
        PROVE  Ausgefallen(vt'[n]) \subseteq Ausgefallen(vt'[l])
    BY <1>2, <2>2 DEF NeuFrei
  <2>3. \A q \in netz' : q.term # k'[l].term
    BY <1>2 DEF NeuFrei
  <2>4. QED BY <2>1, <2>2, <2>3
<1>3. CASE ~Neu(l)
  <2>1. /\ IstLeiter(l) /\ k'[l].term = k[l].term
        /\ Ausgefallen(vt[l]) \subseteq Ausgefallen(vt'[l]) /\ l \notin Ausgefallen(vt'[l])
    BY <1>3 DEF Gang, AmtTreu
  <2>2. /\ \A n \in Validator : vt[n].term = k[l].term => Ausgefallen(vt[n]) \subseteq Ausgefallen(vt[l])
        /\ \A m \in netz : m.term = k[l].term => m.ausgefallen \subseteq Ausgefallen(vt[l])
    BY <2>1 DEF AllInv, EInv, AusfallLeiter
  <2>3. ASSUME NEW m, Brief(m), m.term = k[l].term PROVE m.ausgefallen \subseteq Ausgefallen(vt[l])
    <3>1. LeaseFelder(m) /\ (m \in netz \/ Neulich(m))
      BY <2>3, BriefArt DEF AllInv
    <3>2. CASE m \in netz
      BY <2>2, <2>3, <3>2
    <3>3. CASE Neulich(m)
      <4>1. SUFFICES ASSUME NEW x \in Validator, x = m.von PROVE m.ausgefallen = Ausgefallen(vt[l])
        BY <3>1 DEF LeaseFelder
      <4>2. k[x].rolle = "leiter" /\ m.term = k[x].term /\ m.ausgefallen = Ausgefallen(vt[x])
        BY <3>3, <4>1 DEF Neulich
      <4>3. Felder(x)
        BY <1>1 DEF AlleFelder
      <4>4. IstLeiter(x)
        BY <4>2, <4>3 DEF Felder, IstLeiter
      <4>5. x = l
        BY <1>1, <2>1, <2>3, <4>2, <4>4 DEF TermeOK
      <4>6. QED BY <4>2, <4>5
    <3>4. QED BY <3>1, <3>2, <3>3
  <2>4. ASSUME NEW n \in Validator, vt'[n].term = k'[l].term, NEW a \in Ausgefallen(vt'[n])
        PROVE  a \in Ausgefallen(vt'[l])
    <3>1. AusTreu(n)
      BY DEF Gang
    <3>2. CASE vt'[n].term = vt[n].term /\ a \in Ausgefallen(vt[n])
      BY <2>1, <2>2, <2>4, <3>2
    <3>3. CASE IstLeiter(n)'
      <4>1. k'[n].leiter = n
        BY <3>3 DEF IstLeiter
      <4>2. Felder(n)'
        BY DEF AlleFelder
      <4>3. k'[n].term = k'[l].term
        BY <2>4, <4>1, <4>2 DEF Felder
      <4>4. n = l
        BY <3>3, <4>3 DEF TermeOK
      <4>5. QED BY <2>4, <4>4
    <3>4. CASE \E m : Brief(m) /\ vt'[n].term = m.term /\ a \in m.ausgefallen
      BY <2>1, <2>3, <2>4, <3>4
    <3>5. QED BY <2>4, <3>1, <3>2, <3>3, <3>4 DEF AusTreu
  <2>5. ASSUME NEW q \in netz', q.term = k'[l].term PROVE q.ausgefallen \subseteq Ausgefallen(vt'[l])
    <3>1. PICK m : Brief(m) /\ Kopie(q, m)
      BY DEF Gang
    <3>2. m.term = k[l].term /\ q.ausgefallen = m.ausgefallen
      BY <2>1, <2>5, <3>1 DEF Kopie
    <3>3. QED BY <2>1, <2>3, <3>1, <3>2
  <2>6. QED BY <2>1, <2>4, <2>5
<1>4. QED BY <1>2, <1>3

\* A new leader is not behind, and nobody gets ahead of an old one but with a
\* majority that does not answer it.
NichtVoraus(l) ==
  IstLeiter(l)' /\ Ueber(k[l].term)' =>
    \/ IstLeiter(l) /\ k'[l].term = k[l].term /\ Ueber(k[l].term)
    \/ Abgehaengt(l)'

\* A leader that somebody has passed stays without a majority.
LEMMA LeiterFestBleibt ==
  ASSUME AllInv, AlleFelder', Gang, NEW l \in Validator, NichtVoraus(l)
  PROVE  LeiterFest(l)'
<1> SUFFICES ASSUME IstLeiter(l)'
             PROVE  /\ Ueber(k[l].term)' => Abgehaengt(l)'
                    /\ k'[l].acks[l] >= LeaseDauer
                    /\ \A v \in Validator : k'[l].acks[v] < LeaseDauer =>
                         \/ k'[v].term > k'[l].term
                         \/ /\ k'[v].term = k'[l].term /\ k'[v].leiter = l
                            /\ k'[v].letzteLease <= k'[l].acks[v]
  BY DEF LeiterFest
<1>1. AlleFelder /\ TermeOK /\ LeaseDauer \in Nat
  BY AlleFelderOK, Zahlen DEF AllInv, EInv
<1>2. \A v \in Validator : /\ k[v].term \in Nat /\ k'[v].term \in Nat /\ k'[v].term >= k[v].term
                           /\ k[l].acks[v] \in Nat /\ k'[l].acks[v] \in Nat
                           /\ k[v].letzteLease \in Nat /\ k'[v].letzteLease \in Nat
  <2>1. ASSUME NEW v \in Validator
        PROVE  /\ k[v].term \in Nat /\ k'[v].term \in Nat /\ k'[v].term >= k[v].term
               /\ k[l].acks[v] \in Nat /\ k'[l].acks[v] \in Nat
               /\ k[v].letzteLease \in Nat /\ k'[v].letzteLease \in Nat
    <3>1. Felder(v) /\ Felder(v)' /\ Felder(l) /\ Felder(l)' /\ KTreu(v)
      BY <1>1 DEF AlleFelder, Gang
    <3>2. QED BY <1>1, <3>1, TermSteigt DEF Felder
  <2>2. QED BY <2>1
<1>3. CASE Neu(l)
  <2>1. \A v \in Validator : k'[l].acks[v] >= LeaseDauer
    BY <1>3 DEF Neu
  <2>2. k'[l].term > k[l].term /\ k[l].term \in Nat
    BY <1>2, <1>3 DEF Neu
  <2>3. Ueber(k[l].term)' => Abgehaengt(l)'
    BY <1>2, <2>2 DEF NichtVoraus
  <2>4. \A v \in Validator : ~(k'[l].acks[v] < LeaseDauer)
    BY <1>1, <1>2, <2>1
  <2>5. QED BY <2>1, <2>3, <2>4
<1>4. CASE ~Neu(l)
  <2>1. /\ IstLeiter(l) /\ k'[l].term = k[l].term
        /\ \A v \in Validator :
             \/ k'[l].acks[v] >= LeaseDauer \/ k'[l].acks[v] = k[l].acks[v]
             \/ /\ v # l /\ k'[v].term = k[l].term /\ k'[v].leiter = l
                /\ k'[v].letzteLease = 0
    BY <1>4 DEF Gang, AmtTreu
  <2>2. LeiterFest(l)
    BY DEF AllInv, EInv
  <2>3. ASSUME Ueber(k[l].term)' PROVE Abgehaengt(l)'
    <3>1. CASE Abgehaengt(l)'
      BY <3>1
    <3>2. CASE Ueber(k[l].term)
      <4>1. Abgehaengt(l)
        BY <2>1, <2>2, <3>2 DEF LeiterFest
      <4>2. PICK w \in Grosse : l \notin w /\ \A v \in w : k[v].term > k[l].term /\ k[l].acks[v] >= LeaseDauer
        BY <4>1 DEF Abgehaengt
      <4>3. ASSUME NEW v \in w PROVE k'[v].term > k'[l].term /\ k'[l].acks[v] >= LeaseDauer
        <5>1. v \in Validator /\ k[v].term > k[l].term /\ k[l].acks[v] >= LeaseDauer
          BY <4>2 DEF Grosse
        <5>2. k'[v].term > k'[l].term
          BY <1>2, <2>1, <5>1
        <5>3. k'[v].term # k[l].term
          BY <1>2, <2>1, <5>1, <5>2
        <5>4. k'[l].acks[v] >= LeaseDauer
          BY <2>1, <5>1, <5>3
        <5>5. QED BY <5>2, <5>4
      <4>4. QED BY <4>2, <4>3 DEF Abgehaengt
    <3>3. QED BY <2>3, <3>1, <3>2 DEF NichtVoraus
  <2>4. k'[l].acks[l] >= LeaseDauer
    BY <2>1, <2>2 DEF LeiterFest
  <2>5. ASSUME NEW v \in Validator, k'[l].acks[v] < LeaseDauer
        PROVE  \/ k'[v].term > k'[l].term
               \/ /\ k'[v].term = k'[l].term /\ k'[v].leiter = l
                  /\ k'[v].letzteLease <= k'[l].acks[v]
    <3>1. CASE k'[l].acks[v] >= LeaseDauer
      BY <1>1, <1>2, <2>5, <3>1
    <3>2. CASE k'[v].term = k[l].term /\ k'[v].leiter = l /\ k'[v].letzteLease = 0
      BY <1>2, <2>1, <3>2
    <3>3. CASE k'[l].acks[v] = k[l].acks[v]
      <4>1. \/ k[v].term > k[l].term
            \/ /\ k[v].term = k[l].term /\ k[v].leiter = l
               /\ k[v].letzteLease <= k[l].acks[v]
        BY <2>1, <2>2, <2>5, <3>3 DEF LeiterFest
      <4>2. CASE k[v].term > k[l].term \/ k'[v].term > k[v].term
        BY <1>2, <2>1, <4>1, <4>2
      <4>3. CASE ~(k[v].term > k[l].term) /\ ~(k'[v].term > k[v].term)
        <5>1. KTreu(v) /\ l # Niemand
          BY Zahlen DEF Gang
        <5>2. /\ k'[v].term = k[v].term /\ k'[v].letzteLease <= k[v].letzteLease
              /\ k'[v].leiter = l
          BY <4>1, <4>3, <5>1 DEF KTreu
        <5>3. k'[v].letzteLease <= k'[l].acks[v]
          BY <1>2, <3>3, <4>1, <4>3, <5>2
        <5>4. QED BY <2>1, <4>1, <4>3, <5>2, <5>3
      <4>4. QED BY <4>2, <4>3
    <3>4. QED BY <2>1, <3>1, <3>2, <3>3
  <2>6. QED BY <2>3, <2>4, <2>5
<1>5. QED BY <1>3, <1>4

\* A term that somebody is past has long been dying out.
LEMMA SterbenOKBleibt ==
  ASSUME AllInv, Fristen, IInv', AlleFelder', Gang,
         \A t \in Nat : Ueber(t)' => Ueber(t) \/ Sterbend(t, Abstand)',
         \A u \in uebergaben' \ uebergaben : Sterbend(u.term, Abstand + Ruhezeit)'
  PROVE  SterbenOK'
<1>1. AlleFelder /\ TermeOK /\ UebergabenOK /\ SterbenOK
  BY AlleFelderOK DEF AllInv, EInv
<1>2. Abstand \in Nat /\ Ruhezeit \in Nat /\ Abstand + Ruhezeit \in Nat
  BY Zahlen DEF Abstand, Fristen
<1>3. ASSUME NEW t \in Nat, Ueber(t)' PROVE Sterbend(t, Abstand)'
  <2>1. CASE Ueber(t)
    <3>1. Sterbend(t, Abstand) /\ Still(t)
      BY <1>1, <2>1, UeberStill DEF SterbenOK
    <3>2. QED BY <1>2, <3>1, SterbendBleibt
  <2>2. QED BY <1>3, <2>1
<1>4. ASSUME NEW u \in uebergaben' PROVE Sterbend(u.term, Abstand + Ruhezeit)'
  <2>1. CASE u \in uebergaben
    <3>1. /\ u.von \in Validator /\ u.term \in Nat /\ k[u.von].term > u.term
      BY <1>1, <2>1 DEF AlleFelder
    <3>2. Ueber(u.term)
      BY <3>1 DEF Ueber
    <3>3. Sterbend(u.term, Abstand + Ruhezeit)
      BY <1>1, <2>1 DEF SterbenOK
    <3>4. SUFFICES ASSUME NEW t \in Nat, t = u.term PROVE Sterbend(t, Abstand + Ruhezeit)'
      BY <3>1
    <3>5. Still(t) /\ Sterbend(t, Abstand + Ruhezeit)
      BY <3>2, <3>3, <3>4, UeberStill
    <3>6. ASSUME NEW r \in Nat, r = Abstand + Ruhezeit PROVE Sterbend(t, r)'
      BY <3>5, <3>6, SterbendBleibt
    <3>7. QED BY <1>2, <3>6
  <2>2. QED BY <1>4, <2>1
<1>5. ASSUME NEW n \in Validator, NEW t \in Nat, NEW r \in Nat,
             vt'[n].term = t + 1, r <= Abstand + vt'[n].termSeit
      PROVE  Sterbend(t, r)'
  <2>1. Felder(n) /\ Felder(n)' /\ TermTreu(n)
    BY <1>1 DEF AlleFelder, Gang
  <2>2. /\ vt[n].termSeit \in Nat /\ vt'[n].termSeit \in Nat /\ k[n].term \in Nat
        /\ vt[n].term <= k[n].term /\ vt'[n].term <= k'[n].term /\ k'[n].term \in Nat
    BY <2>1 DEF Felder
  <2>3. CASE vt'[n].term = vt[n].term /\ vt'[n].termSeit <= vt[n].termSeit
    <3>1. r <= Abstand + vt[n].termSeit /\ vt[n].term = t + 1
      BY <1>2, <1>5, <2>2, <2>3
    <3>2. Sterbend(t, r)
      BY <1>1, <3>1 DEF SterbenOK
    <3>3. Ueber(t)
      BY <2>2, <3>1 DEF Ueber
    <3>4. QED BY <3>2, <3>3, UeberStill, SterbendBleibt
  <2>4. ASSUME vt'[n].termSeit = 0 \/ \E u \in uebergaben' : u.term + 1 = vt'[n].term
        PROVE  Sterbend(t, r)'
    <3>1. CASE vt'[n].termSeit = 0
      <4>1. r <= Abstand
        BY <1>2, <1>5, <3>1
      <4>2. Ueber(t)'
        BY <1>5, <2>2 DEF Ueber
      <4>3. Sterbend(t, Abstand)'
        BY <1>3, <4>2
      <4>4. QED BY <1>2, <4>1, <4>3, SterbendWenigerDann
    <3>2. CASE vt'[n].termSeit # 0
      <4>1. PICK u \in uebergaben' : u.term + 1 = vt'[n].term
        BY <2>4, <3>2
      <4>2. u.term = t
        <5>1. u.term \in Nat
          BY DEF AlleFelder
        <5>2. QED BY <1>5, <4>1, <5>1
      <4>3. Sterbend(u.term, Abstand + Ruhezeit)'
        BY <1>4
      <4>4. r <= Abstand + Ruhezeit
        <5>1. vt'[n].termSeit <= Ruhezeit
          BY <2>1 DEF Felder
        <5>2. QED BY <1>2, <1>5, <2>2, <5>1
      <4>5. ASSUME NEW s \in Nat, s = Abstand + Ruhezeit PROVE Sterbend(t, s)'
        BY <4>2, <4>3, <4>5
      <4>6. QED BY <1>2, <4>4, <4>5, SterbendWenigerDann
    <3>3. QED BY <3>1, <3>2
  <2>5. CASE vt'[n].term = 0
    BY <1>5, <2>5
  <2>6. CASE Neu(n)
    <3>1. k'[n].rolle = "leiter" /\ k'[n].leiter = n /\ (vt'[n].termSeit = 0 \/ k'[n].beleg # {})
      BY <2>6 DEF Neu
    <3>2. vt'[n].term = k'[n].term
      BY <2>1, <3>1 DEF Felder
    <3>3. Belegt(k[n].beleg, k[n].term)'
      BY <3>1 DEF IInv, LeiterOK
    <3>4. k'[n].beleg # {} => \E u \in uebergaben' : u.term + 1 = k'[n].term
      BY <3>3 DEF Belegt
    <3>5. QED BY <2>4, <3>1, <3>2, <3>4
  <2>7. CASE \E m : /\ Brief(m) /\ vt'[n].term = m.term
                    /\ vt'[n].termSeit = 0 \/ m.uebergabe # {}
    <3>1. PICK m : /\ Brief(m) /\ vt'[n].term = m.term
                   /\ vt'[n].termSeit = 0 \/ m.uebergabe # {}
      BY <2>7
    <3>2. Belegt(m.uebergabe, m.term)
      BY <3>1, BriefOK DEF AllInv
    <3>3. m.uebergabe # {} => \E u \in uebergaben' : u.term + 1 = vt'[n].term
      BY <3>1, <3>2 DEF Belegt, Gang
    <3>4. QED BY <2>4, <3>1, <3>3
  <2>8. QED BY <2>1, <2>3, <2>5, <2>6, <2>7 DEF TermTreu
<1>6. ASSUME NEW l \in Validator, NEW t \in Nat, NEW r \in Nat,
             k'[l].rolle = "leiter", k'[l].uebergabeAn # Niemand,
             k'[l].term = t, r <= vt'[l].abschliessenSeit
      PROVE  Sterbend(t, r)'
  <2>1. Felder(l) /\ Felder(l)' /\ AmtTreu(l) /\ l # Niemand
    BY <1>1, Zahlen DEF AlleFelder, Gang
  <2>2. k'[l].leiter = l
    BY <1>6, <2>1 DEF Felder
  <2>3. ~Neu(l)
    BY <1>6 DEF Neu
  <2>4. /\ IstLeiter(l) /\ k'[l].term = k[l].term /\ k[l].rolle = "leiter"
        /\ \/ /\ k'[l].uebergabeAn = k[l].uebergabeAn
              /\ vt'[l].abschliessenSeit = vt[l].abschliessenSeit
           \/ vt'[l].abschliessenSeit = 0
    BY <1>6, <2>1, <2>2, <2>3 DEF AmtTreu, IstLeiter
  <2>5. CASE /\ k'[l].uebergabeAn = k[l].uebergabeAn
             /\ vt'[l].abschliessenSeit = vt[l].abschliessenSeit
    <3>1. Sterbend(t, r)
      BY <1>1, <1>6, <2>4, <2>5 DEF SterbenOK
    <3>2. Still(t)
      <4>1. SUFFICES ASSUME NEW x \in Validator, k[x].rolle = "leiter", k[x].term <= t
                     PROVE  ~DarfAnnehmen(k[x])
        BY DEF Still
      <4>2. Felder(x)
        BY <1>1 DEF AlleFelder
      <4>3. IstLeiter(x) /\ k[x].term \in Nat
        BY <4>1, <4>2 DEF Felder, IstLeiter
      <4>4. CASE x = l
        BY <1>6, <2>5, <4>4 DEF DarfAnnehmen
      <4>5. CASE x # l
        <5>1. k[l].term > k[x].term
          BY <1>1, <1>6, <2>4, <4>1, <4>3, <4>5 DEF TermeOK
        <5>2. Ueber(k[x].term)
          BY <5>1 DEF Ueber
        <5>3. QED BY <4>3, <5>2, AbgehaengtStill
      <4>6. QED BY <4>4, <4>5
    <3>3. QED BY <3>1, <3>2, SterbendBleibt
  <2>6. CASE vt'[l].abschliessenSeit = 0
    <3>1. r = 0
      BY <1>6, <2>6
    <3>2. ASSUME NEW n \in Validator PROVE vt'[n].letzteBestaetigt + Verzug >= r
      <4>1. Felder(n)'
        BY DEF AlleFelder
      <4>2. vt'[n].letzteBestaetigt \in Nat
        BY <4>1 DEF Felder
      <4>3. QED BY <3>1, <4>2, Zahlen
    <3>3. ASSUME NEW m \in netz' PROVE m.alter >= r
      <4>1. LeaseFelder(m)'
        BY DEF AlleFelder
      <4>2. QED BY <3>1, <4>1 DEF LeaseFelder
    <3>4. QED BY <3>2, <3>3 DEF Sterbend
  <2>7. QED BY <2>4, <2>5, <2>6
<1>7. QED BY <1>3, <1>4, <1>5, <1>6 DEF SterbenOK

\* What a unit of time makes of a node.
Gealtert(n) ==
  /\ k'[n].rolle = k[n].rolle /\ k'[n].term = k[n].term /\ k'[n].leiter = k[n].leiter
  /\ k'[n].uebergabeAn = k[n].uebergabeAn /\ k'[n].letzteLease <= k[n].letzteLease + 1
  /\ \A v \in Validator :
       /\ k[n].acks[v] >= LeaseDauer => k'[n].acks[v] >= LeaseDauer
       /\ k'[n].acks[v] < LeaseDauer => k'[n].acks[v] = k[n].acks[v] + 1
  /\ vt'[n].term = vt[n].term /\ vt'[n].abschlussGesehen = vt[n].abschlussGesehen
  /\ vt'[n].termSeit <= vt[n].termSeit + 1
  /\ vt'[n].abschliessenSeit <= vt[n].abschliessenSeit + 1
  /\ vt'[n].letzteBestaetigt < Halbe => vt'[n].letzteBestaetigt = vt[n].letzteBestaetigt + 1
  /\ Ausgefallen(vt'[n]) = Ausgefallen(vt[n])
  /\ \A a \in Ausgefallen(vt[n]) : vt'[n].ausgefallen[a] <= vt[n].ausgefallen[a] + 1

\* And of a lease.
KopieAlt(q, m) ==
  /\ q.von = m.von /\ q.an = m.an /\ q.term = m.term /\ q.alter = m.alter + 1
  /\ q.bestaetigt = m.bestaetigt /\ q.abschluss = m.abschluss /\ q.ausgefallen = m.ausgefallen

\* An age grows by one, up to its bound.
LEMMA AelterTut ==
  ASSUME NEW g \in Nat, NEW t \in Nat, t <= g
  PROVE  /\ Aelter(t, g) \in Nat /\ Aelter(t, g) <= t + 1
         /\ t >= g => Aelter(t, g) >= g
         /\ Aelter(t, g) < g => Aelter(t, g) = t + 1
BY DEF Aelter

\* A unit of time ages every node and every lease.
LEMMA TickTut ==
  ASSUME IInv, Tick
  PROVE  /\ \A n \in Validator : Gealtert(n)
         /\ \A q \in netz' : \E m \in netz : KopieAlt(q, m)
         /\ uebergaben' = uebergaben
<1>1. TypeOK /\ AlleFelder
  BY AlleFelderOK DEF IInv
<1>2. ASSUME NEW n \in Validator PROVE Gealtert(n)
  <2> DEFINE z == k[n]
             v == vt[n]
             a == IF z.rolle = "folger" THEN Aelter(z.letzteLease, FolgerFrist) ELSE 0
             b == IF z.rolle = "leiter" THEN Aelter(z.leiterSeit, LeaseDauer) ELSE 0
             c == [x \in Validator |-> Aelter(z.acks[x], LeaseDauer)]
             e == [x \in DOMAIN v.ausgefallen |-> Aelter(v.ausgefallen[x], LeaseDauer + Ruhezeit)]
  <2>1. z \in Knoten /\ v \in Stand /\ Felder(n)
    BY <1>1, Typen DEF AlleFelder
  <2>2. /\ k'[n] = [z EXCEPT !.letzteLease = a, !.leiterSeit = b, !.acks = c]
        /\ vt'[n] = [v EXCEPT !.ausgefallen = e, !.termSeit = Aelter(v.termSeit, Ruhezeit),
                              !.letzteBestaetigt = Aelter(v.letzteBestaetigt, Halbe),
                              !.abschliessenSeit = Aelter(v.abschliessenSeit, LeaseDauer)]
    <3>1. /\ k'[n] = [k[n] EXCEPT !.letzteLease = IF k[n].rolle = "folger" THEN Aelter(@, FolgerFrist) ELSE 0,
                         !.leiterSeit = IF k[n].rolle = "leiter" THEN Aelter(@, LeaseDauer) ELSE 0,
                         !.acks = [x \in Validator |-> Aelter(@[x], LeaseDauer)]]
          /\ vt'[n] = [vt[n] EXCEPT !.ausgefallen = [x \in DOMAIN @ |-> Aelter(@[x], LeaseDauer + Ruhezeit)],
                           !.termSeit = Aelter(@, Ruhezeit),
                           !.letzteBestaetigt = Aelter(@, Halbe),
                           !.abschliessenSeit = Aelter(@, LeaseDauer)]
      BY DEF Tick
    <3>2. QED BY <2>1, <3>1 DEF Knoten, Stand
  <2>3. a <= z.letzteLease + 1
    <3>1. z.letzteLease \in Nat /\ z.letzteLease <= FolgerFrist
      BY <2>1 DEF Felder
    <3>2. CASE z.rolle = "folger"
      <4>1. a = Aelter(z.letzteLease, FolgerFrist)
        BY <3>2
      <4>2. QED BY <3>1, <4>1, AelterTut, Zahlen
    <3>3. CASE z.rolle # "folger"
      <4>1. a = 0
        BY <3>3
      <4>2. QED BY <3>1, <4>1
    <3>4. QED BY <3>2, <3>3
  <2>4. \A x \in Validator :
          /\ z.acks[x] >= LeaseDauer => c[x] >= LeaseDauer
          /\ c[x] < LeaseDauer => c[x] = z.acks[x] + 1
    <3>1. \A x \in Validator : z.acks[x] \in Nat /\ z.acks[x] <= LeaseDauer
      BY <2>1 DEF Felder
    <3>2. QED BY <3>1, AelterTut, Zahlen
  <2>5. DOMAIN e = DOMAIN v.ausgefallen /\ \A x \in DOMAIN v.ausgefallen : e[x] <= v.ausgefallen[x] + 1
    <3>1. v.ausgefallen \in Ausfaelle
      BY <2>1 DEF Stand, Ausfaelle
    <3>2. \A x \in DOMAIN v.ausgefallen : v.ausgefallen[x] \in 0 .. LeaseDauer + Ruhezeit
      BY <3>1, AusfaelleFunktion
    <3>3. DOMAIN e = DOMAIN v.ausgefallen
      OBVIOUS
    <3>4. ASSUME NEW x \in DOMAIN v.ausgefallen PROVE e[x] <= v.ausgefallen[x] + 1
      <4>1. e[x] = Aelter(v.ausgefallen[x], LeaseDauer + Ruhezeit)
        OBVIOUS
      <4>2. ASSUME NEW t \in 0 .. LeaseDauer + Ruhezeit PROVE Aelter(t, LeaseDauer + Ruhezeit) <= t + 1
        <5>1. t \in Nat /\ t <= LeaseDauer + Ruhezeit
          BY Zahlen
        <5>2. QED BY <5>1, AelterTut, Zahlen
      <4>3. QED BY <3>2, <4>1, <4>2
    <3>5. QED BY <3>3, <3>4
  <2>6. /\ Aelter(v.termSeit, Ruhezeit) <= v.termSeit + 1
        /\ Aelter(v.letzteBestaetigt, Halbe) < Halbe =>
             Aelter(v.letzteBestaetigt, Halbe) = v.letzteBestaetigt + 1
        /\ Aelter(v.abschliessenSeit, LeaseDauer) <= v.abschliessenSeit + 1
    <3>1. /\ v.termSeit \in 0 .. Ruhezeit /\ v.letzteBestaetigt \in 0 .. Halbe
          /\ v.abschliessenSeit \in 0 .. LeaseDauer
      BY <2>1 DEF Stand
    <3>2. /\ v.termSeit \in Nat /\ v.termSeit <= Ruhezeit
          /\ v.letzteBestaetigt \in Nat /\ v.letzteBestaetigt <= Halbe
          /\ v.abschliessenSeit \in Nat /\ v.abschliessenSeit <= LeaseDauer
      BY <3>1, Zahlen
    <3>3. Aelter(v.termSeit, Ruhezeit) <= v.termSeit + 1
      BY <3>2, AelterTut, Zahlen
    <3>4. Aelter(v.letzteBestaetigt, Halbe) < Halbe =>
             Aelter(v.letzteBestaetigt, Halbe) = v.letzteBestaetigt + 1
      BY <3>2, AelterTut, Zahlen
    <3>5. Aelter(v.abschliessenSeit, LeaseDauer) <= v.abschliessenSeit + 1
      BY <3>2, AelterTut, Zahlen
    <3>6. QED BY <3>3, <3>4, <3>5
  <2> HIDE DEF a, b, c, e
  <2>7. /\ k'[n].rolle = z.rolle /\ k'[n].term = z.term /\ k'[n].leiter = z.leiter
        /\ k'[n].uebergabeAn = z.uebergabeAn /\ k'[n].letzteLease = a /\ k'[n].acks = c
    BY <2>1, <2>2 DEF Knoten
  <2>8. /\ vt'[n].term = v.term /\ vt'[n].abschlussGesehen = v.abschlussGesehen
        /\ vt'[n].ausgefallen = e /\ vt'[n].termSeit = Aelter(v.termSeit, Ruhezeit)
        /\ vt'[n].letzteBestaetigt = Aelter(v.letzteBestaetigt, Halbe)
        /\ vt'[n].abschliessenSeit = Aelter(v.abschliessenSeit, LeaseDauer)
    BY <2>1, <2>2 DEF Stand
  <2> HIDE DEF z, v
  <2>9. QED BY <2>3, <2>4, <2>5, <2>6, <2>7, <2>8 DEF Gealtert, Ausgefallen, z, v
<1>3. ASSUME NEW q \in netz' PROVE \E m \in netz : KopieAlt(q, m)
  <2>1. PICK m \in netz : m.alter < Verzug /\ q = [m EXCEPT !.alter = m.alter + 1]
    BY DEF Tick
  <2>2. m \in Lease
    BY <1>1, Typen
  <2>3. QED BY <2>1, <2>2 DEF Lease, KopieAlt
<1>4. uebergaben' = uebergaben
  BY DEF Tick
<1>5. QED BY <1>2, <1>3, <1>4

\* What is dying out gets older.
LEMMA SterbendAltert ==
  ASSUME AlleFelder, AlleFelder', NEW t \in Nat, NEW r \in Nat, Sterbend(t, r),
         \A n \in Validator : Gealtert(n), \A q \in netz' : \E m \in netz : KopieAlt(q, m)
  PROVE  Sterbend(t, r + 1)'
<1>1. ASSUME NEW n \in Validator, Lebendig(n)', k'[n].term <= t
      PROVE  vt'[n].letzteBestaetigt + Verzug >= r + 1
  <2>1. Felder(n) /\ Gealtert(n)
    BY DEF AlleFelder
  <2>2. vt[n].letzteBestaetigt \in Nat /\ vt'[n].letzteBestaetigt = vt[n].letzteBestaetigt + 1
    BY <1>1, <2>1 DEF Felder, Gealtert, Lebendig
  <2>3. Lebendig(n) /\ k[n].term <= t
    BY <1>1, <2>1, <2>2, Zahlen DEF Gealtert, Lebendig
  <2>4. vt[n].letzteBestaetigt + Verzug >= r
    BY <2>3 DEF Sterbend
  <2>5. QED BY <2>2, <2>4, Zahlen
<1>2. ASSUME NEW q \in netz', q.bestaetigt, q.term <= t, Wirkt(q)'
      PROVE  q.alter >= r + 1
  <2>1. PICK m \in netz : KopieAlt(q, m)
    OBVIOUS
  <2>2. LeaseFelder(m)
    BY DEF AlleFelder
  <2>3. m.an \in Validator /\ m.alter \in Nat /\ q.an = m.an /\ q.term = m.term /\ q.von = m.von
    BY <2>1, <2>2 DEF LeaseFelder, KopieAlt
  <2>4. Gealtert(m.an)
    BY <2>3
  <2>5. Wirkt(m)
    BY <1>2, <2>3, <2>4 DEF Wirkt, LeaseAblehnen, Gealtert
  <2>6. m.alter >= r
    BY <1>2, <2>1, <2>5 DEF Sterbend, KopieAlt
  <2>7. QED BY <2>1, <2>3, <2>6 DEF KopieAlt
<1>3. QED BY <1>1, <1>2 DEF Sterbend

\* For any age up to that.
LEMMA SterbendAltertBis ==
  ASSUME AlleFelder, AlleFelder', NEW t \in Nat, NEW r \in Nat, Sterbend(t, r), NEW s \in Nat, s <= r + 1,
         \A n \in Validator : Gealtert(n), \A q \in netz' : \E m \in netz : KopieAlt(q, m)
  PROVE  Sterbend(t, s)'
<1>1. Sterbend(t, r + 1)'
  BY SterbendAltert
<1>2. ASSUME NEW x \in Nat, x = r + 1 PROVE Sterbend(t, s)'
  <2>1. Sterbend(t, x)' /\ t <= t /\ s <= x
    BY <1>1, <1>2
  <2>2. QED BY <2>1, SterbendWenigerDann
<1>3. QED BY <1>2

\* Where no term changes, the same terms are begun, left and passed.
LEMMA TermeGleich ==
  ASSUME \A v \in Validator : k'[v].term = k[v].term
  PROVE  \A t \in Nat : /\ Begonnen(t)' <=> Begonnen(t)
                        /\ Verlassen(t)' <=> Verlassen(t)
                        /\ Ueber(t)' <=> Ueber(t)
<1>1. \A w \in Grosse : w \subseteq Validator
  BY DEF Grosse
<1> SUFFICES ASSUME NEW t \in Nat
             PROVE  /\ Begonnen(t)' <=> Begonnen(t)
                    /\ Verlassen(t)' <=> Verlassen(t)
                    /\ Ueber(t)' <=> Ueber(t)
  OBVIOUS
<1>2. Begonnen(t)' <=> Begonnen(t)
  BY <1>1 DEF Begonnen
<1>3. Verlassen(t)' <=> Verlassen(t)
  BY <1>1 DEF Verlassen
<1>4. Ueber(t)' <=> Ueber(t)
  BY DEF Ueber
<1>5. QED BY <1>2, <1>3, <1>4

\* Witnesses of an older lease.
LEMMA ZeugenAltern ==
  ASSUME AlleFelder, AlleFelder', \A n \in Validator : Gealtert(n),
         NEW t \in Nat, NEW r \in Nat, NEW s \in Nat, s = r + 1, NEW l \in Validator, Zeugen(t, l, r)
  PROVE  Zeugen(t, l, s)'
<1>1. PICK w \in Grosse : \A v \in w :
         \/ k[v].term > t
         \/ k[v].term = t /\ k[v].leiter = l /\ (v = l \/ k[v].letzteLease < LeaseDauer + r)
  BY DEF Zeugen
<1>2. ASSUME NEW v \in w
      PROVE  \/ k'[v].term > t
             \/ k'[v].term = t /\ k'[v].leiter = l /\ (v = l \/ k'[v].letzteLease < LeaseDauer + s)
  <2>1. v \in Validator
    BY DEF Grosse
  <2>2. Gealtert(v) /\ Felder(v) /\ Felder(v)'
    BY <2>1 DEF AlleFelder
  <2>3. /\ k'[v].term = k[v].term /\ k'[v].leiter = k[v].leiter
        /\ k'[v].letzteLease <= k[v].letzteLease + 1
        /\ k[v].letzteLease \in Nat /\ k'[v].letzteLease \in Nat
    BY <2>2 DEF Gealtert, Felder
  <2>4. k[v].letzteLease < LeaseDauer + r => k'[v].letzteLease < LeaseDauer + s
    BY <2>3, Zahlen
  <2>5. QED BY <1>1, <2>3, <2>4
<1>3. QED BY <1>2 DEF Zeugen

\* Terms and handovers stay as they are when time passes.
LEMMA TickTermeOK ==
  ASSUME AllInv, Tick
  PROVE  TermeOK' /\ UebergabenOK'
<1>1. /\ \A n \in Validator : Gealtert(n)
      /\ \A q \in netz' : \E m \in netz : KopieAlt(q, m)
      /\ uebergaben' = uebergaben
  BY TickTut DEF AllInv
<1>2. AlleFelder /\ TermeOK /\ UebergabenOK
  BY AlleFelderOK DEF AllInv, EInv
<1>3. \A v \in Validator : /\ k'[v].rolle = k[v].rolle /\ k'[v].term = k[v].term
                           /\ k'[v].leiter = k[v].leiter /\ k'[v].uebergabeAn = k[v].uebergabeAn
                           /\ vt'[v].term = vt[v].term
                           /\ k[v].term \in Nat /\ vt[v].term \in Nat
  <2>1. \A v \in Validator : Gealtert(v) /\ Felder(v)
    BY <1>1, <1>2 DEF AlleFelder
  <2>2. QED BY <2>1 DEF Gealtert, Felder
<1>4. \A t \in Nat : /\ Begonnen(t)' <=> Begonnen(t)
                     /\ Verlassen(t)' <=> Verlassen(t)
  BY <1>3, TermeGleich
<1>5. \A q \in netz' : \E m \in netz : /\ LeaseFelder(m) /\ q.term = m.term /\ q.von = m.von
                                       /\ m.term \in Nat /\ m.von \in Validator
  BY <1>1, <1>2 DEF AlleFelder, KopieAlt, LeaseFelder
<1>6. \A u \in uebergaben : u.von \in Validator /\ u.an \in Validator /\ u.term \in Nat
  BY <1>2 DEF AlleFelder
<1>7. TermeOK'
  <2>1. \A n \in Validator : k'[n].leiter = Niemand => vt'[n].term < k'[n].term
    BY <1>2, <1>3 DEF TermeOK
  <2>2. \A n \in Validator, t \in Nat :
          1 <= t /\ t < k'[n].term => Verlassen(t)' \/ \E u \in uebergaben' : u.term = t
    BY <1>1, <1>2, <1>3, <1>4 DEF TermeOK
  <2>3. \A n \in Validator, t \in Nat : 1 <= t /\ vt'[n].term = t => Begonnen(t)'
    BY <1>2, <1>3, <1>4 DEF TermeOK
  <2>4. ASSUME NEW q \in netz' PROVE Begonnen(q.term)' /\ q.term <= k'[q.von].term
    <3>1. PICK m \in netz : /\ q.term = m.term /\ q.von = m.von
                            /\ m.term \in Nat /\ m.von \in Validator
      BY <1>5
    <3>2. Begonnen(m.term) /\ m.term <= k[m.von].term
      BY <1>2 DEF TermeOK
    <3>3. q.term <= k'[q.von].term
      BY <1>3, <3>1, <3>2
    <3>4. ASSUME NEW t \in Nat, t = q.term PROVE Begonnen(t)'
      BY <1>4, <3>1, <3>2, <3>4
    <3>5. QED BY <3>1, <3>3, <3>4
  <2>5. \A l, x \in Validator :
          k'[l].leiter = l /\ k'[x].leiter = x /\ l # x => k'[l].term # k'[x].term
    BY <1>2, <1>3 DEF TermeOK, IstLeiter
  <2>6. ASSUME NEW l \in Validator, k'[l].rolle = "leiter", k'[l].uebergabeAn # Niemand
        PROVE  l \in Abgebende /\ k'[k'[l].uebergabeAn].term >= k'[l].term
    <3>1. /\ k[l].rolle = "leiter" /\ k[l].uebergabeAn # Niemand
          /\ k'[l].uebergabeAn = k[l].uebergabeAn /\ k'[l].term = k[l].term
      BY <1>3, <2>6
    <3>2. l \in Abgebende /\ k[k[l].uebergabeAn].term >= k[l].term
      BY <1>2, <3>1 DEF TermeOK
    <3>3. k[l].uebergabeAn \in Validator
      <4>1. Felder(l)
        BY <1>2 DEF AlleFelder
      <4>2. QED BY <3>1, <4>1 DEF Felder, Wer
    <3>4. QED BY <1>3, <3>1, <3>2, <3>3
  <2>7. QED BY <2>1, <2>2, <2>3, <2>4, <2>5, <2>6 DEF TermeOK, IstLeiter
<1>8. UebergabenOK'
  <2> SUFFICES ASSUME NEW u \in uebergaben
               PROVE  /\ Begonnen(u.term)' /\ k'[u.an].term >= u.term /\ u.an # u.von /\ u.von \in Abgebende
                      /\ \A l \in Validator : k'[l].leiter = l => k'[l].term # u.term
                      /\ \A w \in uebergaben : w.term = u.term => w = u
                      /\ k'[u.an].term = u.term => Unberuehrt(u)'
    BY <1>1 DEF UebergabenOK, IstLeiter
  <2>1. /\ Begonnen(u.term) /\ k[u.an].term >= u.term /\ u.an # u.von /\ u.von \in Abgebende
        /\ \A l \in Validator : k[l].leiter = l => k[l].term # u.term
        /\ \A w \in uebergaben : w.term = u.term => w = u
        /\ k[u.an].term = u.term => Unberuehrt(u)
    BY <1>2 DEF UebergabenOK, IstLeiter
  <2>2. Begonnen(u.term)'
    <3>1. ASSUME NEW t \in Nat, t = u.term PROVE Begonnen(t)'
      BY <1>4, <2>1, <3>1
    <3>2. QED BY <1>6, <3>1
  <2>3. ASSUME k'[u.an].term = u.term PROVE Unberuehrt(u)'
    <3>1. Unberuehrt(u)
      BY <1>3, <1>6, <2>1, <2>3
    <3>2. QED BY <1>1, <1>3, <1>5, <3>1 DEF Unberuehrt
  <2>4. QED BY <1>3, <1>6, <2>1, <2>2, <2>3
<1>9. QED BY <1>7, <1>8

\* Old terms are dying out for longer, as the ages that measure it grow.
LEMMA TickSterbenOK ==
  ASSUME AllInv, Fristen, Tick, IInv'
  PROVE  SterbenOK'
<1>1. /\ \A n \in Validator : Gealtert(n)
      /\ \A q \in netz' : \E m \in netz : KopieAlt(q, m)
      /\ uebergaben' = uebergaben
  BY TickTut DEF AllInv
<1>2. AlleFelder /\ SterbenOK
  BY AlleFelderOK DEF AllInv, EInv
<1>3. AlleFelder'
  BY AlleFelderOK, PTL
<1>4. Abstand \in Nat /\ Ruhezeit \in Nat /\ Abstand + Ruhezeit \in Nat
  BY Zahlen DEF Abstand, Fristen
<1>5. ASSUME NEW t \in Nat, NEW r \in Nat, Sterbend(t, r), NEW s \in Nat, s <= r + 1
      PROVE  Sterbend(t, s)'
  BY <1>1, <1>2, <1>3, <1>5, SterbendAltertBis
<1>6. ASSUME NEW t \in Nat, Ueber(t)' PROVE Sterbend(t, Abstand)'
  <2>1. Ueber(t)
    BY <1>1, <1>6 DEF Ueber, Gealtert
  <2>2. Sterbend(t, Abstand)
    BY <1>2, <2>1 DEF SterbenOK
  <2>3. QED BY <1>4, <1>5, <2>2
<1>7. ASSUME NEW n \in Validator, NEW t \in Nat, NEW r \in Nat,
             vt'[n].term = t + 1, r <= Abstand + vt'[n].termSeit
      PROVE  Sterbend(t, r)'
  <2>1. Felder(n) /\ Felder(n)' /\ Gealtert(n)
    BY <1>1, <1>2, <1>3 DEF AlleFelder
  <2>2. /\ vt[n].termSeit \in Nat /\ vt'[n].termSeit \in Nat
        /\ vt[n].term = t + 1 /\ vt'[n].termSeit <= vt[n].termSeit + 1
    BY <1>7, <2>1 DEF Felder, Gealtert
  <2>3. ASSUME NEW x \in Nat, x = Abstand + vt[n].termSeit PROVE Sterbend(t, r)'
    <3>1. Sterbend(t, x)
      BY <1>2, <2>2, <2>3 DEF SterbenOK
    <3>2. r <= x + 1
      BY <1>4, <1>7, <2>2, <2>3
    <3>3. QED BY <1>5, <3>1, <3>2
  <2>4. Abstand + vt[n].termSeit \in Nat
    BY <1>4, <2>2
  <2>5. QED BY <2>3, <2>4
<1>8. ASSUME NEW u \in uebergaben' PROVE Sterbend(u.term, Abstand + Ruhezeit)'
  <2>1. u.term \in Nat /\ Sterbend(u.term, Abstand + Ruhezeit)
    BY <1>1, <1>2 DEF SterbenOK, AlleFelder
  <2>2. ASSUME NEW t \in Nat, t = u.term, NEW r \in Nat, r = Abstand + Ruhezeit PROVE Sterbend(t, r)'
    BY <1>5, <2>1, <2>2
  <2>3. QED BY <1>4, <2>1, <2>2
<1>9. ASSUME NEW l \in Validator, NEW t \in Nat, NEW r \in Nat,
             k'[l].rolle = "leiter", k'[l].uebergabeAn # Niemand,
             k'[l].term = t, r <= vt'[l].abschliessenSeit
      PROVE  Sterbend(t, r)'
  <2>1. Felder(l) /\ Felder(l)' /\ Gealtert(l)
    BY <1>1, <1>2, <1>3 DEF AlleFelder
  <2>2. /\ vt[l].abschliessenSeit \in Nat /\ vt'[l].abschliessenSeit \in Nat
        /\ vt'[l].abschliessenSeit <= vt[l].abschliessenSeit + 1
        /\ k[l].rolle = "leiter" /\ k[l].uebergabeAn # Niemand /\ k[l].term = t
    BY <1>9, <2>1 DEF Felder, Gealtert
  <2>3. ASSUME NEW x \in Nat, x = vt[l].abschliessenSeit PROVE Sterbend(t, r)'
    <3>1. Sterbend(t, x)
      BY <1>2, <2>2, <2>3 DEF SterbenOK
    <3>2. r <= x + 1
      BY <1>9, <2>2, <2>3
    <3>3. QED BY <1>5, <3>1, <3>2
  <2>4. QED BY <2>2, <2>3
<1>10. QED BY <1>6, <1>7, <1>8, <1>9 DEF SterbenOK

\* Time changes nothing of what is dying out but its age.
LEMMA TickEOK ==
  ASSUME AllInv, Fristen, Tick, IInv'
  PROVE  EInv'
<1>1. /\ \A n \in Validator : Gealtert(n)
      /\ \A q \in netz' : \E m \in netz : KopieAlt(q, m)
      /\ uebergaben' = uebergaben
  BY TickTut DEF AllInv
<1>2. AlleFelder /\ ZeugenOK /\ AusfallOK
  BY AlleFelderOK DEF AllInv, EInv
<1>3. AlleFelder'
  BY AlleFelderOK, PTL
<1>4. ASSUME NEW n \in Validator
      PROVE  /\ Felder(n) /\ Felder(n)' /\ Gealtert(n)
             /\ k'[n].term = k[n].term /\ k'[n].leiter = k[n].leiter /\ vt'[n].term = vt[n].term
             /\ k'[n].letzteLease <= k[n].letzteLease + 1
             /\ Ausgefallen(vt'[n]) = Ausgefallen(vt[n])
             /\ k[n].term \in Nat /\ k[n].letzteLease \in Nat /\ k'[n].letzteLease \in Nat
             /\ vt[n].letzteBestaetigt \in Nat
  <2>1. Felder(n) /\ Felder(n)' /\ Gealtert(n)
    BY <1>1, <1>2, <1>3 DEF AlleFelder
  <2>2. QED BY <2>1 DEF Felder, Gealtert
<1>5. ASSUME NEW n \in Validator, Lebendig(n)'
      PROVE  Lebendig(n) /\ vt'[n].letzteBestaetigt = vt[n].letzteBestaetigt + 1
  <2>1. vt'[n].letzteBestaetigt = vt[n].letzteBestaetigt + 1
    BY <1>4, <1>5 DEF Gealtert, Lebendig
  <2>2. QED BY <1>4, <1>5, <2>1, Zahlen DEF Gealtert, Lebendig
<1>6. ASSUME NEW q \in netz'
      PROVE  \E m \in netz : KopieAlt(q, m) /\ LeaseFelder(m)
  BY <1>1, <1>2 DEF AlleFelder
<1>7. ASSUME NEW l \in Validator PROVE LeiterFest(l)'
  <2> SUFFICES ASSUME k'[l].leiter = l
               PROVE  /\ Ueber(k[l].term)' => Abgehaengt(l)'
                      /\ k'[l].acks[l] >= LeaseDauer
                      /\ \A v \in Validator : k'[l].acks[v] < LeaseDauer =>
                           \/ k'[v].term > k'[l].term
                           \/ /\ k'[v].term = k'[l].term /\ k'[v].leiter = l
                              /\ k'[v].letzteLease <= k'[l].acks[v]
    BY DEF LeiterFest, IstLeiter
  <2>1. LeiterFest(l) /\ IstLeiter(l)
    BY <1>4 DEF AllInv, EInv, IstLeiter
  <2>2. \A v \in Validator :
          /\ k[l].acks[v] >= LeaseDauer => k'[l].acks[v] >= LeaseDauer
          /\ k'[l].acks[v] < LeaseDauer => k'[l].acks[v] = k[l].acks[v] + 1
          /\ k[l].acks[v] \in Nat
    BY <1>4 DEF Gealtert, Felder
  <2>3. ASSUME Ueber(k[l].term)' PROVE Abgehaengt(l)'
    <3>1. Ueber(k[l].term)
      BY <1>4, <2>3 DEF Ueber
    <3>2. Abgehaengt(l)
      BY <2>1, <3>1 DEF LeiterFest
    <3>3. PICK w \in Grosse : l \notin w /\ \A v \in w : k[v].term > k[l].term /\ k[l].acks[v] >= LeaseDauer
      BY <3>2 DEF Abgehaengt
    <3>4. \A v \in w : k'[v].term > k'[l].term /\ k'[l].acks[v] >= LeaseDauer
      BY <1>4, <2>2, <3>3 DEF Grosse
    <3>5. QED BY <3>3, <3>4 DEF Abgehaengt
  <2>4. ASSUME NEW v \in Validator, k'[l].acks[v] < LeaseDauer
        PROVE  \/ k'[v].term > k'[l].term
               \/ /\ k'[v].term = k'[l].term /\ k'[v].leiter = l
                  /\ k'[v].letzteLease <= k'[l].acks[v]
    <3>1. k'[l].acks[v] = k[l].acks[v] + 1 /\ k[l].acks[v] < LeaseDauer
      BY <2>2, <2>4, Zahlen
    <3>2. \/ k[v].term > k[l].term
          \/ /\ k[v].term = k[l].term /\ k[v].leiter = l
             /\ k[v].letzteLease <= k[l].acks[v]
      BY <2>1, <3>1 DEF LeiterFest
    <3>3. QED BY <1>4, <2>2, <3>1, <3>2
  <2>5. QED BY <2>1, <2>2, <2>3, <2>4 DEF LeiterFest
<1>8. ASSUME NEW l \in Validator PROVE AusfallLeiter(l)'
  <2>1. AusfallLeiter(l)
    BY DEF AllInv, EInv
  <2>2. SUFFICES ASSUME k'[l].leiter = l
               PROVE  /\ l \notin Ausgefallen(vt'[l])
                      /\ \A n \in Validator : vt'[n].term = k'[l].term =>
                           Ausgefallen(vt'[n]) \subseteq Ausgefallen(vt'[l])
                      /\ \A m \in netz' : m.term = k'[l].term => m.ausgefallen \subseteq Ausgefallen(vt'[l])
    BY DEF AusfallLeiter, IstLeiter
  <2>3. /\ l \notin Ausgefallen(vt[l])
        /\ \A n \in Validator : vt[n].term = k[l].term => Ausgefallen(vt[n]) \subseteq Ausgefallen(vt[l])
        /\ \A m \in netz : m.term = k[l].term => m.ausgefallen \subseteq Ausgefallen(vt[l])
    BY <1>4, <2>1, <2>2 DEF AusfallLeiter, IstLeiter
  <2>4. \A m \in netz' : m.term = k'[l].term => m.ausgefallen \subseteq Ausgefallen(vt'[l])
    BY <1>4, <1>6, <2>3 DEF KopieAlt
  <2>5. QED BY <1>4, <2>3, <2>4
<1>9. ZeugenOK'
  <2>1. ASSUME NEW n \in Validator, NEW t \in Nat, NEW r \in Nat, NEW l \in Validator,
               Lebendig(n)', k'[n].term = t, k'[n].leiter = l, r = vt'[n].letzteBestaetigt + Verzug
        PROVE  Zeugen(t, l, r)'
    <3>1. /\ Lebendig(n) /\ vt'[n].letzteBestaetigt = vt[n].letzteBestaetigt + 1
          /\ k[n].term = t /\ k[n].leiter = l
      BY <1>4, <1>5, <2>1
    <3>2. ASSUME NEW x \in Nat, x = vt[n].letzteBestaetigt + Verzug PROVE Zeugen(t, l, r)'
      <4>1. Zeugen(t, l, x)
        BY <1>2, <3>1, <3>2 DEF ZeugenOK
      <4>2. r = x + 1
        BY <1>4, <2>1, <3>1, <3>2, Zahlen
      <4>3. QED BY <1>1, <1>2, <1>3, <4>1, <4>2, ZeugenAltern
    <3>3. vt[n].letzteBestaetigt + Verzug \in Nat
      BY <1>4, Zahlen
    <3>4. QED BY <3>2, <3>3
  <2>2. ASSUME NEW q \in netz', q.bestaetigt
        PROVE  ~q.abschluss /\ Zeugen(q.term, q.von, q.alter)'
    <3>1. PICK m \in netz : KopieAlt(q, m) /\ LeaseFelder(m)
      BY <1>6
    <3>2. /\ m.term \in Nat /\ m.von \in Validator /\ m.alter \in Nat
          /\ q.term = m.term /\ q.von = m.von /\ q.alter = m.alter + 1
          /\ m.bestaetigt /\ q.abschluss = m.abschluss
      BY <2>2, <3>1 DEF KopieAlt, LeaseFelder
    <3>3. ~m.abschluss /\ Zeugen(m.term, m.von, m.alter)
      BY <1>2, <3>2 DEF ZeugenOK
    <3>4. ASSUME NEW t \in Nat, NEW l \in Validator, NEW r \in Nat, t = q.term, l = q.von, r = q.alter
          PROVE  Zeugen(t, l, r)'
      <4>1. Zeugen(t, l, m.alter) /\ r = m.alter + 1
        BY <3>2, <3>3, <3>4
      <4>2. QED BY <1>1, <1>2, <1>3, <3>2, <4>1, ZeugenAltern
    <3>5. q.term \in Nat /\ q.von \in Validator /\ q.alter \in Nat
      BY <3>2
    <3>6. QED BY <3>2, <3>3, <3>4, <3>5
  <2>3. QED BY <2>1, <2>2 DEF ZeugenOK
<1>10. AusfallOK'
  <2>1. ASSUME NEW n \in Validator, NEW a \in Ausgefallen(vt[n])
        PROVE  /\ vt[n].ausgefallen[a] \in Nat /\ vt'[n].ausgefallen[a] \in Nat
               /\ vt'[n].ausgefallen[a] <= vt[n].ausgefallen[a] + 1
    BY <1>4 DEF Felder, Gealtert
  <2>2. ASSUME NEW n \in Validator, NEW a \in Validator,
               a \in Ausgefallen(vt'[n]), vt'[n].term = vt'[a].term,
               Lebendig(a)', a \notin Ausgefallen(vt'[a])
        PROVE  vt'[a].letzteBestaetigt + Verzug >= vt'[n].ausgefallen[a]
    <3>1. /\ Lebendig(a) /\ vt'[a].letzteBestaetigt = vt[a].letzteBestaetigt + 1
          /\ a \in Ausgefallen(vt[n]) /\ vt[n].term = vt[a].term /\ a \notin Ausgefallen(vt[a])
      BY <1>4, <1>5, <2>2
    <3>2. vt[a].letzteBestaetigt + Verzug >= vt[n].ausgefallen[a]
      BY <1>2, <3>1 DEF AusfallOK
    <3>3. QED BY <1>4, <2>1, <3>1, <3>2, Zahlen
  <2>3. ASSUME NEW n \in Validator, NEW q \in netz', q.bestaetigt, q.term = vt'[n].term,
               q.an \in Ausgefallen(vt'[n]), q.an \notin q.ausgefallen
        PROVE  q.alter >= vt'[n].ausgefallen[q.an]
    <3>1. PICK m \in netz : KopieAlt(q, m) /\ LeaseFelder(m)
      BY <1>6
    <3>2. /\ m.alter \in Nat /\ q.an = m.an /\ q.alter = m.alter + 1 /\ m.bestaetigt
          /\ m.term = q.term /\ m.ausgefallen = q.ausgefallen
      BY <2>3, <3>1 DEF KopieAlt, LeaseFelder
    <3>3. m.an \in Ausgefallen(vt[n]) /\ m.term = vt[n].term /\ m.an \notin m.ausgefallen
      BY <1>4, <2>3, <3>2
    <3>4. m.alter >= vt[n].ausgefallen[m.an]
      BY <1>2, <3>2, <3>3 DEF AusfallOK
    <3>5. QED BY <2>1, <3>2, <3>3, <3>4
  <2>4. QED BY <2>2, <2>3 DEF AusfallOK
<1>11. TermeOK' /\ UebergabenOK' /\ SterbenOK'
  BY TickTermeOK, TickSterbenOK
<1>12. QED BY <1>7, <1>8, <1>9, <1>10, <1>11 DEF EInv

\* n follows the lease m.
Folgt(n, m) ==
  /\ Brief(m) /\ m.an = n /\ ~LeaseAblehnen(k[n], m)
  /\ k'[n].term = m.term /\ k'[n].leiter = m.von

\* n keeps its term and its leader, learns of a higher term, or follows a lease.
KRuhig(n) ==
  \/ k'[n].term = k[n].term /\ k'[n].leiter = k[n].leiter
  \/ /\ k'[n].term > k[n].term /\ k'[n].leiter = Niemand
     /\ \E v \in Validator : k'[n].term = k[v].term
  \/ \E m : Folgt(n, m)

\* Nobody begins a term, and none is handed over.
Ruhig == Gang /\ uebergaben' = uebergaben /\ \A n \in Validator : KRuhig(n)

\* No lease is of the term that a handover not yet noticed begins.
LEMMA BriefUnberuehrt ==
  ASSUME AllInv, NEW u \in uebergaben, k[u.an].term = u.term, NEW m, Brief(m)
  PROVE  m.term # u.term + 1
<1>1. AlleFelder /\ Unberuehrt(u)
  BY AlleFelderOK DEF AllInv, EInv, UebergabenOK
<1>2. LeaseFelder(m) /\ (m \in netz \/ Neulich(m))
  BY BriefArt DEF AllInv
<1>3. CASE m \in netz
  BY <1>1, <1>3 DEF Unberuehrt
<1>4. CASE Neulich(m)
  <2>1. SUFFICES ASSUME NEW l \in Validator, l = m.von, m.term = u.term + 1 PROVE FALSE
    BY <1>2 DEF LeaseFelder
  <2>2. k[l].rolle = "leiter" /\ k[l].term = u.term + 1
    BY <1>4, <2>1 DEF Neulich
  <2>3. Felder(l) /\ u.term \in Nat /\ u.an \in Validator
    BY <1>1 DEF AlleFelder
  <2>4. k[l].leiter = l /\ l # Niemand
    BY <2>2, <2>3 DEF Felder
  <2>5. l = u.an
    BY <1>1, <2>2, <2>4 DEF Unberuehrt
  <2>6. QED BY <2>2, <2>3, <2>5
<1>5. QED BY <1>2, <1>3, <1>4

\* What such a step leaves as it is.
LEMMA RuhigTut ==
  ASSUME AllInv, AlleFelder', Ruhig
  PROVE  /\ \A l \in Validator : IstLeiter(l)' => IstLeiter(l) /\ k'[l].term = k[l].term
         /\ \A n \in Validator : ~Neu(n)
         /\ \A n \in Validator : \E v \in Validator : k'[n].term <= k[v].term
<1>1. AlleFelder
  BY AlleFelderOK DEF AllInv
<1>2. ASSUME NEW n \in Validator, NEW m, Folgt(n, m)
      PROVE  m.von \in Validator /\ m.von # n /\ m.term <= k[m.von].term
  BY <1>2, BriefTaugt DEF Folgt, LeaseFelder
<1>3. ASSUME NEW l \in Validator, IstLeiter(l)'
      PROVE  IstLeiter(l) /\ k'[l].term = k[l].term
  <2>1. k'[l].leiter = l /\ l # Niemand /\ KRuhig(l)
    BY <1>3, Zahlen DEF IstLeiter, Ruhig
  <2>2. QED BY <1>2, <2>1 DEF KRuhig, Folgt, IstLeiter
<1>4. ASSUME NEW n \in Validator PROVE ~Neu(n)
  <2>1. Felder(n) /\ Felder(n)'
    BY <1>1 DEF AlleFelder
  <2>2. k[n].term \in Nat /\ k'[n].term \in Nat
    BY <2>1 DEF Felder
  <2>3. QED BY <1>3, <2>2 DEF Neu, IstLeiter
<1>5. ASSUME NEW n \in Validator PROVE \E v \in Validator : k'[n].term <= k[v].term
  <2>1. Felder(n) /\ KRuhig(n)
    BY <1>1 DEF AlleFelder, Ruhig
  <2>2. k[n].term \in Nat
    BY <2>1 DEF Felder
  <2>3. CASE k'[n].term = k[n].term
    BY <2>2, <2>3
  <2>4. CASE \E v \in Validator : k'[n].term = k[v].term
    <3>1. PICK v \in Validator : k'[n].term = k[v].term
      BY <2>4
    <3>2. Felder(v)
      BY <1>1 DEF AlleFelder
    <3>3. QED BY <3>1, <3>2 DEF Felder
  <2>5. CASE \E m : Folgt(n, m)
    <3>1. PICK m : Folgt(n, m)
      BY <2>5
    <3>2. QED BY <1>2, <3>1 DEF Folgt
  <2>6. QED BY <2>1, <2>3, <2>4, <2>5 DEF KRuhig
<1>6. QED BY <1>3, <1>4, <1>5

\* A quiet step keeps what is known of the terms.
LEMMA RuhigTermeOK ==
  ASSUME AllInv, AlleFelder', Ruhig
  PROVE  TermeOK'
<1>1. AlleFelder /\ TermeOK /\ Gang /\ uebergaben' = uebergaben
  BY AlleFelderOK DEF AllInv, EInv, Ruhig
<1>2. \A t \in Nat : /\ Begonnen(t) => Begonnen(t)'
                     /\ Verlassen(t) => Verlassen(t)'
  BY <1>1, BegonnenBleibt DEF Gang
<1>3. /\ \A l \in Validator : IstLeiter(l)' => IstLeiter(l) /\ k'[l].term = k[l].term
      /\ \A n \in Validator : ~Neu(n)
      /\ \A n \in Validator : \E v \in Validator : k'[n].term <= k[v].term
  BY RuhigTut
<1>4. ASSUME NEW n \in Validator
      PROVE  /\ Felder(n) /\ Felder(n)' /\ KTreu(n) /\ KRuhig(n) /\ TermTreu(n) /\ AmtTreu(n)
             /\ k[n].term \in Nat /\ k'[n].term \in Nat /\ k'[n].term >= k[n].term
             /\ vt[n].term \in Nat /\ vt'[n].term \in Nat /\ vt[n].term <= k[n].term
             /\ k[n].term >= 1 /\ vt'[n].term <= k'[n].term
  <2>1. Felder(n) /\ Felder(n)' /\ KTreu(n) /\ KRuhig(n) /\ TermTreu(n) /\ AmtTreu(n)
    BY <1>1 DEF AlleFelder, Gang, Ruhig
  <2>2. QED BY <1>1, <2>1, TermSteigt DEF Felder
<1>5. ASSUME NEW m, Brief(m)
      PROVE  /\ m.von \in Validator /\ m.von # Niemand /\ m.term \in Nat
             /\ Begonnen(m.term)' /\ m.term <= k'[m.von].term
  <2>1. LeaseFelder(m) /\ Begonnen(m.term) /\ m.term <= k[m.von].term
    BY <1>5, BriefTaugt
  <2>2. m.von \in Validator /\ m.von # Niemand /\ m.term \in Nat
    BY <2>1, Zahlen DEF LeaseFelder
  <2>3. ASSUME NEW t \in Nat, t = m.term PROVE Begonnen(t)'
    BY <1>2, <2>1, <2>3
  <2>4. QED BY <1>4, <2>1, <2>2, <2>3
<1>6. ASSUME NEW n \in Validator
      PROVE  \/ vt'[n].term = vt[n].term \/ vt'[n].term = 0
             \/ \E m : Brief(m) /\ vt'[n].term = m.term /\ k'[n].leiter = m.von
  BY <1>3, <1>4 DEF TermTreu
<1>7. ASSUME NEW n \in Validator, k'[n].leiter = Niemand PROVE vt'[n].term < k'[n].term
  <2>1. vt'[n].term = vt[n].term \/ vt'[n].term = 0
    BY <1>5, <1>6, <1>7
  <2>2. \/ k'[n].term = k[n].term /\ k'[n].leiter = k[n].leiter
        \/ k'[n].term > k[n].term
    BY <1>4, <1>5, <1>7 DEF KRuhig, Folgt
  <2>3. k[n].leiter = Niemand => vt[n].term < k[n].term
    BY <1>1 DEF TermeOK
  <2>4. QED BY <1>4, <1>7, <2>1, <2>2, <2>3
<1>8. ASSUME NEW n \in Validator, NEW t \in Nat, 1 <= t, t < k'[n].term
      PROVE  Verlassen(t)' \/ \E u \in uebergaben' : u.term = t
  <2>1. PICK v \in Validator : k'[n].term <= k[v].term
    BY <1>3
  <2>2. t < k[v].term
    BY <1>4, <1>8, <2>1
  <2>3. Verlassen(t) \/ \E u \in uebergaben : u.term = t
    BY <1>1, <1>8, <2>2 DEF TermeOK
  <2>4. QED BY <1>1, <1>2, <2>3
<1>9. ASSUME NEW n \in Validator, NEW t \in Nat, 1 <= t, vt'[n].term = t
      PROVE  Begonnen(t)'
  <2>1. CASE vt'[n].term = vt[n].term
    BY <1>1, <1>2, <1>9, <2>1 DEF TermeOK
  <2>2. CASE vt'[n].term = 0
    BY <1>9, <2>2
  <2>3. CASE \E m : Brief(m) /\ vt'[n].term = m.term
    BY <1>5, <1>9, <2>3
  <2>4. QED BY <1>6, <2>1, <2>2, <2>3
<1>10. ASSUME NEW q \in netz' PROVE Begonnen(q.term)' /\ q.term <= k'[q.von].term
  <2>1. PICK m : Brief(m) /\ Kopie(q, m)
    BY <1>1 DEF Gang
  <2>2. Begonnen(m.term)' /\ m.term <= k'[m.von].term /\ q.term = m.term /\ q.von = m.von
    BY <1>5, <2>1 DEF Kopie
  <2>3. QED BY <2>2
<1>11. ASSUME NEW l \in Validator, NEW x \in Validator, IstLeiter(l)', IstLeiter(x)', l # x
       PROVE  k'[l].term # k'[x].term
  BY <1>1, <1>3, <1>11 DEF TermeOK
<1>12. ASSUME NEW l \in Validator, k'[l].rolle = "leiter", k'[l].uebergabeAn # Niemand
       PROVE  l \in Abgebende /\ k'[k'[l].uebergabeAn].term >= k'[l].term
  <2>1. k'[l].leiter = l /\ k'[l].uebergabeAn \in Validator
    BY <1>4, <1>12 DEF Felder, Wer
  <2>2. IstLeiter(l) /\ k'[l].term = k[l].term
    BY <1>3, <2>1 DEF IstLeiter
  <2>3. /\ k[l].rolle = "leiter"
        /\ \/ k'[l].uebergabeAn = k[l].uebergabeAn
           \/ /\ l \in Abgebende
              /\ k[l].acks[k'[l].uebergabeAn] < LeaseDauer
    BY <1>3, <1>4, <1>12, <2>1 DEF AmtTreu, IstLeiter
  <2>4. l \in Abgebende /\ k[k'[l].uebergabeAn].term >= k[l].term
    <3>1. CASE k'[l].uebergabeAn = k[l].uebergabeAn
      BY <1>1, <1>12, <2>3, <3>1 DEF TermeOK
    <3>2. CASE l \in Abgebende /\ k[l].acks[k'[l].uebergabeAn] < LeaseDauer
      <4>1. LeiterFest(l)
        BY DEF AllInv, EInv
      <4>2. \/ k[k'[l].uebergabeAn].term > k[l].term
            \/ k[k'[l].uebergabeAn].term = k[l].term
        BY <2>1, <2>2, <3>2, <4>1 DEF LeiterFest
      <4>3. QED BY <1>4, <2>1, <3>2, <4>2
    <3>3. QED BY <2>3, <3>1, <3>2
  <2>5. QED BY <1>4, <2>1, <2>2, <2>4
<1>13. QED BY <1>7, <1>8, <1>9, <1>10, <1>11, <1>12 DEF TermeOK

\* And of the handovers.
LEMMA RuhigUebergabenOK ==
  ASSUME AllInv, AlleFelder', Ruhig
  PROVE  UebergabenOK'
<1>1. AlleFelder /\ UebergabenOK /\ Gang /\ uebergaben' = uebergaben
  BY AlleFelderOK DEF AllInv, EInv, Ruhig
<1>2. \A t \in Nat : Begonnen(t) => Begonnen(t)'
  BY <1>1, BegonnenBleibt DEF Gang
<1>3. /\ \A l \in Validator : IstLeiter(l)' => IstLeiter(l) /\ k'[l].term = k[l].term
      /\ \A n \in Validator : ~Neu(n)
  BY RuhigTut
<1>4. ASSUME NEW n \in Validator
      PROVE  /\ KRuhig(n) /\ TermTreu(n)
             /\ k[n].term \in Nat /\ k'[n].term \in Nat /\ k'[n].term >= k[n].term
  <2>1. KTreu(n) /\ KRuhig(n) /\ TermTreu(n)
    BY <1>1 DEF Gang, Ruhig
  <2>2. QED BY <1>1, <2>1, TermSteigt
<1> SUFFICES ASSUME NEW u \in uebergaben
             PROVE  /\ Begonnen(u.term)' /\ k'[u.an].term >= u.term /\ u.an # u.von /\ u.von \in Abgebende
                    /\ \A l \in Validator : IstLeiter(l)' => k'[l].term # u.term
                    /\ \A w \in uebergaben : w.term = u.term => w = u
                    /\ k'[u.an].term = u.term => Unberuehrt(u)'
  BY <1>1 DEF UebergabenOK
<1>5. /\ Begonnen(u.term) /\ k[u.an].term >= u.term /\ u.an # u.von /\ u.von \in Abgebende
      /\ \A l \in Validator : IstLeiter(l) => k[l].term # u.term
      /\ \A w \in uebergaben : w.term = u.term => w = u
      /\ k[u.an].term = u.term => Unberuehrt(u)
  BY <1>1 DEF UebergabenOK
<1>6. u.term \in Nat /\ u.an \in Validator
  BY <1>1 DEF AlleFelder
<1>7. Begonnen(u.term)'
  <2>1. ASSUME NEW t \in Nat, t = u.term PROVE Begonnen(t)'
    BY <1>2, <1>5, <2>1
  <2>2. QED BY <1>6, <2>1
<1>8. ASSUME k'[u.an].term = u.term PROVE Unberuehrt(u)'
  <2>1. k[u.an].term = u.term
    BY <1>4, <1>5, <1>6, <1>8
  <2>2. Unberuehrt(u) /\ \A m : Brief(m) => m.term # u.term + 1
    BY <1>5, <2>1, BriefUnberuehrt
  <2>3. ASSUME NEW v \in Validator, k'[v].term = u.term + 1
        PROVE  k'[v].leiter \in {Niemand, u.an}
    <3>1. ~(\E m : Folgt(v, m))
      BY <2>2, <2>3 DEF Folgt
    <3>2. QED BY <1>4, <2>2, <2>3, <3>1 DEF KRuhig, Unberuehrt
  <2>4. ASSUME NEW v \in Validator PROVE vt'[v].term # u.term + 1
    BY <1>3, <1>4, <1>6, <2>2 DEF TermTreu, Unberuehrt
  <2>5. ASSUME NEW q \in netz' PROVE q.term # u.term + 1
    <3>1. PICK m : Brief(m) /\ Kopie(q, m)
      BY <1>1 DEF Gang
    <3>2. QED BY <2>2, <3>1 DEF Kopie
  <2>6. QED BY <1>1, <2>2, <2>3, <2>4, <2>5 DEF Unberuehrt
<1>9. \A l \in Validator : IstLeiter(l)' => k'[l].term # u.term
  BY <1>3, <1>5
<1>10. k'[u.an].term >= u.term
  BY <1>4, <1>5, <1>6
<1>11. QED BY <1>5, <1>7, <1>8, <1>9, <1>10

\* A quiet step keeps the invariant.
LEMMA RuhigOK ==
  ASSUME AllInv, Fristen, IInv', Ruhig
  PROVE  EInv'
<1>1. AlleFelder
  BY AlleFelderOK DEF AllInv
<1>2. AlleFelder'
  BY AlleFelderOK, PTL
<1>3. Gang /\ uebergaben' = uebergaben
  BY DEF Ruhig
<1>4. TermeOK' /\ UebergabenOK'
  BY <1>2, RuhigTermeOK, RuhigUebergabenOK
<1>5. /\ \A l \in Validator : IstLeiter(l)' => IstLeiter(l) /\ k'[l].term = k[l].term
      /\ \A n \in Validator : ~Neu(n)
      /\ \A n \in Validator : \E v \in Validator : k'[n].term <= k[v].term
  BY <1>2, RuhigTut
<1>6. ASSUME NEW t \in Nat, Ueber(t)' PROVE Ueber(t)
  <2>1. PICK n \in Validator : k'[n].term > t
    BY <1>6 DEF Ueber
  <2>2. PICK v \in Validator : k'[n].term <= k[v].term
    BY <1>5
  <2>3. Felder(v) /\ Felder(n)'
    BY <1>1, <1>2 DEF AlleFelder
  <2>4. k[v].term > t
    BY <2>1, <2>2, <2>3 DEF Felder
  <2>5. QED BY <2>4 DEF Ueber
<1>7. SterbenOK'
  <2>1. uebergaben' \ uebergaben = {}
    BY <1>3
  <2>2. QED BY <1>2, <1>3, <1>6, <2>1, SterbenOKBleibt
<1>8. ZeugenOK' /\ AusfallOK'
  BY <1>2, <1>3, ZeugenOKBleibt, AusfallOKBleibt
<1>9. ASSUME NEW l \in Validator PROVE AusfallLeiter(l)' /\ LeiterFest(l)'
  <2>1. NeuFrei(l)
    BY <1>5 DEF NeuFrei
  <2>2. NichtVoraus(l)
    <3>1. SUFFICES ASSUME IstLeiter(l)', Ueber(k[l].term)' PROVE Ueber(k[l].term)
      BY <1>5 DEF NichtVoraus
    <3>2. k'[l].term = k[l].term
      BY <1>5, <3>1
    <3>3. Felder(l)
      BY <1>1 DEF AlleFelder
    <3>4. ASSUME NEW t \in Nat, t = k[l].term PROVE Ueber(t)
      <4>1. Ueber(t)'
        BY <3>1, <3>2, <3>4 DEF Ueber
      <4>2. QED BY <1>6, <4>1
    <3>5. QED BY <3>3, <3>4 DEF Felder
  <2>3. QED BY <1>2, <1>3, <1>4, <2>1, <2>2, AusfallLeiterBleibt, LeiterFestBleibt
<1>10. QED BY <1>4, <1>7, <1>8, <1>9 DEF EInv

\* Nothing of n changes that the invariant speaks of.
Fest(n) ==
  /\ k'[n] = k[n]
  /\ vt'[n].term = vt[n].term /\ vt'[n].ausgefallen = vt[n].ausgefallen
  /\ vt'[n].termSeit = vt[n].termSeit /\ vt'[n].letzteBestaetigt = vt[n].letzteBestaetigt
  /\ vt'[n].abschlussGesehen = vt[n].abschlussGesehen
  /\ vt'[n].abschliessenSeit = vt[n].abschliessenSeit

\* All that is asked of one node in a quiet step.
KnotenTreu(n) == /\ KTreu(n) /\ EndeTreu(n) /\ LebenTreu(n) /\ AusTreu(n)
                 /\ TermTreu(n) /\ AmtTreu(n) /\ KRuhig(n)

\* A node that does not change keeps to all that is asked.
LEMMA FestTreu ==
  ASSUME AllInv, NEW n \in Validator, Fest(n)
  PROVE  KnotenTreu(n)
<1>1. Felder(n) /\ AusfallLeiter(n)
  BY AlleFelderOK DEF AllInv, EInv, AlleFelder
<1>2. KTreu(n) /\ KRuhig(n)
  BY <1>1 DEF Fest, Felder, KTreu, KRuhig
<1>3. EndeTreu(n) /\ TermTreu(n)
  BY <1>1 DEF Fest, Felder, EndeTreu, TermTreu
<1>4. Ausgefallen(vt'[n]) = Ausgefallen(vt[n])
  BY DEF Fest, Ausgefallen
<1>5. LebenTreu(n)
  BY <1>4 DEF Fest, LebenTreu, Lebendig
<1>6. AusTreu(n)
  <2>1. ASSUME NEW a \in Ausgefallen(vt[n])
        PROVE  vt'[n].ausgefallen[a] <= vt[n].ausgefallen[a]
    <3>1. vt[n].ausgefallen[a] \in Nat
      BY <1>1 DEF Felder
    <3>2. QED BY <3>1 DEF Fest
  <2>2. QED BY <1>4, <2>1 DEF Fest, AusTreu
<1>7. AmtTreu(n)
  <2>1. IstLeiter(n)' => IstLeiter(n) /\ n \notin Ausgefallen(vt[n])
    BY <1>1 DEF Fest, IstLeiter, AusfallLeiter
  <2>2. QED BY <1>4, <2>1 DEF Fest, AmtTreu
<1>8. QED BY <1>2, <1>3, <1>5, <1>6, <1>7 DEF KnotenTreu

\* A step that changes one node, and sends no new lease.
LEMMA EinerRuhig ==
  ASSUME AllInv, NEW n \in Validator, \A x \in Validator \ {n} : Fest(x), KnotenTreu(n),
         \A q \in netz' : \E m \in netz : Kopie(q, m), uebergaben' = uebergaben
  PROVE  Ruhig
<1>1. \A x \in Validator : KnotenTreu(x)
  BY FestTreu
<1>2. \A q \in netz' : \E m : Brief(m) /\ Kopie(q, m)
  BY DEF Brief
<1>3. QED BY <1>1, <1>2 DEF Ruhig, Gang, KnotenTreu

\* A step that changes no node.
LEMMA KeinerRuhig ==
  ASSUME AllInv, \A x \in Validator : Fest(x), \A q \in netz' : Brief(q), uebergaben' = uebergaben
  PROVE  Ruhig
<1>1. \A x \in Validator : KnotenTreu(x)
  BY FestTreu
<1>2. \A q \in netz' : Kopie(q, q)
  BY DEF Kopie
<1>3. QED BY <1>1, <1>2 DEF Ruhig, Gang, KnotenTreu

\* Cut links, a delayed lease, transfers, blocks, and nothing at all.
LEMMA StilleRuhig ==
  ASSUME AllInv,
         \/ \E l \in Trennungen \cup {Verbunden} : Trennung(l)
         \/ \E n, v \in Validator : LeaseSenden(n, v)
         \/ \E n \in Validator : Annehmen(n) \/ BlockBauen(n) \/ Verwerfen(n)
         \/ UNCHANGED vars
  PROVE  Ruhig
<1>1. TypeOK
  BY DEF AllInv, IInv
<1>2. CASE \E n, v \in Validator : LeaseSenden(n, v)
  <2>1. PICK n \in Validator, v \in Validator : LeaseSenden(n, v)
    BY <1>2
  <2>2. /\ k' = k /\ vt' = vt /\ uebergaben' = uebergaben /\ netz' = netz \cup {LeaseVon(n, v)}
        /\ k[n].rolle = "leiter" /\ v # n
    BY <2>1 DEF LeaseSenden
  <2>3. \A q \in netz' : Brief(q)
    BY <2>2 DEF Brief
  <2>4. \A x \in Validator : Fest(x)
    BY <2>2 DEF Fest
  <2>5. QED BY <2>2, <2>3, <2>4, KeinerRuhig
<1>3. CASE k' = k /\ vt' = vt /\ uebergaben' = uebergaben /\ netz' = netz
  <2>1. \A q \in netz' : Brief(q)
    BY <1>3 DEF Brief
  <2>2. \A x \in Validator : Fest(x)
    BY <1>3 DEF Fest
  <2>3. QED BY <1>3, <2>1, <2>2, KeinerRuhig
<1>4. CASE \E n \in Validator : Annehmen(n)
  <2>1. PICK n \in Validator : Annehmen(n)
    BY <1>4
  <2>2. /\ k' = k /\ uebergaben' = uebergaben /\ netz' = netz
        /\ vt' = [vt EXCEPT ![n].hatAngenommen = @ \/ VerteiltImTerm(n)]
    BY <2>1 DEF Annehmen
  <2>3. \A q \in netz' : Brief(q)
    BY <2>2 DEF Brief
  <2>4. ASSUME NEW x \in Validator PROVE Fest(x)
    <3>1. vt \in [Validator -> Stand] /\ vt[x] \in Stand
      BY <1>1, Typen DEF TypeOK
    <3>2. CASE x = n
      <4>1. vt'[n] = [vt[n] EXCEPT !.hatAngenommen = @ \/ VerteiltImTerm(n)]
        BY <2>2, <3>1
      <4>2. QED BY <2>2, <3>1, <3>2, <4>1 DEF Fest, Stand
    <3>3. CASE x # n
      BY <2>2, <3>1, <3>3 DEF Fest
    <3>4. QED BY <3>2, <3>3
  <2>5. QED BY <2>2, <2>3, <2>4, KeinerRuhig
<1>5. CASE \E l \in Trennungen \cup {Verbunden} : Trennung(l)
  BY <1>3, <1>5 DEF Trennung
<1>6. CASE \E n \in Validator : BlockBauen(n) \/ Verwerfen(n)
  BY <1>3, <1>6 DEF BlockBauen, Verwerfen
<1>7. CASE UNCHANGED vars
  BY <1>3, <1>7 DEF vars
<1>8. QED BY <1>2, <1>4, <1>5, <1>6, <1>7

\* A leader counts silent members out, not itself.
LEMMA AusfaelleErkennenRuhig ==
  ASSUME AllInv, NEW n \in Validator, AusfaelleErkennen(n)
  PROVE  Ruhig
<1> DEFINE v == vt[n]
           D == DOMAIN v.ausgefallen
           S == Stumme(n)
           e == [a \in D \cup S |-> IF a \in S THEN 0 ELSE v.ausgefallen[a]]
<1>1. TypeOK /\ v \in Stand /\ vt \in [Validator -> Stand]
  BY Typen DEF AllInv, IInv, TypeOK
<1>2. /\ vt' = [vt EXCEPT ![n] = [v EXCEPT !.ausgefallen = e]]
      /\ k' = k /\ netz' = netz /\ uebergaben' = uebergaben
  BY <1>1 DEF AusfaelleErkennen, Stand
<1>3. Felder(n) /\ AusfallLeiter(n)
  BY AlleFelderOK DEF AllInv, EInv, AlleFelder
<1>4. k[n].rolle = "leiter" /\ n \notin S
  BY DEF AusfaelleErkennen, Stumme
<1>5. k[n].leiter = n /\ n \notin D
  BY <1>3, <1>4 DEF Felder, AusfallLeiter, IstLeiter, Ausgefallen
<1>6. /\ DOMAIN e = D \cup S
      /\ \A a \in D \cup S : e[a] = IF a \in S THEN 0 ELSE v.ausgefallen[a]
  OBVIOUS
<1> HIDE DEF e, D, S
<1>7. /\ vt'[n].term = v.term /\ vt'[n].ausgefallen = e
      /\ vt'[n].termSeit = v.termSeit /\ vt'[n].letzteBestaetigt = v.letzteBestaetigt
      /\ vt'[n].abschlussGesehen = v.abschlussGesehen
      /\ vt'[n].abschliessenSeit = v.abschliessenSeit
  BY <1>1, <1>2 DEF Stand
<1>8. \A x \in Validator \ {n} : Fest(x)
  BY <1>1, <1>2 DEF Fest
<1>9. Ausgefallen(v) = D /\ Ausgefallen(vt'[n]) = D \cup S
  BY <1>6, <1>7 DEF Ausgefallen, D
<1>10. IstLeiter(n)' /\ IstLeiter(n)
  BY <1>2, <1>5 DEF IstLeiter
<1> HIDE DEF v
<1>11. KTreu(n) /\ KRuhig(n)
  BY <1>2, <1>3 DEF Felder, KTreu, KRuhig
<1>12. EndeTreu(n) /\ TermTreu(n)
  BY <1>3, <1>7, <1>10 DEF Felder, EndeTreu, TermTreu, v
<1>13. LebenTreu(n)
  BY <1>2, <1>7, <1>9 DEF LebenTreu, Lebendig, v
<1>14. AusTreu(n)
  <2>1. ASSUME NEW a \in D \cup S
        PROVE  \/ a \in Ausgefallen(vt[n]) /\ vt'[n].ausgefallen[a] <= vt[n].ausgefallen[a]
               \/ vt'[n].ausgefallen[a] = 0
    <3>1. CASE a \in S
      BY <1>6, <1>7, <3>1
    <3>2. CASE a \notin S
      <4>1. a \in Ausgefallen(vt[n]) /\ vt'[n].ausgefallen[a] = vt[n].ausgefallen[a]
        BY <1>6, <1>7, <1>9, <2>1, <3>2 DEF v
      <4>2. vt[n].ausgefallen[a] \in Nat
        BY <1>3, <4>1 DEF Felder
      <4>3. QED BY <4>1, <4>2
    <3>3. QED BY <3>1, <3>2
  <2>2. QED BY <1>7, <1>9, <1>10, <2>1 DEF AusTreu, v
<1>15. AmtTreu(n)
  BY <1>2, <1>4, <1>5, <1>7, <1>9, <1>10 DEF AmtTreu, v
<1>16. KnotenTreu(n)
  BY <1>11, <1>12, <1>13, <1>14, <1>15 DEF KnotenTreu
<1>17. \A q \in netz' : \E m \in netz : Kopie(q, m)
  BY <1>2 DEF Kopie
<1>18. QED BY <1>2, <1>8, <1>16, <1>17, EinerRuhig

\* A leader begins to end its term: for a member that has just answered.
LEMMA AbschlussBeginntRuhig ==
  ASSUME AllInv, NEW n \in Validator, NEW naechster \in Validator, AbschlussBeginnt(n, naechster)
  PROVE  Ruhig
<1> DEFINE z == [k[n] EXCEPT !.uebergabeAn = naechster]
           v == [vt[n] EXCEPT !.abschliessenSeit = 0, !.abschlussVon = {}]
<1>1. /\ TypeOK /\ k[n] \in Knoten /\ vt[n] \in Stand
      /\ k \in [Validator -> Knoten] /\ vt \in [Validator -> Stand]
  BY Typen DEF AllInv, IInv, TypeOK
<1>2. /\ k' = [k EXCEPT ![n] = z] /\ vt' = [vt EXCEPT ![n] = v]
      /\ netz' = netz /\ uebergaben' = uebergaben
      /\ n \in Abgebende /\ k[n].rolle = "leiter" /\ k[n].acks[naechster] < LeaseDauer
  BY <1>1 DEF AbschlussBeginnt
<1>3. /\ z.rolle = k[n].rolle /\ z.term = k[n].term /\ z.leiter = k[n].leiter
      /\ z.letzteLease = k[n].letzteLease /\ z.acks = k[n].acks /\ z.uebergabeAn = naechster
  BY <1>1 DEF Knoten
<1>4. /\ v.term = vt[n].term /\ v.ausgefallen = vt[n].ausgefallen /\ v.termSeit = vt[n].termSeit
      /\ v.letzteBestaetigt = vt[n].letzteBestaetigt
      /\ v.abschlussGesehen = vt[n].abschlussGesehen /\ v.abschliessenSeit = 0
  BY <1>1 DEF Stand
<1> HIDE DEF z, v
<1>5. k'[n] = z /\ vt'[n] = v /\ \A x \in Validator \ {n} : Fest(x)
  BY <1>1, <1>2 DEF Fest
<1>6. Felder(n) /\ AusfallLeiter(n)
  BY AlleFelderOK DEF AllInv, EInv, AlleFelder
<1>7. /\ IstLeiter(n) /\ IstLeiter(n)' /\ n \notin Ausgefallen(vt[n])
      /\ Ausgefallen(vt'[n]) = Ausgefallen(vt[n])
  BY <1>2, <1>3, <1>4, <1>5, <1>6 DEF Felder, IstLeiter, AusfallLeiter, Ausgefallen
<1>8. KTreu(n) /\ KRuhig(n)
  BY <1>3, <1>5, <1>6 DEF Felder, KTreu, KRuhig
<1>9. EndeTreu(n) /\ TermTreu(n)
  BY <1>4, <1>5, <1>6, <1>7 DEF Felder, EndeTreu, TermTreu
<1>10. LebenTreu(n)
  BY <1>3, <1>4, <1>5, <1>7 DEF LebenTreu, Lebendig
<1>11. AusTreu(n)
  <2>1. ASSUME NEW a \in Ausgefallen(vt[n])
        PROVE  vt'[n].ausgefallen[a] <= vt[n].ausgefallen[a]
    <3>1. vt[n].ausgefallen[a] \in Nat
      BY <1>6 DEF Felder
    <3>2. QED BY <1>4, <1>5, <3>1
  <2>2. QED BY <1>4, <1>5, <1>7, <2>1 DEF AusTreu
<1>12. AmtTreu(n)
  BY <1>2, <1>3, <1>4, <1>5, <1>7 DEF AmtTreu
<1>13. KnotenTreu(n)
  BY <1>8, <1>9, <1>10, <1>11, <1>12 DEF KnotenTreu
<1>14. \A q \in netz' : \E m \in netz : Kopie(q, m)
  BY <1>2 DEF Kopie
<1>15. QED BY <1>2, <1>5, <1>13, <1>14, EinerRuhig

\* Frisch, field by field.
LEMMA FrischTut ==
  ASSUME NEW t, NEW S, NEW beleg, NEW v, v = Frisch(t, S, beleg)
  PROVE  /\ v.term = t /\ Ausgefallen(v) = S /\ \A a \in S : v.ausgefallen[a] = 0
         /\ v.termSeit = (IF beleg = {} THEN 0 ELSE Ruhezeit) /\ v.letzteBestaetigt = Halbe
         /\ ~v.abschlussGesehen /\ v.abschliessenSeit = LeaseDauer
BY DEF Frisch, Ausgefallen

\* A process that stops or starts: nobody has lately let it accept.
LEMMA FrischTreu ==
  ASSUME AllInv, NEW n \in Validator, NEW t, NEW S,
         vt'[n] = Frisch(t, S, {}), t \in {0, vt[n].term}, S \in {{}, Ausgefallen(vt[n])},
         k[n].leiter = n => t = vt[n].term /\ S = Ausgefallen(vt[n]),
         k[n].leiter # n => S = {} \/ t = vt[n].term,
         k'[n].term = k[n].term, k'[n].leiter = k[n].leiter, k'[n].letzteLease = 0,
         k'[n].acks = k[n].acks \/ k'[n].acks = KeineAcks, k'[n].uebergabeAn = Niemand, EndeTreu(n)
  PROVE  KnotenTreu(n)
<1>1. Felder(n) /\ AusfallLeiter(n)
  BY AlleFelderOK DEF AllInv, EInv, AlleFelder
<1>2. /\ vt'[n].term = t /\ Ausgefallen(vt'[n]) = S /\ \A a \in S : vt'[n].ausgefallen[a] = 0
      /\ vt'[n].termSeit = 0 /\ vt'[n].letzteBestaetigt = Halbe
  BY FrischTut
<1>3. KTreu(n) /\ KRuhig(n)
  BY <1>1 DEF Felder, KTreu, KRuhig
<1>4. TermTreu(n)
  BY <1>1, <1>2 DEF Felder, TermTreu
<1>5. LebenTreu(n)
  <2>1. ~(Halbe < Halbe)
    BY Zahlen
  <2>2. QED BY <1>2, <2>1 DEF LebenTreu, Lebendig
<1>6. AusTreu(n)
  <2>1. k[n].leiter = n => IstLeiter(n)'
    BY DEF IstLeiter
  <2>2. \A a \in Ausgefallen(vt[n]) : 0 <= vt[n].ausgefallen[a]
    BY <1>1 DEF Felder
  <2>3. QED BY <1>2, <2>1, <2>2 DEF AusTreu
<1>7. AmtTreu(n)
  <2>1. ASSUME k'[n].leiter = n
        PROVE  IstLeiter(n) /\ n \notin Ausgefallen(vt'[n]) /\ Ausgefallen(vt'[n]) = Ausgefallen(vt[n])
    BY <1>1, <1>2, <2>1 DEF AusfallLeiter, IstLeiter
  <2>2. \A v \in Validator : k'[n].acks[v] >= LeaseDauer \/ k'[n].acks[v] = k[n].acks[v]
    BY Zahlen DEF KeineAcks
  <2>3. QED BY <2>1, <2>2 DEF AmtTreu, IstLeiter
<1>8. QED BY <1>3, <1>4, <1>5, <1>6, <1>7 DEF KnotenTreu

\* A process that stops changes no term and lets nobody accept.
LEMMA AbsturzRuhig ==
  ASSUME AllInv, NEW n \in Validator, Absturz(n)
  PROVE  Ruhig
<1> DEFINE z == [k[n] EXCEPT !.rolle = "aus", !.letzteLease = 0, !.acks = KeineAcks,
                             !.uebergabeAn = Niemand, !.beleg = {}]
<1>1. /\ TypeOK /\ k[n] \in Knoten /\ vt[n] \in Stand
      /\ k \in [Validator -> Knoten] /\ vt \in [Validator -> Stand]
  BY Typen DEF AllInv, IInv, TypeOK
<1>2. /\ k' = [k EXCEPT ![n] = z] /\ vt' = [vt EXCEPT ![n] = Gespeichert(n)]
      /\ uebergaben' = uebergaben
      /\ netz' = {[m EXCEPT !.antwortbar = @ /\ m.von # n] : m \in {l \in netz : l.an # n}}
  BY DEF Absturz
<1>3. /\ z.term = k[n].term /\ z.leiter = k[n].leiter
      /\ z.letzteLease = 0 /\ z.acks = KeineAcks /\ z.uebergabeAn = Niemand
  BY <1>1 DEF Knoten
<1> HIDE DEF z
<1>4. k'[n] = z /\ vt'[n] = Gespeichert(n) /\ \A x \in Validator \ {n} : Fest(x)
  BY <1>1, <1>2 DEF Fest
<1>5. ASSUME NEW q \in netz'
      PROVE  q.an # n /\ \E m \in netz : Kopie(q, m)
  <2>1. PICK m \in netz : m.an # n /\ q = [m EXCEPT !.antwortbar = @ /\ m.von # n]
    BY <1>2
  <2>2. m \in Lease
    BY <1>1, Typen
  <2>3. QED BY <2>1, <2>2 DEF Lease, Kopie
<1>6. EndeTreu(n)
  BY <1>5 DEF EndeTreu
<1>7. Felder(n)
  BY AlleFelderOK DEF AllInv, AlleFelder
<1>8. KnotenTreu(n)
  <2>1. CASE k[n].leiter = n
    <3>1. vt'[n] = Frisch(vt[n].term, Ausgefallen(vt[n]), {})
      BY <1>4, <1>7, <2>1 DEF Gespeichert, Felder
    <3>2. QED BY <1>3, <1>4, <1>6, <2>1, <3>1, FrischTreu
  <2>2. CASE k[n].leiter # n
    <3>1. vt'[n] = Frisch(0, {}, {})
      BY <1>4, <2>2 DEF Gespeichert
    <3>2. QED BY <1>3, <1>4, <1>6, <2>2, <3>1, FrischTreu
  <2>3. QED BY <2>1, <2>2
<1>9. QED BY <1>2, <1>4, <1>5, <1>8, EinerRuhig

\* Nor does one that starts.
LEMMA StartRuhig ==
  ASSUME AllInv, NEW n \in Validator, Start(n)
  PROVE  Ruhig
<1> DEFINE z == [k[n] EXCEPT !.rolle = IF k[n].leiter = n THEN "leiter" ELSE "folger",
                             !.letzteLease = 0, !.leiterSeit = 0]
           v == Frisch(vt[n].term, Ausgefallen(vt[n]), {})
<1>1. /\ TypeOK /\ k[n] \in Knoten /\ vt[n] \in Stand
      /\ k \in [Validator -> Knoten] /\ vt \in [Validator -> Stand]
  BY Typen DEF AllInv, IInv, TypeOK
<1>2. /\ k' = [k EXCEPT ![n] = z] /\ vt' = [vt EXCEPT ![n] = v]
      /\ uebergaben' = uebergaben /\ netz' = netz /\ k[n].rolle = "aus"
  BY <1>1 DEF Start, An
<1>3. /\ z.term = k[n].term /\ z.leiter = k[n].leiter
      /\ z.letzteLease = 0 /\ z.acks = k[n].acks /\ z.uebergabeAn = k[n].uebergabeAn
  BY <1>1 DEF Knoten
<1>4. Felder(n)
  BY AlleFelderOK DEF AllInv, AlleFelder
<1>5. k[n].uebergabeAn = Niemand /\ (k[n].leiter # n => vt[n].term = 0)
  <2>1. KnotenOK(n, Lage(n), n \in abgestuerzt) /\ Lage(n).k = k[n] /\ Lage(n).vt = vt[n]
    BY <1>1, Typen DEF AllInv, IInv
  <2>2. QED BY <1>2, <2>1 DEF KnotenOK
<1> HIDE DEF z
<1>6. k'[n] = z /\ vt'[n] = v /\ \A x \in Validator \ {n} : Fest(x)
  BY <1>1, <1>2 DEF Fest
<1>7. EndeTreu(n)
  BY <1>4, <1>5 DEF EndeTreu, IstLeiter, Felder
<1>8. KnotenTreu(n)
  <2>1. CASE k[n].leiter = n
    BY <1>3, <1>5, <1>6, <1>7, <2>1, FrischTreu
  <2>2. CASE k[n].leiter # n
    BY <1>3, <1>5, <1>6, <1>7, <2>2, FrischTreu
  <2>3. QED BY <2>1, <2>2
<1>9. \A q \in netz' : \E m \in netz : Kopie(q, m)
  BY <1>2 DEF Kopie
<1>10. QED BY <1>2, <1>6, <1>8, <1>9, EinerRuhig

\* A lease noted: what it says of acceptance, of the end and of who is out.
LEMMA FolgerLeaseFelder ==
  ASSUME NEW n \in Validator, NEW s \in LageTyp, NEW m \in Lease,
         NEW r, r = FolgerLeaseVerteilt(n, s, m)
  PROVE  /\ r.k = s.k /\ r.vt.term = m.term
         /\ r.vt.abschlussGesehen <=> m.abschluss \/ (s.vt.term = m.term /\ s.vt.abschlussGesehen)
         /\ ~m.bestaetigt => r.vt.letzteBestaetigt =
              IF s.vt.term = m.term THEN s.vt.letzteBestaetigt ELSE Halbe
         /\ s.vt.term = m.term => /\ r.vt.termSeit = s.vt.termSeit
                                  /\ Ausgefallen(s.vt) \subseteq Ausgefallen(r.vt)
         /\ s.vt.term # m.term => r.vt.termSeit = 0 \/ m.uebergabe # {}
         /\ m.ausgefallen \subseteq Ausgefallen(r.vt)
         /\ \A a \in Ausgefallen(r.vt) :
              \/ /\ s.vt.term = m.term /\ a \in Ausgefallen(s.vt)
                 /\ r.vt.ausgefallen[a] = s.vt.ausgefallen[a]
              \/ a \in m.ausgefallen /\ r.vt.ausgefallen[a] = 0
<1> DEFINE q == IF s.vt.term = m.term THEN s ELSE NeuerTermVerteilt(n, s, m.term, m.uebergabe)
           D == DOMAIN q.vt.ausgefallen
           f == [a \in D \cup m.ausgefallen |-> IF a \in D THEN q.vt.ausgefallen[a] ELSE 0]
           g == q.vt.abschlussGesehen \/ m.abschluss
           h == IF m.bestaetigt THEN 0 ELSE q.vt.letzteBestaetigt
           v == [q.vt EXCEPT !.ausgefallen = f, !.abschlussGesehen = g, !.letzteBestaetigt = h]
<1>1. /\ m.term \in 0 .. MaxTerm /\ m.uebergabe \in SUBSET Validator
      /\ m.ausgefallen \in SUBSET Validator
  BY Zahlen DEF Lease
<1>2. ASSUME s.vt.term # m.term
      PROVE  q \in LageTyp /\ q.k = s.k /\ q.vt = Frisch(m.term, {}, m.uebergabe)
  <2>1. q = NeuerTermVerteilt(n, s, m.term, m.uebergabe)
    BY <1>2
  <2> HIDE DEF q
  <2>2. QED BY <1>1, <2>1, NeuerTermTut
<1>3. s.vt.term = m.term => q = s
  OBVIOUS
<1> HIDE DEF q
<1>4. s.vt.term # m.term =>
        /\ q.vt.term = m.term /\ Ausgefallen(q.vt) = {} /\ q.vt.letzteBestaetigt = Halbe
        /\ q.vt.termSeit = 0 \/ m.uebergabe # {}
        /\ ~q.vt.abschlussGesehen
  <2> SUFFICES ASSUME s.vt.term # m.term, NEW w, w = q.vt
               PROVE  /\ w.term = m.term /\ Ausgefallen(w) = {} /\ w.letzteBestaetigt = Halbe
                      /\ w.termSeit = 0 \/ m.uebergabe # {}
                      /\ ~w.abschlussGesehen
    OBVIOUS
  <2>1. w = Frisch(m.term, {}, m.uebergabe)
    BY <1>2
  <2>2. QED BY <2>1, FrischTut
<1>5. q \in LageTyp /\ q.k = s.k /\ q.vt.term = m.term
  BY <1>2, <1>3, <1>4
<1>6. q.vt \in Stand /\ q.k \in Knoten /\ q.verwirft \in BOOLEAN
      /\ q = [k |-> q.k, vt |-> q.vt, verwirft |-> q.verwirft]
  BY <1>5 DEF LageTyp
<1>7. /\ v.term = q.vt.term /\ v.abschlussGesehen = g /\ v.ausgefallen = f
      /\ v.letzteBestaetigt = h /\ v.termSeit = q.vt.termSeit
  <2> HIDE DEF f, g, h
  <2>1. QED BY <1>6 DEF Stand
<1>8. r = [k |-> q.k, vt |-> v, verwirft |-> q.verwirft]
  <2>1. r = [q EXCEPT !.vt.ausgefallen = f, !.vt.abschlussGesehen = g, !.vt.letzteBestaetigt = h]
    BY DEF FolgerLeaseVerteilt, q
  <2> HIDE DEF f, g, h
  <2>2. QED BY <1>6, <2>1
<1>9. r.k = q.k /\ r.vt = v
  BY <1>8
<1>10. /\ DOMAIN f = D \cup m.ausgefallen
       /\ \A a \in D \cup m.ausgefallen : f[a] = IF a \in D THEN q.vt.ausgefallen[a] ELSE 0
  OBVIOUS
<1> HIDE DEF v, f
<1>11. Ausgefallen(r.vt) = D \cup m.ausgefallen /\ D = Ausgefallen(q.vt)
  BY <1>7, <1>9, <1>10 DEF Ausgefallen
<1> HIDE DEF D
<1>12. /\ r.k = s.k /\ r.vt.term = m.term
       /\ r.vt.abschlussGesehen <=> m.abschluss \/ (s.vt.term = m.term /\ s.vt.abschlussGesehen)
  <2>1. r.vt.abschlussGesehen = g
    BY <1>7, <1>9
  <2>2. CASE s.vt.term = m.term
    BY <1>3, <1>5, <1>7, <1>9, <2>1, <2>2
  <2>3. CASE s.vt.term # m.term
    BY <1>4, <1>5, <1>7, <1>9, <2>1, <2>3
  <2>4. QED BY <2>2, <2>3
<1>13. ~m.bestaetigt => r.vt.letzteBestaetigt =
         IF s.vt.term = m.term THEN s.vt.letzteBestaetigt ELSE Halbe
  BY <1>3, <1>4, <1>7, <1>9
<1>14. /\ s.vt.term = m.term => /\ r.vt.termSeit = s.vt.termSeit
                                /\ Ausgefallen(s.vt) \subseteq Ausgefallen(r.vt)
       /\ s.vt.term # m.term => r.vt.termSeit = 0 \/ m.uebergabe # {}
  BY <1>3, <1>4, <1>7, <1>9, <1>11
<1>15. ASSUME NEW a \in Ausgefallen(r.vt)
       PROVE  \/ /\ s.vt.term = m.term /\ a \in Ausgefallen(s.vt)
                 /\ r.vt.ausgefallen[a] = s.vt.ausgefallen[a]
              \/ a \in m.ausgefallen /\ r.vt.ausgefallen[a] = 0
  <2>1. a \in D \cup m.ausgefallen /\ r.vt.ausgefallen[a] = f[a]
    BY <1>7, <1>9, <1>11
  <2>2. CASE a \in D
    <3>1. f[a] = q.vt.ausgefallen[a] /\ a \in Ausgefallen(q.vt)
      BY <1>10, <1>11, <2>1, <2>2
    <3>2. QED BY <1>3, <1>4, <2>1, <3>1
  <2>3. CASE a \notin D
    BY <1>10, <2>1, <2>3
  <2>4. QED BY <2>2, <2>3
<1>16. QED BY <1>11, <1>12, <1>13, <1>14, <1>15

\* The same of the node that gets the lease.
LEMMA NachLeaseFelder ==
  ASSUME NEW n \in Validator, NEW m \in Lease, m.von # n, NEW g, NEW s \in LageTyp, s = Lage(n),
         KnotenOK(n, s, g), s.k.rolle # "aus", ~LeaseAblehnen(k[n], m), NEW r, r = NachLease(n, m)
  PROVE  /\ r.k.letzteLease = 0 /\ r.vt.term = m.term
         /\ r.vt.abschlussGesehen <=> m.abschluss \/ (s.vt.term = m.term /\ s.vt.abschlussGesehen)
         /\ ~m.bestaetigt => r.vt.letzteBestaetigt =
              IF s.vt.term = m.term THEN s.vt.letzteBestaetigt ELSE Halbe
         /\ s.vt.term = m.term => /\ r.vt.termSeit = s.vt.termSeit
                                  /\ Ausgefallen(s.vt) \subseteq Ausgefallen(r.vt)
         /\ s.vt.term # m.term => r.vt.termSeit = 0 \/ m.uebergabe # {}
         /\ m.ausgefallen \subseteq Ausgefallen(r.vt)
         /\ \A a \in Ausgefallen(r.vt) :
              \/ /\ s.vt.term = m.term /\ a \in Ausgefallen(s.vt)
                 /\ r.vt.ausgefallen[a] = s.vt.ausgefallen[a]
              \/ a \in m.ausgefallen /\ r.vt.ausgefallen[a] = 0
<1> DEFINE p == IF m.term > s.k.term \/ s.k.leiter = Niemand
                THEN WerdeFolger(s, m.term, m.von) ELSE s
           q == [p EXCEPT !.k.letzteLease = 0]
<1>1. /\ s.k = k[n] /\ m.term \in 1 .. MaxTerm /\ m.von \in Wer
      /\ s.k \in Knoten /\ s.vt \in Stand
  BY LageTypen, Zahlen DEF Lage, Lease, Wer
<1>2. /\ p \in LageTyp /\ p.vt.term = s.vt.term /\ p.vt.ausgefallen = s.vt.ausgefallen
      /\ p.vt.abschlussGesehen = s.vt.abschlussGesehen /\ p.vt.termSeit = s.vt.termSeit
      /\ p.vt.letzteBestaetigt = s.vt.letzteBestaetigt
  <2>1. CASE m.term > s.k.term \/ s.k.leiter = Niemand
    <3>1. p = WerdeFolger(s, m.term, m.von)
      BY <2>1
    <3> HIDE DEF p
    <3>2. p \in LageTyp
      BY <1>1, <3>1, WerdeFolgerTut
    <3> DEFINE b == s.vt.ueberholtGemeldet \/ (s.k.rolle = "leiter" /\ m.term > s.k.term)
    <3>3. p.vt = [s.vt EXCEPT !.ueberholtGemeldet = b]
      BY <3>1 DEF WerdeFolger
    <3> HIDE DEF b
    <3>4. QED BY <1>1, <3>2, <3>3 DEF Stand
  <2>2. CASE ~(m.term > s.k.term \/ s.k.leiter = Niemand)
    BY <2>2
  <2>3. QED BY <2>1, <2>2
<1>3. r = FolgerLeaseVerteilt(n, q, m)
  BY <1>1 DEF NachLease, Lage, p
<1> HIDE DEF p
<1>4. /\ q = [k |-> [p.k EXCEPT !.letzteLease = 0], vt |-> p.vt, verwirft |-> p.verwirft]
      /\ p.k \in Knoten /\ p.vt \in Stand /\ p.verwirft \in BOOLEAN
  BY <1>2 DEF LageTyp
<1>5. [p.k EXCEPT !.letzteLease = 0] \in Knoten /\ [p.k EXCEPT !.letzteLease = 0].letzteLease = 0
  <2>1. 0 \in 0 .. FolgerFrist
    BY Zahlen
  <2>2. QED BY <1>4, <2>1 DEF Knoten
<1> HIDE DEF q
<1>6. q \in LageTyp /\ q.k.letzteLease = 0 /\ q.vt = p.vt
  BY <1>4, <1>5 DEF LageTyp
<1>7. /\ q.vt.term = s.vt.term /\ q.vt.ausgefallen = s.vt.ausgefallen
      /\ q.vt.abschlussGesehen = s.vt.abschlussGesehen /\ q.vt.termSeit = s.vt.termSeit
      /\ q.vt.letzteBestaetigt = s.vt.letzteBestaetigt /\ Ausgefallen(q.vt) = Ausgefallen(s.vt)
  BY <1>2, <1>6 DEF Ausgefallen
<1>8. /\ r.k = q.k /\ r.vt.term = m.term
      /\ r.vt.abschlussGesehen <=> m.abschluss \/ (q.vt.term = m.term /\ q.vt.abschlussGesehen)
      /\ ~m.bestaetigt => r.vt.letzteBestaetigt =
           IF q.vt.term = m.term THEN q.vt.letzteBestaetigt ELSE Halbe
      /\ q.vt.term = m.term => /\ r.vt.termSeit = q.vt.termSeit
                               /\ Ausgefallen(q.vt) \subseteq Ausgefallen(r.vt)
      /\ q.vt.term # m.term => r.vt.termSeit = 0 \/ m.uebergabe # {}
      /\ m.ausgefallen \subseteq Ausgefallen(r.vt)
      /\ \A a \in Ausgefallen(r.vt) :
           \/ /\ q.vt.term = m.term /\ a \in Ausgefallen(q.vt)
              /\ r.vt.ausgefallen[a] = q.vt.ausgefallen[a]
           \/ a \in m.ausgefallen /\ r.vt.ausgefallen[a] = 0
  BY <1>3, <1>6, FolgerLeaseFelder
<1>9. QED BY <1>6, <1>7, <1>8

\* What the answer of n makes of the leader l: it has learned of a higher term,
\* or has one more answer to a lease of its term.
LEMMA NachQuittungFelder ==
  ASSUME NEW n \in Validator, NEW l \in Validator, NEW m \in Lease, NEW s \in LageTyp,
         NEW o \in LageTyp, o = Lage(l), NEW r, r = NachQuittung(l, n, s, m)
  PROVE  \/ r = o
         \/ /\ LeaseAblehnen(k[n], m) /\ s.k.term > o.k.term
            /\ r.k.term = s.k.term /\ r.k.leiter = Niemand
            /\ r.vt.term = o.vt.term /\ r.vt.ausgefallen = o.vt.ausgefallen
            /\ r.vt.termSeit = o.vt.termSeit
         \/ /\ ~LeaseAblehnen(k[n], m) /\ o.k.rolle = "leiter" /\ o.k.term = m.term
            /\ r.k.rolle = "leiter" /\ r.k.term = o.k.term /\ r.k.leiter = o.k.leiter
            /\ r.k.letzteLease = o.k.letzteLease /\ r.k.uebergabeAn = o.k.uebergabeAn
            /\ \A x \in Validator \ {n} : r.k.acks[x] = o.k.acks[x]
            /\ r.vt.term = o.vt.term /\ r.vt.ausgefallen = o.vt.ausgefallen
            /\ r.vt.termSeit = o.vt.termSeit /\ r.vt.letzteBestaetigt = o.vt.letzteBestaetigt
            /\ r.vt.abschlussGesehen = o.vt.abschlussGesehen
            /\ r.vt.abschliessenSeit = o.vt.abschliessenSeit
<1>1. /\ o.k \in Knoten /\ o.vt \in Stand /\ o.verwirft \in BOOLEAN
      /\ s.k.term \in 1 .. MaxTerm /\ Niemand \in Wer
      /\ o = [k |-> o.k, vt |-> o.vt, verwirft |-> o.verwirft]
  BY LageTypen DEF Wer, LageTyp
<1>2. CASE LeaseAblehnen(k[n], m) /\ s.k.term > o.k.term /\ r = WerdeFolger(o, s.k.term, Niemand)
  <2>1. r.k.term = s.k.term /\ r.k.leiter = Niemand
    BY <1>1, <1>2, WerdeFolgerTut
  <2> DEFINE b == o.vt.ueberholtGemeldet \/ (o.k.rolle = "leiter" /\ s.k.term > o.k.term)
  <2>2. r.vt = [o.vt EXCEPT !.ueberholtGemeldet = b]
    BY <1>2 DEF WerdeFolger
  <2> HIDE DEF b
  <2>3. r.vt.term = o.vt.term /\ r.vt.ausgefallen = o.vt.ausgefallen /\ r.vt.termSeit = o.vt.termSeit
    BY <1>1, <2>2 DEF Stand
  <2>4. QED BY <1>2, <2>1, <2>3
<1>3. CASE ~LeaseAblehnen(k[n], m) /\ o.k.rolle = "leiter" /\ o.k.term = m.term
  <2> DEFINE a == IF m.alter < o.k.acks[n] THEN m.alter ELSE o.k.acks[n]
             A == IF o.k.uebergabeAn # Niemand /\ QuittungEntleert(n, s)
                  THEN o.vt.abschlussVon \cup {n} ELSE o.vt.abschlussVon
             z == [o.k EXCEPT !.acks[n] = a]
             v == [o.vt EXCEPT !.abschlussVon = A]
  <2>1. r = [o EXCEPT !.k.acks[n] = a, !.vt.abschlussVon = A]
    BY <1>3 DEF NachQuittung
  <2> HIDE DEF a, A
  <2>2. r = [k |-> z, vt |-> v, verwirft |-> o.verwirft]
    BY <1>1, <2>1
  <2>3. z = [o.k EXCEPT !.acks = [o.k.acks EXCEPT ![n] = a]] /\ o.k.acks \in [Validator -> 0 .. LeaseDauer]
    BY <1>1 DEF Knoten
  <2>4. /\ v.term = o.vt.term /\ v.ausgefallen = o.vt.ausgefallen
        /\ v.termSeit = o.vt.termSeit /\ v.letzteBestaetigt = o.vt.letzteBestaetigt
        /\ v.abschlussGesehen = o.vt.abschlussGesehen
        /\ v.abschliessenSeit = o.vt.abschliessenSeit
    BY <1>1 DEF Stand
  <2> HIDE DEF z, v
  <2>5. /\ z.rolle = o.k.rolle /\ z.term = o.k.term /\ z.leiter = o.k.leiter
        /\ z.letzteLease = o.k.letzteLease /\ z.uebergabeAn = o.k.uebergabeAn
        /\ \A x \in Validator \ {n} : z.acks[x] = o.k.acks[x]
    BY <1>1, <2>3 DEF Knoten
  <2>6. r.k = z /\ r.vt = v
    BY <2>2
  <2>7. QED BY <1>3, <2>4, <2>5, <2>6
<1>4. \/ r = o
      \/ LeaseAblehnen(k[n], m) /\ s.k.term > o.k.term /\ r = WerdeFolger(o, s.k.term, Niemand)
      \/ ~LeaseAblehnen(k[n], m) /\ o.k.rolle = "leiter" /\ o.k.term = m.term
  BY DEF NachQuittung
<1>5. QED BY <1>2, <1>3, <1>4

\* Whoever gets a lease that it does not reject follows its sender.
LEMMA FolgtTreu ==
  ASSUME AllInv, NEW m, Brief(m), NEW n \in Validator, n = m.an,
         k[n].rolle # "aus", ~LeaseAblehnen(k[n], m), NEW s, s = NachLease(n, m),
         k'[n] = s.k, vt'[n] = s.vt
  PROVE  /\ KnotenTreu(n)
         /\ k'[n].term = m.term /\ k'[n].leiter = m.von /\ k'[n].letzteLease = 0
<1>1. /\ m \in Lease /\ m.von # n /\ m.von \in Validator /\ m.von # Niemand /\ m.term \in Nat
      /\ TypeOK /\ TermeOK /\ Felder(n)
  BY BriefOK, AlleFelderOK, Zahlen DEF AllInv, IInv, EInv, Lease, AlleFelder
<1>2. ASSUME NEW o \in LageTyp, o = Lage(n), o.k = k[n], o.vt = vt[n],
             KnotenOK(n, o, n \in abgestuerzt)
      PROVE  /\ s.k.term = m.term /\ s.k.leiter = m.von /\ s.k.letzteLease = 0
             /\ o.k.term <= m.term
             /\ o.k.term = m.term => o.k.leiter \in {Niemand, m.von}
             /\ s.vt.term = m.term
             /\ s.vt.abschlussGesehen <=> m.abschluss \/ (o.vt.term = m.term /\ o.vt.abschlussGesehen)
             /\ ~m.bestaetigt => s.vt.letzteBestaetigt =
                  IF o.vt.term = m.term THEN o.vt.letzteBestaetigt ELSE Halbe
             /\ o.vt.term = m.term => /\ s.vt.termSeit = o.vt.termSeit
                                      /\ Ausgefallen(o.vt) \subseteq Ausgefallen(s.vt)
             /\ o.vt.term # m.term => s.vt.termSeit = 0 \/ m.uebergabe # {}
             /\ m.ausgefallen \subseteq Ausgefallen(s.vt)
             /\ \A a \in Ausgefallen(s.vt) :
                  \/ /\ o.vt.term = m.term /\ a \in Ausgefallen(o.vt)
                     /\ s.vt.ausgefallen[a] = o.vt.ausgefallen[a]
                  \/ a \in m.ausgefallen /\ s.vt.ausgefallen[a] = 0
  <2>1. o.k.rolle # "aus"
    BY <1>2
  <2>2. /\ s.k.term = m.term /\ s.k.leiter = m.von /\ o.k.term <= m.term
        /\ o.k.term = m.term => o.k.leiter \in {Niemand, m.von}
    BY <1>1, <1>2, <2>1, NachLeaseTut
  <2>3. QED BY <1>1, <1>2, <2>1, <2>2, NachLeaseFelder
<1>3. /\ Lage(n) \in LageTyp /\ Lage(n).k = k[n] /\ Lage(n).vt = vt[n]
      /\ KnotenOK(n, Lage(n), n \in abgestuerzt)
  BY <1>1, Typen DEF AllInv, IInv
<1>4. /\ k'[n].term = m.term /\ k'[n].leiter = m.von /\ k'[n].letzteLease = 0
      /\ k[n].term <= m.term
      /\ k[n].term = m.term => k[n].leiter \in {Niemand, m.von}
      /\ vt'[n].term = m.term
      /\ vt'[n].abschlussGesehen <=> m.abschluss \/ (vt[n].term = m.term /\ vt[n].abschlussGesehen)
      /\ ~m.bestaetigt => vt'[n].letzteBestaetigt =
           IF vt[n].term = m.term THEN vt[n].letzteBestaetigt ELSE Halbe
      /\ vt[n].term = m.term => /\ vt'[n].termSeit = vt[n].termSeit
                                /\ Ausgefallen(vt[n]) \subseteq Ausgefallen(vt'[n])
      /\ vt[n].term # m.term => vt'[n].termSeit = 0 \/ m.uebergabe # {}
      /\ m.ausgefallen \subseteq Ausgefallen(vt'[n])
      /\ \A a \in Ausgefallen(vt'[n]) :
           \/ /\ vt[n].term = m.term /\ a \in Ausgefallen(vt[n])
              /\ vt'[n].ausgefallen[a] = vt[n].ausgefallen[a]
           \/ a \in m.ausgefallen /\ vt'[n].ausgefallen[a] = 0
  BY <1>2, <1>3
<1>5. /\ k[n].term \in Nat /\ vt[n].term \in Nat /\ vt[n].term <= k[n].term
      /\ k[n].letzteLease \in Nat /\ vt[n].termSeit \in Nat
      /\ \A a \in Ausgefallen(vt[n]) : vt[n].ausgefallen[a] \in Nat
  BY <1>1 DEF Felder
<1>6. KTreu(n)
  BY <1>1, <1>4, <1>5 DEF KTreu
<1>7. EndeTreu(n)
  BY <1>1, <1>4, <1>5 DEF EndeTreu
<1>8. LebenTreu(n)
  <2>1. SUFFICES ASSUME Lebendig(n)' PROVE LebenTreu(n)
    BY DEF LebenTreu
  <2>2. CASE m.bestaetigt
    <3>1. Wirkt(m)
      BY <1>4, <2>1 DEF Wirkt, Lebendig
    <3>2. QED BY <1>4, <2>2, <3>1 DEF LebenTreu
  <2>3. CASE ~m.bestaetigt
    <3>1. vt[n].term = m.term /\ vt'[n].letzteBestaetigt = vt[n].letzteBestaetigt
      <4>1. vt'[n].letzteBestaetigt < Halbe /\ ~(Halbe < Halbe)
        BY <2>1, Zahlen DEF Lebendig
      <4>2. QED BY <1>4, <2>3, <4>1
    <3>2. k[n].term = m.term
      BY <1>1, <1>4, <1>5, <3>1
    <3>3. k[n].leiter # Niemand
      BY <1>1, <1>5, <3>1, <3>2 DEF TermeOK
    <3>4. k'[n].leiter = k[n].leiter /\ k'[n].term = k[n].term
      BY <1>4, <3>2, <3>3
    <3>5. Lebendig(n)
      BY <1>4, <2>1, <3>1, <3>2 DEF Lebendig
    <3>6. QED BY <1>4, <3>1, <3>4, <3>5 DEF LebenTreu
  <2>4. QED BY <2>2, <2>3
<1>9. AusTreu(n)
  <2>1. ASSUME NEW a \in Ausgefallen(vt'[n])
        PROVE  \/ /\ vt'[n].term = vt[n].term /\ a \in Ausgefallen(vt[n])
                  /\ vt'[n].ausgefallen[a] <= vt[n].ausgefallen[a]
               \/ vt'[n].ausgefallen[a] = 0 /\ a \in m.ausgefallen
    BY <1>4, <1>5
  <2>2. QED BY <1>4, <2>1 DEF AusTreu
<1>10. TermTreu(n)
  <2>1. CASE vt[n].term = m.term
    BY <1>4, <1>5, <2>1 DEF TermTreu
  <2>2. CASE vt[n].term # m.term
    BY <1>4, <2>2 DEF TermTreu
  <2>3. QED BY <2>1, <2>2
<1>11. AmtTreu(n)
  BY <1>1, <1>4 DEF AmtTreu, IstLeiter
<1>12. KRuhig(n)
  BY <1>4 DEF KRuhig, Folgt
<1>13. QED BY <1>4, <1>6, <1>7, <1>8, <1>9, <1>10, <1>11, <1>12 DEF KnotenTreu

\* Whoever learns of a higher term has no leader in it.
LEMMA GelerntTreu ==
  ASSUME AllInv, NEW l \in Validator, NEW n \in Validator,
         k'[l].term = k[n].term, k[n].term > k[l].term, k'[l].leiter = Niemand,
         vt'[l].term = vt[l].term, vt'[l].ausgefallen = vt[l].ausgefallen,
         vt'[l].termSeit = vt[l].termSeit
  PROVE  KnotenTreu(l)
<1>1. Felder(l) /\ Felder(n) /\ l # Niemand
  BY AlleFelderOK, Zahlen DEF AllInv, AlleFelder
<1>2. /\ k[l].term \in Nat /\ k[n].term \in Nat /\ vt[l].term \in Nat /\ vt[l].term <= k[l].term
      /\ vt[l].termSeit \in Nat /\ vt'[l].term # k'[l].term
      /\ \A a \in Ausgefallen(vt[l]) : vt[l].ausgefallen[a] \in Nat
  BY <1>1 DEF Felder
<1>3. KTreu(l) /\ KRuhig(l)
  BY <1>2 DEF KTreu, KRuhig
<1>4. EndeTreu(l)
  BY DEF EndeTreu
<1>5. TermTreu(l)
  BY <1>2 DEF TermTreu
<1>6. LebenTreu(l)
  BY <1>2 DEF LebenTreu, Lebendig
<1>7. AusTreu(l)
  <2>1. \A a \in Ausgefallen(vt[l]) : vt'[l].ausgefallen[a] <= vt[l].ausgefallen[a]
    BY <1>2
  <2>2. Ausgefallen(vt'[l]) = Ausgefallen(vt[l])
    BY DEF Ausgefallen
  <2>3. QED BY <2>1, <2>2 DEF AusTreu
<1>8. AmtTreu(l)
  BY <1>1 DEF AmtTreu, IstLeiter
<1>9. QED BY <1>3, <1>4, <1>5, <1>6, <1>7, <1>8 DEF KnotenTreu

\* Whoever gets an answer counts it only if the member follows it now.
LEMMA GehoertTreu ==
  ASSUME AllInv, NEW l \in Validator, NEW n \in Validator, n # l,
         k'[n].term = k[l].term, k'[n].leiter = l, k'[n].letzteLease = 0,
         k'[l].rolle = k[l].rolle, k'[l].term = k[l].term, k'[l].leiter = k[l].leiter,
         k'[l].letzteLease = k[l].letzteLease, k'[l].uebergabeAn = k[l].uebergabeAn,
         \A x \in Validator \ {n} : k'[l].acks[x] = k[l].acks[x],
         vt'[l].term = vt[l].term, vt'[l].ausgefallen = vt[l].ausgefallen,
         vt'[l].termSeit = vt[l].termSeit, vt'[l].letzteBestaetigt = vt[l].letzteBestaetigt,
         vt'[l].abschlussGesehen = vt[l].abschlussGesehen,
         vt'[l].abschliessenSeit = vt[l].abschliessenSeit
  PROVE  KnotenTreu(l)
<1>1. Felder(l) /\ AusfallLeiter(l)
  BY AlleFelderOK DEF AllInv, EInv, AlleFelder
<1>2. Ausgefallen(vt'[l]) = Ausgefallen(vt[l])
  BY DEF Ausgefallen
<1>3. KTreu(l) /\ KRuhig(l)
  BY <1>1 DEF Felder, KTreu, KRuhig
<1>4. EndeTreu(l) /\ TermTreu(l)
  BY <1>1 DEF Felder, EndeTreu, TermTreu
<1>5. LebenTreu(l)
  BY <1>2 DEF LebenTreu, Lebendig
<1>6. AusTreu(l)
  <2>1. \A a \in Ausgefallen(vt[l]) : vt'[l].ausgefallen[a] <= vt[l].ausgefallen[a]
    BY <1>1 DEF Felder
  <2>2. QED BY <1>2, <2>1 DEF AusTreu
<1>7. AmtTreu(l)
  <2>1. IstLeiter(l)' => IstLeiter(l) /\ l \notin Ausgefallen(vt[l])
    BY <1>1 DEF IstLeiter, AusfallLeiter
  <2>2. QED BY <1>2, <2>1 DEF AmtTreu
<1>8. QED BY <1>3, <1>4, <1>5, <1>6, <1>7 DEF KnotenTreu

\* A lease and its answer.
LEMMA AntwortenRuhig ==
  ASSUME AllInv, NEW m, Brief(m), Antworten(m), netz' \subseteq netz
  PROVE  Ruhig
<1>1. /\ m \in Lease /\ m.an # m.von /\ TypeOK /\ m.an \in Validator /\ m.von \in Validator
  BY BriefOK DEF AllInv, IInv, Lease
<1> SUFFICES ASSUME NEW n \in Validator, NEW l \in Validator, n = m.an, l = m.von, n # l
             PROVE  Ruhig
  BY <1>1
<1> DEFINE s == NachLease(n, m)
           kommtAn == An(l) /\ m.antwortbar /\ Erreicht(n, l)
           r == IF kommtAn THEN NachQuittung(l, n, s, m) ELSE Lage(l)
<1>2. /\ k' = [k EXCEPT ![n] = s.k, ![l] = r.k] /\ vt' = [vt EXCEPT ![n] = s.vt, ![l] = r.vt]
      /\ k[n].rolle # "aus" /\ uebergaben' = uebergaben
  BY DEF Antworten, An
<1>3. r = Lage(l) \/ r = NachQuittung(l, n, s, m)
  OBVIOUS
<1>4. s = NachLease(n, m)
  OBVIOUS
<1> HIDE DEF s, r, kommtAn
<1>5. \A x \in Validator : /\ Lage(x) \in LageTyp /\ Lage(x).k = k[x] /\ Lage(x).vt = vt[x]
                           /\ KnotenOK(x, Lage(x), x \in abgestuerzt)
  BY <1>1, Typen DEF AllInv, IInv
<1>6. LeaseAblehnen(k[n], m) => s = Lage(n)
  BY <1>4 DEF NachLease, Lage
<1>7. s \in LageTyp
  <2>1. CASE LeaseAblehnen(k[n], m)
    BY <1>5, <1>6, <2>1
  <2>2. CASE ~LeaseAblehnen(k[n], m)
    <3>1. SUFFICES ASSUME NEW o \in LageTyp, o = Lage(n), o.k = k[n],
                          KnotenOK(n, o, n \in abgestuerzt)
                   PROVE  s \in LageTyp
      BY <1>5
    <3>2. o.k.rolle # "aus" /\ m.von # n
      BY <1>1, <1>2, <3>1
    <3>3. QED BY <1>1, <1>4, <2>2, <3>1, <3>2, NachLeaseTut
  <2>3. QED BY <2>1, <2>2
<1>8. /\ k'[n] = s.k /\ vt'[n] = s.vt /\ k'[l] = r.k /\ vt'[l] = r.vt
      /\ \A x \in Validator \ {n, l} : Fest(x)
  BY <1>1, <1>2 DEF TypeOK, Fest
<1>9. ~LeaseAblehnen(k[n], m) =>
        /\ KnotenTreu(n)
        /\ k'[n].term = m.term /\ k'[n].leiter = l /\ k'[n].letzteLease = 0
  <2>1. SUFFICES ASSUME ~LeaseAblehnen(k[n], m)
                 PROVE  /\ KnotenTreu(n) /\ k'[n].term = m.term /\ k'[n].leiter = m.von
                        /\ k'[n].letzteLease = 0
    OBVIOUS
  <2>2. ASSUME NEW t, t = NachLease(n, m), k'[n] = t.k, vt'[n] = t.vt
        PROVE  /\ KnotenTreu(n) /\ k'[n].term = m.term /\ k'[n].leiter = m.von
               /\ k'[n].letzteLease = 0
    <3>1. k[n].rolle # "aus"
      BY <1>2
    <3>2. QED BY <2>1, <2>2, <3>1, FolgtTreu
  <2>3. QED BY <1>4, <1>8, <2>2
<1>10. KnotenTreu(n)
  <2>1. CASE LeaseAblehnen(k[n], m)
    <3>1. Fest(n)
      BY <1>5, <1>6, <1>8, <2>1 DEF Fest
    <3>2. QED BY <3>1, FestTreu
  <2>2. QED BY <1>9, <2>1
<1>11. KnotenTreu(l)
  <2>1. CASE r = Lage(l)
    <3>1. Fest(l)
      BY <1>5, <1>8, <2>1 DEF Fest
    <3>2. QED BY <3>1, FestTreu
  <2>2. CASE r = NachQuittung(l, n, s, m) /\ r # Lage(l)
    <3>1. SUFFICES ASSUME NEW o \in LageTyp, o = Lage(l), o.k = k[l], o.vt = vt[l], r # o
                   PROVE  KnotenTreu(l)
      BY <1>5, <2>2
    <3>2. \/ /\ LeaseAblehnen(k[n], m) /\ s.k.term > o.k.term
             /\ r.k.term = s.k.term /\ r.k.leiter = Niemand
             /\ r.vt.term = o.vt.term /\ r.vt.ausgefallen = o.vt.ausgefallen
             /\ r.vt.termSeit = o.vt.termSeit
          \/ /\ ~LeaseAblehnen(k[n], m) /\ o.k.rolle = "leiter" /\ o.k.term = m.term
             /\ r.k.rolle = "leiter" /\ r.k.term = o.k.term /\ r.k.leiter = o.k.leiter
             /\ r.k.letzteLease = o.k.letzteLease /\ r.k.uebergabeAn = o.k.uebergabeAn
             /\ \A x \in Validator \ {n} : r.k.acks[x] = o.k.acks[x]
             /\ r.vt.term = o.vt.term /\ r.vt.ausgefallen = o.vt.ausgefallen
             /\ r.vt.termSeit = o.vt.termSeit /\ r.vt.letzteBestaetigt = o.vt.letzteBestaetigt
             /\ r.vt.abschlussGesehen = o.vt.abschlussGesehen
             /\ r.vt.abschliessenSeit = o.vt.abschliessenSeit
      BY <1>1, <1>7, <2>2, <3>1, NachQuittungFelder
    <3>3. CASE LeaseAblehnen(k[n], m)
      <4>1. s.k = k[n]
        BY <1>5, <1>6, <3>3
      <4>2. /\ k'[l].term = k[n].term /\ k[n].term > k[l].term /\ k'[l].leiter = Niemand
            /\ vt'[l].term = vt[l].term /\ vt'[l].ausgefallen = vt[l].ausgefallen
            /\ vt'[l].termSeit = vt[l].termSeit
        BY <1>8, <3>1, <3>2, <3>3, <4>1
      <4>3. QED BY <4>2, GelerntTreu
    <3>4. CASE ~LeaseAblehnen(k[n], m)
      <4>1. /\ k'[n].term = k[l].term /\ k'[n].leiter = l /\ k'[n].letzteLease = 0
            /\ k'[l].rolle = k[l].rolle /\ k'[l].term = k[l].term /\ k'[l].leiter = k[l].leiter
            /\ k'[l].letzteLease = k[l].letzteLease /\ k'[l].uebergabeAn = k[l].uebergabeAn
            /\ \A x \in Validator \ {n} : k'[l].acks[x] = k[l].acks[x]
            /\ vt'[l].term = vt[l].term /\ vt'[l].ausgefallen = vt[l].ausgefallen
            /\ vt'[l].termSeit = vt[l].termSeit /\ vt'[l].letzteBestaetigt = vt[l].letzteBestaetigt
            /\ vt'[l].abschlussGesehen = vt[l].abschlussGesehen
            /\ vt'[l].abschliessenSeit = vt[l].abschliessenSeit
        BY <1>8, <1>9, <3>1, <3>2, <3>4
      <4>2. QED BY <4>1, GehoertTreu
    <3>5. QED BY <3>3, <3>4
  <2>3. QED BY <1>3, <2>1, <2>2
<1>12. \A x \in Validator : KnotenTreu(x)
  BY <1>8, <1>10, <1>11, FestTreu
<1>13. \A q \in netz' : Brief(q) /\ Kopie(q, q)
  BY DEF Brief, Kopie
<1>14. QED BY <1>2, <1>12, <1>13 DEF Ruhig, Gang, KnotenTreu

\* A majority has a member.
LEMMA GrosseNichtLeer ==
  ASSUME NEW w \in Grosse
  PROVE  \E v \in w : v \in Validator
<1>1. Cardinality(w) >= Mehrheit /\ w \subseteq Validator
  BY DEF Grosse
<1>2. w # {}
  <2>1. Mehrheit >= 1 /\ Mehrheit \in Nat
    BY Anzahl
  <2>2. Cardinality({}) = 0
    BY FS_EmptySet
  <2>3. QED BY <1>1, <2>1, <2>2
<1>3. QED BY <1>1, <1>2

\* At the start nobody has had a lease, and one member leads term 1.
LEMMA InitEOK ==
  ASSUME Init
  PROVE  EInv
<1>1. /\ netz = {} /\ uebergaben = {}
      /\ \A n \in Validator :
           /\ k[n].rolle = IF n = StartLeiter THEN "leiter" ELSE "folger"
           /\ k[n].term = 1 /\ k[n].leiter = StartLeiter /\ k[n].acks = KeineAcks
           /\ k[n].uebergabeAn = Niemand
  BY DEF Init
<1>2. \A n \in Validator :
        /\ vt[n].term = IF n = StartLeiter THEN 1 ELSE 0
        /\ Ausgefallen(vt[n]) = {} /\ vt[n].letzteBestaetigt = Halbe
  <2>1. ASSUME NEW n \in Validator, NEW v, v = vt[n]
        PROVE  /\ v.term = IF n = StartLeiter THEN 1 ELSE 0
               /\ Ausgefallen(v) = {} /\ v.letzteBestaetigt = Halbe
    <3>1. v = Frisch(IF n = StartLeiter THEN 1 ELSE 0, {}, {})
      BY <2>1 DEF Init
    <3>2. QED BY <3>1, FrischTut
  <2>2. QED BY <2>1
<1>3. StartLeiter \in Validator /\ Niemand # StartLeiter /\ LeaseDauer \in Nat /\ Halbe \in Nat
  BY Zahlen
<1>4. \A n \in Validator : ~Lebendig(n)
  BY <1>2, <1>3 DEF Lebendig
<1>5. \A t, r : Sterbend(t, r)
  BY <1>1, <1>4 DEF Sterbend
<1>6. \A l \in Validator : IstLeiter(l) => l = StartLeiter
  BY <1>1 DEF IstLeiter
<1>7. TermeOK
  <2>1. Begonnen(1)
    <3>1. ASSUME NEW w \in Grosse PROVE \E v \in w : k[v].term >= 1
      <4>1. PICK v \in w : v \in Validator
        BY GrosseNichtLeer
      <4>2. k[v].term >= 1
        BY <1>1, <4>1
      <4>3. QED BY <4>2
    <3>2. QED BY <3>1 DEF Begonnen
  <2>2. \A n \in Validator : k[n].leiter = Niemand => vt[n].term < k[n].term
    BY <1>1, <1>3
  <2>3. \A n \in Validator, t \in Nat : ~(1 <= t /\ t < k[n].term)
    BY <1>1
  <2>4. ASSUME NEW n \in Validator, NEW t \in Nat, 1 <= t, vt[n].term = t PROVE Begonnen(t)
    <3>1. t = 1
      BY <1>2, <2>4
    <3>2. QED BY <2>1, <3>1
  <2>5. QED BY <1>1, <1>6, <2>2, <2>3, <2>4 DEF TermeOK
<1>8. UebergabenOK /\ SterbenOK /\ ZeugenOK /\ AusfallOK
  BY <1>1, <1>2, <1>4, <1>5 DEF UebergabenOK, SterbenOK, ZeugenOK, AusfallOK
<1>9. ASSUME NEW l \in Validator PROVE LeiterFest(l) /\ AusfallLeiter(l)
  <2>1. ~Ueber(k[l].term)
    BY <1>1 DEF Ueber
  <2>2. \A v \in Validator : k[l].acks[v] = LeaseDauer
    BY <1>1 DEF KeineAcks
  <2>3. LeiterFest(l)
    BY <1>3, <2>1, <2>2 DEF LeiterFest
  <2>4. AusfallLeiter(l)
    BY <1>1, <1>2 DEF AusfallLeiter
  <2>5. QED BY <2>3, <2>4
<1>10. QED BY <1>7, <1>8, <1>9 DEF EInv

-----------------------------------------------------------------------------
(***************************************************************************)
(* What the invariant says of those that accept.                           *)
(***************************************************************************)
\* The least of a set of numbers.
LEMMA MinimumTut ==
  ASSUME NEW S, S \subseteq Nat, S # {}
  PROVE  Minimum(S) \in S /\ \A y \in S : Minimum(S) <= y
<1>1. \E x \in S : \A y \in S : x <= y
  <2>1. IsWellFoundedOn(OpToRel(<, Nat), Nat)
    BY NatLessThanWellFounded
  <2>2. PICK x \in S : \A y \in S : ~(<<y, x>> \in OpToRel(<, Nat))
    BY <2>1, WFMin
  <2>3. ASSUME NEW y \in S PROVE x <= y
    <3>1. ~(y < x)
      BY <2>2 DEF OpToRel
    <3>2. QED BY <3>1
  <2>4. QED BY <2>3
<1>2. QED BY <1>1 DEF Minimum

\* Whoever may accept takes part in its term, has rested, is not counted out,
\* and leads with a majority or has had a lease that allows it.
LEMMA BefugtHeisst ==
  ASSUME AllInv, NEW n \in Validator, Befugt(n)
  PROVE  /\ vt[n].term = k[n].term /\ vt[n].termSeit = Ruhezeit /\ n \notin Ausgefallen(vt[n])
         /\ \/ IstLeiter(n) /\ DarfAnnehmen(k[n])
            \/ Lebendig(n)
<1>1. Felder(n) /\ Ruhezeit \in Nat
  BY AlleFelderOK, Zahlen DEF AllInv, AlleFelder
<1>2. vt[n].term = k[n].term => vt[n].termSeit = Ruhezeit
  BY <1>1 DEF Befugt, VerteiltImTerm, Bereit, Felder
<1>3. CASE DarfAnnehmen(k[n])
  <2>1. IstLeiter(n) /\ vt[n].term = k[n].term
    BY <1>1, <1>3 DEF DarfAnnehmen, Felder, IstLeiter
  <2>2. n \notin Ausgefallen(vt[n])
    BY <2>1 DEF AllInv, EInv, AusfallLeiter
  <2>3. QED BY <1>2, <1>3, <2>1, <2>2
<1>4. CASE ~DarfAnnehmen(k[n])
  BY <1>2, <1>4 DEF Befugt, VerteiltImTerm, Lebendig
<1>5. QED BY <1>3, <1>4

\* Nobody may accept in a term when somebody may in a later one.
LEMMA BefugtGleicherTerm ==
  ASSUME AllInv, Fristen, NEW n \in Validator, NEW m \in Validator, Befugt(n), Befugt(m)
  PROVE  ~(k[n].term < k[m].term)
<1> SUFFICES ASSUME k[n].term < k[m].term PROVE FALSE
  OBVIOUS
<1>1. /\ vt[m].term = k[m].term /\ vt[m].termSeit = Ruhezeit
      /\ (IstLeiter(n) /\ DarfAnnehmen(k[n])) \/ Lebendig(n)
  BY BefugtHeisst
<1>2. Felder(n) /\ Felder(m)
  BY AlleFelderOK DEF AllInv, AlleFelder
<1>3. k[n].term \in Nat /\ k[m].term \in Nat /\ vt[n].letzteBestaetigt \in Nat
  BY <1>2 DEF Felder
<1>4. CASE IstLeiter(n) /\ DarfAnnehmen(k[n])
  <2>1. Ueber(k[n].term)
    BY DEF Ueber
  <2>2. QED BY <1>4, <2>1, AbgehaengtStill
<1>5. CASE Lebendig(n)
  <2>1. PICK t \in Nat : t + 1 = k[m].term
    <3>1. k[m].term - 1 \in Nat /\ (k[m].term - 1) + 1 = k[m].term
      BY <1>3
    <3>2. QED BY <3>1
  <2>2. PICK r \in Nat : r = Abstand + Ruhezeit
    BY Zahlen DEF Abstand, Fristen
  <2>3. Sterbend(t, r)
    <3>1. r <= Abstand + vt[m].termSeit
      BY <1>1, <2>2
    <3>2. QED BY <1>1, <2>1, <3>1 DEF AllInv, EInv, SterbenOK
  <2>4. vt[n].letzteBestaetigt + Verzug >= r
    BY <1>3, <1>5, <2>1, <2>3 DEF Sterbend
  <2>5. vt[n].letzteBestaetigt < Halbe
    BY <1>5 DEF Lebendig
  <2>6. QED BY <1>3, <2>2, <2>4, <2>5, Zahlen DEF Abstand, Fristen
<1>6. QED BY <1>1, <1>4, <1>5

\* Nobody is counted out for long where somebody else may accept in its term.
LEMMA BefugtNichtAus ==
  ASSUME AllInv, Fristen, NEW n \in Validator, NEW m \in Validator, Befugt(n), Befugt(m),
         k[n].term = k[m].term
  PROVE  ~(n \in Ausgefallen(vt[m]) /\ vt[m].ausgefallen[n] >= LeaseDauer + Ruhezeit)
<1> SUFFICES ASSUME n \in Ausgefallen(vt[m]), vt[m].ausgefallen[n] >= LeaseDauer + Ruhezeit
             PROVE  FALSE
  OBVIOUS
<1>1. /\ vt[n].term = k[n].term /\ n \notin Ausgefallen(vt[n]) /\ vt[m].term = k[m].term
      /\ IstLeiter(n) \/ Lebendig(n)
  BY BefugtHeisst
<1>2. CASE IstLeiter(n)
  <2>1. Ausgefallen(vt[m]) \subseteq Ausgefallen(vt[n])
    BY <1>1, <1>2 DEF AllInv, EInv, AusfallLeiter
  <2>2. QED BY <1>1, <2>1
<1>3. CASE Lebendig(n)
  <2>1. vt[n].letzteBestaetigt + Verzug >= vt[m].ausgefallen[n]
    BY <1>1, <1>3 DEF AllInv, EInv, AusfallOK
  <2>2. Felder(n) /\ Felder(m)
    BY AlleFelderOK DEF AllInv, AlleFelder
  <2>3. vt[n].letzteBestaetigt \in Nat /\ vt[m].ausgefallen[n] \in Nat
    BY <2>2 DEF Felder
  <2>4. vt[n].letzteBestaetigt < Halbe
    BY <1>3 DEF Lebendig
  <2>5. QED BY <2>1, <2>3, <2>4, Zahlen DEF Fristen
<1>4. QED BY <1>1, <1>2, <1>3

\* Whoever is in charge of an account has counted out all before it in the ring.
LEMMA Vorgaenger ==
  ASSUME NEW n \in Validator, NEW konto, konto # Global, Zustaendig(n, konto) = n
  PROVE  \E j \in 0 .. N - 1 :
           /\ ImRing(konto[k[n].term], j) = n
           /\ \A i \in 0 .. N - 1 : i < j => ImRing(konto[k[n].term], i) \in Ausgefallen(vt[n])
<1> DEFINE p == konto[k[n].term]
           lebend == {j \in 0 .. N - 1 : ImRing(p, j) \notin Ausgefallen(vt[n])}
<1>1. N \in Nat /\ Niemand # n
  BY Anzahl, Zahlen
<1>2. lebend # {} /\ ImRing(p, Minimum(lebend)) = n
  BY <1>1 DEF Zustaendig
<1>3. lebend \subseteq Nat
  BY <1>1
<1>4. Minimum(lebend) \in lebend /\ \A y \in lebend : Minimum(lebend) <= y
  BY <1>2, <1>3, MinimumTut
<1>5. PICK j \in 0 .. N - 1 : ImRing(p, j) = n /\ \A y \in lebend : j <= y
  BY <1>2, <1>4
<1>6. ASSUME NEW i \in 0 .. N - 1, i < j PROVE ImRing(p, i) \in Ausgefallen(vt[n])
  <2>1. i \notin lebend
    BY <1>1, <1>5, <1>6
  <2>2. QED BY <2>1
<1>7. QED BY <1>5, <1>6

\* The one further back in the ring has counted the other out for long.
LEMMA Weiterhinten ==
  ASSUME NEW n \in Validator, NEW m \in Validator, NEW konto, konto # Global,
         k[n].term = k[m].term, UebernahmeSicher(m, konto),
         NEW i \in 0 .. N - 1, ImRing(konto[k[n].term], i) = n,
         NEW j \in 0 .. N - 1, i < j,
         \A x \in 0 .. N - 1 : x < j => ImRing(konto[k[m].term], x) \in Ausgefallen(vt[m])
  PROVE  n \in Ausgefallen(vt[m]) /\ vt[m].ausgefallen[n] >= LeaseDauer + Ruhezeit
<1> DEFINE p == konto[k[m].term]
<1>1. N \in Nat
  BY Anzahl
<1>2. ImRing(p, i) = n
  OBVIOUS
<1>3. \A x \in 0 .. i : ImRing(p, x) \in Ausgefallen(vt[m])
  BY <1>1
<1>4. vt[m].ausgefallen[ImRing(p, i)] >= LeaseDauer + Ruhezeit
  BY <1>3 DEF UebernahmeSicher
<1>5. QED BY <1>2, <1>4

\* The invariant implies that one node accepts for an account at a time.
LEMMA EInvGenuegt ==
  ASSUME AllInv, Fristen
  PROVE  EinAnnehmenderJeKonto
<1> SUFFICES ASSUME NEW n \in Validator, NEW m \in Validator, Befugt(n), Befugt(m), n # m,
                    NEW konto, NimmtAn(n, konto), NimmtAn(m, konto)
             PROVE  FALSE
  BY DEF EinAnnehmenderJeKonto
<1>1. Felder(n) /\ Felder(m)
  BY AlleFelderOK DEF AllInv, AlleFelder
<1>2. k[n].term = k[m].term
  <2>1. ~(k[n].term < k[m].term) /\ ~(k[m].term < k[n].term)
    BY BefugtGleicherTerm
  <2>2. QED BY <1>1, <2>1 DEF Felder
<1>3. vt[n].term = k[n].term /\ vt[m].term = k[m].term
  BY BefugtHeisst
<1>4. /\ Zustaendig(n, konto) = n /\ UebernahmeSicher(n, konto)
      /\ Zustaendig(m, konto) = m /\ UebernahmeSicher(m, konto)
  BY <1>3 DEF NimmtAn, VerteiltImTerm
<1>5. CASE konto = Global
  <2>1. IstLeiter(n) /\ IstLeiter(m)
    BY <1>4, <1>5 DEF Zustaendig, IstLeiter
  <2>2. QED BY <1>2, <2>1 DEF AllInv, EInv, TermeOK
<1>6. CASE konto # Global
  <2>1. PICK i \in 0 .. N - 1 :
          /\ ImRing(konto[k[n].term], i) = n
          /\ \A x \in 0 .. N - 1 : x < i => ImRing(konto[k[n].term], x) \in Ausgefallen(vt[n])
    BY <1>4, <1>6, Vorgaenger
  <2>2. PICK j \in 0 .. N - 1 :
          /\ ImRing(konto[k[m].term], j) = m
          /\ \A x \in 0 .. N - 1 : x < j => ImRing(konto[k[m].term], x) \in Ausgefallen(vt[m])
    BY <1>4, <1>6, Vorgaenger
  <2>3. i < j \/ j < i
    <3>1. i # j
      BY <1>2, <2>1, <2>2
    <3>2. i \in Int /\ j \in Int
      BY Anzahl
    <3>3. QED BY <3>1, <3>2
  <2>4. CASE i < j
    BY <1>2, <1>4, <1>6, <2>1, <2>2, <2>4, Weiterhinten, BefugtNichtAus
  <2>5. CASE j < i
    BY <1>2, <1>4, <1>6, <2>1, <2>2, <2>5, Weiterhinten, BefugtNichtAus
  <2>6. QED BY <2>3, <2>4, <2>5
<1>7. QED BY <1>5, <1>6

-----------------------------------------------------------------------------
(***************************************************************************)
(* Steps to a new term.                                                    *)
(***************************************************************************)
\* n raises its term without leading it.
Steigt(n) ==
  /\ k'[n].term > k[n].term /\ k'[n].leiter # n
  /\ vt'[n].term = vt[n].term /\ vt'[n].ausgefallen = vt[n].ausgefallen
  /\ vt'[n].termSeit = vt[n].termSeit

\* n leads a new term, and no lease has let it accept.
Antritt(n) == Neu(n) /\ vt'[n].letzteBestaetigt = Halbe

\* Whoever raises its term without leading it accepts nothing in it yet.
LEMMA SteigtTreu ==
  ASSUME AllInv, AlleFelder', NEW n \in Validator, Steigt(n)
  PROVE  /\ KTreu(n) /\ EndeTreu(n) /\ LebenTreu(n) /\ AusTreu(n) /\ TermTreu(n) /\ AmtTreu(n)
         /\ ~Lebendig(n)' /\ ~Neu(n)
<1>1. Felder(n) /\ Felder(n)'
  BY AlleFelderOK DEF AllInv, AlleFelder
<1>2. KTreu(n) /\ EndeTreu(n)
  BY DEF Steigt, KTreu, EndeTreu
<1>3. ~Lebendig(n)'
  <2>1. vt[n].term \in Nat /\ k[n].term \in Nat /\ k'[n].term \in Nat /\ vt[n].term <= k[n].term
    BY <1>1 DEF Felder
  <2>2. vt'[n].term # k'[n].term
    BY <2>1 DEF Steigt
  <2>3. QED BY <2>2 DEF Lebendig
<1>4. AusTreu(n)
  BY <1>1 DEF Steigt, AusTreu, Ausgefallen, Felder
<1>5. TermTreu(n)
  BY <1>1 DEF Steigt, TermTreu, Felder
<1>6. ~IstLeiter(n)' /\ ~Neu(n)
  BY DEF Steigt, IstLeiter, Neu
<1>7. QED BY <1>2, <1>3, <1>4, <1>5, <1>6 DEF LebenTreu, AmtTreu

\* Nor does a new leader by a lease.
LEMMA AntrittTreu ==
  ASSUME AllInv, NEW n \in Validator, Antritt(n)
  PROVE  /\ KTreu(n) /\ EndeTreu(n) /\ LebenTreu(n) /\ AusTreu(n) /\ TermTreu(n) /\ AmtTreu(n)
         /\ ~Lebendig(n)'
<1>1. KTreu(n) /\ EndeTreu(n)
  BY DEF Antritt, Neu, KTreu, EndeTreu
<1>2. ~Lebendig(n)'
  BY Zahlen DEF Antritt, Lebendig
<1>3. AusTreu(n)
  BY DEF Antritt, Neu, AusTreu
<1>4. QED BY <1>1, <1>2, <1>3 DEF Antritt, LebenTreu, TermTreu, AmtTreu

\* A step that raises terms.
LEMMA Aufstieg ==
  ASSUME AllInv, AlleFelder', netz' = netz, uebergaben \subseteq uebergaben',
         \A x \in Validator : Fest(x) \/ Steigt(x) \/ Antritt(x)
  PROVE  Gang /\ Ruht
<1>1. ASSUME NEW x \in Validator
      PROVE  /\ KTreu(x) /\ EndeTreu(x) /\ LebenTreu(x) /\ AusTreu(x) /\ TermTreu(x) /\ AmtTreu(x)
             /\ Lebendig(x)' => /\ Lebendig(x) /\ k'[x].term = k[x].term
                                /\ k'[x].leiter = k[x].leiter
                                /\ vt'[x].letzteBestaetigt = vt[x].letzteBestaetigt
                                /\ Ausgefallen(vt[x]) \subseteq Ausgefallen(vt'[x])
  <2>1. CASE Fest(x)
    <3>1. Lebendig(x)' => Lebendig(x)
      BY <2>1 DEF Fest, Lebendig
    <3>2. /\ k'[x].term = k[x].term /\ k'[x].leiter = k[x].leiter
          /\ vt'[x].letzteBestaetigt = vt[x].letzteBestaetigt
          /\ Ausgefallen(vt[x]) \subseteq Ausgefallen(vt'[x])
      BY <2>1 DEF Fest, Ausgefallen
    <3>3. QED BY <2>1, <3>1, <3>2, FestTreu DEF KnotenTreu
  <2>2. CASE Steigt(x)
    BY <2>2, SteigtTreu
  <2>3. CASE Antritt(x)
    BY <2>3, AntrittTreu
  <2>4. QED BY <2>1, <2>2, <2>3
<1>2. \A q \in netz' : \E m : Brief(m) /\ Kopie(q, m)
  BY DEF Brief, Kopie
<1>3. QED BY <1>1, <1>2 DEF Gang, Ruht

\* A new leader starts without answers, and as long after its last lease.
LEMMA WerdeLeiterAcks ==
  ASSUME NEW n \in Validator, NEW s \in LageTyp, NEW beleg, NEW r, r = WerdeLeiter(n, s, beleg)
  PROVE  r.k.acks = KeineAcks
<1> DEFINE K == [s.k EXCEPT !.rolle = "leiter", !.leiter = n, !.leiterSeit = 0,
                            !.acks = KeineAcks, !.uebergabeAn = Niemand, !.beleg = beleg]
<1>1. s.k \in Knoten
  BY LageTypen
<1>2. K.acks = KeineAcks
  BY <1>1 DEF Knoten
<1>3. r.k = K
  <2> HIDE DEF K
  <2> DEFINE s2 == [s EXCEPT !.k = K]
  <2>1. s2 = [k |-> K, vt |-> s.vt, verwirft |-> s.verwirft]
    BY DEF LageTyp
  <2>2. r = NeuerTermVerteilt(n, s2, s.k.term, beleg)
    BY DEF WerdeLeiter, K
  <2> HIDE DEF s2
  <2>3. r.k = s2.k
    BY <2>1, <2>2 DEF NeuerTermVerteilt
  <2>4. QED BY <2>1, <2>3
<1>4. QED BY <1>2, <1>3

\* The new leader of a term.
LEMMA AntrittAus ==
  ASSUME NEW n \in Validator, NEW s \in LageTyp, NEW beleg \in SUBSET Validator,
         NEW r, r = WerdeLeiter(n, s, beleg), k'[n] = r.k, vt'[n] = r.vt, s.k.term > k[n].term
  PROVE  /\ Antritt(n) /\ k'[n].term = s.k.term /\ vt'[n].term = s.k.term
         /\ vt'[n].abschlussGesehen = FALSE
<1>1. /\ r.k.rolle = "leiter" /\ r.k.term = s.k.term /\ r.k.leiter = n
      /\ r.k.uebergabeAn = Niemand /\ r.k.beleg = beleg
      /\ r.vt = Frisch(s.k.term, {}, beleg)
  BY WerdeLeiterTut
<1>2. \A v \in Validator : r.k.acks[v] >= LeaseDauer
  <2>1. r.k.acks = KeineAcks
    BY WerdeLeiterAcks
  <2>2. QED BY <2>1, Zahlen DEF KeineAcks
<1>3. SUFFICES ASSUME NEW v, v = vt'[n]
               PROVE  /\ v.term = s.k.term /\ v.letzteBestaetigt = Halbe /\ Ausgefallen(v) = {}
                      /\ v.abschlussGesehen = FALSE
                      /\ v.termSeit = 0 \/ beleg # {}
  BY <1>1, <1>2 DEF Antritt, Neu
<1>4. v = Frisch(s.k.term, {}, beleg)
  BY <1>1, <1>3
<1>5. QED BY <1>4 DEF Frisch, Ausgefallen

\* An election: its voters W, and its winner n, come to the term t.
WahlGang(n, w, t) ==
  /\ w \in Grosse /\ n \in w /\ t \in Nat /\ t = k[n].term + 1 /\ k'[n].term = t
  /\ \A v \in w : /\ k[v].rolle = "folger" /\ k[v].term < t /\ k'[v].term = t
                  /\ k[v].leiter = Niemand \/ k[v].letzteLease >= FolgerFrist
  /\ \A v \in w \ {n} : Steigt(v) /\ k'[v].leiter = Niemand
  /\ \A v \in Validator \ w : Fest(v)
  /\ \A v \in Validator \ {n} : vt'[v] = vt[v]
  /\ Antritt(n) /\ vt'[n].term = t
  /\ netz' = netz /\ uebergaben' = uebergaben

\* What an election does.
LEMMA WahlTut ==
  ASSUME IInv, NEW n \in Validator, NEW waehler \in Mehrheiten, Wahl(n, waehler),
         NEW t, t = k[n].term + 1
  PROVE  WahlGang(n, waehler, t)
<1> DEFINE stimmt(v) == [k[v] EXCEPT !.term = t, !.leiter = Niemand, !.letzteLease = 0]
           s == [Lage(n) EXCEPT !.k = stimmt(n)]
           r == WerdeLeiter(n, s, {})
<1>1. /\ TypeOK /\ k[n].term \in Nat /\ k[n].term \in 1 .. MaxTerm /\ t <= MaxTerm
      /\ n \in waehler
      /\ \A v \in waehler : /\ k[v].rolle = "folger" /\ k[v].term < t
                            /\ k[v].leiter = Niemand \/ k[v].letzteLease >= FolgerFrist
      /\ k' = [v \in Validator |-> IF v = n THEN r.k ELSE IF v \in waehler THEN stimmt(v) ELSE k[v]]
      /\ vt' = [vt EXCEPT ![n] = r.vt]
      /\ netz' = netz /\ uebergaben' = uebergaben
  BY Typen DEF IInv, Wahl
<1>2. waehler \in Grosse /\ \A v \in waehler : v \in Validator
  BY MehrheitenGross DEF Grosse
<1>12. t \in Nat /\ t \in 1 .. MaxTerm /\ t > k[n].term
  <2>1. k[n].term \in Nat /\ t <= MaxTerm
    BY <1>1
  <2>2. QED BY <2>1, Zahlen
<1>3. ASSUME NEW v \in Validator
      PROVE  stimmt(v) \in Knoten /\ stimmt(v).term = t /\ stimmt(v).leiter = Niemand
  <2>1. /\ k[v] \in Knoten /\ t \in 1 .. MaxTerm /\ 0 \in 0 .. FolgerFrist
        /\ Niemand \in Validator \cup {Niemand}
    <3>1. k[v] \in Knoten
      BY <1>1, Typen
    <3>2. t \in 1 .. MaxTerm /\ 0 \in 0 .. FolgerFrist
      BY <1>12, Zahlen
    <3>3. QED BY <3>1, <3>2
  <2>2. QED BY <2>1 DEF Knoten
<1>4. s \in LageTyp /\ s.k = stimmt(n)
  <2>1. s = [k |-> stimmt(n), vt |-> vt[n], verwirft |-> verwirft[n]]
    BY DEF Lage
  <2>2. vt[n] \in Stand /\ verwirft[n] \in BOOLEAN
    BY <1>1, Typen
  <2> HIDE DEF s, stimmt
  <2>3. QED BY <1>3, <2>1, <2>2 DEF LageTyp
<1>5. s.k.term = t
  BY <1>3, <1>4
<1>6. r = WerdeLeiter(n, s, {})
  OBVIOUS
<1> HIDE DEF s, r, stimmt
<1>7. /\ k'[n] = r.k /\ vt'[n] = r.vt
      /\ \A v \in Validator \ {n} : vt'[v] = vt[v]
      /\ \A v \in Validator \ {n} : k'[v] = IF v \in waehler THEN stimmt(v) ELSE k[v]
  BY <1>1 DEF TypeOK
<1>8. Antritt(n) /\ k'[n].term = t /\ vt'[n].term = t
  <2>1. s.k.term > k[n].term
    BY <1>12, <1>5
  <2>2. {} \in SUBSET Validator
    OBVIOUS
  <2>3. Antritt(n) /\ k'[n].term = s.k.term /\ vt'[n].term = s.k.term
    BY <1>4, <1>6, <1>7, <2>1, <2>2, AntrittAus
  <2>4. QED BY <1>5, <2>3
<1>9. ASSUME NEW v \in waehler \ {n}
      PROVE  Steigt(v) /\ k'[v].leiter = Niemand /\ k'[v].term = t
  <2>1. v \in Validator /\ k[v].term < t /\ Niemand # v /\ k[v].term \in Nat /\ t \in Nat
    <3>1. v \in Validator
      BY <1>2
    <3>2. QED BY <1>1, <3>1, Typen, Zahlen
  <2>2. k'[v].term = t /\ k'[v].leiter = Niemand /\ vt'[v] = vt[v]
    BY <1>3, <1>7, <2>1
  <2>3. QED BY <2>1, <2>2 DEF Steigt
<1>10. ASSUME NEW v \in Validator \ waehler PROVE Fest(v)
  BY <1>1, <1>7 DEF Fest
<1>11. \A v \in waehler : /\ k[v].rolle = "folger" /\ k[v].term < t /\ k'[v].term = t
                          /\ k[v].leiter = Niemand \/ k[v].letzteLease >= FolgerFrist
  BY <1>1, <1>8, <1>9
<1>13. n \in waehler /\ netz' = netz /\ uebergaben' = uebergaben
  BY <1>1
<1>14. /\ \A v \in waehler \ {n} : Steigt(v) /\ k'[v].leiter = Niemand
       /\ \A v \in Validator \ waehler : Fest(v)
       /\ \A v \in Validator \ {n} : vt'[v] = vt[v]
  BY <1>7, <1>9, <1>10
<1>15. waehler \in Grosse /\ t \in Nat
  BY <1>2, <1>12
<1>16. waehler \in Grosse /\ n \in waehler /\ t \in Nat /\ t = k[n].term + 1 /\ k'[n].term = t
  BY <1>8, <1>13, <1>15
<1>17. Antritt(n) /\ vt'[n].term = t /\ netz' = netz /\ uebergaben' = uebergaben
  BY <1>8, <1>13
<1>18. QED BY ONLY <1>11, <1>14, <1>16, <1>17 DEF WahlGang

\* Nobody has more than heard of the term of an election.
LEMMA WahlNeu ==
  ASSUME AllInv, NEW n \in Validator, NEW w, NEW t, WahlGang(n, w, t)
  PROVE  /\ \A x \in Validator : k[x].term <= t /\ vt[x].term < t /\ k'[x].term <= t
         /\ \A m \in netz : m.term < t
         /\ \A u \in uebergaben : u.term < t
         /\ \A l \in Validator : IstLeiter(l) => k[l].term < t
<1>1. AlleFelder /\ TermeOK /\ UebergabenOK
  BY AlleFelderOK DEF AllInv, EInv
<1>2. /\ w \in Grosse /\ t \in Nat /\ t >= 1 /\ \A v \in w : v \in Validator /\ k[v].term < t
  <2>1. Felder(n) /\ w \in Grosse /\ t = k[n].term + 1 /\ \A v \in w : k[v].term < t
    BY <1>1 DEF WahlGang, AlleFelder
  <2>2. QED BY <2>1 DEF Felder, Grosse
<1>3. \A x \in Validator : k[x].term \in Nat /\ vt[x].term \in Nat
  BY <1>1 DEF AlleFelder, Felder
<1>4. ASSUME NEW s \in Nat, s >= t PROVE ~Begonnen(s)
  <2>1. ASSUME NEW v \in w PROVE ~(k[v].term >= s)
    <3>1. v \in Validator /\ k[v].term < t /\ t \in Nat
      BY <1>2
    <3>2. k[v].term \in Nat
      BY <1>3, <3>1
    <3>3. QED BY <1>4, <3>1, <3>2
  <2>2. QED BY <1>2, <2>1 DEF Begonnen
<1>5. \A x \in Validator : vt[x].term < t
  <2>1. ASSUME NEW x \in Validator, NEW s \in Nat, s = vt[x].term, s >= t PROVE FALSE
    <3>1. Begonnen(s)
      BY <1>1, <1>2, <2>1 DEF TermeOK
    <3>2. QED BY <1>4, <2>1, <3>1
  <2>2. QED BY <1>2, <1>3, <2>1
<1>6. \A m \in netz : m.term < t
  <2>1. ASSUME NEW m \in netz PROVE m.term < t
    <3>1. m.term \in Nat /\ Begonnen(m.term)
      BY <1>1 DEF AlleFelder, LeaseFelder, TermeOK
    <3>2. QED BY <1>2, <1>4, <3>1
  <2>2. QED BY <2>1
<1>7. \A u \in uebergaben : u.term < t
  <2>1. ASSUME NEW u \in uebergaben PROVE u.term < t
    <3>1. u.term \in Nat /\ Begonnen(u.term)
      BY <1>1 DEF AlleFelder, UebergabenOK
    <3>2. QED BY <1>2, <1>4, <3>1
  <2>2. QED BY <2>1
<1>8. ASSUME NEW l \in Validator, IstLeiter(l) PROVE k[l].term < t
  BY <1>1, <1>5, <1>8 DEF AlleFelder, Felder, IstLeiter
<1>9. ASSUME NEW x \in Validator PROVE k[x].term <= t
  <2>1. ~Verlassen(t)
    <3>1. SUFFICES ASSUME NEW y \in Grosse, \A v \in y : k[v].term > t PROVE FALSE
      BY DEF Verlassen
    <3>2. PICK v \in Validator : v \in w /\ v \in y
      BY <1>2, Schnitt
    <3>3. QED BY <1>2, <1>3, <3>1, <3>2
  <2>2. ~\E u \in uebergaben : u.term = t
    BY <1>2, <1>7
  <2>3. ~(t < k[x].term)
    BY <1>1, <1>2, <2>1, <2>2 DEF TermeOK
  <2>4. QED BY <1>2, <1>3, <2>3
<1>10. ASSUME NEW x \in Validator PROVE k'[x].term <= t
  <2>1. CASE x \in w
    BY <1>2, <2>1 DEF WahlGang
  <2>2. CASE x \notin w
    BY <1>9, <2>2 DEF WahlGang, Fest
  <2>3. QED BY <2>1, <2>2
<1>11. QED BY <1>5, <1>6, <1>7, <1>8, <1>9, <1>10

\* Witnesses among voters: the lease they are of was sent long ago.
LEMMA ZeugenWaehlen ==
  ASSUME AllInv, Fristen, NEW n \in Validator, NEW w, NEW t, WahlGang(n, w, t),
         NEW s \in Nat, s + 1 = t, NEW l \in Validator, NEW r \in Nat, Zeugen(s, l, r)
  PROVE  r >= Abstand
<1>1. PICK y \in Grosse : \A v \in y :
         \/ k[v].term > s
         \/ k[v].term = s /\ k[v].leiter = l /\ (v = l \/ k[v].letzteLease < LeaseDauer + r)
  BY DEF Zeugen
<1>2. PICK v \in Validator : v \in w /\ v \in y
  BY Schnitt DEF WahlGang
<1>3. Felder(v) /\ l # Niemand
  BY AlleFelderOK, Zahlen DEF AllInv, AlleFelder
<1>4. /\ k[v].rolle = "folger" /\ k[v].term < t /\ k[v].term \in Nat
      /\ k[v].leiter = Niemand \/ k[v].letzteLease >= FolgerFrist
      /\ k[v].letzteLease \in Nat /\ k[v].leiter # v
  BY <1>2, <1>3 DEF WahlGang, Felder
<1>5. k[v].leiter = l /\ (v = l \/ k[v].letzteLease < LeaseDauer + r)
  BY <1>1, <1>2, <1>4
<1>6. k[v].letzteLease < LeaseDauer + r /\ k[v].letzteLease >= FolgerFrist
  BY <1>3, <1>4, <1>5
<1>7. QED BY <1>4, <1>6, Zahlen DEF Abstand, Fristen

\* Before an election, what allowed to accept in the last term has long been
\* dying out.
LEMMA WahlSterbend ==
  ASSUME AllInv, Fristen, NEW n \in Validator, NEW w, NEW t, WahlGang(n, w, t),
         NEW s \in Nat, s + 1 = t
  PROVE  Sterbend(s, Abstand)
<1>1. AlleFelder /\ SterbenOK /\ ZeugenOK /\ TermeOK /\ Abstand \in Nat
  BY AlleFelderOK, Zahlen DEF AllInv, EInv, Abstand, Fristen
<1>2. k[n].term = s
  <2>1. Felder(n) /\ t = k[n].term + 1
    BY <1>1 DEF WahlGang, AlleFelder
  <2>2. QED BY <2>1 DEF Felder
<1>3. ASSUME NEW c \in Nat, c < s PROVE Sterbend(c, Abstand)
  <2>1. Ueber(c)
    BY <1>2, <1>3 DEF Ueber
  <2>2. QED BY <1>1, <2>1 DEF SterbenOK
<1>4. ASSUME NEW x \in Validator, Lebendig(x), k[x].term <= s
      PROVE  vt[x].letzteBestaetigt + Verzug >= Abstand
  <2>1. Felder(x)
    BY <1>1 DEF AlleFelder
  <2>2. /\ k[x].term \in Nat /\ vt[x].letzteBestaetigt \in Nat /\ vt[x].term = k[x].term
        /\ k[x].leiter \in Wer
    BY <1>4, <2>1 DEF Felder, Lebendig
  <2>3. CASE k[x].term < s
    <3>1. Sterbend(k[x].term, Abstand)
      BY <1>3, <2>2, <2>3
    <3>2. QED BY <1>4, <2>2, <3>1 DEF Sterbend
  <2>4. CASE k[x].term = s
    <3>1. k[x].leiter # Niemand
      BY <1>1, <2>2 DEF TermeOK
    <3>2. k[x].leiter \in Validator
      BY <2>2, <3>1 DEF Wer
    <3>3. PICK r \in Nat : r = vt[x].letzteBestaetigt + Verzug
      BY <2>2, Zahlen
    <3>4. Zeugen(s, k[x].leiter, r)
      BY <1>1, <1>4, <2>4, <3>2, <3>3 DEF ZeugenOK
    <3>5. QED BY <3>2, <3>3, <3>4, ZeugenWaehlen
  <2>5. QED BY <1>4, <2>2, <2>3, <2>4
<1>5. ASSUME NEW m \in netz, m.bestaetigt, m.term <= s, Wirkt(m) PROVE m.alter >= Abstand
  <2>1. LeaseFelder(m)
    BY <1>1 DEF AlleFelder
  <2>2. m.term \in Nat /\ m.alter \in Nat /\ m.von \in Validator
    BY <2>1 DEF LeaseFelder
  <2>3. CASE m.term < s
    <3>1. Sterbend(m.term, Abstand)
      BY <1>3, <2>2, <2>3
    <3>2. QED BY <1>5, <2>2, <3>1 DEF Sterbend
  <2>4. CASE m.term = s
    <3>1. Zeugen(s, m.von, m.alter)
      BY <1>1, <1>5, <2>4 DEF ZeugenOK
    <3>2. QED BY <2>2, <3>1, ZeugenWaehlen
  <2>5. QED BY <1>5, <2>2, <2>3, <2>4
<1>6. QED BY <1>4, <1>5 DEF Sterbend

\* An election begins its term and leaves all older ones.
LEMMA WahlBeginnt ==
  ASSUME AllInv, AlleFelder', NEW n \in Validator, NEW w, NEW t, WahlGang(n, w, t)
  PROVE  Begonnen(t)' /\ \A s \in Nat : s < t => Verlassen(s)'
<1>1. w \in Grosse /\ t \in Nat /\ \A v \in w : k'[v].term = t
  BY DEF WahlGang
<1>2. ASSUME NEW y \in Grosse PROVE \E v \in y : k'[v].term >= t
  <2>1. PICK v \in Validator : v \in w /\ v \in y
    BY <1>1, Schnitt
  <2>2. QED BY <1>1, <2>1
<1>3. ASSUME NEW s \in Nat, s < t PROVE \A v \in w : k'[v].term > s
  BY <1>1, <1>3
<1>4. QED BY <1>1, <1>2, <1>3 DEF Begonnen, Verlassen

\* Who leads after an election did before, but for its winner.
LEMMA WahlLeiter ==
  ASSUME AllInv, AlleFelder', NEW n \in Validator, NEW w, NEW t, WahlGang(n, w, t),
         NEW l \in Validator, l # n, IstLeiter(l)' \/ k'[l].rolle = "leiter"
  PROVE  l \notin w /\ Fest(l) /\ IstLeiter(l) /\ k'[l].term < t
<1>1. Felder(l)' /\ l # Niemand
  BY Zahlen DEF AlleFelder
<1>2. k'[l].leiter = l
  BY <1>1 DEF Felder, IstLeiter
<1>3. l \notin w
  BY <1>1, <1>2 DEF WahlGang
<1>4. Fest(l)
  BY <1>3 DEF WahlGang
<1>5. IstLeiter(l) /\ k'[l].term = k[l].term
  BY <1>2, <1>4 DEF Fest, IstLeiter
<1>6. QED BY <1>3, <1>4, <1>5, WahlNeu

\* An election keeps what is known of the terms.
LEMMA WahlTermeOK ==
  ASSUME AllInv, AlleFelder', NEW n \in Validator, NEW w, NEW t, WahlGang(n, w, t), Gang
  PROVE  TermeOK'
<1>1. AlleFelder /\ TermeOK
  BY AlleFelderOK DEF AllInv, EInv
<1>2. \A x \in Validator : KTreu(x)
  BY DEF Gang
<1>3. \A s \in Nat : (Begonnen(s) => Begonnen(s)') /\ (Verlassen(s) => Verlassen(s)')
  BY <1>1, <1>2, BegonnenBleibt
<1>4. \A x \in Validator : /\ k[x].term \in Nat /\ k'[x].term \in Nat /\ k'[x].term >= k[x].term
                           /\ vt[x].term \in Nat /\ vt[x].term < t /\ k'[x].term <= t
  <2>1. ASSUME NEW x \in Validator
        PROVE  /\ k[x].term \in Nat /\ k'[x].term \in Nat /\ k'[x].term >= k[x].term
               /\ vt[x].term \in Nat
    BY <1>1, <1>2, TermSteigt DEF AlleFelder, Felder
  <2>2. QED BY <2>1, WahlNeu
<1>5. /\ t \in Nat /\ netz' = netz /\ uebergaben' = uebergaben
      /\ \A x \in Validator \ {n} : vt'[x] = vt[x]
      /\ k'[n].leiter = n /\ k'[n].uebergabeAn = Niemand /\ vt'[n].term = t /\ k'[n].term = t
  BY DEF WahlGang, Antritt, Neu
<1>6. ASSUME NEW x \in Validator, k'[x].leiter = Niemand PROVE vt'[x].term < k'[x].term
  <2>1. x # n
    BY <1>5, <1>6, Zahlen
  <2>2. CASE x \in w
    BY <1>4, <1>5, <2>1, <2>2 DEF WahlGang
  <2>3. CASE x \notin w
    <3>1. k'[x] = k[x]
      BY <2>3 DEF WahlGang, Fest
    <3>2. QED BY <1>1, <1>5, <1>6, <2>1, <3>1 DEF TermeOK
  <2>4. QED BY <2>2, <2>3
<1>7. ASSUME NEW x \in Validator, NEW s \in Nat, 1 <= s, s < k'[x].term PROVE Verlassen(s)'
  <2>1. s < t
    BY <1>4, <1>5, <1>7
  <2>2. QED BY <2>1, WahlBeginnt
<1>8. ASSUME NEW x \in Validator, NEW s \in Nat, 1 <= s, vt'[x].term = s PROVE Begonnen(s)'
  <2>1. CASE x = n
    BY <1>5, <1>8, <2>1, WahlBeginnt
  <2>2. CASE x # n
    BY <1>1, <1>3, <1>5, <1>8, <2>2 DEF TermeOK
  <2>3. QED BY <2>1, <2>2
<1>9. ASSUME NEW m \in netz' PROVE Begonnen(m.term)' /\ m.term <= k'[m.von].term
  <2>1. m \in netz /\ LeaseFelder(m) /\ Begonnen(m.term) /\ m.term <= k[m.von].term
    BY <1>1, <1>5 DEF AlleFelder, TermeOK
  <2>2. m.term \in Nat /\ m.von \in Validator
    BY <2>1 DEF LeaseFelder
  <2>3. ASSUME NEW s \in Nat, s = m.term PROVE Begonnen(s)'
    BY <1>3, <2>1, <2>3
  <2>4. Begonnen(m.term)'
    BY <2>2, <2>3 DEF Begonnen
  <2>5. QED BY <1>4, <2>1, <2>2, <2>4
<1>10. ASSUME NEW l \in Validator, NEW x \in Validator, IstLeiter(l)', IstLeiter(x)', l # x
       PROVE  k'[l].term # k'[x].term
  <2>1. CASE l = n \/ x = n
    BY <1>4, <1>5, <1>10, <2>1, WahlLeiter
  <2>2. CASE l # n /\ x # n
    <3>1. IstLeiter(l) /\ IstLeiter(x) /\ Fest(l) /\ Fest(x)
      BY <1>10, <2>2, WahlLeiter
    <3>2. QED BY <1>1, <1>10, <3>1 DEF TermeOK, Fest
  <2>3. QED BY <2>1, <2>2
<1>11. ASSUME NEW l \in Validator, k'[l].rolle = "leiter", k'[l].uebergabeAn # Niemand
       PROVE  l \in Abgebende /\ k'[k'[l].uebergabeAn].term >= k'[l].term
  <2>1. l # n
    BY <1>5, <1>11
  <2>2. Fest(l)
    BY <1>11, <2>1, WahlLeiter
  <2>3. k'[l] = k[l] /\ k[l].uebergabeAn \in Validator
    <3>1. Felder(l)
      BY <1>1 DEF AlleFelder
    <3>2. QED BY <1>11, <2>2, <3>1 DEF Fest, Felder, Wer
  <2>4. l \in Abgebende /\ k[k[l].uebergabeAn].term >= k[l].term
    BY <1>1, <1>11, <2>3 DEF TermeOK
  <2>5. QED BY <1>4, <2>3, <2>4
<1>12. QED BY <1>6, <1>7, <1>8, <1>9, <1>10, <1>11 DEF TermeOK

\* And of the handovers: among its voters is the sender of each, or its receiver.
LEMMA WahlUebergabenOK ==
  ASSUME AllInv, Handhabbar, AlleFelder', NEW n \in Validator, NEW w, NEW t, WahlGang(n, w, t), Gang
  PROVE  UebergabenOK'
<1>1. AlleFelder /\ TermeOK /\ UebergabenOK
  BY AlleFelderOK DEF AllInv, EInv
<1>2. \A x \in Validator : KTreu(x)
  BY DEF Gang
<1>3. \A s \in Nat : Begonnen(s) => Begonnen(s)'
  BY <1>1, <1>2, BegonnenBleibt
<1>4. \A x \in Validator : k[x].term \in Nat /\ k'[x].term \in Nat /\ k'[x].term >= k[x].term
  BY <1>1, <1>2, TermSteigt
<1>5. /\ t \in Nat /\ netz' = netz /\ uebergaben' = uebergaben
      /\ \A x \in Validator \ {n} : vt'[x] = vt[x]
      /\ k'[n].term = t /\ vt'[n].term = t
  BY DEF WahlGang
<1>6. SUFFICES ASSUME NEW u \in uebergaben
               PROVE  /\ Begonnen(u.term)' /\ k'[u.an].term >= u.term /\ u.an # u.von /\ u.von \in Abgebende
                      /\ \A l \in Validator : IstLeiter(l)' => k'[l].term # u.term
                      /\ \A y \in uebergaben : y.term = u.term => y = u
                      /\ k'[u.an].term = u.term => Unberuehrt(u)'
  BY <1>5 DEF UebergabenOK
<1>7. /\ u.von \in Validator /\ u.an \in Validator /\ u.term \in Nat /\ k[u.von].term > u.term
  BY <1>1 DEF AlleFelder
<1>8. /\ Begonnen(u.term) /\ k[u.an].term >= u.term /\ u.an # u.von /\ u.von \in Abgebende
      /\ \A l \in Validator : IstLeiter(l) => k[l].term # u.term
      /\ \A y \in uebergaben : y.term = u.term => y = u
      /\ k[u.an].term = u.term => Unberuehrt(u)
      /\ u.term < t
  BY <1>1, WahlNeu DEF UebergabenOK
<1>9. Begonnen(u.term)'
  <2>1. ASSUME NEW s \in Nat, s = u.term PROVE Begonnen(s)'
    BY <1>3, <1>8, <2>1
  <2>2. QED BY <1>7, <2>1 DEF Begonnen
<1>10. ASSUME NEW l \in Validator, IstLeiter(l)' PROVE k'[l].term # u.term
  <2>1. CASE l = n
    BY <1>5, <1>7, <1>8, <2>1
  <2>2. CASE l # n
    BY <1>8, <1>10, <2>2, WahlLeiter DEF Fest
  <2>3. QED BY <2>1, <2>2
<1>11. ASSUME k'[u.an].term = u.term PROVE Unberuehrt(u)'
  <2>1. k[u.an].term = u.term
    BY <1>4, <1>7, <1>8, <1>11
  <2>2. Unberuehrt(u)
    BY <1>8, <2>1
  <2>3. u.an \notin w
    BY <1>5, <1>7, <1>8, <1>11 DEF WahlGang
  <2>4. N <= 4
    BY <1>8 DEF Handhabbar
  <2>5. u.von \in w
    BY <1>7, <1>8, <2>3, <2>4, Vier DEF WahlGang
  <2>6. u.term + 1 < t
    <3>1. k[u.von].term < t
      BY <2>5 DEF WahlGang
    <3>2. QED BY <1>4, <1>5, <1>7, <3>1
  <2>7. ASSUME NEW v \in Validator
        PROVE  /\ k'[v].term = u.term + 1 => k'[v].leiter \in {Niemand, u.an}
               /\ vt'[v].term # u.term + 1
    <3>1. k'[v].term = u.term + 1 => k'[v].leiter \in {Niemand, u.an}
      <4>1. CASE v \in w
        BY <1>5, <1>7, <2>6, <4>1 DEF WahlGang
      <4>2. CASE v \notin w
        BY <2>2, <4>2 DEF WahlGang, Fest, Unberuehrt
      <4>3. QED BY <4>1, <4>2
    <3>2. vt'[v].term # u.term + 1
      <4>1. CASE v = n
        BY <1>5, <1>7, <2>6, <4>1
      <4>2. CASE v # n
        BY <1>5, <2>2, <4>2 DEF Unberuehrt
      <4>3. QED BY <4>1, <4>2
    <3>3. QED BY <3>1, <3>2
  <2>8. QED BY <1>5, <2>2, <2>7 DEF Unberuehrt
<1>12. k'[u.an].term >= u.term
  BY <1>4, <1>7, <1>8
<1>13. QED BY <1>8, <1>9, <1>10, <1>11, <1>12

\* An election keeps the invariant.
LEMMA WahlEOK ==
  ASSUME AllInv, Fristen, Handhabbar, IInv', NEW n \in Validator, NEW waehler \in Mehrheiten,
         Wahl(n, waehler)
  PROVE  EInv'
<1> SUFFICES ASSUME NEW w, w = waehler, NEW t, t = k[n].term + 1 PROVE EInv'
  OBVIOUS
<1>1. WahlGang(n, w, t)
  BY WahlTut DEF AllInv
<1>2. AlleFelder'
  BY AlleFelderOK, PTL
<1>3. AlleFelder
  BY AlleFelderOK DEF AllInv
<1>4. \A x \in Validator : Fest(x) \/ Steigt(x) \/ Antritt(x)
  BY <1>1 DEF WahlGang
<1>5. netz' = netz /\ uebergaben' = uebergaben /\ t \in Nat /\ w \in Grosse
  BY <1>1 DEF WahlGang
<1>6. Gang /\ Ruht
  BY <1>2, <1>4, <1>5, Aufstieg
<1>7. TermeOK' /\ UebergabenOK'
  BY <1>1, <1>2, <1>6, WahlTermeOK, WahlUebergabenOK
<1>8. ASSUME NEW s \in Nat, Ueber(s)' PROVE Ueber(s) \/ Sterbend(s, Abstand)'
  <2>1. PICK x \in Validator : k'[x].term > s
    BY <1>8 DEF Ueber
  <2>2. Felder(x)' /\ Felder(n)
    BY <1>2, <1>3 DEF AlleFelder
  <2>3. s < t
    BY <1>1, <1>5, <2>1, <2>2, WahlNeu DEF Felder
  <2>4. CASE s < k[n].term
    BY <2>4 DEF Ueber
  <2>5. CASE ~(s < k[n].term)
    <3>1. s + 1 = t
      BY <2>2, <2>3, <2>5 DEF Felder
    <3>2. Sterbend(s, Abstand)
      BY <1>1, <3>1, WahlSterbend
    <3>3. Abstand \in Nat
      BY Zahlen DEF Abstand, Fristen
    <3>4. QED BY <1>2, <1>6, <3>2, <3>3, SterbendRuht
  <2>6. QED BY <2>4, <2>5
<1>9. SterbenOK'
  <2>1. \A u \in uebergaben' \ uebergaben : Sterbend(u.term, Abstand + Ruhezeit)'
    BY <1>5
  <2>2. QED BY <1>2, <1>6, <1>8, <2>1, SterbenOKBleibt
<1>10. ZeugenOK' /\ AusfallOK'
  BY <1>2, <1>6, ZeugenOKBleibt, AusfallOKBleibt
<1>11. ASSUME NEW l \in Validator PROVE AusfallLeiter(l)' /\ LeiterFest(l)'
  <2>1. NeuFrei(l)
    <3>1. SUFFICES ASSUME Neu(l)
                   PROVE  /\ \A x \in Validator \ {l} : vt'[x].term # k'[l].term
                          /\ \A q \in netz' : q.term # k'[l].term
      BY DEF NeuFrei
    <3>2. l = n
      <4>1. ASSUME l # n PROVE FALSE
        <5>1. Fest(l)
          BY <1>1, <1>2, <3>1, <4>1, WahlLeiter DEF Neu
        <5>2. Felder(l)
          BY <1>3 DEF AlleFelder
        <5>3. QED BY <3>1, <5>1, <5>2 DEF Neu, Fest, Felder
      <4>2. QED BY <4>1
    <3>3. k'[l].term = t /\ \A x \in Validator \ {l} : vt'[x] = vt[x]
      BY <1>1, <3>2 DEF WahlGang
    <3>4. \A x \in Validator : vt[x].term \in Nat /\ vt[x].term < t
      BY <1>1, <1>3, WahlNeu DEF AlleFelder, Felder
    <3>5. \A q \in netz : q.term \in Nat /\ q.term < t
      BY <1>1, <1>3, WahlNeu DEF AlleFelder, LeaseFelder
    <3>6. QED BY <1>5, <3>3, <3>4, <3>5
  <2>2. NichtVoraus(l)
    <3>1. SUFFICES ASSUME IstLeiter(l)', Ueber(k[l].term)'
                   PROVE  \/ IstLeiter(l) /\ k'[l].term = k[l].term /\ Ueber(k[l].term)
                          \/ Abgehaengt(l)'
      BY DEF NichtVoraus
    <3>2. l # n
      <4>1. ASSUME l = n PROVE FALSE
        <5>1. PICK x \in Validator : k'[x].term > k'[l].term
          BY <3>1 DEF Ueber
        <5>2. k'[l].term = t /\ k'[x].term <= t
          BY <1>1, <4>1, WahlNeu DEF WahlGang
        <5>3. Felder(x)'
          BY <1>2 DEF AlleFelder
        <5>4. QED BY <1>5, <5>1, <5>2, <5>3 DEF Felder
      <4>2. QED BY <4>1
    <3>3. l \notin w /\ Fest(l) /\ IstLeiter(l) /\ k'[l].term < t
      BY <1>1, <1>2, <3>1, <3>2, WahlLeiter
    <3>4. k'[l] = k[l] /\ LeiterFest(l) /\ Felder(l)
      BY <1>3, <3>3 DEF Fest, AllInv, EInv, AlleFelder
    <3>5. CASE Ueber(k[l].term)
      BY <3>3, <3>4, <3>5
    <3>6. CASE ~Ueber(k[l].term)
      <4>1. ASSUME NEW v \in w PROVE k'[v].term > k'[l].term /\ k'[l].acks[v] >= LeaseDauer
        <5>1. /\ v \in Validator /\ k'[v].term = t
              /\ k[v].leiter = Niemand \/ k[v].letzteLease >= FolgerFrist
          BY <1>1, <1>5 DEF WahlGang, Grosse
        <5>2. /\ k[v].letzteLease \in Nat /\ k[l].acks[v] \in Nat /\ k[l].term \in Nat
          <6>1. Felder(v)
            BY <1>3, <5>1 DEF AlleFelder
          <6>2. QED BY <3>4, <5>1, <6>1 DEF Felder
        <5>3. ~(k[l].acks[v] < LeaseDauer)
          <6>1. SUFFICES ASSUME k[l].acks[v] < LeaseDauer PROVE FALSE
            OBVIOUS
          <6>2. ~(k[v].term > k[l].term)
            BY <3>6, <5>1 DEF Ueber
          <6>3. k[v].leiter = l /\ k[v].letzteLease <= k[l].acks[v]
            BY <3>3, <3>4, <5>1, <6>1, <6>2 DEF LeiterFest
          <6>4. k[v].letzteLease >= FolgerFrist
            BY <5>1, <6>3, Zahlen
          <6>5. QED BY <5>2, <6>1, <6>3, <6>4, Zahlen DEF Fristen
        <5>4. QED BY <1>5, <3>3, <3>4, <5>1, <5>2, <5>3, Zahlen
      <4>2. Abgehaengt(l)'
        BY <1>5, <3>3, <4>1 DEF Abgehaengt
      <4>3. QED BY <4>2
    <3>7. QED BY <3>5, <3>6
  <2>3. QED BY <1>2, <1>6, <1>7, <2>1, <2>2, AusfallLeiterBleibt, LeiterFestBleibt
<1>12. QED BY <1>7, <1>9, <1>10, <1>11 DEF EInv

\* The leader n hands its term t over with u.
UebergabeGang(n, u, t) ==
  /\ k[n].rolle = "leiter" /\ k[n].uebergabeAn = u.an /\ u.an \in Validator /\ u.an # n
  /\ u.von = n /\ u.term = t /\ t = k[n].term /\ t \in Nat /\ t >= 1
  /\ k[n].leiter = n /\ vt[n].term = t
  /\ k'[n].rolle = "folger" /\ k'[n].term = t + 1 /\ k'[n].leiter = u.an /\ Steigt(n)
  /\ \A x \in Validator \ {n} : Fest(x)
  /\ \A x \in Validator : vt'[x].term = vt[x].term
  /\ netz' = netz /\ uebergaben' = uebergaben \cup {u}
  /\ vt[n].abschliessenSeit >= LeaseDauer \/ Validator \ {n} \subseteq vt[n].abschlussVon

\* What a handover does.
LEMMA UebergebenTut ==
  ASSUME AllInv, NEW n \in Validator, Uebergeben(n), NEW t, t = k[n].term
  PROVE  \E u : UebergabeGang(n, u, t)
<1> DEFINE z == [k[n] EXCEPT !.rolle = "folger", !.term = @ + 1, !.leiter = k[n].uebergabeAn,
                             !.letzteLease = 0, !.acks = KeineAcks, !.uebergabeAn = Niemand]
           v == [vt[n] EXCEPT !.ueberholtGemeldet = TRUE]
           h == [von |-> n, an |-> k[n].uebergabeAn, term |-> k[n].term,
                 abschluesse |-> vt[n].abschlussVon \cup {n}]
<1>1. /\ TypeOK /\ k[n] \in Knoten /\ vt[n] \in Stand
      /\ k \in [Validator -> Knoten] /\ vt \in [Validator -> Stand]
      /\ k[n].rolle = "leiter" /\ k[n].uebergabeAn # Niemand /\ netz' = netz
      /\ AbschlussFertig(n)
  BY Typen DEF AllInv, IInv, Uebergeben, TypeOK
<1>2. k' = [k EXCEPT ![n] = z] /\ vt' = [vt EXCEPT ![n] = v] /\ uebergaben' = uebergaben \cup {h}
  BY <1>1 DEF Uebergeben
<1>3. Felder(n)
  BY AlleFelderOK DEF AllInv, AlleFelder
<1>4. /\ k[n].term \in Nat /\ k[n].term >= 1 /\ k[n].leiter = n /\ vt[n].term = k[n].term
      /\ k[n].uebergabeAn \in Validator /\ k[n].uebergabeAn # n
  BY <1>1, <1>3 DEF Felder, Wer
<1>5. z.rolle = "folger" /\ z.term = k[n].term + 1 /\ z.leiter = k[n].uebergabeAn
  BY <1>1 DEF Knoten
<1>6. v.term = vt[n].term /\ v.ausgefallen = vt[n].ausgefallen /\ v.termSeit = vt[n].termSeit
  BY <1>1 DEF Stand
<1>7. h.von = n /\ h.term = t /\ h.an = k[n].uebergabeAn
  OBVIOUS
<1> HIDE DEF z, v, h
<1>8. /\ k'[n] = z /\ vt'[n] = v
      /\ \A x \in Validator \ {n} : k'[x] = k[x] /\ vt'[x] = vt[x]
  BY <1>1, <1>2
<1>9. Steigt(n)
  BY <1>4, <1>5, <1>6, <1>8 DEF Steigt
<1>10. /\ \A x \in Validator \ {n} : Fest(x)
       /\ \A x \in Validator : vt'[x].term = vt[x].term
  BY <1>6, <1>8 DEF Fest
<1>11. vt[n].abschliessenSeit >= LeaseDauer \/ Validator \ {n} \subseteq vt[n].abschlussVon
  BY <1>1, <1>4 DEF AbschlussFertig, VerteiltImTerm
<1>12. UebergabeGang(n, h, t)
  BY <1>1, <1>2, <1>4, <1>5, <1>7, <1>8, <1>9, <1>10, <1>11 DEF UebergabeGang
<1>13. QED BY <1>12

\* Who leads after a handover led before, in another term.
LEMMA UebergabeLeiter ==
  ASSUME AllInv, AlleFelder', NEW n \in Validator, NEW u, NEW t, UebergabeGang(n, u, t),
         NEW l \in Validator, IstLeiter(l)' \/ k'[l].rolle = "leiter"
  PROVE  l # n /\ k'[l] = k[l] /\ IstLeiter(l) /\ k[l].term # t
<1>1. Felder(l)'
  BY DEF AlleFelder
<1>2. k'[l].leiter = l
  BY <1>1 DEF Felder, IstLeiter
<1>3. l # n
  BY <1>2 DEF UebergabeGang
<1>4. k'[l] = k[l]
  BY <1>3 DEF UebergabeGang, Fest
<1>5. IstLeiter(l) /\ IstLeiter(n) /\ k[n].term = t
  BY <1>2, <1>4 DEF UebergabeGang, IstLeiter
<1>6. QED BY <1>3, <1>4, <1>5 DEF AllInv, EInv, TermeOK

\* A handover keeps what is known of the terms.
LEMMA UebergabeTermeOK ==
  ASSUME AllInv, AlleFelder', NEW n \in Validator, NEW u, NEW t, UebergabeGang(n, u, t), Gang
  PROVE  TermeOK'
<1>1. AlleFelder /\ TermeOK
  BY AlleFelderOK DEF AllInv, EInv
<1>2. \A x \in Validator : KTreu(x)
  BY DEF Gang
<1>3. \A s \in Nat : (Begonnen(s) => Begonnen(s)') /\ (Verlassen(s) => Verlassen(s)')
  BY <1>1, <1>2, BegonnenBleibt
<1>4. \A x \in Validator : k[x].term \in Nat /\ k'[x].term \in Nat /\ k'[x].term >= k[x].term
  BY <1>1, <1>2, TermSteigt
<1>5. /\ t \in Nat /\ netz' = netz /\ uebergaben' = uebergaben \cup {u} /\ u.term = t
      /\ \A x \in Validator : vt'[x].term = vt[x].term
      /\ \A x \in Validator \ {n} : k'[x] = k[x]
      /\ k[n].term = t /\ k'[n].term = t + 1 /\ k'[n].leiter = u.an /\ u.an \in Validator
  BY DEF UebergabeGang, Fest
<1>6. ASSUME NEW x \in Validator, k'[x].leiter = Niemand PROVE vt'[x].term < k'[x].term
  <2>1. x # n
    BY <1>5, <1>6, Zahlen
  <2>2. QED BY <1>1, <1>5, <1>6, <2>1 DEF TermeOK
<1>7. ASSUME NEW x \in Validator, NEW s \in Nat, 1 <= s, s < k'[x].term
      PROVE  Verlassen(s)' \/ \E y \in uebergaben' : y.term = s
  <2>1. CASE s < k[x].term
    <3>1. Verlassen(s) \/ \E y \in uebergaben : y.term = s
      BY <1>1, <1>7, <2>1 DEF TermeOK
    <3>2. QED BY <1>3, <1>5, <3>1
  <2>2. CASE ~(s < k[x].term)
    <3>1. x = n
      BY <1>5, <1>7, <2>2
    <3>2. s = t
      BY <1>5, <1>7, <2>2, <3>1
    <3>3. QED BY <1>5, <3>2
  <2>3. QED BY <2>1, <2>2
<1>8. ASSUME NEW x \in Validator, NEW s \in Nat, 1 <= s, vt'[x].term = s PROVE Begonnen(s)'
  BY <1>1, <1>3, <1>5, <1>8 DEF TermeOK
<1>9. ASSUME NEW m \in netz' PROVE Begonnen(m.term)' /\ m.term <= k'[m.von].term
  <2>1. m \in netz /\ LeaseFelder(m) /\ Begonnen(m.term) /\ m.term <= k[m.von].term
    BY <1>1, <1>5 DEF AlleFelder, TermeOK
  <2>2. m.term \in Nat /\ m.von \in Validator
    BY <2>1 DEF LeaseFelder
  <2>3. ASSUME NEW s \in Nat, s = m.term PROVE Begonnen(s)'
    BY <1>3, <2>1, <2>3
  <2>4. Begonnen(m.term)'
    BY <2>2, <2>3 DEF Begonnen
  <2>5. QED BY <1>4, <2>1, <2>2, <2>4
<1>10. ASSUME NEW l \in Validator, NEW x \in Validator, IstLeiter(l)', IstLeiter(x)', l # x
       PROVE  k'[l].term # k'[x].term
  <2>1. IstLeiter(l) /\ IstLeiter(x) /\ k'[l] = k[l] /\ k'[x] = k[x]
    BY <1>10, UebergabeLeiter
  <2>2. QED BY <1>1, <1>10, <2>1 DEF TermeOK
<1>11. ASSUME NEW l \in Validator, k'[l].rolle = "leiter", k'[l].uebergabeAn # Niemand
       PROVE  l \in Abgebende /\ k'[k'[l].uebergabeAn].term >= k'[l].term
  <2>1. k'[l] = k[l]
    BY <1>11, UebergabeLeiter
  <2>2. k[l].uebergabeAn \in Validator
    <3>1. Felder(l)
      BY <1>1 DEF AlleFelder
    <3>2. QED BY <1>11, <2>1, <3>1 DEF Felder, Wer
  <2>3. l \in Abgebende /\ k[k[l].uebergabeAn].term >= k[l].term
    BY <1>1, <1>11, <2>1 DEF TermeOK
  <2>4. QED BY <1>4, <2>1, <2>2, <2>3
<1>12. QED BY <1>6, <1>7, <1>8, <1>9, <1>10, <1>11 DEF TermeOK

\* Where the member it is for is in the term that is handed over, nobody is past it.
LEMMA UebergabeAllein ==
  ASSUME AllInv, Handhabbar, NEW n \in Validator, NEW u, NEW t, UebergabeGang(n, u, t),
         k[u.an].term = t
  PROVE  ~Ueber(t)
<1> SUFFICES ASSUME Ueber(t) PROVE FALSE
  OBVIOUS
<1>1. /\ k[n].term = t /\ t \in Nat /\ IstLeiter(n) /\ u.an \in Validator /\ u.an # n
      /\ k[n].rolle = "leiter" /\ k[n].uebergabeAn # Niemand
  BY Zahlen DEF UebergabeGang, IstLeiter
<1>2. n \in Abgebende
  BY <1>1 DEF AllInv, EInv, TermeOK
<1>3. N <= 4
  BY <1>2 DEF Handhabbar
<1>4. Abgehaengt(n)
  BY <1>1 DEF AllInv, EInv, LeiterFest
<1>5. PICK w \in Grosse : n \notin w /\ \A v \in w : k[v].term > t
  BY <1>1, <1>4 DEF Abgehaengt
<1>6. u.an \in w
  BY <1>1, <1>3, <1>5, Vier
<1>7. k[u.an].term > t
  BY <1>5, <1>6
<1>8. QED BY <1>1, <1>7

\* And of the handovers, of which it is the only one of its term.
LEMMA UebergabeUebergabenOK ==
  ASSUME AllInv, Handhabbar, AlleFelder', NEW n \in Validator, NEW u, NEW t, UebergabeGang(n, u, t), Gang
  PROVE  UebergabenOK'
<1>1. AlleFelder /\ TermeOK /\ UebergabenOK
  BY AlleFelderOK DEF AllInv, EInv
<1>2. \A x \in Validator : KTreu(x)
  BY DEF Gang
<1>3. \A s \in Nat : Begonnen(s) => Begonnen(s)'
  BY <1>1, <1>2, BegonnenBleibt
<1>4. \A x \in Validator : k[x].term \in Nat /\ k'[x].term \in Nat /\ k'[x].term >= k[x].term
  BY <1>1, <1>2, TermSteigt
<1>5. /\ t \in Nat /\ t >= 1 /\ netz' = netz /\ uebergaben' = uebergaben \cup {u}
      /\ u.term = t /\ u.von = n
      /\ \A x \in Validator : vt'[x].term = vt[x].term
      /\ \A x \in Validator \ {n} : k'[x] = k[x]
      /\ k[n].term = t /\ k'[n].term = t + 1 /\ k'[n].leiter = u.an
      /\ u.an \in Validator /\ u.an # n /\ vt[n].term = t
      /\ IstLeiter(n) /\ k[n].rolle = "leiter" /\ k[n].uebergabeAn = u.an /\ u.an # Niemand
  BY Zahlen DEF UebergabeGang, Fest, IstLeiter
<1>6. \A y \in uebergaben : y.term # t /\ y.term \in Nat
  BY <1>1, <1>5 DEF AlleFelder, UebergabenOK
<1>7. ASSUME NEW y \in uebergaben
      PROVE  /\ Begonnen(y.term)' /\ k'[y.an].term >= y.term /\ y.an # y.von /\ y.von \in Abgebende
             /\ \A l \in Validator : IstLeiter(l)' => k'[l].term # y.term
             /\ \A x \in uebergaben' : x.term = y.term => x = y
             /\ k'[y.an].term = y.term => Unberuehrt(y)'
  <2>1. /\ y.von \in Validator /\ y.an \in Validator /\ y.term \in Nat /\ y.term # t
    BY <1>1, <1>6 DEF AlleFelder
  <2>2. /\ Begonnen(y.term) /\ k[y.an].term >= y.term /\ y.an # y.von /\ y.von \in Abgebende
        /\ \A l \in Validator : IstLeiter(l) => k[l].term # y.term
        /\ \A x \in uebergaben : x.term = y.term => x = y
        /\ k[y.an].term = y.term => Unberuehrt(y)
    BY <1>1 DEF UebergabenOK
  <2>3. Begonnen(y.term)'
    <3>1. ASSUME NEW s \in Nat, s = y.term PROVE Begonnen(s)'
      BY <1>3, <2>2, <3>1
    <3>2. QED BY <2>1, <3>1 DEF Begonnen
  <2>4. k'[y.an].term >= y.term
    BY <1>4, <2>1, <2>2
  <2>5. ASSUME NEW l \in Validator, IstLeiter(l)' PROVE k'[l].term # y.term
    BY <2>2, <2>5, UebergabeLeiter
  <2>6. \A x \in uebergaben' : x.term = y.term => x = y
    BY <1>5, <2>1, <2>2
  <2>7. ASSUME k'[y.an].term = y.term PROVE Unberuehrt(y)'
    <3>1. Unberuehrt(y)
      BY <1>4, <2>1, <2>2, <2>7
    <3>2. t # y.term + 1
      BY <1>5, <3>1 DEF Unberuehrt
    <3>3. ASSUME NEW x \in Validator
          PROVE  /\ k'[x].term = y.term + 1 => k'[x].leiter \in {Niemand, y.an}
                 /\ vt'[x].term # y.term + 1
      <4>1. CASE x = n
        BY <1>5, <2>1, <3>1, <4>1 DEF Unberuehrt
      <4>2. CASE x # n
        BY <1>5, <3>1, <4>2 DEF Unberuehrt
      <4>3. QED BY <4>1, <4>2
    <3>4. QED BY <1>5, <3>1, <3>2, <3>3 DEF Unberuehrt
  <2>8. QED BY <2>2, <2>3, <2>4, <2>5, <2>6, <2>7
<1>8. /\ Begonnen(u.term)' /\ k'[u.an].term >= u.term /\ u.an # u.von /\ u.von \in Abgebende
      /\ \A l \in Validator : IstLeiter(l)' => k'[l].term # u.term
      /\ \A x \in uebergaben' : x.term = u.term => x = u
      /\ k'[u.an].term = u.term => Unberuehrt(u)'
  <2>1. Begonnen(t)'
    BY <1>1, <1>3, <1>5 DEF TermeOK
  <2>2. n \in Abgebende /\ k[u.an].term >= t
    BY <1>1, <1>5 DEF TermeOK
  <2>3. ASSUME NEW l \in Validator, IstLeiter(l)' PROVE k'[l].term # t
    BY <2>3, UebergabeLeiter
  <2>4. \A x \in uebergaben' : x.term = t => x = u
    BY <1>5, <1>6
  <2>5. ASSUME k'[u.an].term = t PROVE Unberuehrt(u)'
    <3>1. ~Ueber(t)
      BY <1>5, <2>5, UebergabeAllein
    <3>2. \A x \in Validator : k[x].term <= t
      BY <1>4, <1>5, <3>1 DEF Ueber
    <3>3. \A x \in Validator : vt'[x].term # t + 1
      <4>1. ASSUME NEW x \in Validator PROVE vt[x].term # t + 1
        <5>1. Felder(x)
          BY <1>1 DEF AlleFelder
        <5>2. QED BY <1>5, <3>2, <5>1 DEF Felder
      <4>2. QED BY <1>5, <4>1
    <3>4. ASSUME NEW x \in Validator, k'[x].term = t + 1 PROVE k'[x].leiter \in {Niemand, u.an}
      <4>1. x = n
        BY <1>4, <1>5, <3>2, <3>4
      <4>2. QED BY <1>5, <4>1
    <3>5. ASSUME NEW m \in netz' PROVE m.term # t + 1
      <4>1. LeaseFelder(m) /\ m.term <= k[m.von].term
        BY <1>1, <1>5 DEF AlleFelder, TermeOK
      <4>2. m.von \in Validator /\ m.term \in Nat
        BY <4>1 DEF LeaseFelder
      <4>3. QED BY <1>4, <1>5, <3>2, <4>1, <4>2
    <3>6. ASSUME NEW y \in uebergaben' PROVE y.term # t + 1
      <4>1. CASE y = u
        BY <1>5, <4>1
      <4>2. CASE y # u
        <5>1. y.von \in Validator /\ y.term \in Nat /\ k[y.von].term > y.term
          BY <1>1, <1>5, <4>2 DEF AlleFelder
        <5>2. QED BY <1>4, <1>5, <3>2, <5>1
      <4>3. QED BY <4>1, <4>2
    <3>7. QED BY <1>5, <3>3, <3>4, <3>5, <3>6 DEF Unberuehrt
  <2>6. QED BY <1>4, <1>5, <2>1, <2>2, <2>3, <2>4, <2>5
<1>9. QED BY <1>5, <1>7, <1>8 DEF UebergabenOK

\* Where the leader has waited for a lease to be over, nobody may accept in its
\* term or an older one.
LEMMA UebergabeGewartet ==
  ASSUME AllInv, Fristen, AlleFelder', Ruht, NEW n \in Validator, NEW u, NEW t,
         UebergabeGang(n, u, t), vt[n].abschliessenSeit >= LeaseDauer, NEW r \in Nat
  PROVE  Sterbend(t, r)'
<1>1. AlleFelder /\ SterbenOK
  BY AlleFelderOK DEF AllInv, EInv
<1>2. /\ t \in Nat /\ k[n].rolle = "leiter" /\ k[n].uebergabeAn # Niemand /\ k[n].term = t
  BY Zahlen DEF UebergabeGang
<1>3. Sterbend(t, LeaseDauer)
  <2>1. LeaseDauer \in Nat /\ LeaseDauer <= vt[n].abschliessenSeit
    <3>1. Felder(n)
      BY <1>1 DEF AlleFelder
    <3>2. QED BY <3>1, Zahlen DEF Felder
  <2>2. QED BY <1>1, <1>2, <2>1 DEF SterbenOK
<1>4. \A x \in Validator : ~(Lebendig(x) /\ k[x].term <= t)
  <2>1. SUFFICES ASSUME NEW x \in Validator, Lebendig(x), k[x].term <= t PROVE FALSE
    OBVIOUS
  <2>2. Felder(x)
    BY <1>1 DEF AlleFelder
  <2>3. vt[x].letzteBestaetigt \in Nat /\ vt[x].letzteBestaetigt < Halbe
    BY <2>1, <2>2 DEF Felder, Lebendig
  <2>4. vt[x].letzteBestaetigt + Verzug >= LeaseDauer
    BY <1>3, <2>1 DEF Sterbend
  <2>5. QED BY <2>3, <2>4, Zahlen DEF Fristen
<1>5. \A m \in netz : ~(m.bestaetigt /\ m.term <= t /\ Wirkt(m))
  <2>1. SUFFICES ASSUME NEW m \in netz, m.bestaetigt, m.term <= t, Wirkt(m) PROVE FALSE
    OBVIOUS
  <2>2. LeaseFelder(m)
    BY <1>1 DEF AlleFelder
  <2>3. m.alter \in Nat /\ m.alter <= Verzug
    BY <2>2 DEF LeaseFelder
  <2>4. m.alter >= LeaseDauer
    BY <1>3, <2>1 DEF Sterbend
  <2>5. QED BY <2>3, <2>4, Zahlen DEF Fristen
<1>6. Sterbend(t, r)
  BY <1>4, <1>5 DEF Sterbend
<1>7. QED BY <1>2, <1>6, SterbendRuht

\* Where all others have seen the end of the term, nobody may accept in it.
LEMMA UebergabeGesehen ==
  ASSUME AllInv, AlleFelder', Ruht, NEW n \in Validator, NEW u, NEW t,
         UebergabeGang(n, u, t), Validator \ {n} \subseteq vt[n].abschlussVon, NEW r \in Nat
  PROVE  Sterbend(t, r)'
<1>1. AlleFelder /\ ZeugenOK
  BY AlleFelderOK DEF AllInv, EInv
<1>2. /\ t \in Nat /\ k[n].rolle = "leiter" /\ k[n].uebergabeAn # Niemand /\ k[n].term = t
      /\ k'[n].term = t + 1 /\ netz' = netz
      /\ \A x \in Validator \ {n} : k'[x] = k[x] /\ vt'[x].term = vt[x].term
                                    /\ vt'[x].abschlussGesehen = vt[x].abschlussGesehen
  BY Zahlen DEF UebergabeGang, Fest
<1>3. \A x \in Validator \ {n} : Geschlossen(x, t, n)
  <2>1. LeiterOK(n)
    BY DEF AllInv, IInv
  <2>2. QED BY <1>2, <2>1 DEF LeiterOK
<1>4. \A x \in Validator : k[x].term \in Nat
  BY <1>1 DEF AlleFelder, Felder
<1>5. ASSUME NEW x \in Validator, Lebendig(x)', k'[x].term <= t PROVE FALSE
  <2>1. x # n
    BY <1>2, <1>5
  <2>2. Lebendig(x) /\ k[x].term <= t
    BY <1>2, <1>5, <2>1 DEF Ruht
  <2>3. k[x].term = t /\ (vt[x].term = t => vt[x].abschlussGesehen)
    BY <1>2, <1>3, <1>4, <2>1, <2>2 DEF Geschlossen
  <2>4. QED BY <2>2, <2>3 DEF Lebendig
<1>6. ASSUME NEW m \in netz', m.bestaetigt, m.term <= t, Wirkt(m)' PROVE FALSE
  <2>1. m \in netz /\ LeaseFelder(m)
    BY <1>1, <1>2 DEF AlleFelder
  <2>2. m.an \in Validator /\ m.term \in Nat /\ ~m.abschluss
    BY <1>1, <1>6, <2>1 DEF LeaseFelder, ZeugenOK
  <2>3. SUFFICES ASSUME NEW x \in Validator, x = m.an PROVE FALSE
    BY <2>2
  <2>4. ~LeaseAblehnen(k'[x], m) /\ ~(vt'[x].term = m.term /\ vt'[x].abschlussGesehen)
    BY <1>6, <2>3 DEF Wirkt
  <2>5. ~(m.term < k'[x].term)
    BY <2>4 DEF LeaseAblehnen
  <2>6. x # n
    BY <1>2, <1>6, <2>2, <2>5
  <2>7. k'[x] = k[x] /\ Geschlossen(x, t, n)
    BY <1>2, <1>3, <2>6
  <2>8. /\ k[x].term = t /\ k[x].leiter = n /\ m.term = t
        /\ IF vt[x].term = t THEN vt[x].abschlussGesehen
           ELSE \A q \in netz : q.an = x /\ q.von = n /\ q.term = t => q.abschluss
    BY <1>2, <1>4, <1>6, <2>2, <2>5, <2>7 DEF Geschlossen
  <2>9. m.von = n
    BY <2>4, <2>7, <2>8, Zahlen DEF LeaseAblehnen
  <2>10. vt[x].term # t
    BY <1>2, <2>4, <2>6, <2>8
  <2>11. QED BY <2>1, <2>2, <2>3, <2>8, <2>9, <2>10
<1>7. QED BY <1>5, <1>6 DEF Sterbend

\* A handover keeps the invariant.
LEMMA UebergebenEOK ==
  ASSUME AllInv, Fristen, Handhabbar, IInv', NEW n \in Validator, Uebergeben(n)
  PROVE  EInv'
<1> SUFFICES ASSUME NEW t, t = k[n].term PROVE EInv'
  OBVIOUS
<1>1. PICK u : UebergabeGang(n, u, t)
  BY UebergebenTut
<1>2. AlleFelder'
  BY AlleFelderOK, PTL
<1>3. AlleFelder
  BY AlleFelderOK DEF AllInv
<1>4. \A x \in Validator : Fest(x) \/ Steigt(x) \/ Antritt(x)
  BY <1>1 DEF UebergabeGang
<1>5. /\ netz' = netz /\ uebergaben' = uebergaben \cup {u} /\ t \in Nat /\ u.term = t
      /\ k[n].term = t /\ k'[n].term = t + 1 /\ \A x \in Validator \ {n} : k'[x] = k[x]
  BY <1>1 DEF UebergabeGang, Fest
<1>6. Gang /\ Ruht
  BY <1>2, <1>4, <1>5, Aufstieg
<1>7. TermeOK' /\ UebergabenOK'
  BY <1>1, <1>2, <1>6, UebergabeTermeOK, UebergabeUebergabenOK
<1>8. Abstand \in Nat /\ Abstand + Ruhezeit \in Nat /\ Abstand <= Abstand + Ruhezeit
  BY Zahlen DEF Abstand, Fristen
<1>9. ASSUME NEW r \in Nat PROVE Sterbend(t, r)'
  <2>1. vt[n].abschliessenSeit >= LeaseDauer \/ Validator \ {n} \subseteq vt[n].abschlussVon
    BY <1>1 DEF UebergabeGang
  <2>2. QED BY <1>1, <1>2, <1>6, <2>1, UebergabeGewartet, UebergabeGesehen
<1>10. \A x \in Validator : k[x].term \in Nat
  BY <1>3 DEF AlleFelder, Felder
<1>11. ASSUME NEW s \in Nat, Ueber(s)' PROVE Ueber(s) \/ s = t
  <2>1. PICK x \in Validator : k'[x].term > s
    BY <1>11 DEF Ueber
  <2>2. CASE x = n
    <3>1. s < k[n].term \/ s = t
      BY <1>5, <2>1, <2>2
    <3>2. QED BY <3>1 DEF Ueber
  <2>3. CASE x # n
    BY <1>5, <2>1, <2>3 DEF Ueber
  <2>4. QED BY <2>2, <2>3
<1>12. SterbenOK'
  <2>1. \A s \in Nat : Ueber(s)' => Ueber(s) \/ Sterbend(s, Abstand)'
    BY <1>8, <1>9, <1>11
  <2>2. ASSUME NEW y \in uebergaben' \ uebergaben PROVE Sterbend(y.term, Abstand + Ruhezeit)'
    <3>1. y.term = t
      BY <1>5
    <3>2. Sterbend(t, Abstand + Ruhezeit)'
      <4>1. ASSUME NEW r \in Nat, r = Abstand + Ruhezeit PROVE Sterbend(t, r)'
        BY <1>9
      <4>2. QED BY <1>8, <4>1 DEF Sterbend
    <3>3. QED BY <3>1, <3>2 DEF Sterbend
  <2>3. QED BY <1>2, <1>6, <2>1, <2>2, SterbenOKBleibt
<1>13. ZeugenOK' /\ AusfallOK'
  BY <1>2, <1>6, ZeugenOKBleibt, AusfallOKBleibt
<1>14. ASSUME NEW l \in Validator PROVE AusfallLeiter(l)' /\ LeiterFest(l)'
  <2>1. NeuFrei(l)
    <3>1. ASSUME Neu(l) PROVE FALSE
      <4>1. k'[l] = k[l]
        BY <1>1, <1>2, <3>1, UebergabeLeiter DEF Neu
      <4>2. QED BY <1>10, <3>1, <4>1 DEF Neu
    <3>2. QED BY <3>1 DEF NeuFrei
  <2>2. NichtVoraus(l)
    <3>1. SUFFICES ASSUME IstLeiter(l)', Ueber(k[l].term)'
                   PROVE  IstLeiter(l) /\ k'[l].term = k[l].term /\ Ueber(k[l].term)
      BY DEF NichtVoraus
    <3>2. k'[l] = k[l] /\ IstLeiter(l) /\ k[l].term # t
      BY <1>1, <1>2, <3>1, UebergabeLeiter
    <3>3. ASSUME NEW s \in Nat, s = k[l].term PROVE Ueber(s)
      <4>1. Ueber(s)'
        BY <3>1, <3>2, <3>3 DEF Ueber
      <4>2. QED BY <1>11, <3>2, <3>3, <4>1
    <3>4. QED BY <1>10, <3>2, <3>3
  <2>3. QED BY <1>2, <1>6, <1>7, <2>1, <2>2, AusfallLeiterBleibt, LeiterFestBleibt
<1>15. QED BY <1>7, <1>12, <1>13, <1>14 DEF EInv

\* The member n takes over with the handover u, and leads the term t.
UebernahmeGang(n, u, t) ==
  /\ u \in uebergaben /\ u.an = n /\ u.term = k[n].term /\ t = u.term + 1
  /\ Antritt(n) /\ k'[n].term = t /\ vt'[n].term = t
  /\ \A x \in Validator \ {n} : Fest(x) /\ vt'[x] = vt[x]
  /\ netz' = netz /\ uebergaben' = uebergaben

\* What taking over does.
LEMMA UebernehmenTut ==
  ASSUME AllInv, NEW n \in Validator, Uebernehmen(n)
  PROVE  \E u, t : UebernahmeGang(n, u, t)
<1>1. PICK u \in uebergaben :
        /\ GueltigeUebergabe(n, u)
        /\ Setze(n, WerdeLeiter(n, [Lage(n) EXCEPT !.k.term = @ + 1], u.abschluesse))
  BY DEF Uebernehmen
<1> DEFINE s == [Lage(n) EXCEPT !.k.term = @ + 1]
           r == WerdeLeiter(n, s, u.abschluesse)
<1>2. /\ TypeOK /\ k[n] \in Knoten /\ k[n].term \in Nat /\ k[n].term < MaxTerm
      /\ u.abschluesse \in SUBSET Validator
      /\ netz' = netz /\ uebergaben' = uebergaben
  BY Typen DEF AllInv, IInv, Uebernehmen
<1>3. s \in LageTyp /\ s.k.term = k[n].term + 1
  <2>1. k[n].term + 1 \in 1 .. MaxTerm
    BY <1>2, Zahlen
  <2>2. [k[n] EXCEPT !.term = @ + 1] \in Knoten /\ [k[n] EXCEPT !.term = @ + 1].term = k[n].term + 1
    BY <1>2, <2>1 DEF Knoten
  <2>3. s = [k |-> [k[n] EXCEPT !.term = @ + 1], vt |-> vt[n], verwirft |-> verwirft[n]]
    BY DEF Lage
  <2>4. vt[n] \in Stand /\ verwirft[n] \in BOOLEAN
    BY <1>2, Typen
  <2> HIDE DEF s
  <2>5. QED BY <2>2, <2>3, <2>4 DEF LageTyp
<1>4. Setze(n, r)
  BY <1>1
<1>5. r = WerdeLeiter(n, s, u.abschluesse)
  OBVIOUS
<1> HIDE DEF s, r
<1>6. r \in LageTyp
  BY <1>2, <1>3, <1>5, WerdeLeiterTut
<1>7. /\ k'[n] = r.k /\ vt'[n] = r.vt
      /\ \A x \in Validator \ {n} : k'[x] = k[x] /\ vt'[x] = vt[x]
  BY <1>2, <1>4, <1>6, SetzeTut
<1>8. Antritt(n) /\ k'[n].term = s.k.term /\ vt'[n].term = s.k.term
  <2>1. s.k.term > k[n].term
    BY <1>2, <1>3
  <2>2. QED BY <1>2, <1>3, <1>5, <1>7, <2>1, AntrittAus
<1>9. UebernahmeGang(n, u, s.k.term)
  BY <1>1, <1>2, <1>3, <1>7, <1>8 DEF UebernahmeGang, GueltigeUebergabe, Fest
<1>10. QED BY <1>9

\* Nobody has taken part in the term that such a handover begins.
LEMMA UebernahmeNeu ==
  ASSUME AllInv, AlleFelder', NEW n \in Validator, NEW u, NEW t, UebernahmeGang(n, u, t)
  PROVE  /\ t \in Nat /\ t >= 1 /\ k[n].term < t /\ k[u.von].term >= t /\ u.von # n
         /\ u.von \in Validator /\ u.von \in Abgebende /\ Ueber(u.term)
         /\ \A x \in Validator : vt[x].term # t
         /\ \A m \in netz : m.term # t
         /\ \A y \in uebergaben : y.term # t
         /\ \A l \in Validator : IstLeiter(l) => k[l].term # t
         /\ \A l \in Validator : l # n /\ (IstLeiter(l)' \/ k'[l].rolle = "leiter") => IstLeiter(l)
<1>1. AlleFelder /\ UebergabenOK
  BY AlleFelderOK DEF AllInv, EInv
<1>2. /\ u \in uebergaben /\ u.an = n /\ u.term = k[n].term /\ t = u.term + 1
      /\ \A x \in Validator \ {n} : k'[x] = k[x]
  BY DEF UebernahmeGang, Fest
<1>3. /\ u.von \in Validator /\ u.term \in Nat /\ k[u.von].term > u.term
      /\ u.an # u.von /\ u.von \in Abgebende /\ Unberuehrt(u)
  BY <1>1, <1>2 DEF AlleFelder, UebergabenOK
<1>4. k[u.von].term \in Nat
  BY <1>1, <1>3 DEF AlleFelder, Felder
<1>5. /\ \A x \in Validator : vt[x].term # t
      /\ \A m \in netz : m.term # t
      /\ \A y \in uebergaben : y.term # t
  BY <1>2, <1>3 DEF Unberuehrt
<1>6. ASSUME NEW l \in Validator, IstLeiter(l) PROVE k[l].term # t
  <2>1. Felder(l)
    BY <1>1 DEF AlleFelder
  <2>2. QED BY <1>5, <1>6, <2>1 DEF Felder, IstLeiter
<1>7. ASSUME NEW l \in Validator, l # n, IstLeiter(l)' \/ k'[l].rolle = "leiter" PROVE IstLeiter(l)
  <2>1. Felder(l)'
    BY DEF AlleFelder
  <2>2. k'[l].leiter = l
    BY <1>7, <2>1 DEF Felder, IstLeiter
  <2>3. QED BY <1>2, <1>7, <2>2 DEF IstLeiter
<1>8. QED BY <1>2, <1>3, <1>4, <1>5, <1>6, <1>7 DEF Ueber

\* To take over keeps what is known of the terms and of the handovers.
LEMMA UebernahmeTermeOK ==
  ASSUME AllInv, Handhabbar, AlleFelder', NEW n \in Validator, NEW u, NEW t, UebernahmeGang(n, u, t), Gang
  PROVE  TermeOK' /\ UebergabenOK'
<1>1. AlleFelder /\ TermeOK /\ UebergabenOK
  BY AlleFelderOK DEF AllInv, EInv
<1>2. \A x \in Validator : KTreu(x)
  BY DEF Gang
<1>3. \A s \in Nat : (Begonnen(s) => Begonnen(s)') /\ (Verlassen(s) => Verlassen(s)')
  BY <1>1, <1>2, BegonnenBleibt
<1>4. \A x \in Validator : k[x].term \in Nat /\ k'[x].term \in Nat /\ k'[x].term >= k[x].term
  BY <1>1, <1>2, TermSteigt
<1>5. /\ u \in uebergaben /\ u.an = n /\ u.term = k[n].term /\ t = u.term + 1
      /\ k'[n].leiter = n /\ k'[n].uebergabeAn = Niemand /\ k'[n].term = t /\ vt'[n].term = t
      /\ \A x \in Validator \ {n} : k'[x] = k[x] /\ vt'[x] = vt[x]
      /\ netz' = netz /\ uebergaben' = uebergaben
  BY DEF UebernahmeGang, Antritt, Neu, Fest
<1>6. /\ t \in Nat /\ t >= 1 /\ k[n].term < t /\ k[u.von].term >= t /\ u.von # n
      /\ u.von \in Validator /\ u.von \in Abgebende
      /\ \A x \in Validator : vt[x].term # t
      /\ \A m \in netz : m.term # t
      /\ \A y \in uebergaben : y.term # t
      /\ \A l \in Validator : IstLeiter(l) => k[l].term # t
      /\ \A l \in Validator : l # n /\ (IstLeiter(l)' \/ k'[l].rolle = "leiter") => IstLeiter(l)
  BY UebernahmeNeu
<1>7. Begonnen(t)'
  <2>1. N <= 4
    BY <1>6 DEF Handhabbar
  <2>2. ASSUME NEW w \in Grosse PROVE \E v \in w : k'[v].term >= t
    <3>1. n \in w \/ u.von \in w
      BY <1>6, <2>1, Vier
    <3>2. k'[n].term >= t /\ k'[u.von].term >= t
      BY <1>5, <1>6
    <3>3. QED BY <3>1, <3>2
  <2>3. QED BY <2>2 DEF Begonnen
<1>8. TermeOK'
  <2>1. ASSUME NEW x \in Validator, k'[x].leiter = Niemand PROVE vt'[x].term < k'[x].term
    <3>1. x # n
      BY <1>5, <2>1, Zahlen
    <3>2. QED BY <1>1, <1>5, <2>1, <3>1 DEF TermeOK
  <2>2. ASSUME NEW x \in Validator, NEW s \in Nat, 1 <= s, s < k'[x].term
        PROVE  Verlassen(s)' \/ \E y \in uebergaben' : y.term = s
    <3>1. CASE s < k[x].term
      <4>1. Verlassen(s) \/ \E y \in uebergaben : y.term = s
        BY <1>1, <2>2, <3>1 DEF TermeOK
      <4>2. QED BY <1>3, <1>5, <4>1
    <3>2. CASE ~(s < k[x].term)
      <4>1. x = n
        BY <1>5, <2>2, <3>2
      <4>2. s = u.term
        BY <1>4, <1>5, <2>2, <3>2, <4>1
      <4>3. QED BY <1>5, <4>2
    <3>3. QED BY <3>1, <3>2
  <2>3. ASSUME NEW x \in Validator, NEW s \in Nat, 1 <= s, vt'[x].term = s PROVE Begonnen(s)'
    <3>1. CASE x = n
      BY <1>5, <1>7, <2>3, <3>1
    <3>2. CASE x # n
      BY <1>1, <1>3, <1>5, <2>3, <3>2 DEF TermeOK
    <3>3. QED BY <3>1, <3>2
  <2>4. ASSUME NEW m \in netz' PROVE Begonnen(m.term)' /\ m.term <= k'[m.von].term
    <3>1. m \in netz /\ LeaseFelder(m) /\ Begonnen(m.term) /\ m.term <= k[m.von].term
      BY <1>1, <1>5 DEF AlleFelder, TermeOK
    <3>2. m.term \in Nat /\ m.von \in Validator
      BY <3>1 DEF LeaseFelder
    <3>3. ASSUME NEW s \in Nat, s = m.term PROVE Begonnen(s)'
      BY <1>3, <3>1, <3>3
    <3>4. Begonnen(m.term)'
      BY <3>2, <3>3 DEF Begonnen
    <3>5. QED BY <1>4, <3>1, <3>2, <3>4
  <2>5. ASSUME NEW l \in Validator, NEW x \in Validator, IstLeiter(l)', IstLeiter(x)', l # x
        PROVE  k'[l].term # k'[x].term
    <3>1. CASE l = n \/ x = n
      BY <1>5, <1>6, <2>5, <3>1
    <3>2. CASE l # n /\ x # n
      BY <1>1, <1>5, <1>6, <2>5, <3>2 DEF TermeOK
    <3>3. QED BY <3>1, <3>2
  <2>6. ASSUME NEW l \in Validator, k'[l].rolle = "leiter", k'[l].uebergabeAn # Niemand
        PROVE  l \in Abgebende /\ k'[k'[l].uebergabeAn].term >= k'[l].term
    <3>1. l # n /\ k'[l] = k[l]
      BY <1>5, <2>6
    <3>2. k[l].uebergabeAn \in Validator
      <4>1. Felder(l)
        BY <1>1 DEF AlleFelder
      <4>2. QED BY <2>6, <3>1, <4>1 DEF Felder, Wer
    <3>3. l \in Abgebende /\ k[k[l].uebergabeAn].term >= k[l].term
      BY <1>1, <2>6, <3>1 DEF TermeOK
    <3>4. QED BY <1>4, <3>1, <3>2, <3>3
  <2>7. QED BY <2>1, <2>2, <2>3, <2>4, <2>5, <2>6 DEF TermeOK
<1>9. UebergabenOK'
  <2>1. SUFFICES ASSUME NEW y \in uebergaben
                 PROVE  /\ Begonnen(y.term)' /\ k'[y.an].term >= y.term /\ y.an # y.von
                        /\ y.von \in Abgebende
                        /\ \A l \in Validator : IstLeiter(l)' => k'[l].term # y.term
                        /\ \A x \in uebergaben : x.term = y.term => x = y
                        /\ k'[y.an].term = y.term => Unberuehrt(y)'
    BY <1>5 DEF UebergabenOK
  <2>2. y.von \in Validator /\ y.an \in Validator /\ y.term \in Nat /\ y.term # t
    BY <1>1, <1>6 DEF AlleFelder
  <2>3. /\ Begonnen(y.term) /\ k[y.an].term >= y.term /\ y.an # y.von /\ y.von \in Abgebende
        /\ \A l \in Validator : IstLeiter(l) => k[l].term # y.term
        /\ \A x \in uebergaben : x.term = y.term => x = y
        /\ k[y.an].term = y.term => Unberuehrt(y)
    BY <1>1 DEF UebergabenOK
  <2>4. Begonnen(y.term)'
    <3>1. ASSUME NEW s \in Nat, s = y.term PROVE Begonnen(s)'
      BY <1>3, <2>3, <3>1
    <3>2. QED BY <2>2, <3>1 DEF Begonnen
  <2>5. k'[y.an].term >= y.term
    BY <1>4, <2>2, <2>3
  <2>6. ASSUME NEW l \in Validator, IstLeiter(l)' PROVE k'[l].term # y.term
    <3>1. CASE l = n
      BY <1>5, <2>2, <3>1
    <3>2. CASE l # n
      BY <1>5, <1>6, <2>3, <2>6, <3>2
    <3>3. QED BY <3>1, <3>2
  <2>7. ASSUME k'[y.an].term = y.term PROVE Unberuehrt(y)'
    <3>1. Unberuehrt(y)
      BY <1>4, <2>2, <2>3, <2>7
    <3>2. y.term + 1 # t
      <4>1. ASSUME y.term + 1 = t PROVE FALSE
        <5>1. u.term \in Nat /\ y.term = u.term
          BY <1>1, <1>5, <2>2, <4>1 DEF AlleFelder
        <5>2. y = u
          BY <1>5, <2>3, <5>1
        <5>3. QED BY <1>5, <1>6, <2>2, <2>7, <5>2
      <4>2. QED BY <4>1
    <3>3. ASSUME NEW x \in Validator
          PROVE  /\ k'[x].term = y.term + 1 => k'[x].leiter \in {Niemand, y.an}
                 /\ vt'[x].term # y.term + 1
      <4>1. CASE x = n
        BY <1>5, <3>2, <4>1
      <4>2. CASE x # n
        BY <1>5, <3>1, <4>2 DEF Unberuehrt
      <4>3. QED BY <4>1, <4>2
    <3>4. QED BY <1>5, <3>1, <3>3 DEF Unberuehrt
  <2>8. QED BY <2>3, <2>4, <2>5, <2>6, <2>7
<1>10. QED BY <1>8, <1>9

\* To take over keeps the invariant.
LEMMA UebernehmenEOK ==
  ASSUME AllInv, Fristen, Handhabbar, IInv', NEW n \in Validator, Uebernehmen(n)
  PROVE  EInv'
<1>1. PICK u, t : UebernahmeGang(n, u, t)
  BY UebernehmenTut
<1>2. AlleFelder'
  BY AlleFelderOK, PTL
<1>3. AlleFelder /\ TermeOK
  BY AlleFelderOK DEF AllInv, EInv
<1>4. \A x \in Validator : Fest(x) \/ Steigt(x) \/ Antritt(x)
  BY <1>1 DEF UebernahmeGang
<1>5. /\ netz' = netz /\ uebergaben' = uebergaben /\ u.term = k[n].term /\ t = u.term + 1
      /\ \A x \in Validator \ {n} : k'[x] = k[x] /\ vt'[x] = vt[x]
      /\ k'[n].term = t /\ Antritt(n)
  BY <1>1 DEF UebernahmeGang, Fest
<1>6. Gang /\ Ruht
  BY <1>2, <1>4, <1>5, Aufstieg
<1>7. TermeOK' /\ UebergabenOK'
  BY <1>1, <1>2, <1>6, UebernahmeTermeOK
<1>8. /\ t \in Nat /\ t >= 1 /\ k[n].term < t /\ Ueber(u.term)
      /\ \A x \in Validator : vt[x].term # t
      /\ \A m \in netz : m.term # t
      /\ \A y \in uebergaben : y.term # t
      /\ \A l \in Validator : l # n /\ IstLeiter(l)' => IstLeiter(l)
  BY <1>1, <1>2, UebernahmeNeu
<1>9. \A x \in Validator : k[x].term \in Nat
  BY <1>3 DEF AlleFelder, Felder
<1>10. ASSUME NEW s \in Nat, Ueber(s)' PROVE Ueber(s)
  <2>1. PICK x \in Validator : k'[x].term > s
    BY <1>10 DEF Ueber
  <2>2. CASE x = n
    <3>1. s < k[n].term \/ s = u.term
      BY <1>5, <1>9, <2>1, <2>2
    <3>2. QED BY <1>8, <3>1 DEF Ueber
  <2>3. CASE x # n
    BY <1>5, <2>1, <2>3 DEF Ueber
  <2>4. QED BY <2>2, <2>3
<1>11. SterbenOK'
  <2>1. uebergaben' \ uebergaben = {}
    BY <1>5
  <2>2. QED BY <1>2, <1>6, <1>10, <2>1, SterbenOKBleibt
<1>12. ZeugenOK' /\ AusfallOK'
  BY <1>2, <1>6, ZeugenOKBleibt, AusfallOKBleibt
<1>13. ASSUME NEW l \in Validator PROVE AusfallLeiter(l)' /\ LeiterFest(l)'
  <2>1. NeuFrei(l)
    <3>1. SUFFICES ASSUME Neu(l)
                   PROVE  /\ \A x \in Validator \ {l} : vt'[x].term # k'[l].term
                          /\ \A q \in netz' : q.term # k'[l].term
      BY DEF NeuFrei
    <3>2. l = n
      BY <1>5, <1>9, <3>1 DEF Neu
    <3>3. QED BY <1>5, <1>8, <3>2
  <2>2. NichtVoraus(l)
    <3>1. SUFFICES ASSUME IstLeiter(l)', Ueber(k[l].term)'
                   PROVE  \/ IstLeiter(l) /\ k'[l].term = k[l].term /\ Ueber(k[l].term)
                          \/ Abgehaengt(l)'
      BY DEF NichtVoraus
    <3>2. CASE l = n
      <4>1. PICK x \in Validator : k'[x].term > t
        BY <1>5, <3>1, <3>2 DEF Ueber
      <4>2. k[x].term > t
        BY <1>5, <1>8, <4>1
      <4>3. Verlassen(t)
        BY <1>3, <1>8, <4>2 DEF TermeOK
      <4>4. PICK w \in Grosse : \A v \in w : k[v].term > t
        BY <4>3 DEF Verlassen
      <4>5. n \notin w
        BY <1>8, <1>9, <4>4
      <4>6. ASSUME NEW v \in w PROVE k'[v].term > k'[n].term /\ k'[n].acks[v] >= LeaseDauer
        <5>1. v \in Validator /\ v # n
          BY <4>5 DEF Grosse
        <5>2. QED BY <1>5, <4>4, <5>1 DEF Antritt, Neu
      <4>7. QED BY <3>2, <4>5, <4>6 DEF Abgehaengt
    <3>3. CASE l # n
      <4>1. k'[l] = k[l] /\ IstLeiter(l)
        BY <1>5, <1>8, <3>1, <3>3
      <4>2. ASSUME NEW s \in Nat, s = k[l].term PROVE Ueber(s)
        <5>1. Ueber(s)'
          BY <3>1, <4>1, <4>2 DEF Ueber
        <5>2. QED BY <1>10, <5>1
      <4>3. QED BY <1>9, <4>1, <4>2
    <3>4. QED BY <3>2, <3>3
  <2>3. QED BY <1>2, <1>6, <1>7, <2>1, <2>2, AusfallLeiterBleibt, LeiterFestBleibt
<1>14. QED BY <1>7, <1>11, <1>12, <1>13 DEF EInv

\* Every step of every node keeps it.
LEMMA NextEOK ==
  ASSUME Fristen, Handhabbar, AllInv, [Next]_vars
  PROVE  AllInv'
<1>1. IInv'
  BY NextOK DEF AllInv
<1>2. SUFFICES EInv'
  BY <1>1 DEF AllInv
<1>3. CASE Tick
  BY <1>1, <1>3, TickEOK
<1>4. ASSUME NEW n \in Validator, NEW v \in Validator, Austausch(n, v) PROVE EInv'
  <2>1. Brief(LeaseVon(n, v)) /\ Antworten(LeaseVon(n, v)) /\ netz' = netz
    BY <1>4 DEF Austausch, Brief
  <2>2. SUFFICES ASSUME NEW m, m = LeaseVon(n, v) PROVE EInv'
    OBVIOUS
  <2>3. Brief(m) /\ Antworten(m) /\ netz' \subseteq netz
    BY <2>1, <2>2
  <2>4. Ruhig
    BY <2>3, AntwortenRuhig
  <2>5. QED BY <1>1, <2>4, RuhigOK
<1>5. ASSUME NEW m \in netz, EmpfangeLease(m) PROVE EInv'
  <2>1. Brief(m) /\ Antworten(m) /\ netz' \subseteq netz
    BY <1>5 DEF EmpfangeLease, Brief
  <2>2. Ruhig
    BY <2>1, AntwortenRuhig
  <2>3. QED BY <1>1, <2>2, RuhigOK
<1>6. ASSUME NEW n \in Validator, Uebergeben(n) PROVE EInv'
  BY <1>1, <1>6, UebergebenEOK
<1>7. ASSUME NEW n \in Validator, Uebernehmen(n) PROVE EInv'
  BY <1>1, <1>7, UebernehmenEOK
<1>8. ASSUME NEW n \in Validator, NEW waehler \in Mehrheiten, Wahl(n, waehler) PROVE EInv'
  BY <1>1, <1>8, WahlEOK
<1>9. ASSUME NEW n \in Validator,
             \/ AusfaelleErkennen(n) \/ Absturz(n) \/ Start(n)
             \/ \E naechster \in Validator : AbschlussBeginnt(n, naechster)
      PROVE  EInv'
  <2>1. Ruhig
    BY <1>9, AusfaelleErkennenRuhig, AbsturzRuhig, StartRuhig, AbschlussBeginntRuhig
  <2>2. QED BY <1>1, <2>1, RuhigOK
<1>10. ASSUME \/ \E l \in Trennungen \cup {Verbunden} : Trennung(l)
              \/ \E n, v \in Validator : LeaseSenden(n, v)
              \/ \E n \in Validator : Annehmen(n) \/ BlockBauen(n) \/ Verwerfen(n)
              \/ UNCHANGED vars
       PROVE  EInv'
  <2>1. Ruhig
    BY <1>10, StilleRuhig
  <2>2. QED BY <1>1, <2>1, RuhigOK
<1>11. QED BY <1>3, <1>4, <1>5, <1>6, <1>7, <1>8, <1>9, <1>10 DEF Next

\* leitung_verteilt_sim_test.go: for no account do two nodes accept at the same
\* time, across terms, members counted out, handovers, restarts and delayed
\* leases; for a Satz of three or four, or of any size without handovers.
THEOREM EinAnnehmenderJeKontoGilt ==
  ASSUME Fristen, Handhabbar
  PROVE  Spec => []EinAnnehmenderJeKonto
<1>1. Init => AllInv
  BY InitOK, InitEOK DEF AllInv
<1>2. AllInv /\ [Next]_vars => AllInv'
  BY NextEOK
<1>3. AllInv => EinAnnehmenderJeKonto
  BY EInvGenuegt
<1>4. QED BY <1>1, <1>2, <1>3, PTL DEF Spec

=============================================================================
