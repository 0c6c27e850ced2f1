--------------------------- MODULE LeitungProofs ---------------------------
(***************************************************************************)
(* Proofs about Leitung for every Satz, every set of constants and without *)
(* the bounds of the TLC runs: type correctness, TermBindet, and that one  *)
(* term never has two validators that accept transfers.  Then across       *)
(* terms: at most one validator accepts as long as every follower keeps    *)
(* its promise (from three validators on; with handovers, up to four), and *)
(* without any condition with two.                                         *)
(***************************************************************************)
EXTENDS Leitung, FiniteSetTheorems, TLAPS

-----------------------------------------------------------------------------
(***************************************************************************)
(* The inductive invariant.                                                *)
(***************************************************************************)
\* m is a follower's promise to the leader m.an of term m.term.
Zusage(m) == m.art = "ack" /\ m.ja

RolleOK(n, z) ==
  /\ z.rolle = "leiter" => z.leiter = n
  /\ z.rolle = "kandidat" => z.leiter = Niemand

\* What a leader counts was promised to it, in its term, by others, for the
\* lease it sent at that time.
AcksBelegt(n, z, N) ==
  z.rolle = "leiter" =>
    \A f \in Validator : z.acks[f] # 0 =>
      /\ f # n
      /\ \E m \in N : /\ Zusage(m) /\ m.von = f /\ m.an = n
                      /\ m.term = z.term /\ m.zeit = z.acks[f]

KnotenOK(n, z, N) == z \in Knoten /\ RolleOK(n, z) /\ AcksBelegt(n, z, N)

\* A promise binds until the next term.
ZusageGilt(m) ==
  /\ m.an # Niemand
  /\ \/ k[m.von].term > m.term
     \/ k[m.von].term = m.term /\ k[m.von].leiter = m.an

IInv ==
  /\ TypeOK
  /\ \A n \in Validator : KnotenOK(n, k[n], netz)
  /\ \A m \in netz : Zusage(m) => ZusageGilt(m)
  /\ \A m1, m2 \in netz :
       Zusage(m1) /\ Zusage(m2) /\ m1.von = m2.von /\ m1.term = m2.term => m1.an = m2.an

\* What TermBindet says of one node.
Bindet(z, y) ==
  \/ y.term > z.term
  \/ /\ y.term = z.term
     /\ z.stimme # Niemand => y.stimme = z.stimme
     /\ z.leiter # Niemand => y.leiter = z.leiter

\* A new promise names the leader its sender now follows.
ZusagenNeu ==
  \A m \in netz' \ netz : Zusage(m) =>
    m.an # Niemand /\ k'[m.von].term = m.term /\ k'[m.von].leiter = m.an

Schritt ==
  /\ TypeOK' /\ netz \subseteq netz' /\ ZusagenNeu
  /\ \A n \in Validator : KnotenOK(n, k'[n], netz') /\ Bindet(k[n], k'[n])

-----------------------------------------------------------------------------
(***************************************************************************)
(* The methods of the Leitung object.                                      *)
(***************************************************************************)
\* KeineAcks is an acknowledgement map without any entry.
LEMMA KeineAcksTyp == KeineAcks \in [Validator -> Nat] /\ \A v \in Validator : KeineAcks[v] = 0
  BY DEF KeineAcks

\* werdeFolger never lowers the term, and keeps the vote within a term.
LEMMA WerdeFolgerOK ==
  ASSUME NEW n \in Validator, NEW z \in Knoten, NEW N, NEW t \in Nat,
         NEW l \in Validator \cup {Niemand}, jetzt \in Nat, t >= z.term,
         t = z.term => z.leiter \in {Niemand, l}
  PROVE  LET y == WerdeFolger(z, t, l)
         IN  KnotenOK(n, y, N) /\ Bindet(z, y) /\ y.term = t /\ y.leiter = l /\ y.rolle = "folger"
<1> DEFINE y == WerdeFolger(z, t, l)
<1>1. y \in Knoten
  BY KeineAcksTyp DEF WerdeFolger, Knoten
<1>2. /\ y.term = t /\ y.leiter = l /\ y.rolle = "folger"
      /\ y.stimme = IF t > z.term THEN Niemand ELSE z.stimme
  BY DEF WerdeFolger, Knoten
<1>3. t = z.term \/ t > z.term
  BY DEF Knoten
<1>4. Bindet(z, y)
  BY <1>2, <1>3 DEF Bindet, Knoten
<1>5. QED BY <1>1, <1>2, <1>4 DEF KnotenOK, RolleOK, AcksBelegt

\* werdeLeiter makes the node its own leader, with nothing acknowledged yet.
LEMMA WerdeLeiterOK ==
  ASSUME NEW n \in Validator, NEW z \in Knoten, NEW N
  PROVE  LET y == WerdeLeiter(n, z)
         IN  KnotenOK(n, y, N) /\ y.term = z.term /\ y.stimme = z.stimme /\ y.leiter = n
             /\ y.satzTerm \in Nat
<1> DEFINE y == WerdeLeiter(n, z)
<1>1. y \in Knoten
  BY KeineAcksTyp DEF WerdeLeiter, Knoten
<1>2. /\ y.term = z.term /\ y.stimme = z.stimme /\ y.leiter = n /\ y.rolle = "leiter"
      /\ y.acks = KeineAcks
  BY DEF WerdeLeiter, Knoten
<1>3. QED BY <1>1, <1>2, KeineAcksTyp DEF KnotenOK, RolleOK, AcksBelegt, Knoten

\* A started node has the term, vote and leader it was given.
LEMMA NeueLeitungOK ==
  ASSUME NEW n \in Validator, NEW N, NEW t \in Nat, NEW s \in Validator \cup {Niemand},
         NEW l \in Validator \cup {Niemand}, NEW st \in Nat, NEW leer \in BOOLEAN, jetzt \in Nat
  PROVE  LET y == NeueLeitung(n, t, s, l, st, leer)
         IN  KnotenOK(n, y, N) /\ y.term = t /\ y.stimme = s /\ y.leiter = l
<1> DEFINE y == NeueLeitung(n, t, s, l, st, leer)
<1>1. y \in Knoten
  BY KeineAcksTyp DEF NeueLeitung, FristAbStart, Knoten
<1>2. /\ y.term = t /\ y.stimme = s /\ y.leiter = l /\ y.acks = KeineAcks
      /\ y.rolle = IF l = n THEN "leiter" ELSE "folger"
  BY DEF NeueLeitung
<1>3. QED BY <1>1, <1>2, KeineAcksTyp DEF KnotenOK, RolleOK, AcksBelegt

\* A step of one node that sends no promise.
LEMMA Einbau ==
  ASSUME IInv, NEW n \in Validator, NEW y, Setze(n, y), KnotenOK(n, y, netz'), Bindet(k[n], y),
         netz \subseteq netz', netz' \subseteq Nachricht, jetzt' \in Nat, voreilig' \in BOOLEAN,
         \A m \in netz' \ netz : Zusage(m) => m.von = n /\ m.an # Niemand
                                              /\ y.term = m.term /\ y.leiter = m.an
  PROVE  Schritt
<1>1. k' \in [Validator -> Knoten] /\ k'[n] = y /\ \A v \in Validator \ {n} : k'[v] = k[v]
  BY DEF Setze, IInv, TypeOK, KnotenOK
<1>2. TypeOK'
  BY <1>1 DEF TypeOK
<1>3. ZusagenNeu
  BY <1>1 DEF ZusagenNeu
<1>4. ASSUME NEW v \in Validator PROVE KnotenOK(v, k'[v], netz') /\ Bindet(k[v], k'[v])
  <2>1. CASE v = n
    BY <1>1, <2>1
  <2>2. CASE v # n
    <3>1. k'[v] = k[v] /\ KnotenOK(v, k[v], netz)
      BY <1>1, <2>2 DEF IInv
    <3>2. KnotenOK(v, k'[v], netz')
      BY <3>1 DEF KnotenOK, AcksBelegt
    <3>3. QED BY <3>1, <3>2 DEF Bindet
  <2>3. QED BY <2>1, <2>2
<1>5. QED BY <1>2, <1>3, <1>4 DEF Schritt

-----------------------------------------------------------------------------
(***************************************************************************)
(* Each action keeps the invariant and binds.                              *)
(***************************************************************************)
\* The messages a node sends are messages, and only its answers to a lease
\* are promises.
LEMMA NachrichtenTyp ==
  ASSUME NEW n \in Validator, NEW an \in Validator \cup {Niemand}, NEW t \in Nat, NEW s \in Nat,
         NEW ja \in BOOLEAN, TypeOK
  PROVE  /\ \A art \in {"vorbitte", "bitte"} :
              Rundruf(n, art, t) \in Nachricht /\ ~Zusage(Rundruf(n, art, t))
         /\ \A art \in {"vorstimme", "stimme", "ack"} : Antwort(n, art, an, t, ja) \in Nachricht
         /\ \A art \in {"vorstimme", "stimme"} : ~Zusage(Antwort(n, art, an, t, ja))
         /\ Lease(n, t, s) \in Nachricht /\ ~Zusage(Lease(n, t, s))
  BY DEF Rundruf, Antwort, Lease, Nachricht, Zusage, TypeOK, Knoten

\* A message that holds no promise may be added to the network.
LEMMA NetzWaechst ==
  ASSUME TypeOK, NEW m \in Nachricht, ~Zusage(m), netz' = netz \cup {m}
  PROVE  /\ netz \subseteq netz' /\ netz' \subseteq Nachricht
         /\ \A x \in netz' \ netz : ~Zusage(x)
  BY DEF TypeOK

\* Time passes.
LEMMA TickOK == IInv /\ Tick => Schritt
  BY DEF IInv, TypeOK, Tick, Schritt, ZusagenNeu, Bindet, KnotenOK, Knoten

\* A step that changes only fields no other node relies on.
LEMMA Unverbindlich ==
  ASSUME NEW n \in Validator, NEW z \in Knoten, NEW N, NEW y \in Knoten, KnotenOK(n, z, N),
         y.term = z.term, y.stimme = z.stimme, y.leiter = z.leiter, y.acks = z.acks,
         y.rolle \in {z.rolle, "folger"}
  PROVE  KnotenOK(n, y, N) /\ Bindet(z, y)
  BY DEF KnotenOK, RolleOK, AcksBelegt, Bindet, Knoten

\* More messages only support more acknowledgements.
LEMMA MehrNachrichten ==
  ASSUME NEW n \in Validator, NEW z, NEW N, NEW M, N \subseteq M, KnotenOK(n, z, N)
  PROVE  KnotenOK(n, z, M)
  BY DEF KnotenOK, AcksBelegt

\* Sending a lease changes the network only.
LEMMA LeaseSendenOK ==
  ASSUME IInv, NEW n \in Validator, LeaseSenden(n)
  PROVE  Schritt
<1>1. k[n] \in Knoten /\ k[n].term \in Nat /\ k[n].satzTerm \in Nat
  BY DEF IInv, TypeOK, Knoten
<1>2. /\ netz \subseteq netz' /\ netz' \subseteq Nachricht
      /\ \A x \in netz' \ netz : ~Zusage(x)
  BY <1>1, NachrichtenTyp, NetzWaechst DEF IInv, LeaseSenden
<1>3. Setze(n, k[n]) /\ Bindet(k[n], k[n])
  BY DEF Setze, Bindet, LeaseSenden, IInv, TypeOK
<1>4. KnotenOK(n, k[n], netz')
  BY <1>2, MehrNachrichten DEF IInv
<1>5. QED BY <1>2, <1>3, <1>4, Einbau DEF IInv, TypeOK, LeaseSenden

\* Choosing a successor stops the acceptance, nothing else.
LEMMA UebergabeBeginnenOK ==
  ASSUME IInv, NEW n \in Validator, NEW naechster \in Validator, UebergabeBeginnen(n, naechster)
  PROVE  Schritt
<1> DEFINE y == [k[n] EXCEPT !.uebergabeAn = naechster]
<1>1. k[n] \in Knoten /\ KnotenOK(n, k[n], netz) /\ Setze(n, y)
  BY DEF IInv, TypeOK, UebergabeBeginnen
<1>2. /\ y \in Knoten /\ y.term = k[n].term /\ y.stimme = k[n].stimme
      /\ y.leiter = k[n].leiter /\ y.acks = k[n].acks /\ y.rolle = k[n].rolle
  BY <1>1 DEF Knoten
<1>3. KnotenOK(n, y, netz) /\ Bindet(k[n], y)
  BY <1>1, <1>2, Unverbindlich
<1>4. QED BY <1>1, <1>3, Einbau DEF IInv, TypeOK, UebergabeBeginnen

\* Handing over raises the term.
LEMMA UebergabeSendenOK ==
  ASSUME IInv, NEW n \in Validator, UebergabeSenden(n)
  PROVE  Schritt
<1> DEFINE z == k[n]
           y == NachUebergabe(n, z)
           m == [Lease(n, z.term, z.satzTerm) EXCEPT !.art = "uebergabe", !.an = z.uebergabeAn]
<1>1. z \in Knoten /\ jetzt \in Nat /\ Setze(n, y) /\ netz' = netz \cup {m}
  BY DEF IInv, TypeOK, UebergabeSenden
<1>2. m \in Nachricht /\ ~Zusage(m)
  BY <1>1 DEF IInv, TypeOK, Lease, Knoten, Nachricht, Zusage
<1>3. /\ netz \subseteq netz' /\ netz' \subseteq Nachricht
      /\ \A x \in netz' \ netz : ~Zusage(x)
  BY <1>1, <1>2, NetzWaechst DEF IInv
<1>4. y \in Knoten
  <2>1. z.term + 1 \in Nat /\ z.uebergabeAn \in Validator \cup {Niemand}
    BY <1>1 DEF Knoten
  <2>2. \A t \in Nat, l \in Validator \cup {Niemand} :
          [z EXCEPT !.rolle = "folger", !.uebergabeAn = Niemand, !.term = t, !.stimme = l,
                    !.leiter = l, !.letzteLease = jetzt, !.acks = KeineAcks] \in Knoten
    BY <1>1, KeineAcksTyp DEF Knoten
  <2>3. QED BY <2>1, <2>2 DEF NachUebergabe
<1>5. y.term = z.term + 1 /\ y.rolle = "folger"
  BY <1>1 DEF NachUebergabe, Knoten
<1>6. KnotenOK(n, y, netz') /\ Bindet(z, y)
  BY <1>1, <1>4, <1>5 DEF KnotenOK, RolleOK, AcksBelegt, Bindet, Knoten
<1>7. QED BY <1>1, <1>3, <1>6, Einbau DEF IInv, TypeOK, UebergabeSenden

\* Taking over raises the term.
LEMMA UebernehmenOK ==
  ASSUME IInv, NEW n \in Validator, Uebernehmen(n)
  PROVE  Schritt
<1> DEFINE z == [k[n] EXCEPT !.term = @ + 1, !.stimme = n]
           y == WerdeLeiter(n, z)
<1>1. k[n] \in Knoten /\ Setze(n, y) /\ netz' = netz \cup {Lease(n, y.term, y.satzTerm)}
  BY DEF IInv, TypeOK, Uebernehmen
<1>2. z \in Knoten /\ z.term = k[n].term + 1
  <2>1. \A x \in Knoten, t \in Nat : [x EXCEPT !.term = t, !.stimme = n] \in Knoten
    BY DEF Knoten
  <2>2. z.term = k[n].term + 1 /\ k[n].term + 1 \in Nat
    BY <1>1 DEF Knoten
  <2>3. QED BY <1>1, <2>1, <2>2
<1>3. KnotenOK(n, y, netz') /\ y.term = z.term /\ y.satzTerm \in Nat
  BY <1>2, WerdeLeiterOK
<1>4. y.term \in Nat /\ Bindet(k[n], y)
  BY <1>1, <1>2, <1>3 DEF Bindet, Knoten
<1>5. /\ netz \subseteq netz' /\ netz' \subseteq Nachricht
      /\ \A x \in netz' \ netz : ~Zusage(x)
  <2>1. Lease(n, y.term, y.satzTerm) \in Nachricht /\ ~Zusage(Lease(n, y.term, y.satzTerm))
    BY <1>3, <1>4, NachrichtenTyp DEF IInv
  <2>2. QED BY <1>1, <2>1, NetzWaechst DEF IInv
<1>6. QED BY <1>1, <1>3, <1>4, <1>5, Einbau DEF IInv, TypeOK, Uebernehmen

\* Asking for pre-votes commits to nothing.
LEMMA VorwahlOK ==
  ASSUME IInv, NEW n \in Validator, Vorwahl(n)
  PROVE  Schritt
<1> DEFINE y == [k[n] EXCEPT !.vorStimmen = {n}, !.seit = jetzt]
           m == Rundruf(n, "vorbitte", k[n].term + 1)
<1>1. k[n] \in Knoten /\ KnotenOK(n, k[n], netz) /\ Setze(n, y) /\ netz' = netz \cup {m}
  BY DEF IInv, TypeOK, Vorwahl
<1>2. /\ y \in Knoten /\ y.term = k[n].term /\ y.stimme = k[n].stimme
      /\ y.leiter = k[n].leiter /\ y.acks = k[n].acks /\ y.rolle = k[n].rolle
  BY <1>1 DEF Knoten, IInv, TypeOK
<1>3. m \in Nachricht /\ ~Zusage(m)
  BY <1>1, NachrichtenTyp DEF Knoten, IInv
<1>4. /\ netz \subseteq netz' /\ netz' \subseteq Nachricht
      /\ \A x \in netz' \ netz : ~Zusage(x)
  BY <1>1, <1>3, NetzWaechst DEF IInv
<1>5. KnotenOK(n, y, netz) /\ Bindet(k[n], y)
  BY <1>1, <1>2, Unverbindlich
<1>6. KnotenOK(n, y, netz')
  BY <1>4, <1>5, MehrNachrichten
<1>7. QED BY <1>1, <1>4, <1>5, <1>6, Einbau DEF IInv, TypeOK, Vorwahl

\* A candidate moves on to a term of its own.
LEMMA KandidierenOK ==
  ASSUME IInv, NEW n \in Validator, Kandidieren(n)
  PROVE  Schritt
<1> DEFINE z == k[n]
           y == [z EXCEPT !.vorStimmen = {}, !.term = @ + 1, !.rolle = "kandidat",
                          !.stimme = n, !.leiter = Niemand, !.seit = jetzt, !.stimmen = {n}]
           m == Rundruf(n, "bitte", z.term + 1)
<1>1. z \in Knoten /\ jetzt \in Nat /\ Setze(n, y) /\ netz' = netz \cup {m}
  BY DEF IInv, TypeOK, Kandidieren
<1>2. y \in Knoten
  <2>1. z.term + 1 \in Nat
    BY <1>1 DEF Knoten
  <2>2. \A t \in Nat : [z EXCEPT !.vorStimmen = {}, !.term = t, !.rolle = "kandidat",
                                 !.stimme = n, !.leiter = Niemand, !.seit = jetzt,
                                 !.stimmen = {n}] \in Knoten
    BY <1>1 DEF Knoten
  <2>3. QED BY <2>1, <2>2
<1>3. y.term = z.term + 1 /\ y.rolle = "kandidat" /\ y.leiter = Niemand
  BY <1>1 DEF Knoten
<1>4. KnotenOK(n, y, netz') /\ Bindet(z, y)
  BY <1>1, <1>2, <1>3 DEF KnotenOK, RolleOK, AcksBelegt, Bindet, Knoten
<1>5. m \in Nachricht /\ ~Zusage(m)
  BY <1>1, NachrichtenTyp DEF Knoten, IInv
<1>6. /\ netz \subseteq netz' /\ netz' \subseteq Nachricht
      /\ \A x \in netz' \ netz : ~Zusage(x)
  BY <1>1, <1>5, NetzWaechst DEF IInv
<1>7. voreilig' \in BOOLEAN /\ jetzt' \in Nat
  BY DEF Kandidieren, IInv, TypeOK
<1>8. QED BY <1>1, <1>4, <1>6, <1>7, Einbau

\* A candidate that gives up keeps its term and vote.
LEMMA KandidatGibtAufOK ==
  ASSUME IInv, NEW n \in Validator, KandidatGibtAuf(n)
  PROVE  Schritt
<1> DEFINE y == [k[n] EXCEPT !.rolle = "folger", !.vorStimmen = {}, !.stimmen = {},
                             !.letzteLease = jetzt]
<1>1. k[n] \in Knoten /\ KnotenOK(n, k[n], netz) /\ Setze(n, y)
  BY DEF IInv, TypeOK, KandidatGibtAuf
<1>2. /\ y \in Knoten /\ y.term = k[n].term /\ y.stimme = k[n].stimme
      /\ y.leiter = k[n].leiter /\ y.acks = k[n].acks /\ y.rolle = "folger"
  BY <1>1 DEF Knoten, IInv, TypeOK
<1> HIDE DEF y
<1>3. KnotenOK(n, y, netz) /\ Bindet(k[n], y)
  BY <1>1, <1>2, Unverbindlich
<1>4. QED BY <1>1, <1>3, Einbau DEF IInv, TypeOK, KandidatGibtAuf

\* A message that clears frischZwei changes nothing anybody relies on.
LEMMA GehoertOK ==
  ASSUME NEW n \in Validator, NEW z \in Knoten, NEW N, KnotenOK(n, z, N), NEW m \in Nachricht
  PROVE  LET y == Gehoert(z, m)
         IN  /\ KnotenOK(n, y, N) /\ Bindet(z, y) /\ y \in Knoten
             /\ y.term = z.term /\ y.stimme = z.stimme /\ y.leiter = z.leiter
             /\ y.rolle = z.rolle /\ y.acks = z.acks
<1> DEFINE y == Gehoert(z, m)
<1>1. y \in Knoten
  BY DEF Gehoert, Knoten
<1>2. /\ y.term = z.term /\ y.stimme = z.stimme /\ y.leiter = z.leiter
      /\ y.rolle = z.rolle /\ y.acks = z.acks
  BY DEF Gehoert, Knoten
<1>3. KnotenOK(n, y, N) /\ Bindet(z, y)
  BY <1>1, <1>2 DEF KnotenOK, RolleOK, AcksBelegt, Bindet
<1>4. QED BY <1>1, <1>2, <1>3

\* Bindet composes.
LEMMA BindetTransitiv ==
  ASSUME NEW x \in Knoten, NEW y \in Knoten, NEW z \in Knoten, Bindet(x, y), Bindet(y, z)
  PROVE  Bindet(x, z)
  BY DEF Bindet, Knoten

\* A granted lease binds the follower to its sender, in the sender's term.
LEMMA LeaseAngenommen ==
  ASSUME NEW n \in Validator, NEW z \in Knoten, NEW N, KnotenOK(n, z, N), NEW m \in Nachricht,
         jetzt \in Nat, ~LeaseAblehnen(z, m)
  PROVE  LET f == IF m.term > z.term \/ z.leiter = Niemand \/ z.rolle # "folger"
                  THEN WerdeFolger(z, m.term, m.von) ELSE z
             y == [f EXCEPT !.letzteLease = jetzt, !.leiter = m.von, !.satzTerm = m.satz]
         IN  KnotenOK(n, y, N) /\ Bindet(z, y) /\ y.term = m.term /\ y.leiter = m.von
<1> DEFINE f == IF m.term > z.term \/ z.leiter = Niemand \/ z.rolle # "folger"
                THEN WerdeFolger(z, m.term, m.von) ELSE z
           y == [f EXCEPT !.letzteLease = jetzt, !.leiter = m.von, !.satzTerm = m.satz]
<1>1. /\ m.term \in Nat /\ m.von \in Validator /\ m.satz \in Nat
      /\ z.term \in Nat /\ z.leiter \in Validator \cup {Niemand}
  BY DEF Nachricht, Knoten
<1>2. m.term >= z.term /\ (m.term = z.term => z.leiter \in {Niemand, m.von})
  BY <1>1 DEF LeaseAblehnen
<1>3. f \in Knoten /\ f.term = m.term /\ f.rolle = "folger" /\ Bindet(z, f)
      /\ (m.term = z.term => f.leiter \in {Niemand, m.von})
  <2>1. CASE m.term > z.term \/ z.leiter = Niemand \/ z.rolle # "folger"
    <3>1. m.term \in Nat /\ m.von \in Validator \cup {Niemand}
      BY <1>1
    <3>2. KnotenOK(n, f, N) /\ Bindet(z, f) /\ f.term = m.term /\ f.leiter = m.von
          /\ f.rolle = "folger"
      BY <1>2, <2>1, <3>1, WerdeFolgerOK
    <3>3. QED BY <3>2 DEF KnotenOK
  <2>2. CASE ~(m.term > z.term \/ z.leiter = Niemand \/ z.rolle # "folger")
    BY <1>1, <1>2, <2>2 DEF Bindet
  <2>3. QED BY <2>1, <2>2
<1> HIDE DEF f
<1>4. y \in Knoten
  BY <1>1, <1>3 DEF Knoten
<1>5. y.term = m.term /\ y.leiter = m.von /\ y.rolle = "folger" /\ y.stimme = f.stimme
  BY <1>3 DEF Knoten
<1>6. KnotenOK(n, y, N)
  BY <1>4, <1>5 DEF KnotenOK, RolleOK, AcksBelegt
<1>7. Bindet(z, y)
  BY <1>1, <1>2, <1>3, <1>5 DEF Bindet
<1>8. QED BY <1>5, <1>6, <1>7 DEF f

\* The answer to a lease is the only promise, and it names its sender.
LEMMA EmpfangeLeaseOK ==
  ASSUME IInv, NEW n \in Validator, NEW m \in netz, EmpfangeLease(n, m)
  PROVE  Schritt
<1> DEFINE z == Gehoert(k[n], m)
           f == IF m.term > z.term \/ z.leiter = Niemand \/ z.rolle # "folger"
                THEN WerdeFolger(z, m.term, m.von) ELSE z
           y == IF LeaseAblehnen(z, m) THEN z
                ELSE [f EXCEPT !.letzteLease = jetzt, !.leiter = m.von, !.satzTerm = m.satz]
           q == [Antwort(n, "ack", m.von, y.term, ~LeaseAblehnen(z, m)) EXCEPT !.zeit = m.zeit]
<1>1. /\ m \in Nachricht /\ k[n] \in Knoten /\ KnotenOK(n, k[n], netz) /\ jetzt \in Nat
      /\ m.von \in Validator /\ m.zeit \in Nat
  BY DEF IInv, TypeOK, Nachricht
<1>2. z \in Knoten /\ KnotenOK(n, z, netz) /\ Bindet(k[n], z)
  BY <1>1, GehoertOK
<1>3. Setze(n, y) /\ netz' = netz \cup {q} /\ jetzt' = jetzt /\ voreilig' = voreilig
  BY DEF EmpfangeLease
<1> HIDE DEF z
<1>4. /\ KnotenOK(n, y, netz) /\ Bindet(z, y) /\ y \in Knoten
      /\ ~LeaseAblehnen(z, m) => y.leiter = m.von
  <2>1. CASE LeaseAblehnen(z, m)
    BY <1>2, <2>1 DEF Bindet
  <2>2. CASE ~LeaseAblehnen(z, m)
    BY <1>1, <1>2, <2>2, LeaseAngenommen DEF KnotenOK
  <2>3. QED BY <2>1, <2>2
<1> HIDE DEF y
<1>5. y.term \in Nat /\ LeaseAblehnen(z, m) \in BOOLEAN
  BY <1>4 DEF Knoten, LeaseAblehnen
<1>6. /\ q \in Nachricht /\ q.von = n /\ q.an = m.von /\ q.term = y.term
      /\ q.ja = ~LeaseAblehnen(z, m)
  BY <1>1, <1>5 DEF Antwort, Nachricht
<1>7. netz \subseteq netz' /\ netz' \subseteq Nachricht
  BY <1>3, <1>6 DEF IInv, TypeOK
<1>8. \A x \in netz' \ netz : Zusage(x) => x.von = n /\ x.an # Niemand
                                          /\ y.term = x.term /\ y.leiter = x.an
  BY <1>1, <1>3, <1>4, <1>6, SatzAnnahme DEF Zusage
<1>9. KnotenOK(n, y, netz')
  BY <1>4, <1>7, MehrNachrichten
<1>10. Bindet(k[n], y)
  BY <1>1, <1>2, <1>4, BindetTransitiv
<1>11. jetzt' \in Nat /\ voreilig' \in BOOLEAN
  BY <1>3 DEF IInv, TypeOK
<1>12. QED BY <1>3, <1>7, <1>8, <1>9, <1>10, <1>11, Einbau

\* A counted acknowledgement is a promise that is in the network.
LEMMA EmpfangeAckOK ==
  ASSUME IInv, NEW n \in Validator, NEW m \in netz, EmpfangeAck(n, m)
  PROVE  Schritt
<1> DEFINE z == Gehoert(k[n], m)
           zaehlt == z.rolle = "leiter" /\ m.term = z.term /\ m.ja
           mit == [z EXCEPT !.acks[m.von] = IF m.zeit > @ THEN m.zeit ELSE @]
           y == IF zaehlt THEN mit
                ELSE IF m.term > z.term THEN WerdeFolger(z, m.term, Niemand) ELSE z
<1>1. /\ m \in Nachricht /\ k[n] \in Knoten /\ KnotenOK(n, k[n], netz) /\ jetzt \in Nat
      /\ m.von \in Validator /\ m.zeit \in Nat /\ m.term \in Nat
      /\ m.art = "ack" /\ m.von # n /\ m.an \in {n, Niemand}
  BY DEF IInv, TypeOK, Nachricht, EmpfangeAck, Zustellbar
<1>2. z \in Knoten /\ KnotenOK(n, z, netz) /\ Bindet(k[n], z)
  BY <1>1, GehoertOK
<1>3. Setze(n, y) /\ netz' = netz /\ jetzt' = jetzt /\ voreilig' \in BOOLEAN
  BY DEF EmpfangeAck, IInv, TypeOK
<1> HIDE DEF z
<1>4. CASE zaehlt
  <2>1. m.an = n
    BY <1>1, <1>4 DEF IInv, Zusage, ZusageGilt
  <2>2. mit \in Knoten
    BY <1>1, <1>2 DEF Knoten
  <2>3. /\ mit.term = z.term /\ mit.stimme = z.stimme /\ mit.leiter = z.leiter
        /\ mit.rolle = z.rolle
        /\ \A v \in Validator \ {m.von} : mit.acks[v] = z.acks[v]
        /\ mit.acks[m.von] \in {z.acks[m.von], m.zeit}
    BY <1>1, <1>2 DEF Knoten
  <2>4. RolleOK(n, mit) /\ Bindet(z, mit)
    BY <1>2, <2>3 DEF KnotenOK, RolleOK, Bindet
  <2>5. AcksBelegt(n, mit, netz)
    <3> SUFFICES ASSUME NEW v \in Validator, mit.acks[v] # 0
                 PROVE  v # n /\ \E x \in netz : Zusage(x) /\ x.von = v /\ x.an = n
                                                 /\ x.term = mit.term
                                                 /\ x.zeit = mit.acks[v]
      BY DEF AcksBelegt
    <3>1. CASE v = m.von /\ mit.acks[v] = m.zeit
      BY <1>1, <1>4, <2>1, <2>3, <3>1 DEF Zusage
    <3>2. CASE mit.acks[v] = z.acks[v]
      BY <1>2, <1>4, <2>3, <3>2 DEF KnotenOK, AcksBelegt
    <3>3. QED BY <2>3, <3>1, <3>2
  <2>6. KnotenOK(n, mit, netz) /\ Bindet(k[n], mit)
    BY <1>1, <1>2, <2>2, <2>4, <2>5, BindetTransitiv DEF KnotenOK
  <2>7. QED BY <1>3, <1>4, <2>6, Einbau DEF IInv, TypeOK
<1>5. CASE ~zaehlt
  <2>1. KnotenOK(n, y, netz) /\ Bindet(z, y)
    <3>1. CASE m.term > z.term
      <4>1. m.term >= z.term /\ m.term # z.term
        BY <1>1, <1>2, <3>1 DEF Knoten
      <4>2. QED BY <1>1, <1>2, <1>5, <3>1, <4>1, WerdeFolgerOK
    <3>2. CASE ~(m.term > z.term)
      BY <1>2, <1>5, <3>2 DEF Bindet
    <3>3. QED BY <3>1, <3>2
  <2> HIDE DEF y
  <2>2. Bindet(k[n], y)
    BY <1>1, <1>2, <2>1, BindetTransitiv DEF KnotenOK
  <2>3. QED BY <1>3, <2>1, <2>2, Einbau DEF IInv, TypeOK
<1>6. QED BY <1>4, <1>5

\* Answering a pre-vote changes nothing.
LEMMA EmpfangeVorbitteOK ==
  ASSUME IInv, NEW n \in Validator, NEW m \in netz, EmpfangeVorbitte(n, m)
  PROVE  Schritt
<1>1. m.von \in Validator /\ m.term \in Nat
  BY DEF IInv, TypeOK, Nachricht
<1>2. /\ netz \subseteq netz' /\ netz' \subseteq Nachricht
      /\ \A x \in netz' \ netz : ~Zusage(x)
  BY <1>1, NachrichtenTyp, NetzWaechst DEF IInv, EmpfangeVorbitte
<1>3. Setze(n, k[n]) /\ Bindet(k[n], k[n])
  BY DEF Setze, Bindet, EmpfangeVorbitte, IInv, TypeOK
<1>4. KnotenOK(n, k[n], netz')
  BY <1>2, MehrNachrichten DEF IInv
<1>5. QED BY <1>2, <1>3, <1>4, Einbau DEF IInv, TypeOK, EmpfangeVorbitte

\* Gathering pre-votes commits to nothing.
LEMMA EmpfangeVorstimmeOK ==
  ASSUME IInv, NEW n \in Validator, NEW m \in netz, EmpfangeVorstimme(n, m)
  PROVE  Schritt
<1> DEFINE z == Gehoert(k[n], m)
           y == [z EXCEPT !.vorStimmen = @ \cup {m.von}]
<1>1. /\ m \in Nachricht /\ k[n] \in Knoten /\ KnotenOK(n, k[n], netz)
      /\ m.von \in Validator
  BY DEF IInv, TypeOK, Nachricht
<1>2. z \in Knoten /\ KnotenOK(n, z, netz) /\ Bindet(k[n], z)
  BY <1>1, GehoertOK
<1>3. Setze(n, y) /\ netz' = netz /\ jetzt' = jetzt /\ voreilig' = voreilig
  BY DEF EmpfangeVorstimme
<1> HIDE DEF z
<1>4. /\ y \in Knoten /\ y.term = z.term /\ y.stimme = z.stimme
      /\ y.leiter = z.leiter /\ y.acks = z.acks /\ y.rolle = z.rolle
  BY <1>1, <1>2 DEF Knoten
<1> HIDE DEF y
<1>5. KnotenOK(n, y, netz) /\ Bindet(z, y)
  BY <1>2, <1>4, Unverbindlich
<1>6. Bindet(k[n], y)
  BY <1>1, <1>2, <1>4, <1>5, BindetTransitiv
<1>7. QED BY <1>3, <1>5, <1>6, Einbau DEF IInv, TypeOK

\* A vote is given once per term, and raises no promise.
LEMMA EmpfangeBitteOK ==
  ASSUME IInv, NEW n \in Validator, NEW m \in netz, EmpfangeBitte(n, m)
  PROVE  Schritt
<1> DEFINE z == k[n]
           neu == IF m.term > z.term
                  THEN [z EXCEPT !.term = m.term, !.stimme = Niemand, !.rolle = "folger",
                                 !.leiter = Niemand]
                  ELSE z
           y == [neu EXCEPT !.stimme = m.von, !.letzteLease = jetzt]
<1>1. /\ m \in Nachricht /\ z \in Knoten /\ KnotenOK(n, z, netz) /\ jetzt \in Nat
      /\ m.von \in Validator /\ m.term \in Nat /\ z.term \in Nat
      /\ jetzt' \in Nat /\ voreilig' \in BOOLEAN
  BY DEF IInv, TypeOK, Nachricht, Knoten, EmpfangeBitte
<1>2. CASE /\ m.term < z.term /\ UNCHANGED k
           /\ netz' = netz \cup {Antwort(n, "stimme", m.von, z.term, FALSE)}
  <2>1. /\ netz \subseteq netz' /\ netz' \subseteq Nachricht
        /\ \A x \in netz' \ netz : ~Zusage(x)
    BY <1>1, <1>2, NachrichtenTyp, NetzWaechst DEF IInv
  <2>2. Setze(n, z) /\ Bindet(z, z)
    BY <1>2 DEF Setze, Bindet, IInv, TypeOK
  <2>3. KnotenOK(n, z, netz')
    BY <1>1, <2>1, MehrNachrichten
  <2>4. QED BY <1>1, <2>1, <2>2, <2>3, Einbau
<1>3. CASE /\ m.term >= z.term /\ z.rolle # "leiter" /\ neu.stimme \in {Niemand, m.von}
           /\ Setze(n, y) /\ netz' = netz \cup {Antwort(n, "stimme", m.von, m.term, TRUE)}
  <2>1. /\ netz \subseteq netz' /\ netz' \subseteq Nachricht
        /\ \A x \in netz' \ netz : ~Zusage(x)
    BY <1>1, <1>3, NachrichtenTyp, NetzWaechst DEF IInv
  <2>2. /\ neu \in Knoten /\ neu.term = m.term /\ neu.rolle # "leiter"
        /\ RolleOK(n, neu)
        /\ neu.term = z.term => neu.stimme = z.stimme /\ neu.leiter = z.leiter
    <3>1. CASE m.term > z.term
      <4> DEFINE w == [z EXCEPT !.term = m.term, !.stimme = Niemand, !.rolle = "folger",
                                !.leiter = Niemand]
      <4>1. w \in Knoten /\ w.term = m.term /\ w.rolle = "folger"
        BY <1>1 DEF Knoten
      <4>2. neu = w /\ m.term # z.term
        BY <1>1, <3>1
      <4>3. QED BY <4>1, <4>2 DEF RolleOK
    <3>2. CASE ~(m.term > z.term)
      BY <1>1, <1>3, <3>2 DEF KnotenOK
    <3>3. QED BY <3>1, <3>2
  <2> HIDE DEF neu
  <2>3. /\ y \in Knoten /\ y.term = m.term /\ y.rolle = neu.rolle
        /\ y.leiter = neu.leiter /\ y.stimme = m.von
    BY <1>1, <2>2 DEF Knoten
  <2>4. KnotenOK(n, y, netz')
    BY <2>2, <2>3 DEF KnotenOK, RolleOK, AcksBelegt
  <2>5. Bindet(z, y)
    BY <1>1, <1>3, <2>2, <2>3 DEF Bindet
  <2>6. QED BY <1>1, <1>3, <2>1, <2>4, <2>5, Einbau
<1>4. QED BY <1>2, <1>3 DEF EmpfangeBitte

\* A candidate that has its majority leads the term it stood for.
LEMMA EmpfangeStimmeOK ==
  ASSUME IInv, NEW n \in Validator, NEW m \in netz, EmpfangeStimme(n, m)
  PROVE  Schritt
<1> DEFINE z == k[n]
           mehr == [z EXCEPT !.stimmen = @ \cup {m.von}]
           y == IF m.term > z.term THEN WerdeFolger(z, m.term, Niemand)
                ELSE IF Cardinality(mehr.stimmen) >= Mehrheit
                THEN WerdeLeiter(n, mehr) ELSE mehr
<1>1. /\ m \in Nachricht /\ z \in Knoten /\ KnotenOK(n, z, netz) /\ jetzt \in Nat
      /\ m.von \in Validator /\ m.term \in Nat /\ z.term \in Nat
  BY DEF IInv, TypeOK, Nachricht, Knoten
<1>2. /\ Setze(n, y) /\ netz' = netz /\ jetzt' = jetzt /\ voreilig' \in BOOLEAN
      /\ m.term > z.term \/ z.rolle = "kandidat"
  <2>1. voreilig' \in BOOLEAN
    <3>1. voreilig \in BOOLEAN /\ LeaseFrisch(z) \in BOOLEAN
      BY DEF IInv, TypeOK, LeaseFrisch
    <3>2. voreilig' = (voreilig \/ LeaseFrisch(z)) \/ voreilig' = voreilig
      BY DEF EmpfangeStimme
    <3>3. QED BY <3>1, <3>2
  <2>2. CASE m.term > z.term
    BY <1>1, <2>1, <2>2 DEF EmpfangeStimme
  <2>3. CASE ~(m.term > z.term)
    BY <1>1, <2>1, <2>3 DEF EmpfangeStimme
  <2>4. QED BY <2>2, <2>3
<1>3. /\ mehr \in Knoten /\ mehr.term = z.term /\ mehr.stimme = z.stimme
      /\ mehr.leiter = z.leiter /\ mehr.acks = z.acks /\ mehr.rolle = z.rolle
  BY <1>1 DEF Knoten
<1> HIDE DEF mehr
<1>4. KnotenOK(n, y, netz) /\ Bindet(z, y)
  <2>1. CASE m.term > z.term
    <3>1. m.term >= z.term /\ m.term # z.term
      BY <1>1, <2>1
    <3>2. QED BY <1>1, <2>1, <3>1, WerdeFolgerOK
  <2>2. CASE ~(m.term > z.term) /\ Cardinality(mehr.stimmen) >= Mehrheit
    <3>1. y = WerdeLeiter(n, mehr) /\ z.leiter = Niemand
      BY <1>1, <1>2, <2>2 DEF KnotenOK, RolleOK
    <3>2. KnotenOK(n, y, netz) /\ y.term = z.term /\ y.stimme = z.stimme
      BY <1>3, <3>1, WerdeLeiterOK
    <3>3. QED BY <3>1, <3>2 DEF Bindet
  <2>3. CASE ~(m.term > z.term) /\ ~(Cardinality(mehr.stimmen) >= Mehrheit)
    <3>1. KnotenOK(n, mehr, netz) /\ Bindet(z, mehr)
      BY <1>1, <1>3, Unverbindlich
    <3>2. QED BY <2>3, <3>1
  <2>4. QED BY <2>1, <2>2, <2>3
<1> HIDE DEF y
<1>5. QED BY <1>2, <1>4, Einbau DEF IInv, TypeOK

\* A received handover is only remembered.
LEMMA EmpfangeUebergabeOK ==
  ASSUME IInv, NEW n \in Validator, NEW m \in netz, EmpfangeUebergabe(n, m)
  PROVE  Schritt
<1> DEFINE z == Gehoert(k[n], m)
           y == IF m.term = z.term /\ m.von = z.leiter /\ m.satz = z.satzTerm
                THEN [z EXCEPT !.wartet = m.term] ELSE z
<1>1. /\ m \in Nachricht /\ k[n] \in Knoten /\ KnotenOK(n, k[n], netz) /\ m.term \in Nat
  BY DEF IInv, TypeOK, Nachricht
<1>2. z \in Knoten /\ KnotenOK(n, z, netz) /\ Bindet(k[n], z)
  BY <1>1, GehoertOK
<1>3. Setze(n, y) /\ netz' = netz /\ jetzt' = jetzt /\ voreilig' = voreilig
  BY DEF EmpfangeUebergabe
<1> HIDE DEF z
<1>4. /\ y \in Knoten /\ y.term = z.term /\ y.stimme = z.stimme
      /\ y.leiter = z.leiter /\ y.acks = z.acks /\ y.rolle = z.rolle
  BY <1>1, <1>2 DEF Knoten
<1> HIDE DEF y
<1>5. KnotenOK(n, y, netz) /\ Bindet(z, y)
  BY <1>2, <1>4, Unverbindlich
<1>6. Bindet(k[n], y)
  BY <1>1, <1>2, <1>4, <1>5, BindetTransitiv
<1>7. QED BY <1>3, <1>5, <1>6, Einbau DEF IInv, TypeOK

\* What a restart keeps is all that binds.
LEMMA NeustartOK ==
  ASSUME IInv, NEW n \in Validator, Neustart(n)
  PROVE  Schritt
<1> DEFINE z == k[n]
           y == NeueLeitung(n, z.term, z.stimme, z.leiter, z.satzTerm, NieGespeichert(n))
<1>1. /\ z \in Knoten /\ z.term \in Nat /\ z.satzTerm \in Nat /\ jetzt \in Nat
      /\ z.stimme \in Validator \cup {Niemand} /\ z.leiter \in Validator \cup {Niemand}
      /\ NieGespeichert(n) \in BOOLEAN
  BY DEF IInv, TypeOK, Knoten, NieGespeichert
<1>2. Setze(n, y) /\ netz' = netz /\ jetzt' = jetzt /\ voreilig' = voreilig
  BY DEF Neustart
<1>3. KnotenOK(n, y, netz) /\ y.term = z.term /\ y.stimme = z.stimme /\ y.leiter = z.leiter
  BY <1>1, NeueLeitungOK
<1> HIDE DEF y
<1>4. Bindet(z, y)
  BY <1>3 DEF Bindet
<1>5. QED BY <1>2, <1>3, <1>4, Einbau DEF IInv, TypeOK

-----------------------------------------------------------------------------
(***************************************************************************)
(* The invariant is inductive.                                             *)
(***************************************************************************)
\* Every step of the system is a Schritt.
LEMMA NextOK ==
  ASSUME IInv, Next
  PROVE  Schritt
<1>1. CASE Tick
  BY <1>1, TickOK
<1>2. ASSUME NEW n \in Validator, Takt(n) PROVE Schritt
  <2>1. ASSUME NEW v \in Leiterfaehig, UebergabeBeginnen(n, v) PROVE Schritt
    BY <2>1, SatzAnnahme, UebergabeBeginnenOK
  <2>2. QED BY <1>2, <2>1, LeaseSendenOK, UebergabeSendenOK, UebernehmenOK, VorwahlOK,
               KandidierenOK, KandidatGibtAufOK DEF Takt
<1>3. ASSUME NEW n \in Neustartende, Neustart(n) PROVE Schritt
  BY <1>3, SatzAnnahme, NeustartOK
<1>4. ASSUME NEW n \in Validator, NEW m \in netz, Empfange(n, m) PROVE Schritt
  BY <1>4, EmpfangeLeaseOK, EmpfangeAckOK, EmpfangeVorbitteOK, EmpfangeVorstimmeOK,
     EmpfangeBitteOK, EmpfangeStimmeOK, EmpfangeUebergabeOK DEF Empfange
<1>5. QED BY <1>1, <1>2, <1>3, <1>4 DEF Next

\* The start satisfies the invariant.
LEMMA InitOK == Init => IInv
<1> SUFFICES ASSUME Init PROVE IInv
  OBVIOUS
<1>1. ASSUME NEW n \in Validator PROVE KnotenOK(n, k[n], netz)
  <2>1. /\ 1 \in Nat /\ 0 \in Nat /\ Niemand \in Validator \cup {Niemand} /\ TRUE \in BOOLEAN
        /\ StartLeiter \in Validator \cup {Niemand} /\ jetzt \in Nat
    BY SatzAnnahme DEF Init
  <2>2. KnotenOK(n, NeueLeitung(n, 1, Niemand, StartLeiter, 0, TRUE), netz)
    BY <2>1, NeueLeitungOK
  <2>3. QED BY <2>2 DEF Init
<1>2. TypeOK
  BY <1>1 DEF Init, TypeOK, KnotenOK
<1>3. QED BY <1>1, <1>2 DEF IInv, Init

\* A Schritt keeps the invariant: promises given before still bind, and a new
\* one agrees with every earlier one of its sender in that term.
LEMMA SchrittErhaelt ==
  ASSUME IInv, Schritt
  PROVE  IInv'
<1>1. ASSUME NEW m \in netz', Zusage(m) PROVE ZusageGilt(m)'
  <2>1. m.von \in Validator /\ k[m.von] \in Knoten /\ k'[m.von] \in Knoten /\ m.term \in Nat
    BY DEF Schritt, TypeOK, IInv, Nachricht
  <2>2. CASE m \in netz
    <3>1. ZusageGilt(m) /\ Bindet(k[m.von], k'[m.von])
      BY <1>1, <2>1, <2>2 DEF IInv, Schritt
    <3>2. QED BY <2>1, <3>1 DEF ZusageGilt, Bindet, Knoten
  <2>3. CASE m \notin netz
    BY <1>1, <2>3 DEF Schritt, ZusagenNeu, ZusageGilt
  <2>4. QED BY <2>2, <2>3
<1>2. ASSUME NEW m1 \in netz', NEW m2 \in netz', Zusage(m1), Zusage(m2),
             m1.von = m2.von, m1.term = m2.term
      PROVE  m1.an = m2.an
  <2>1. /\ m1.von \in Validator /\ k'[m1.von] \in Knoten /\ m1.term \in Nat
        /\ k'[m1.von].term \in Nat
    BY DEF Schritt, TypeOK, IInv, Nachricht, Knoten
  <2>2. ZusageGilt(m1)' /\ ZusageGilt(m2)'
    BY <1>1, <1>2
  <2>3. CASE m1 \in netz /\ m2 \in netz
    BY <1>2, <2>3 DEF IInv
  <2>4. CASE m1 \notin netz
    BY <1>2, <2>1, <2>2, <2>4 DEF Schritt, ZusagenNeu, ZusageGilt
  <2>5. CASE m2 \notin netz
    BY <1>2, <2>1, <2>2, <2>5 DEF Schritt, ZusagenNeu, ZusageGilt
  <2>6. QED BY <2>3, <2>4, <2>5
<1>3. QED BY <1>1, <1>2 DEF IInv, Schritt

\* The invariant holds throughout.
THEOREM Invariante == Spec => []IInv
<1>1. IInv /\ [Next]_vars => IInv'
  <2> SUFFICES ASSUME IInv, [Next]_vars PROVE IInv'
    OBVIOUS
  <2>1. CASE Next
    BY <2>1, NextOK, SchrittErhaelt
  <2>2. CASE UNCHANGED vars
    BY <2>2 DEF vars, IInv, TypeOK, ZusageGilt
  <2>3. QED BY <2>1, <2>2
<1>2. QED BY InitOK, <1>1, PTL DEF Spec

\* Type correctness.
THEOREM TypKorrekt == Spec => []TypeOK
<1>1. IInv => TypeOK
  BY DEF IInv
<1>2. QED BY <1>1, Invariante, PTL

\* Terms, votes and the known leader of a term are never taken back, whatever
\* messages arrive and however often nodes restart.
THEOREM TermBindetGilt == Spec => TermBindet
<1> DEFINE A == \A n \in Validator :
                  \/ k'[n].term > k[n].term
                  \/ /\ k'[n].term = k[n].term
                     /\ k[n].stimme # Niemand => k'[n].stimme = k[n].stimme
                     /\ k[n].leiter # Niemand => k'[n].leiter = k[n].leiter
<1>1. IInv /\ [Next]_vars => [A]_vars
  <2> SUFFICES ASSUME IInv, Next PROVE A
    OBVIOUS
  <2>1. Schritt
    BY NextOK
  <2>2. QED BY <2>1 DEF Schritt, Bindet
<1>2. QED BY <1>1, Invariante, PTL DEF Spec, TermBindet

-----------------------------------------------------------------------------
(***************************************************************************)
(* One acceptor per term: two majorities share a member, and that member   *)
(* has promised itself to one leader of the term only.                     *)
(***************************************************************************)
\* Who stands behind a leader: itself and whoever acknowledged a fresh lease.
Hinter(n) == {n} \cup {v \in Validator : AckFrisch(k[n], v)}

\* Whoever accepts has a majority behind it.
LEMMA MehrheitHinter ==
  ASSUME IInv, MitWahl, NEW n \in Validator, NimmtAn(n)
  PROVE  Hinter(n) \subseteq Validator /\ Cardinality(Hinter(n)) >= Mehrheit
<1> DEFINE F == {v \in Validator : AckFrisch(k[n], v)}
<1>1. F \subseteq Validator /\ IsFiniteSet(F)
  BY SatzAnnahme, FS_Subset
<1>2. n \notin F
  BY DEF IInv, KnotenOK, AcksBelegt, NimmtAn, AckFrisch
<1>3. Cardinality(F \cup {n}) = Cardinality(F) + 1
  BY <1>1, <1>2, FS_AddElement
<1>4. 1 + Cardinality(F) >= Mehrheit
  BY DEF NimmtAn
<1>5. Cardinality(F) \in Nat
  BY <1>1, FS_CardinalityType
<1>6. Hinter(n) = F \cup {n}
  BY DEF Hinter
<1>7. QED BY <1>1, <1>3, <1>4, <1>5, <1>6

\* Nobody stands behind two acceptors of the same term.
LEMMA HinterEinem ==
  ASSUME IInv, NEW a \in Validator, NEW b \in Validator, k[a].rolle = "leiter",
         k[b].rolle = "leiter", k[a].term = k[b].term, a # b
  PROVE  Hinter(a) \cap Hinter(b) = {}
<1> SUFFICES ASSUME NEW x \in Hinter(a), x \in Hinter(b) PROVE FALSE
  OBVIOUS
<1>1. k[a].leiter = a /\ k[b].leiter = b /\ k[a].term \in Nat
  BY DEF IInv, KnotenOK, RolleOK, TypeOK, Knoten
<1>2. x # a => \E m \in netz : Zusage(m) /\ m.von = x /\ m.an = a /\ m.term = k[a].term
  BY DEF Hinter, AckFrisch, IInv, KnotenOK, AcksBelegt
<1>3. x # b => \E m \in netz : Zusage(m) /\ m.von = x /\ m.an = b /\ m.term = k[a].term
  BY DEF Hinter, AckFrisch, IInv, KnotenOK, AcksBelegt
<1>4. CASE x = a
  <2>1. PICK m \in netz : Zusage(m) /\ m.von = a /\ m.an = b /\ m.term = k[a].term
    BY <1>3, <1>4
  <2>2. ZusageGilt(m)
    BY <2>1 DEF IInv
  <2>3. QED BY <1>1, <2>1, <2>2 DEF ZusageGilt
<1>5. CASE x = b
  <2>1. PICK m \in netz : Zusage(m) /\ m.von = b /\ m.an = a /\ m.term = k[b].term
    BY <1>2, <1>5
  <2>2. ZusageGilt(m)
    BY <2>1 DEF IInv
  <2>3. QED BY <1>1, <2>1, <2>2 DEF ZusageGilt
<1>6. CASE x # a /\ x # b
  <2>1. PICK m1 \in netz : Zusage(m1) /\ m1.von = x /\ m1.an = a /\ m1.term = k[a].term
    BY <1>2, <1>6
  <2>2. PICK m2 \in netz : Zusage(m2) /\ m2.von = x /\ m2.an = b /\ m2.term = k[a].term
    BY <1>3, <1>6
  <2>3. QED BY <2>1, <2>2 DEF IInv
<1>7. QED BY <1>4, <1>5, <1>6

\* From three validators on, one term never has two that accept transfers.
THEOREM EinAnnehmenderProTermGilt == MitWahl => (Spec => []EinAnnehmenderProTerm)
<1> SUFFICES ASSUME MitWahl PROVE Spec => []EinAnnehmenderProTerm
  OBVIOUS
<1>1. IInv => EinAnnehmenderProTerm
  <2> SUFFICES ASSUME IInv, NEW a \in Validator, NEW b \in Validator, NimmtAn(a), NimmtAn(b),
                      k[a].term = k[b].term, a # b
               PROVE  FALSE
    BY DEF EinAnnehmenderProTerm
  <2>1. Hinter(a) \cap Hinter(b) = {}
    BY HinterEinem DEF NimmtAn
  <2>2. /\ Hinter(a) \subseteq Validator /\ Cardinality(Hinter(a)) >= Mehrheit
        /\ Hinter(b) \subseteq Validator /\ Cardinality(Hinter(b)) >= Mehrheit
    BY MehrheitHinter
  <2>3. Cardinality(Hinter(a)) \in Nat /\ Cardinality(Hinter(b)) \in Nat
        /\ Cardinality(Validator) \in Nat
    BY <2>2, SatzAnnahme, FS_Subset, FS_CardinalityType
  <2>4. Cardinality(Hinter(a)) + Cardinality(Hinter(b)) > Cardinality(Validator)
    BY <2>2, <2>3 DEF Mehrheit
  <2>5. QED BY <2>1, <2>2, <2>4, SatzAnnahme, FS_MajoritiesIntersect
<1>2. QED BY <1>1, Invariante, PTL


-----------------------------------------------------------------------------
(***************************************************************************)
(* What holds of every node and message, whatever followers promised.      *)
(***************************************************************************)
\* n leads wherever it is on record as leader, and waits for a takeover only
\* with the handover of the leader it follows.
AmtOK(n, z, N, t) ==
  /\ z.term >= 1 /\ z.letzteLease <= t /\ z.wartet <= z.term
  /\ z.leiter = n => z.rolle = "leiter"
  /\ z.uebergabeAn # n /\ (z.uebergabeAn # Niemand => n \in Abgebende)
  /\ z.wartet = z.term => \E m \in N : /\ m.art = "uebergabe" /\ m.von = z.leiter
                                       /\ m.von # n /\ m.term = z.term

\* A follower has been silent since every lease it acknowledged, and who
\* handed a term over has left it without having promised anything in it.
PostOK(m) ==
  /\ m.art = "lease" => m.zeit <= jetzt
  /\ Zusage(m) => m.zeit <= k[m.von].letzteLease /\ m.an # m.von
  /\ m.art = "uebergabe" =>
       /\ k[m.von].term > m.term /\ m.von \in Abgebende
       /\ \A q \in netz : Zusage(q) /\ q.von = m.von => q.term # m.term

BasisInv ==
  /\ IInv
  /\ \A n \in Validator : AmtOK(n, k[n], netz, jetzt)
  /\ \A m \in netz : PostOK(m)

\* What is asked of a message that n sends while its record becomes y.
NeuePostOK(n, y, m) ==
  /\ m.art = "lease" => m.zeit <= jetzt
  /\ Zusage(m) => m.zeit <= y.letzteLease /\ m.an # n
  /\ m.art = "uebergabe" =>
       /\ m.von = n /\ n \in Abgebende /\ y.term > m.term
       /\ \A q \in netz' : Zusage(q) /\ q.von = n => q.term # m.term

\* More messages and more time only support a record.
LEMMA AmtBleibt ==
  ASSUME NEW n, NEW z \in Knoten, NEW N, NEW M, N \subseteq M, NEW s \in Nat, NEW t \in Nat,
         s <= t, AmtOK(n, z, N, s)
  PROVE  AmtOK(n, z, M, t)
<1>1. z.letzteLease \in Nat
  BY DEF Knoten
<1>2. QED BY <1>1 DEF AmtOK

\* A step of one node keeps BasisInv if its new record and its new messages do.
LEMMA BasisEinbau ==
  ASSUME BasisInv, Schritt, jetzt' = jetzt, NEW n \in Validator, NEW y, Setze(n, y),
         AmtOK(n, y, netz', jetzt), y.letzteLease >= k[n].letzteLease,
         \A m \in netz' \ netz : (Zusage(m) => m.von = n) /\ NeuePostOK(n, y, m)
  PROVE  BasisInv'
<1>1. /\ IInv /\ IInv' /\ TypeOK /\ TypeOK' /\ netz \subseteq netz' /\ jetzt \in Nat
  BY SchrittErhaelt DEF BasisInv, IInv, TypeOK, Schritt
<1>2. /\ k'[n] = y /\ \A v \in Validator \ {n} : k'[v] = k[v]
  BY <1>1 DEF Setze, TypeOK
<1>3. ASSUME NEW v \in Validator PROVE AmtOK(v, k[v], netz, jetzt)'
  <2>1. CASE v = n
    BY <1>2, <2>1
  <2>2. CASE v # n
    <3>1. AmtOK(v, k[v], netz', jetzt)
      BY <1>1, AmtBleibt DEF BasisInv, TypeOK
    <3>2. QED BY <1>2, <2>2, <3>1
  <2>3. QED BY <2>1, <2>2
<1>4. ASSUME NEW v \in Validator
      PROVE  /\ k'[v].letzteLease >= k[v].letzteLease /\ k'[v].term >= k[v].term
             /\ k[v].letzteLease \in Nat /\ k'[v].letzteLease \in Nat
             /\ k[v].term \in Nat /\ k'[v].term \in Nat
  <2>1. k[v] \in Knoten /\ k'[v] \in Knoten
    BY <1>1 DEF TypeOK
  <2>2. k'[v].term >= k[v].term
    BY <2>1 DEF Schritt, Bindet, Knoten
  <2>3. k'[v].letzteLease >= k[v].letzteLease
    BY <1>2, <2>1 DEF Knoten
  <2>4. QED BY <2>1, <2>2, <2>3 DEF Knoten
<1>5. ASSUME NEW m \in netz' PROVE PostOK(m)'
  <2>1. m \in Nachricht /\ m.von \in Validator /\ m.term \in Nat /\ m.zeit \in Nat
    BY <1>1 DEF TypeOK, Nachricht
  <2>2. CASE m \in netz
    <3>1. PostOK(m)
      BY <2>2 DEF BasisInv
    <3>2. m.art = "lease" => m.zeit <= jetzt'
      BY <3>1 DEF PostOK
    <3>3. Zusage(m) => m.zeit <= k'[m.von].letzteLease /\ m.an # m.von
      BY <1>4, <2>1, <3>1 DEF PostOK
    <3>4. ASSUME m.art = "uebergabe"
          PROVE  /\ k'[m.von].term > m.term /\ m.von \in Abgebende
                 /\ \A q \in netz' : Zusage(q) /\ q.von = m.von => q.term # m.term
      <4>1. k'[m.von].term > m.term /\ m.von \in Abgebende
        BY <1>4, <2>1, <3>1, <3>4 DEF PostOK
      <4>2. ASSUME NEW q \in netz', Zusage(q), q.von = m.von PROVE q.term # m.term
        <5>1. CASE q \in netz
          BY <3>1, <3>4, <4>2, <5>1 DEF PostOK
        <5>2. CASE q \notin netz
          BY <2>1, <4>1, <4>2, <5>2, <1>4 DEF Schritt, ZusagenNeu
        <5>3. QED BY <5>1, <5>2
      <4>3. QED BY <4>1, <4>2
    <3>5. QED BY <3>2, <3>3, <3>4 DEF PostOK
  <2>3. CASE m \notin netz
    BY <1>2, <2>1, <2>3 DEF PostOK, NeuePostOK
  <2>4. QED BY <2>2, <2>3
<1>6. QED BY <1>1, <1>3, <1>5 DEF BasisInv

-----------------------------------------------------------------------------
(***************************************************************************)
(* Who can no longer win a majority in its term.                           *)
(***************************************************************************)
Frisch(m) == jetzt - m.zeit < FolgerFrist

\* x will never again count for a in term i.
Verloren(x, a, i) ==
  /\ k[x].term > i
  /\ \A m \in netz : Zusage(m) /\ m.von = x /\ m.an = a /\ m.term = i => ~Frisch(m)

\* So many that no majority does without them.
Sperrt(K) == Cardinality(K) + Mehrheit > Cardinality(Validator)

Abgehaengt(a, i) == \E K \in SUBSET Validator : Sperrt(K) /\ \A x \in K : Verloren(x, a, i)

\* a leads term i no more, or in vain.
Erledigt(a, i) == k[a].term > i \/ Abgehaengt(a, i)

\* All terms before e are over: who leads e may accept.
Geklaert(e) == \A a \in Validator, i \in Nat : i < e => Erledigt(a, i)

\* Nobody counts on x anymore who could win with it.
Frei(x) == \A m \in netz : Zusage(m) /\ m.von = x /\ Frisch(m) => Erledigt(m.an, m.term)

\* The same of the terms before e, in which x promises nothing more.
Ungebunden(x, e) ==
  /\ k[x].term >= e
  /\ \A m \in netz : Zusage(m) /\ m.von = x /\ m.term < e /\ Frisch(m) => Erledigt(m.an, m.term)

WahlOK(n) ==
  /\ k[n].rolle = "leiter" => Geklaert(k[n].term)
  /\ k[n].rolle = "leiter" \/ k[n].leiter = Niemand => Frei(n)
  /\ k[n].rolle = "kandidat" => \A x \in k[n].stimmen : Ungebunden(x, k[n].term)

BriefOK(m) ==
  /\ m.art = "stimme" /\ m.ja => Ungebunden(m.von, m.term)
  /\ m.art = "uebergabe" => Geklaert(m.term)

WahlInv ==
  ~voreilig => (\A n \in Validator : WahlOK(n)) /\ (\A m \in netz : BriefOK(m))

\* A step of one node n, in which only n may promise.
SchrittVon(n) ==
  /\ BasisInv /\ BasisInv' /\ Schritt /\ jetzt' >= jetzt /\ (voreilig => voreilig')
  /\ \A v \in Validator \ {n} : k'[v] = k[v]
  /\ \A m \in netz' \ netz : Zusage(m) => m.von = n

\* Terms, times and messages only grow.
LEMMA Waechst ==
  ASSUME NEW n, SchrittVon(n)
  PROVE  /\ jetzt \in Nat /\ jetzt' \in Nat /\ jetzt' >= jetzt
         /\ netz \subseteq netz' /\ netz \subseteq Nachricht /\ netz' \subseteq Nachricht
         /\ \A v \in Validator : k[v].term \in Nat /\ k'[v].term \in Nat
                                 /\ k'[v].term >= k[v].term
<1>1. TypeOK /\ TypeOK' /\ netz \subseteq netz'
  BY DEF SchrittVon, BasisInv, IInv, Schritt
<1>2. ASSUME NEW v \in Validator
      PROVE  k[v].term \in Nat /\ k'[v].term \in Nat /\ k'[v].term >= k[v].term
  <2>1. k[v] \in Knoten /\ k'[v] \in Knoten /\ Bindet(k[v], k'[v])
    BY <1>1 DEF TypeOK, SchrittVon, Schritt
  <2>2. k[v].term \in Nat /\ k'[v].term \in Nat
    BY <2>1 DEF Knoten
  <2>3. QED BY <2>1, <2>2 DEF Bindet
<1>3. QED BY <1>1, <1>2 DEF TypeOK, SchrittVon

\* A message that is fresh after a step was fresh before.
LEMMA FrischVorher ==
  ASSUME NEW n, SchrittVon(n), NEW m \in netz, Frisch(m)'
  PROVE  Frisch(m)
<1>1. m.zeit \in Nat /\ jetzt \in Nat /\ jetzt' \in Nat /\ jetzt' >= jetzt
  BY Waechst DEF Nachricht
<1>2. QED BY <1>1, FristenAnnahme DEF Frisch

\* What is over stays over.
LEMMA ErledigtBleibt ==
  ASSUME NEW n, SchrittVon(n), NEW a \in Validator, NEW i \in Nat, Erledigt(a, i)
  PROVE  Erledigt(a, i)'
<1>1. CASE k[a].term > i
  BY <1>1, Waechst DEF Erledigt
<1>2. CASE Abgehaengt(a, i)
  <2>1. ASSUME NEW x \in Validator, Verloren(x, a, i) PROVE Verloren(x, a, i)'
    <3>1. k'[x].term > i
      BY <2>1, Waechst DEF Verloren
    <3>2. ASSUME NEW m \in netz', Zusage(m), m.von = x, m.an = a, m.term = i
          PROVE  ~(Frisch(m)')
      <4>1. m \in netz
        BY <3>1, <3>2, Waechst DEF SchrittVon, Schritt, ZusagenNeu
      <4>2. QED BY <2>1, <3>2, <4>1, FrischVorher DEF Verloren
    <3>3. QED BY <3>1, <3>2 DEF Verloren
  <2>2. QED BY <1>2, <2>1 DEF Abgehaengt, Erledigt, Sperrt
<1>3. QED BY <1>1, <1>2 DEF Erledigt

\* Where all earlier terms are over, they stay so.
LEMMA GeklaertBleibt ==
  ASSUME NEW n, SchrittVon(n), NEW e \in Nat, Geklaert(e)
  PROVE  Geklaert(e)'
  BY ErledigtBleibt DEF Geklaert

\* A promise names a validator other than its sender, and a term up to its.
LEMMA ZusageTyp ==
  ASSUME IInv, NEW m \in netz, Zusage(m)
  PROVE  /\ m.an \in Validator /\ m.term \in Nat /\ m.von \in Validator
         /\ m.zeit \in Nat /\ m.term <= k[m.von].term
         /\ m.term = k[m.von].term => k[m.von].leiter = m.an
<1>1. ZusageGilt(m) /\ m \in Nachricht /\ k[m.von] \in Knoten
  BY DEF IInv, TypeOK, Nachricht
<1>2. QED BY <1>1 DEF ZusageGilt, Nachricht, Knoten

\* Who promises nothing more before term e never will.
LEMMA UngebundenBleibt ==
  ASSUME NEW n, SchrittVon(n), NEW x \in Validator, NEW e \in Nat, Ungebunden(x, e)
  PROVE  Ungebunden(x, e)'
<1>1. k'[x].term >= e
  BY Waechst DEF Ungebunden
<1>2. ASSUME NEW m \in netz', Zusage(m), m.von = x, m.term < e, Frisch(m)'
      PROVE  Erledigt(m.an, m.term)'
  <2>1. m \in netz
    BY <1>1, <1>2, Waechst DEF SchrittVon, Schritt, ZusagenNeu, Nachricht
  <2>2. Erledigt(m.an, m.term) /\ m.an \in Validator /\ m.term \in Nat
    BY <1>2, <2>1, FrischVorher, ZusageTyp DEF Ungebunden, SchrittVon, BasisInv
  <2>3. QED BY <2>2, ErledigtBleibt
<1>3. QED BY <1>1, <1>2 DEF Ungebunden

\* Who promises nothing stays free, and is unbound up to its new term.
LEMMA FreiBleibt ==
  ASSUME NEW n, SchrittVon(n), NEW x \in Validator, Frei(x),
         \A m \in netz' \ netz : Zusage(m) => m.von # x
  PROVE  Frei(x)' /\ \A e \in Nat : k'[x].term >= e => Ungebunden(x, e)'
<1>1. ASSUME NEW m \in netz', Zusage(m), m.von = x, Frisch(m)'
      PROVE  Erledigt(m.an, m.term)'
  <2>1. Erledigt(m.an, m.term) /\ m.an \in Validator /\ m.term \in Nat
    BY <1>1, FrischVorher, ZusageTyp DEF Frei, SchrittVon, BasisInv
  <2>2. QED BY <2>1, ErledigtBleibt
<1>2. QED BY <1>1 DEF Frei, Ungebunden

\* A node that would vote is free.
LEMMA WerWaehltIstFrei ==
  ASSUME BasisInv, ~voreilig, WahlInv, NEW x \in Validator,
         k[x].rolle = "folger" => ~LeaseFrisch(k[x])
  PROVE  Frei(x)
<1>1. k[x] \in Knoten /\ RolleOK(x, k[x]) /\ jetzt \in Nat
  BY DEF BasisInv, IInv, TypeOK, KnotenOK
<1>2. CASE k[x].rolle = "leiter" \/ k[x].leiter = Niemand
  BY <1>2 DEF WahlInv, WahlOK
<1>3. CASE k[x].rolle = "folger" /\ k[x].leiter # Niemand
  <2>1. ~(jetzt - k[x].letzteLease < FolgerFrist)
    BY <1>3 DEF LeaseFrisch
  <2>2. ASSUME NEW m \in netz, Zusage(m), m.von = x PROVE ~Frisch(m)
    <3>1. m.zeit <= k[x].letzteLease /\ m.zeit \in Nat /\ k[x].letzteLease \in Nat
      BY <1>1, <2>2, ZusageTyp DEF BasisInv, PostOK, Knoten
    <3>2. QED BY <1>1, <2>1, <3>1, FristenAnnahme DEF Frisch
  <2>3. QED BY <2>2 DEF Frei
<1>4. QED BY <1>1, <1>2, <1>3 DEF RolleOK, Knoten

\* The other nodes keep WahlInv: it is enough to look at the one that moves.
LEMMA WahlEinbau ==
  ASSUME NEW n \in Validator, SchrittVon(n), WahlInv,
         ~voreilig' => WahlOK(n)' /\ \A m \in netz' \ netz : BriefOK(m)'
  PROVE  WahlInv'
<1> SUFFICES ASSUME ~voreilig'
             PROVE  (\A v \in Validator : WahlOK(v)') /\ (\A m \in netz' : BriefOK(m)')
  BY DEF WahlInv
<1>1. ~voreilig
  BY DEF SchrittVon
<1>2. ASSUME NEW v \in Validator, v # n PROVE WahlOK(v)'
  <2>1. WahlOK(v) /\ k'[v] = k[v] /\ k[v].term \in Nat /\ k[v].stimmen \subseteq Validator
    BY <1>1, <1>2 DEF WahlInv, SchrittVon, BasisInv, IInv, TypeOK, Knoten
  <2> SUFFICES ASSUME NEW t \in Nat, k[v].term = t PROVE WahlOK(v)'
    BY <2>1
  <2>2. k[v].rolle = "leiter" => Geklaert(t)'
    BY <2>1, GeklaertBleibt DEF WahlOK
  <2>3. k[v].rolle = "leiter" \/ k[v].leiter = Niemand => Frei(v)'
    BY <1>2, <2>1, FreiBleibt DEF WahlOK, SchrittVon
  <2>4. k[v].rolle = "kandidat" => \A x \in k[v].stimmen : Ungebunden(x, t)'
    BY <2>1, UngebundenBleibt DEF WahlOK
  <2>5. QED BY <2>1, <2>2, <2>3, <2>4 DEF WahlOK, Geklaert, Ungebunden
<1>3. ASSUME NEW m \in netz PROVE BriefOK(m)'
  <2>1. BriefOK(m) /\ m.von \in Validator /\ m.term \in Nat
    BY <1>1, Waechst DEF WahlInv, Nachricht
  <2>2. QED BY <2>1, UngebundenBleibt, GeklaertBleibt DEF BriefOK
<1>4. QED BY <1>2, <1>3

\* A node that keeps term, leader and role, or only gives up standing.
LEMMA WahlGleich ==
  ASSUME NEW n \in Validator, SchrittVon(n), WahlOK(n), k'[n].term = k[n].term,
         k'[n].leiter = k[n].leiter, k'[n].rolle \in {k[n].rolle, "folger"},
         k'[n].rolle = "kandidat" => k'[n].stimmen = k[n].stimmen,
         \A m \in netz' \ netz : ~Zusage(m)
  PROVE  WahlOK(n)'
<1>1. k[n].term \in Nat /\ k[n].stimmen \subseteq Validator
  BY DEF SchrittVon, BasisInv, IInv, TypeOK, Knoten
<1> SUFFICES ASSUME NEW t \in Nat, k[n].term = t PROVE WahlOK(n)'
  BY <1>1
<1>2. k'[n].rolle = "leiter" => Geklaert(t)'
  BY <1>1, GeklaertBleibt DEF WahlOK
<1>3. k'[n].rolle = "leiter" \/ k'[n].leiter = Niemand => Frei(n)'
  BY FreiBleibt DEF WahlOK
<1>4. k'[n].rolle = "kandidat" => \A x \in k'[n].stimmen : Ungebunden(x, t)'
  BY <1>1, UngebundenBleibt DEF WahlOK
<1>5. QED BY <1>2, <1>3, <1>4 DEF WahlOK, Geklaert, Ungebunden

\* A majority of unbound voters ends all earlier terms.
LEMMA MehrheitKlaert ==
  ASSUME IInv, NEW e \in Nat, NEW K \in SUBSET Validator, Cardinality(K) >= Mehrheit,
         \A x \in K : Ungebunden(x, e)
  PROVE  Geklaert(e)
<1> SUFFICES ASSUME NEW a \in Validator, NEW i \in Nat, i < e PROVE Erledigt(a, i)
  BY DEF Geklaert
<1>1. CASE \E x \in K, m \in netz : Zusage(m) /\ m.von = x /\ m.an = a /\ m.term = i /\ Frisch(m)
  BY <1>1 DEF Ungebunden
<1>2. CASE ~\E x \in K, m \in netz : Zusage(m) /\ m.von = x /\ m.an = a /\ m.term = i /\ Frisch(m)
  <2>1. Sperrt(K)
    <3>1. Cardinality(K) \in Nat /\ Cardinality(Validator) \in Nat
      BY SatzAnnahme, FS_Subset, FS_CardinalityType
    <3>2. QED BY <3>1 DEF Sperrt, Mehrheit
  <2>2. ASSUME NEW x \in K PROVE Verloren(x, a, i)
    <3>1. k[x].term \in Nat
      BY DEF IInv, TypeOK, Knoten
    <3>2. QED BY <1>2, <3>1 DEF Ungebunden, Verloren
  <2>3. QED BY <2>1, <2>2 DEF Erledigt, Abgehaengt
<1>3. QED BY <1>1, <1>2

-----------------------------------------------------------------------------
(***************************************************************************)
(* The actions keep both invariants.                                       *)
(***************************************************************************)
\* Handovers that leave nobody a majority behind: the leader and its successor
\* are enough to prevent it, or nobody hands over.
Handhabbar == MitWahl /\ (Cardinality(Validator) <= 4 \/ Abgebende = {})

\* What a step is to keep.
Haelt == BasisInv' /\ (Handhabbar /\ WahlInv => WahlInv')

\* What every action finds.
LEMMA Lage ==
  ASSUME BasisInv, NEW n \in Validator
  PROVE  /\ IInv /\ k[n] \in Knoten /\ RolleOK(n, k[n]) /\ AmtOK(n, k[n], netz, jetzt)
         /\ jetzt \in Nat /\ k \in [Validator -> Knoten] /\ netz \subseteq Nachricht
         /\ k[n].term \in Nat /\ k[n].wartet \in Nat /\ k[n].letzteLease \in Nat
         /\ k[n].satzTerm \in Nat /\ k[n].leiter \in Validator \cup {Niemand}
         /\ k[n].stimmen \subseteq Validator
  BY DEF BasisInv, IInv, TypeOK, KnotenOK, Knoten

\* A step of n alone, from its new record and its new messages.
LEMMA AlsSchrittVon ==
  ASSUME BasisInv, Schritt, jetzt' = jetzt, NEW n \in Validator, NEW y, Setze(n, y),
         AmtOK(n, y, netz', jetzt), y.letzteLease >= k[n].letzteLease, voreilig => voreilig',
         \A m \in netz' \ netz : (Zusage(m) => m.von = n) /\ NeuePostOK(n, y, m)
  PROVE  SchrittVon(n) /\ k'[n] = y
<1>1. BasisInv'
  BY BasisEinbau
<1>2. k'[n] = y /\ \A v \in Validator \ {n} : k'[v] = k[v]
  BY Lage DEF Setze
<1>3. jetzt' >= jetzt
  BY Lage
<1>4. QED BY <1>1, <1>2, <1>3 DEF SchrittVon

\* A step that changes nothing others rely on, and sends nothing they rely on.
LEMMA GleichHaelt ==
  ASSUME BasisInv, Schritt, jetzt' = jetzt, voreilig => voreilig',
         NEW n \in Validator, NEW y \in Knoten, Setze(n, y),
         y.term = k[n].term, y.leiter = k[n].leiter, y.rolle \in {k[n].rolle, "folger"},
         y.leiter = n => y.rolle = "leiter", y.uebergabeAn # n,
         y.uebergabeAn \in {k[n].uebergabeAn, Niemand} \/ n \in Abgebende,
         y.letzteLease \in {k[n].letzteLease, jetzt},
         y.rolle = "kandidat" => y.stimmen = k[n].stimmen,
         \/ y.wartet \in {k[n].wartet, 0}
         \/ \E m \in netz : /\ m.art = "uebergabe" /\ m.von = y.leiter /\ m.von # n
                            /\ m.term = y.term /\ y.wartet = m.term,
         \A m \in netz' \ netz : /\ ~Zusage(m) /\ m.art # "uebergabe"
                                 /\ m.art = "lease" => m.zeit <= jetzt
                                 /\ m.art = "stimme" => ~m.ja
  PROVE  Haelt
<1>1. netz \subseteq netz' /\ 0 \in Nat
  BY DEF Schritt
<1>2. AmtOK(n, y, netz', jetzt) /\ y.letzteLease >= k[n].letzteLease
  BY <1>1, Lage DEF AmtOK
<1>3. SchrittVon(n) /\ k'[n] = y
  BY <1>2, AlsSchrittVon DEF NeuePostOK
<1>4. WahlInv /\ ~voreilig' => WahlOK(n)'
  BY <1>3, WahlGleich DEF WahlInv, SchrittVon
<1>5. \A m \in netz' \ netz : BriefOK(m)'
  BY DEF BriefOK
<1>6. QED BY <1>3, <1>4, <1>5, WahlEinbau DEF SchrittVon, Haelt

\* WahlOK of the node that moves, from what it becomes.
LEMMA WahlNeu ==
  ASSUME NEW n \in Validator, SchrittVon(n), NEW t \in Nat, k'[n].term = t,
         k'[n].rolle = "leiter" => Geklaert(t)',
         k'[n].rolle = "leiter" \/ k'[n].leiter = Niemand => Frei(n)',
         k'[n].rolle = "kandidat" => \A x \in k'[n].stimmen : Ungebunden(x, t)'
  PROVE  WahlOK(n)'
  BY DEF WahlOK, Geklaert, Ungebunden

\* Time passes: promises only grow old.
LEMMA TickHaelt ==
  ASSUME BasisInv, Tick
  PROVE  Haelt
<1>1. /\ IInv /\ TypeOK /\ jetzt \in Nat /\ jetzt' = jetzt + 1 /\ k' = k /\ netz' = netz
      /\ voreilig' = voreilig
  BY DEF BasisInv, IInv, TypeOK, Tick
<1>2. Schritt /\ IInv'
  BY <1>1, TickOK, SchrittErhaelt
<1>3. ASSUME NEW v \in Validator PROVE AmtOK(v, k[v], netz, jetzt)'
  <2>1. AmtOK(v, k[v], netz, jetzt + 1)
    BY <1>1, AmtBleibt DEF BasisInv, TypeOK
  <2>2. QED BY <1>1, <2>1
<1>4. ASSUME NEW m \in netz' PROVE PostOK(m)'
  <2>1. PostOK(m) /\ m.zeit \in Nat
    BY <1>1 DEF BasisInv, TypeOK, Nachricht
  <2>2. QED BY <1>1, <2>1 DEF PostOK
<1>5. BasisInv'
  BY <1>2, <1>3, <1>4 DEF BasisInv
<1>6. ASSUME WahlInv, NEW n \in Validator PROVE WahlInv'
  <2>1. SchrittVon(n)
    BY <1>1, <1>2, <1>5 DEF SchrittVon
  <2>2. ~voreilig' => WahlOK(n)'
    BY <1>1, <1>6, <2>1, WahlGleich DEF WahlInv
  <2>3. QED BY <1>1, <1>6, <2>1, <2>2, WahlEinbau
<1>7. QED BY <1>5, <1>6, SatzAnnahme DEF Haelt

\* A lease is dated with the time it is sent.
LEMMA LeaseSendenHaelt ==
  ASSUME BasisInv, NEW n \in Validator, LeaseSenden(n)
  PROVE  Haelt
<1>1. Schritt /\ k[n] \in Knoten /\ AmtOK(n, k[n], netz, jetzt) /\ jetzt \in Nat
  BY Lage, LeaseSendenOK
<1>2. /\ Setze(n, k[n]) /\ jetzt' = jetzt /\ voreilig' = voreilig
      /\ netz' = netz \cup {Lease(n, k[n].term, k[n].satzTerm)}
  BY Lage DEF LeaseSenden, Setze
<1>3. \A m \in netz' \ netz : ~Zusage(m) /\ m.art = "lease" /\ m.zeit = jetzt
  BY <1>2 DEF Lease, Zusage
<1>4. QED BY <1>1, <1>2, <1>3, GleichHaelt DEF AmtOK

\* Choosing a successor sends nothing, and nobody chooses itself.
LEMMA UebergabeBeginnenHaelt ==
  ASSUME BasisInv, NEW n \in Validator, NEW v \in Validator, UebergabeBeginnen(n, v)
  PROVE  Haelt
<1> DEFINE y == [k[n] EXCEPT !.uebergabeAn = v]
<1>1. Schritt /\ k[n] \in Knoten /\ AmtOK(n, k[n], netz, jetzt) /\ jetzt \in Nat
  BY Lage, UebergabeBeginnenOK
<1>2. /\ Setze(n, y) /\ jetzt' = jetzt /\ voreilig' = voreilig /\ netz' = netz /\ v # n
      /\ n \in Abgebende
  BY DEF UebergabeBeginnen
<1>3. /\ y \in Knoten /\ y.term = k[n].term /\ y.leiter = k[n].leiter /\ y.rolle = k[n].rolle
      /\ y.uebergabeAn = v /\ y.letzteLease = k[n].letzteLease /\ y.stimmen = k[n].stimmen
      /\ y.wartet = k[n].wartet
  BY <1>1 DEF Knoten
<1> HIDE DEF y
<1>4. QED BY <1>1, <1>2, <1>3, GleichHaelt DEF AmtOK

\* Asking for pre-votes changes nothing others rely on.
LEMMA VorwahlHaelt ==
  ASSUME BasisInv, NEW n \in Validator, Vorwahl(n)
  PROVE  Haelt
<1> DEFINE y == [k[n] EXCEPT !.vorStimmen = {n}, !.seit = jetzt]
<1>1. Schritt /\ k[n] \in Knoten /\ AmtOK(n, k[n], netz, jetzt) /\ jetzt \in Nat
  BY Lage, VorwahlOK
<1>2. /\ Setze(n, y) /\ jetzt' = jetzt /\ voreilig' = voreilig
      /\ netz' = netz \cup {Rundruf(n, "vorbitte", k[n].term + 1)}
  BY DEF Vorwahl
<1>3. /\ y \in Knoten /\ y.term = k[n].term /\ y.leiter = k[n].leiter /\ y.rolle = k[n].rolle
      /\ y.uebergabeAn = k[n].uebergabeAn /\ y.letzteLease = k[n].letzteLease
      /\ y.stimmen = k[n].stimmen /\ y.wartet = k[n].wartet
  BY <1>1 DEF Knoten
<1> HIDE DEF y
<1>4. \A m \in netz' \ netz : ~Zusage(m) /\ m.art = "vorbitte"
  BY <1>2 DEF Rundruf, Zusage
<1>5. QED BY <1>1, <1>2, <1>3, <1>4, GleichHaelt DEF AmtOK

\* Who stops standing is as free as before.
LEMMA KandidatGibtAufHaelt ==
  ASSUME BasisInv, NEW n \in Validator, KandidatGibtAuf(n)
  PROVE  Haelt
<1> DEFINE y == [k[n] EXCEPT !.rolle = "folger", !.vorStimmen = {}, !.stimmen = {},
                             !.letzteLease = jetzt]
<1>1. /\ Schritt /\ k[n] \in Knoten /\ AmtOK(n, k[n], netz, jetzt) /\ jetzt \in Nat
      /\ k[n].leiter = Niemand
  BY Lage, KandidatGibtAufOK DEF KandidatGibtAuf, RolleOK
<1>2. Setze(n, y) /\ jetzt' = jetzt /\ voreilig' = voreilig /\ netz' = netz
  BY DEF KandidatGibtAuf
<1>3. /\ y \in Knoten /\ y.term = k[n].term /\ y.leiter = k[n].leiter /\ y.rolle = "folger"
      /\ y.uebergabeAn = k[n].uebergabeAn /\ y.letzteLease = jetzt /\ y.wartet = k[n].wartet
  BY <1>1 DEF Knoten
<1> HIDE DEF y
<1>4. QED BY <1>1, <1>2, <1>3, GleichHaelt, SatzAnnahme DEF AmtOK

\* Gehoert touches frischZwei only.
LEMMA GehoertFelder ==
  ASSUME NEW n \in Validator, NEW z \in Knoten, NEW m \in Nachricht
  PROVE  LET y == Gehoert(z, m)
         IN  /\ y \in Knoten /\ y.term = z.term /\ y.leiter = z.leiter /\ y.rolle = z.rolle
             /\ y.uebergabeAn = z.uebergabeAn /\ y.letzteLease = z.letzteLease
             /\ y.stimmen = z.stimmen /\ y.wartet = z.wartet
  BY DEF Gehoert, Knoten

\* A granted pre-vote promises nothing.
LEMMA EmpfangeVorbitteHaelt ==
  ASSUME BasisInv, NEW n \in Validator, NEW m \in netz, EmpfangeVorbitte(n, m)
  PROVE  Haelt
<1>1. Schritt /\ k[n] \in Knoten /\ AmtOK(n, k[n], netz, jetzt) /\ jetzt \in Nat
  BY Lage, EmpfangeVorbitteOK DEF BasisInv
<1>2. /\ Setze(n, k[n]) /\ jetzt' = jetzt /\ voreilig' = voreilig
      /\ netz' = netz \cup {Antwort(n, "vorstimme", m.von, m.term, TRUE)}
  BY Lage DEF EmpfangeVorbitte, Setze
<1>3. \A q \in netz' \ netz : ~Zusage(q) /\ q.art = "vorstimme"
  BY <1>2 DEF Antwort, Zusage
<1>4. QED BY <1>1, <1>2, <1>3, GleichHaelt DEF AmtOK

\* Pre-votes change nothing others rely on.
LEMMA EmpfangeVorstimmeHaelt ==
  ASSUME BasisInv, NEW n \in Validator, NEW m \in netz, EmpfangeVorstimme(n, m)
  PROVE  Haelt
<1> DEFINE z == Gehoert(k[n], m)
           y == [z EXCEPT !.vorStimmen = @ \cup {m.von}]
<1>1. /\ Schritt /\ k[n] \in Knoten /\ AmtOK(n, k[n], netz, jetzt) /\ jetzt \in Nat
      /\ m \in Nachricht
  BY Lage, EmpfangeVorstimmeOK DEF BasisInv
<1>2. Setze(n, y) /\ jetzt' = jetzt /\ voreilig' = voreilig /\ netz' = netz
  BY DEF EmpfangeVorstimme
<1>3. /\ y \in Knoten /\ y.term = k[n].term /\ y.leiter = k[n].leiter /\ y.rolle = k[n].rolle
      /\ y.uebergabeAn = k[n].uebergabeAn /\ y.letzteLease = k[n].letzteLease
      /\ y.stimmen = k[n].stimmen /\ y.wartet = k[n].wartet
  <2>1. \A x \in Knoten, v \in Validator :
          LET w == [x EXCEPT !.vorStimmen = @ \cup {v}]
          IN  /\ w \in Knoten /\ w.term = x.term /\ w.leiter = x.leiter /\ w.rolle = x.rolle
              /\ w.uebergabeAn = x.uebergabeAn /\ w.letzteLease = x.letzteLease
              /\ w.stimmen = x.stimmen /\ w.wartet = x.wartet
    BY DEF Knoten
  <2>2. m.von \in Validator
    BY <1>1 DEF Nachricht
  <2>3. QED BY <1>1, <2>1, <2>2, GehoertFelder
<1> HIDE DEF y
<1>4. QED BY <1>1, <1>2, <1>3, GleichHaelt DEF AmtOK

\* A follower waits for a takeover with the handover of its leader in hand.
LEMMA EmpfangeUebergabeHaelt ==
  ASSUME BasisInv, NEW n \in Validator, NEW m \in netz, EmpfangeUebergabe(n, m)
  PROVE  Haelt
<1> DEFINE z == Gehoert(k[n], m)
           y == IF m.term = z.term /\ m.von = z.leiter /\ m.satz = z.satzTerm
                THEN [z EXCEPT !.wartet = m.term] ELSE z
<1>1. /\ Schritt /\ k[n] \in Knoten /\ AmtOK(n, k[n], netz, jetzt) /\ jetzt \in Nat
      /\ m \in Nachricht /\ m.term \in Nat /\ m.art = "uebergabe" /\ m.von # n
  BY Lage, EmpfangeUebergabeOK DEF BasisInv, Nachricht, EmpfangeUebergabe, Zustellbar
<1>2. Setze(n, y) /\ jetzt' = jetzt /\ voreilig' = voreilig /\ netz' = netz
  BY DEF EmpfangeUebergabe
<1>3. /\ y \in Knoten /\ y.term = k[n].term /\ y.leiter = k[n].leiter /\ y.rolle = k[n].rolle
      /\ y.uebergabeAn = k[n].uebergabeAn /\ y.letzteLease = k[n].letzteLease
      /\ y.stimmen = k[n].stimmen
      /\ \/ y.wartet = k[n].wartet
         \/ y.wartet = m.term /\ m.term = y.term /\ m.von = y.leiter
  <2>1. \A x \in Knoten, t \in Nat :
          LET w == [x EXCEPT !.wartet = t]
          IN  /\ w \in Knoten /\ w.term = x.term /\ w.leiter = x.leiter /\ w.rolle = x.rolle
              /\ w.uebergabeAn = x.uebergabeAn /\ w.letzteLease = x.letzteLease
              /\ w.stimmen = x.stimmen /\ w.wartet = t
    BY DEF Knoten
  <2>2. QED BY <1>1, <2>1, GehoertFelder
<1> HIDE DEF y
<1>4. QED BY <1>1, <1>2, <1>3, GleichHaelt DEF AmtOK

\* A started node has its term and leader back, and waits for nothing.
LEMMA NeustartHaelt ==
  ASSUME BasisInv, NEW n \in Validator, Neustart(n)
  PROVE  Haelt
<1> DEFINE y == NeueLeitung(n, k[n].term, k[n].stimme, k[n].leiter, k[n].satzTerm,
                            NieGespeichert(n))
<1>1. /\ Schritt /\ k[n] \in Knoten /\ AmtOK(n, k[n], netz, jetzt) /\ jetzt \in Nat
      /\ RolleOK(n, k[n]) /\ IInv
  BY Lage, NeustartOK
<1>2. Setze(n, y) /\ jetzt' = jetzt /\ voreilig' = voreilig /\ netz' = netz
  BY DEF Neustart
<1>3. /\ y.term = k[n].term /\ y.leiter = k[n].leiter
      /\ y.rolle = IF k[n].leiter = n THEN "leiter" ELSE "folger"
      /\ y.uebergabeAn = Niemand /\ y.letzteLease = jetzt /\ y.wartet = 0
  BY DEF NeueLeitung, FristAbStart
<1>4. y \in Knoten
  <2>1. k' \in [Validator -> Knoten] /\ k'[n] = y
    BY <1>1, <1>2, Lage DEF Schritt, TypeOK, Setze
  <2>2. QED BY <2>1
<1> HIDE DEF y
<1>5. y.rolle \in {k[n].rolle, "folger"} /\ (y.leiter = n => y.rolle = "leiter")
      /\ y.rolle # "kandidat"
  BY <1>1, <1>3 DEF AmtOK
<1>6. Niemand # n
  BY SatzAnnahme
<1>7. QED BY <1>1, <1>2, <1>3, <1>4, <1>5, <1>6, GleichHaelt

\* A leader has promised nothing in its own term, so who hands it over leaves
\* no promise behind.
LEMMA UebergabeSendenHaelt ==
  ASSUME BasisInv, NEW n \in Validator, UebergabeSenden(n)
  PROVE  Haelt
<1> DEFINE z == k[n]
           y == NachUebergabe(n, z)
           m == [Lease(n, z.term, z.satzTerm) EXCEPT !.art = "uebergabe", !.an = z.uebergabeAn]
<1>1. /\ Schritt /\ z \in Knoten /\ AmtOK(n, z, netz, jetzt) /\ jetzt \in Nat
      /\ RolleOK(n, z) /\ IInv /\ z.term \in Nat /\ z.wartet \in Nat
  BY Lage, UebergabeSendenOK
<1>2. /\ Setze(n, y) /\ jetzt' = jetzt /\ voreilig' = voreilig /\ netz' = netz \cup {m}
      /\ z.rolle = "leiter" /\ z.uebergabeAn # Niemand
  BY DEF UebergabeSenden
<1>3. /\ y.term = z.term + 1 /\ y.leiter = z.uebergabeAn /\ y.rolle = "folger"
      /\ y.letzteLease = jetzt /\ y.wartet = z.wartet /\ y.uebergabeAn = Niemand
  BY <1>1 DEF NachUebergabe, Knoten
<1>4. m.art = "uebergabe" /\ m.von = n /\ m.term = z.term
  BY DEF Lease
<1> HIDE DEF y, m
<1>5. AmtOK(n, y, netz', jetzt) /\ y.letzteLease >= z.letzteLease
  BY <1>1, <1>2, <1>3, SatzAnnahme DEF AmtOK, Knoten
<1>6. ASSUME NEW q \in netz', Zusage(q), q.von = n PROVE q \in netz /\ q.term # z.term
  <2>1. q \in netz
    BY <1>2, <1>4, <1>6 DEF Zusage
  <2>2. q.an # n
    BY <1>6, <2>1 DEF BasisInv, PostOK
  <2>3. QED BY <1>1, <1>2, <1>6, <2>1, <2>2, ZusageTyp DEF RolleOK
<1>7. SchrittVon(n) /\ k'[n] = y
  <2>1. ASSUME NEW q \in netz' \ netz PROVE (Zusage(q) => q.von = n) /\ NeuePostOK(n, y, q)
    BY <1>1, <1>2, <1>3, <1>4, <1>6 DEF NeuePostOK, Zusage, AmtOK
  <2>2. QED BY <1>1, <1>2, <1>5, <2>1, AlsSchrittVon
<1>8. ~voreilig' => WahlOK(n)'
  BY <1>2, <1>3, <1>7 DEF WahlOK
<1>9. ASSUME WahlInv, ~voreilig', NEW q \in netz' \ netz PROVE BriefOK(q)'
  <2>1. q.art = "uebergabe" /\ q.term = z.term
    BY <1>2, <1>4
  <2>2. Geklaert(q.term)
    BY <1>2, <1>9, <2>1 DEF WahlInv, WahlOK
  <2>3. QED BY <1>1, <1>7, <2>1, <2>2, GeklaertBleibt DEF BriefOK
<1>10. QED BY <1>7, <1>8, <1>9, WahlEinbau DEF SchrittVon, Haelt

\* Of at most four validators every majority holds one of any two.
LEMMA ZweiSperren ==
  ASSUME NEW a \in Validator, NEW b \in Validator, a # b, Cardinality(Validator) <= 4, MitWahl
  PROVE  {a, b} \in SUBSET Validator /\ Sperrt({a, b})
<1>1. IsFiniteSet({b}) /\ Cardinality({b}) = 1
  BY FS_Singleton
<1>2. Cardinality({b} \cup {a}) = 2
  BY <1>1, FS_AddElement
<1>3. {a, b} = {b} \cup {a} /\ Cardinality(Validator) \in Nat
  BY SatzAnnahme, FS_CardinalityType
<1>4. Cardinality({a, b}) = 2
  BY <1>2, <1>3
<1>5. \A n \in Nat : n <= 4 => 2 + (n \div 2 + 1) > n
  <2>1. ASSUME NEW n \in 0 .. 4 PROVE 2 + (n \div 2 + 1) > n
    <3>1. n \div 2 \in {0, 1, 2} /\ (n <= 3 \/ n \div 2 = 2)
      OBVIOUS
    <3>2. QED BY <3>1
  <2>2. QED BY <2>1
<1>6. QED BY <1>3, <1>4, <1>5 DEF Sperrt, Mehrheit

\* Who takes over ends the term it was handed: its predecessor has left it, and
\* nobody else can win a majority without the two.
LEMMA UebernehmenHaelt ==
  ASSUME BasisInv, NEW n \in Validator, Uebernehmen(n)
  PROVE  Haelt
<1> DEFINE z == [k[n] EXCEPT !.term = @ + 1, !.stimme = n]
           y == WerdeLeiter(n, z)
<1>1. /\ Schritt /\ k[n] \in Knoten /\ AmtOK(n, k[n], netz, jetzt) /\ jetzt \in Nat
      /\ IInv /\ k[n].term \in Nat /\ k[n].letzteLease \in Nat
  BY Lage, UebernehmenOK
<1>2. /\ Setze(n, y) /\ jetzt' = jetzt /\ voreilig' = voreilig
      /\ netz' = netz \cup {Lease(n, y.term, y.satzTerm)} /\ k[n].wartet = k[n].term
  BY DEF Uebernehmen
<1>3. /\ y.term = k[n].term + 1 /\ y.leiter = n /\ y.rolle = "leiter"
      /\ y.letzteLease = k[n].letzteLease /\ y.wartet = 0 /\ y.uebergabeAn = Niemand
  BY <1>1 DEF WerdeLeiter, Knoten
<1> HIDE DEF y
<1>4. AmtOK(n, y, netz', jetzt) /\ y.letzteLease >= k[n].letzteLease
  BY <1>1, <1>3, SatzAnnahme DEF AmtOK
<1>5. \A q \in netz' \ netz : ~Zusage(q) /\ q.art = "lease" /\ q.zeit = jetzt
  BY <1>2 DEF Lease, Zusage
<1>6. SchrittVon(n) /\ k'[n] = y
  <2>1. ASSUME NEW q \in netz' \ netz PROVE (Zusage(q) => q.von = n) /\ NeuePostOK(n, y, q)
    BY <1>1, <1>5 DEF NeuePostOK
  <2>2. QED BY <1>1, <1>2, <1>4, <2>1, AlsSchrittVon
<1>7. PICK u \in netz : /\ u.art = "uebergabe" /\ u.von = k[n].leiter /\ u.von # n
                        /\ u.term = k[n].term
  BY <1>1, <1>2 DEF AmtOK
<1>8. /\ PostOK(u) /\ u.von \in Validator /\ u.term \in Nat /\ k[u.von].term > u.term
      /\ u.von \in Abgebende
  BY <1>1, <1>7 DEF BasisInv, PostOK, IInv, TypeOK, Nachricht
<1>9. ASSUME Handhabbar, WahlInv, ~voreilig' PROVE WahlOK(n)'
  <2>1. ~voreilig /\ Geklaert(u.term)
    BY <1>2, <1>7, <1>9 DEF WahlInv, BriefOK
  <2>2. Frei(n)
    <3> SUFFICES ASSUME NEW q \in netz, Zusage(q), q.von = n PROVE Erledigt(q.an, q.term)
      BY DEF Frei
    <3>1. /\ q.an \in Validator /\ q.term \in Nat /\ q.term <= u.term
          /\ q.term = u.term => q.an = u.von
      BY <1>1, <1>7, ZusageTyp
    <3>2. CASE q.term < u.term
      BY <2>1, <3>1, <3>2 DEF Geklaert
    <3>3. CASE q.term = u.term
      BY <1>8, <3>1, <3>3 DEF Erledigt
    <3>4. QED BY <1>8, <3>1, <3>2, <3>3
  <2>3. Geklaert(u.term + 1)'
    <3> SUFFICES ASSUME NEW a \in Validator, NEW i \in Nat, i < u.term + 1
                 PROVE  Erledigt(a, i)'
      BY DEF Geklaert
    <3>1. CASE i < u.term
      BY <1>6, <2>1, <3>1, ErledigtBleibt DEF Geklaert
    <3>2. CASE i = u.term /\ a \in {n, u.von}
      <4>1. k'[n].term > i /\ k'[u.von].term > i
        BY <1>3, <1>6, <1>7, <1>8, <3>2, Waechst
      <4>2. QED BY <3>2, <4>1 DEF Erledigt
    <3>3. CASE i = u.term /\ a \notin {n, u.von}
      <4>1. {n, u.von} \in SUBSET Validator /\ Sperrt({n, u.von})
        BY <1>7, <1>8, <1>9, ZweiSperren DEF Handhabbar
      <4>2. k'[n].term > i /\ k'[u.von].term > i
        BY <1>3, <1>6, <1>7, <1>8, <3>3, Waechst
      <4>3. ASSUME NEW q \in netz', Zusage(q), q.von \in {n, u.von}, q.an = a, q.term = i
            PROVE  FALSE
        <5>1. q \in netz
          BY <1>5, <4>3
        <5>2. q.von # u.von
          BY <1>7, <1>8, <3>3, <4>3, <5>1 DEF PostOK
        <5>3. q.an = u.von
          BY <1>1, <1>7, <3>3, <4>3, <5>1, <5>2, ZusageTyp
        <5>4. QED BY <3>3, <4>3, <5>3
      <4>4. \A x \in {n, u.von} : Verloren(x, a, i)'
        BY <4>2, <4>3 DEF Verloren
      <4>5. QED BY <4>1, <4>4 DEF Erledigt, Abgehaengt, Sperrt
    <3>4. QED BY <1>8, <3>1, <3>2, <3>3
  <2>4. Frei(n)'
    BY <1>5, <1>6, <2>2, FreiBleibt
  <2>5. u.term + 1 \in Nat /\ k'[n].term = u.term + 1 /\ k'[n].rolle # "kandidat"
    BY <1>3, <1>6, <1>7, <1>8
  <2>6. QED BY <1>6, <2>3, <2>4, <2>5, WahlNeu
<1>10. \A q \in netz' \ netz : BriefOK(q)'
  BY <1>5 DEF BriefOK
<1>11. QED BY <1>6, <1>9, <1>10, WahlEinbau DEF SchrittVon, Haelt

\* Who would vote is free, and stays so in whatever term it moves on to.
LEMMA WerWaehltBleibtFrei ==
  ASSUME NEW n \in Validator, SchrittVon(n), WahlInv, ~voreilig,
         k[n].rolle = "folger" => ~LeaseFrisch(k[n]), \A m \in netz' \ netz : ~Zusage(m)
  PROVE  Frei(n)' /\ \A e \in Nat : k'[n].term >= e => Ungebunden(n, e)'
<1>1. Frei(n)
  BY WerWaehltIstFrei DEF SchrittVon
<1>2. QED BY <1>1, FreiBleibt

\* A candidate kept silent: no lease it acknowledged still counts.
LEMMA KandidierenHaelt ==
  ASSUME BasisInv, NEW n \in Validator, Kandidieren(n)
  PROVE  Haelt
<1> DEFINE z == k[n]
           y == [z EXCEPT !.vorStimmen = {}, !.term = @ + 1, !.rolle = "kandidat",
                          !.stimme = n, !.leiter = Niemand, !.seit = jetzt, !.stimmen = {n}]
<1>1. /\ Schritt /\ z \in Knoten /\ AmtOK(n, z, netz, jetzt) /\ jetzt \in Nat
      /\ z.term \in Nat /\ z.wartet \in Nat /\ z.letzteLease \in Nat
  BY Lage, KandidierenOK
<1>2. /\ Setze(n, y) /\ jetzt' = jetzt /\ voreilig' = (voreilig \/ LeaseFrisch(z))
      /\ netz' = netz \cup {Rundruf(n, "bitte", z.term + 1)}
  BY DEF Kandidieren
<1>3. /\ y.term = z.term + 1 /\ y.leiter = Niemand /\ y.rolle = "kandidat"
      /\ y.uebergabeAn = z.uebergabeAn /\ y.letzteLease = z.letzteLease
      /\ y.stimmen = {n} /\ y.wartet = z.wartet
  BY <1>1 DEF Knoten
<1> HIDE DEF y
<1>4. \A m \in netz' \ netz : ~Zusage(m) /\ m.art = "bitte"
  BY <1>2 DEF Rundruf, Zusage
<1>5. AmtOK(n, y, netz', jetzt) /\ y.letzteLease >= z.letzteLease
  BY <1>1, <1>3, SatzAnnahme DEF AmtOK
<1>6. SchrittVon(n) /\ k'[n] = y
  BY <1>1, <1>2, <1>4, <1>5, AlsSchrittVon DEF NeuePostOK
<1>7. ASSUME WahlInv, ~voreilig' PROVE WahlOK(n)'
  <2>1. ~voreilig /\ ~LeaseFrisch(z)
    BY <1>2, <1>7
  <2>2. Frei(n)' /\ \A e \in Nat : k'[n].term >= e => Ungebunden(n, e)'
    BY <1>4, <1>6, <1>7, <2>1, WerWaehltBleibtFrei
  <2>3. k'[n].term \in Nat
    BY <1>1, <1>3, <1>6
  <2> SUFFICES ASSUME NEW t \in Nat, k'[n].term = t PROVE WahlOK(n)'
    BY <2>3
  <2>4. Ungebunden(n, t)'
    BY <2>2
  <2>5. QED BY <1>3, <1>6, <2>2, <2>4, WahlNeu
<1>8. \A m \in netz' \ netz : BriefOK(m)'
  BY <1>4 DEF BriefOK
<1>9. QED BY <1>6, <1>7, <1>8, WahlEinbau DEF SchrittVon, Haelt

\* What accepting a lease leaves of the record.
LEMMA LeaseFelder ==
  ASSUME NEW n \in Validator, NEW z \in Knoten, NEW m \in Nachricht, ~LeaseAblehnen(z, m)
  PROVE  LET f == IF m.term > z.term \/ z.leiter = Niemand \/ z.rolle # "folger"
                  THEN WerdeFolger(z, m.term, m.von) ELSE z
             y == [f EXCEPT !.letzteLease = jetzt, !.leiter = m.von, !.satzTerm = m.satz]
         IN  /\ y.term = m.term /\ y.leiter = m.von /\ y.rolle = "folger"
             /\ y.letzteLease = jetzt /\ y.wartet = z.wartet
             /\ y.uebergabeAn \in {z.uebergabeAn, Niemand}
             /\ m.term >= z.term /\ (m.term = z.term => z.leiter \in {Niemand, m.von})
<1>1. m.term \in Nat /\ z.term \in Nat
  BY DEF Nachricht, Knoten
<1>2. m.term >= z.term /\ (m.term = z.term => z.leiter \in {Niemand, m.von})
  BY <1>1 DEF LeaseAblehnen
<1>3. CASE m.term > z.term \/ z.leiter = Niemand \/ z.rolle # "folger"
  BY <1>2, <1>3 DEF WerdeFolger, Knoten
<1>4. CASE ~(m.term > z.term \/ z.leiter = Niemand \/ z.rolle # "folger")
  BY <1>1, <1>2, <1>4 DEF Knoten
<1>5. QED BY <1>3, <1>4

\* A promise is as old as the lease it answers, and nobody answers itself.
LEMMA EmpfangeLeaseHaelt ==
  ASSUME BasisInv, NEW n \in Validator, NEW m \in netz, EmpfangeLease(n, m)
  PROVE  Haelt
<1> DEFINE z == Gehoert(k[n], m)
           f == IF m.term > z.term \/ z.leiter = Niemand \/ z.rolle # "folger"
                THEN WerdeFolger(z, m.term, m.von) ELSE z
           g == [f EXCEPT !.letzteLease = jetzt, !.leiter = m.von, !.satzTerm = m.satz]
           y == IF LeaseAblehnen(z, m) THEN z ELSE g
           q == [Antwort(n, "ack", m.von, y.term, ~LeaseAblehnen(z, m)) EXCEPT !.zeit = m.zeit]
<1>1. /\ Schritt /\ k[n] \in Knoten /\ AmtOK(n, k[n], netz, jetzt) /\ jetzt \in Nat
      /\ k[n].term \in Nat /\ k[n].wartet \in Nat /\ k[n].letzteLease \in Nat
      /\ m \in Nachricht /\ m.art = "lease" /\ m.von # n /\ m.zeit <= jetzt
      /\ m.von \in Validator /\ m.term \in Nat
  BY Lage, EmpfangeLeaseOK DEF BasisInv, PostOK, Nachricht, EmpfangeLease, Zustellbar
<1>2. /\ Setze(n, y) /\ jetzt' = jetzt /\ voreilig' = voreilig /\ netz' = netz \cup {q}
  BY DEF EmpfangeLease
<1>3. /\ z \in Knoten /\ z.term = k[n].term /\ z.leiter = k[n].leiter
      /\ z.rolle = k[n].rolle /\ z.uebergabeAn = k[n].uebergabeAn
      /\ z.letzteLease = k[n].letzteLease /\ z.stimmen = k[n].stimmen
      /\ z.wartet = k[n].wartet
  BY <1>1, GehoertFelder
<1> HIDE DEF z
<1>4. /\ q.art = "ack" /\ q.von = n /\ q.an = m.von /\ q.zeit = m.zeit
      /\ q.ja = ~LeaseAblehnen(z, m)
  BY DEF Antwort
<1>5. CASE LeaseAblehnen(z, m)
  <2>1. y = z /\ ~Zusage(q)
    BY <1>4, <1>5 DEF Zusage
  <2>2. QED BY <1>1, <1>2, <1>3, <1>4, <2>1, GleichHaelt DEF AmtOK
<1>6. CASE ~LeaseAblehnen(z, m)
  <2>1. /\ y.term = m.term /\ y.leiter = m.von /\ y.rolle = "folger"
        /\ y.letzteLease = jetzt /\ y.wartet = z.wartet
        /\ y.uebergabeAn \in {z.uebergabeAn, Niemand}
        /\ m.term >= z.term /\ (m.term = z.term => z.leiter \in {Niemand, m.von})
    BY <1>1, <1>3, <1>6, LeaseFelder
  <2> HIDE DEF y, q
  <2>2. \A x \in netz : x.von # Niemand
    BY <1>1, Lage, SatzAnnahme DEF Nachricht
  <2>3. AmtOK(n, y, netz', jetzt) /\ y.letzteLease >= k[n].letzteLease
    BY <1>1, <1>2, <1>3, <2>1, <2>2, SatzAnnahme DEF AmtOK
  <2>4. SchrittVon(n) /\ k'[n] = y
    <3>1. ASSUME NEW x \in netz' \ netz PROVE (Zusage(x) => x.von = n) /\ NeuePostOK(n, y, x)
      BY <1>1, <1>2, <1>4, <2>1, <3>1 DEF NeuePostOK
    <3>2. QED BY <1>1, <1>2, <2>3, <3>1, AlsSchrittVon
  <2>5. WahlOK(n)'
    BY <1>1, <2>1, <2>4, SatzAnnahme DEF WahlOK
  <2>6. \A x \in netz' \ netz : BriefOK(x)'
    BY <1>2, <1>4 DEF BriefOK
  <2>7. QED BY <2>4, <2>5, <2>6, WahlEinbau DEF SchrittVon, Haelt
<1>7. QED BY <1>5, <1>6

\* Learning of a higher term: a follower that does not give up a fresh lease
\* by it has nothing to keep.
LEMMA HoeherHaelt ==
  ASSUME BasisInv, Schritt, NEW n \in Validator, NEW z \in Knoten, NEW t \in Nat,
         z.term = k[n].term, z.wartet = k[n].wartet, t > z.term,
         Setze(n, WerdeFolger(z, t, Niemand)), jetzt' = jetzt, netz' = netz,
         voreilig' = (voreilig \/ LeaseFrisch(k[n]))
  PROVE  Haelt
<1> DEFINE y == WerdeFolger(z, t, Niemand)
<1>1. /\ AmtOK(n, k[n], netz, jetzt) /\ jetzt \in Nat /\ k[n].term \in Nat
      /\ k[n].wartet \in Nat /\ k[n].letzteLease \in Nat
  BY Lage
<1>2. /\ y.term = t /\ y.leiter = Niemand /\ y.rolle = "folger" /\ y.uebergabeAn = Niemand
      /\ y.letzteLease = jetzt /\ y.wartet = z.wartet
  BY DEF WerdeFolger, Knoten
<1> HIDE DEF y
<1>3. AmtOK(n, y, netz', jetzt) /\ y.letzteLease >= k[n].letzteLease
  BY <1>1, <1>2, SatzAnnahme DEF AmtOK
<1>4. SchrittVon(n) /\ k'[n] = y
  BY <1>3, AlsSchrittVon DEF y
<1>5. ASSUME WahlInv, ~voreilig' PROVE WahlOK(n)'
  <2>1. Frei(n)'
    BY <1>4, <1>5, WerWaehltBleibtFrei
  <2>2. QED BY <1>2, <1>4, <2>1, WahlNeu
<1>6. QED BY <1>4, <1>5, WahlEinbau DEF SchrittVon, Haelt

\* Counting an acknowledgement changes nothing others rely on.
LEMMA EmpfangeAckHaelt ==
  ASSUME BasisInv, NEW n \in Validator, NEW m \in netz, EmpfangeAck(n, m)
  PROVE  Haelt
<1> DEFINE z == Gehoert(k[n], m)
           zaehlt == z.rolle = "leiter" /\ m.term = z.term /\ m.ja
           mit == [z EXCEPT !.acks[m.von] = IF m.zeit > @ THEN m.zeit ELSE @]
           y == IF zaehlt THEN mit
                ELSE IF m.term > z.term THEN WerdeFolger(z, m.term, Niemand) ELSE z
<1>1. /\ Schritt /\ k[n] \in Knoten /\ AmtOK(n, k[n], netz, jetzt) /\ jetzt \in Nat
      /\ k[n].term \in Nat /\ m \in Nachricht /\ m.von \in Validator /\ m.term \in Nat
      /\ m.zeit \in Nat
  BY Lage, EmpfangeAckOK DEF BasisInv, Nachricht
<1>2. /\ Setze(n, y) /\ jetzt' = jetzt /\ netz' = netz
      /\ voreilig' = (voreilig \/ (m.term > z.term /\ LeaseFrisch(z)))
  BY DEF EmpfangeAck
<1>3. /\ z \in Knoten /\ z.term = k[n].term /\ z.leiter = k[n].leiter
      /\ z.rolle = k[n].rolle /\ z.uebergabeAn = k[n].uebergabeAn
      /\ z.letzteLease = k[n].letzteLease /\ z.stimmen = k[n].stimmen
      /\ z.wartet = k[n].wartet
  BY <1>1, GehoertFelder
<1> HIDE DEF z
<1>4. LeaseFrisch(z) = LeaseFrisch(k[n])
  BY <1>3 DEF LeaseFrisch
<1>5. CASE m.term > z.term
  <2>1. ~zaehlt /\ y = WerdeFolger(z, m.term, Niemand)
    BY <1>1, <1>3, <1>5
  <2>2. QED BY <1>1, <1>2, <1>3, <1>4, <1>5, <2>1, HoeherHaelt
<1>6. CASE ~(m.term > z.term)
  <2>1. /\ mit \in Knoten /\ mit.term = z.term /\ mit.leiter = z.leiter
        /\ mit.rolle = z.rolle /\ mit.uebergabeAn = z.uebergabeAn
        /\ mit.letzteLease = z.letzteLease /\ mit.stimmen = z.stimmen
        /\ mit.wartet = z.wartet
    BY <1>1, <1>3 DEF Knoten
  <2>2. y \in {mit, z} /\ (voreilig => voreilig')
    BY <1>2, <1>6
  <2> HIDE DEF mit, y
  <2>3. /\ y \in Knoten /\ y.term = k[n].term /\ y.leiter = k[n].leiter
        /\ y.rolle = k[n].rolle /\ y.uebergabeAn = k[n].uebergabeAn
        /\ y.letzteLease = k[n].letzteLease /\ y.stimmen = k[n].stimmen
        /\ y.wartet = k[n].wartet
    BY <1>3, <2>1, <2>2
  <2>4. QED BY <1>1, <1>2, <2>2, <2>3, GleichHaelt DEF AmtOK
<1>7. QED BY <1>5, <1>6

\* Whoever grants a vote is unbound before the term it votes in.
LEMMA EmpfangeBitteHaelt ==
  ASSUME BasisInv, NEW n \in Validator, NEW m \in netz, EmpfangeBitte(n, m)
  PROVE  Haelt
<1> DEFINE z == k[n]
           neu == IF m.term > z.term
                  THEN [z EXCEPT !.term = m.term, !.stimme = Niemand, !.rolle = "folger",
                                 !.leiter = Niemand]
                  ELSE z
           y == [neu EXCEPT !.stimme = m.von, !.letzteLease = jetzt]
<1>1. /\ Schritt /\ z \in Knoten /\ AmtOK(n, z, netz, jetzt) /\ jetzt \in Nat
      /\ RolleOK(n, z) /\ z.term \in Nat /\ z.wartet \in Nat /\ z.letzteLease \in Nat
      /\ m \in Nachricht /\ m.von \in Validator /\ m.term \in Nat
      /\ z.stimmen \subseteq Validator
  BY Lage, EmpfangeBitteOK DEF BasisInv, Nachricht
<1>2. jetzt' = jetzt /\ voreilig' = voreilig
  BY DEF EmpfangeBitte
<1>3. CASE UNCHANGED k /\ netz' = netz \cup {Antwort(n, "stimme", m.von, z.term, FALSE)}
  <2>1. Setze(n, z)
    BY <1>3, Lage DEF Setze
  <2>2. \A q \in netz' \ netz : ~Zusage(q) /\ q.art = "stimme" /\ ~q.ja
    BY <1>3 DEF Antwort, Zusage
  <2>3. QED BY <1>1, <1>2, <2>1, <2>2, GleichHaelt DEF AmtOK
<1>4. CASE /\ m.term >= z.term /\ z.rolle # "leiter" /\ ~LeaseFrisch(z) /\ Setze(n, y)
           /\ netz' = netz \cup {Antwort(n, "stimme", m.von, m.term, TRUE)}
  <2>1. /\ y.term = m.term /\ y.letzteLease = jetzt /\ y.wartet = z.wartet
        /\ y.uebergabeAn = z.uebergabeAn /\ y.stimmen = z.stimmen
        /\ \/ m.term > z.term /\ y.rolle = "folger" /\ y.leiter = Niemand
           \/ m.term = z.term /\ y.rolle = z.rolle /\ y.leiter = z.leiter
    <3>1. CASE m.term > z.term
      BY <1>1, <3>1 DEF Knoten
    <3>2. CASE ~(m.term > z.term)
      BY <1>1, <1>4, <3>2 DEF Knoten
    <3>3. QED BY <3>1, <3>2
  <2> HIDE DEF y, neu
  <2>2. \A q \in netz' \ netz : ~Zusage(q) /\ q.art = "stimme" /\ q.von = n /\ q.term = m.term
    BY <1>4 DEF Antwort, Zusage
  <2>3. AmtOK(n, y, netz', jetzt) /\ y.letzteLease >= z.letzteLease
    <3>1. CASE m.term > z.term
      BY <1>1, <2>1, <3>1, SatzAnnahme DEF AmtOK
    <3>2. CASE m.term = z.term
      <4>1. netz \subseteq netz' /\ jetzt <= jetzt
        BY <1>1 DEF Schritt
      <4>2. AmtOK(n, z, netz', jetzt)
        BY <1>1, <4>1, AmtBleibt
      <4>3. /\ y.term = z.term /\ y.rolle = z.rolle /\ y.leiter = z.leiter
            /\ y.leiter # n
        BY <1>1, <1>4, <2>1, <3>2 DEF AmtOK
      <4>4. QED BY <1>1, <2>1, <4>2, <4>3 DEF AmtOK
    <3>3. QED BY <2>1, <3>1, <3>2
  <2>4. SchrittVon(n) /\ k'[n] = y
    BY <1>1, <1>2, <1>4, <2>2, <2>3, AlsSchrittVon DEF NeuePostOK
  <2>5. ASSUME WahlInv, ~voreilig'
        PROVE  WahlOK(n)' /\ \A q \in netz' \ netz : BriefOK(q)'
    <3>1. Frei(n)' /\ \A e \in Nat : k'[n].term >= e => Ungebunden(n, e)'
      BY <1>2, <1>4, <2>2, <2>4, <2>5, WerWaehltBleibtFrei
    <3>2. ASSUME k'[n].rolle = "kandidat", NEW x \in k'[n].stimmen
          PROVE  Ungebunden(x, m.term)'
      <4>1. Ungebunden(x, m.term) /\ x \in Validator
        BY <1>1, <1>2, <2>1, <2>4, <2>5, <3>2 DEF WahlInv, WahlOK
      <4>2. QED BY <1>1, <2>4, <4>1, UngebundenBleibt
    <3>3. WahlOK(n)'
      BY <1>1, <1>4, <2>1, <2>4, <3>1, <3>2, WahlNeu
    <3>4. Ungebunden(n, m.term)'
      BY <1>1, <2>1, <2>4, <3>1
    <3>5. QED BY <2>2, <3>3, <3>4 DEF BriefOK
  <2>6. QED BY <2>4, <2>5, WahlEinbau DEF SchrittVon, Haelt
<1>5. QED BY <1>3, <1>4 DEF EmpfangeBitte

\* Who is elected ends all earlier terms: its voters are a majority.
LEMMA EmpfangeStimmeHaelt ==
  ASSUME BasisInv, NEW n \in Validator, NEW m \in netz, EmpfangeStimme(n, m)
  PROVE  Haelt
<1> DEFINE z == k[n]
           mehr == [z EXCEPT !.stimmen = @ \cup {m.von}]
           y == IF Cardinality(mehr.stimmen) >= Mehrheit THEN WerdeLeiter(n, mehr) ELSE mehr
<1>1. /\ Schritt /\ z \in Knoten /\ AmtOK(n, z, netz, jetzt) /\ jetzt \in Nat
      /\ RolleOK(n, z) /\ z.term \in Nat /\ z.wartet \in Nat /\ z.letzteLease \in Nat
      /\ m \in Nachricht /\ m.von \in Validator /\ m.term \in Nat
      /\ z.stimmen \subseteq Validator /\ IInv
  BY Lage, EmpfangeStimmeOK DEF BasisInv, Nachricht
<1>2. jetzt' = jetzt /\ netz' = netz /\ m.art = "stimme"
  BY DEF EmpfangeStimme
<1>3. CASE /\ m.term > z.term /\ Setze(n, WerdeFolger(z, m.term, Niemand))
           /\ voreilig' = (voreilig \/ LeaseFrisch(z))
  BY <1>1, <1>2, <1>3, HoeherHaelt
<1>4. CASE /\ z.rolle = "kandidat" /\ m.term = z.term /\ m.ja /\ Setze(n, y)
           /\ voreilig' = voreilig
  <2>1. /\ mehr \in Knoten /\ mehr.term = z.term /\ mehr.leiter = z.leiter
        /\ mehr.rolle = z.rolle /\ mehr.uebergabeAn = z.uebergabeAn
        /\ mehr.letzteLease = z.letzteLease /\ mehr.wartet = z.wartet
        /\ mehr.stimmen = z.stimmen \cup {m.von}
    BY <1>1 DEF Knoten
  <2> HIDE DEF mehr
  <2>2. /\ y.term = z.term /\ y.letzteLease = z.letzteLease
        /\ y.uebergabeAn \in {z.uebergabeAn, Niemand} /\ y.wartet \in {z.wartet, 0}
        /\ \/ /\ y.rolle = "kandidat" /\ y.leiter = z.leiter /\ y.stimmen = mehr.stimmen
              /\ y.wartet = z.wartet
           \/ /\ y.rolle = "leiter" /\ y.leiter = n /\ Cardinality(mehr.stimmen) >= Mehrheit
              /\ y.wartet = 0
    BY <1>4, <2>1 DEF WerdeLeiter, Knoten
  <2> HIDE DEF y
  <2>3. AmtOK(n, y, netz', jetzt) /\ y.letzteLease >= z.letzteLease
    BY <1>1, <1>2, <1>4, <2>2, SatzAnnahme DEF AmtOK
  <2>4. SchrittVon(n) /\ k'[n] = y
    BY <1>1, <1>2, <1>4, <2>3, AlsSchrittVon
  <2>5. ASSUME WahlInv, ~voreilig' PROVE WahlOK(n)'
    <3>1. ~voreilig /\ WahlOK(n) /\ BriefOK(m) /\ k[n].leiter = Niemand
      BY <1>1, <1>4, <2>5 DEF WahlInv, RolleOK
    <3>2. Frei(n)'
      BY <1>2, <2>4, <3>1, FreiBleibt DEF WahlOK
    <3> SUFFICES ASSUME NEW t \in Nat, z.term = t, NEW S, S = mehr.stimmen PROVE WahlOK(n)'
      BY <1>1
    <3>3. S \in SUBSET Validator /\ \A x \in S : Ungebunden(x, t)
      BY <1>1, <1>2, <1>4, <2>1, <3>1 DEF WahlOK, BriefOK
    <3>4. \A x \in S : Ungebunden(x, t)'
      BY <2>4, <3>3, UngebundenBleibt
    <3>5. Cardinality(S) >= Mehrheit => Geklaert(t)'
      BY <1>1, <2>4, <3>3, MehrheitKlaert, GeklaertBleibt
    <3>6. QED BY <1>1, <2>2, <2>4, <3>2, <3>4, <3>5, WahlNeu
  <2>6. QED BY <1>2, <2>4, <2>5, WahlEinbau DEF SchrittVon, Haelt
<1>5. QED BY <1>3, <1>4 DEF EmpfangeStimme

-----------------------------------------------------------------------------
(***************************************************************************)
(* From three validators on.                                               *)
(***************************************************************************)
\* Every step keeps the invariants.
LEMMA NextHaelt ==
  ASSUME BasisInv, Next
  PROVE  Haelt
<1>1. CASE Tick
  BY <1>1, TickHaelt
<1>2. ASSUME NEW n \in Validator, Takt(n) PROVE Haelt
  <2>1. ASSUME NEW v \in Leiterfaehig, UebergabeBeginnen(n, v) PROVE Haelt
    BY <2>1, SatzAnnahme, UebergabeBeginnenHaelt
  <2>2. QED BY <1>2, <2>1, LeaseSendenHaelt, UebergabeSendenHaelt, UebernehmenHaelt,
               VorwahlHaelt, KandidierenHaelt, KandidatGibtAufHaelt DEF Takt
<1>3. ASSUME NEW n \in Neustartende, Neustart(n) PROVE Haelt
  BY <1>3, SatzAnnahme, NeustartHaelt
<1>4. ASSUME NEW n \in Validator, NEW m \in netz, Empfange(n, m) PROVE Haelt
  BY <1>4, EmpfangeLeaseHaelt, EmpfangeAckHaelt, EmpfangeVorbitteHaelt, EmpfangeVorstimmeHaelt,
     EmpfangeBitteHaelt, EmpfangeStimmeHaelt, EmpfangeUebergabeHaelt DEF Empfange
<1>5. QED BY <1>1, <1>2, <1>3, <1>4 DEF Next

\* At the start term 1 is the first, and nobody has promised anything.
LEMMA InitHaelt == Init => BasisInv /\ WahlInv
<1> SUFFICES ASSUME Init PROVE BasisInv /\ WahlInv
  OBVIOUS
<1>1. IInv /\ jetzt = 1 /\ netz = {}
  BY InitOK DEF Init
<1>2. ASSUME NEW n \in Validator
      PROVE  /\ k[n].term = 1 /\ k[n].letzteLease = 1 /\ k[n].wartet = 0
             /\ k[n].uebergabeAn = Niemand /\ k[n].leiter = StartLeiter
             /\ k[n].rolle = IF StartLeiter = n THEN "leiter" ELSE "folger"
  BY DEF Init, NeueLeitung, FristAbStart
<1>3. BasisInv
  BY <1>1, <1>2, SatzAnnahme DEF BasisInv, AmtOK
<1>4. Geklaert(1)
  BY <1>2 DEF Geklaert, Erledigt
<1>5. ASSUME NEW n \in Validator PROVE WahlOK(n)
  BY <1>1, <1>2, <1>4 DEF WahlOK, Frei
<1>6. QED BY <1>1, <1>3, <1>5 DEF WahlInv

\* Nobody steps back from what it has promised or handed over.
THEOREM BasisInvariante == Spec => []BasisInv
<1>1. BasisInv /\ [Next]_vars => BasisInv'
  <2> SUFFICES ASSUME BasisInv, [Next]_vars PROVE BasisInv'
    OBVIOUS
  <2>1. CASE Next
    BY <2>1, NextHaelt DEF Haelt
  <2>2. CASE UNCHANGED vars
    BY <2>2 DEF vars, BasisInv, AmtOK, PostOK, IInv, TypeOK, ZusageGilt
  <2>3. QED BY <2>1, <2>2
<1>2. QED BY InitHaelt, <1>1, PTL DEF Spec

\* As long as every follower keeps its promise, whoever leads has ended all
\* earlier terms.
THEOREM WahlInvariante == Handhabbar => (Spec => []WahlInv)
<1> SUFFICES ASSUME Handhabbar PROVE Spec => []WahlInv
  OBVIOUS
<1>1. BasisInv /\ WahlInv /\ [Next]_vars => WahlInv'
  <2> SUFFICES ASSUME BasisInv, WahlInv, [Next]_vars PROVE WahlInv'
    OBVIOUS
  <2>1. CASE Next
    BY <2>1, NextHaelt DEF Haelt
  <2>2. CASE UNCHANGED vars
    BY <2>2 DEF vars, WahlInv, WahlOK, BriefOK, Geklaert, Frei, Ungebunden, Erledigt,
                Abgehaengt, Verloren, Frisch
  <2>3. QED BY <2>1, <2>2
<1>2. QED BY InitHaelt, BasisInvariante, <1>1, PTL DEF Spec

\* Where an earlier term is over, nobody accepts in it.
LEMMA GeklaertNimmtNichtAn ==
  ASSUME BasisInv, MitWahl, NEW a \in Validator, NEW e \in Nat, Geklaert(e), k[a].term < e
  PROVE  ~NimmtAn(a)
<1> SUFFICES ASSUME NimmtAn(a) PROVE FALSE
  OBVIOUS
<1>1. /\ IInv /\ k[a] \in Knoten /\ k[a].term \in Nat /\ jetzt \in Nat
      /\ k[a].rolle = "leiter" /\ AcksBelegt(a, k[a], netz)
  BY Lage DEF NimmtAn, IInv, KnotenOK
<1>2. PICK K \in SUBSET Validator : Sperrt(K) /\ \A x \in K : Verloren(x, a, k[a].term)
  BY <1>1 DEF Geklaert, Erledigt, Abgehaengt
<1>3. Hinter(a) \subseteq Validator /\ Cardinality(Hinter(a)) >= Mehrheit
  BY <1>1, MehrheitHinter
<1>4. Cardinality(K) \in Nat /\ Cardinality(Hinter(a)) \in Nat /\ Cardinality(Validator) \in Nat
  BY <1>3, SatzAnnahme, FS_Subset, FS_CardinalityType
<1>5. Cardinality(K) + Cardinality(Hinter(a)) > Cardinality(Validator)
  BY <1>2, <1>3, <1>4 DEF Sperrt, Mehrheit
<1>6. K \cap Hinter(a) # {}
  BY <1>3, <1>5, SatzAnnahme, FS_MajoritiesIntersect
<1>7. PICK x \in Validator : x \in K /\ x \in Hinter(a)
  BY <1>6
<1>8. x # a /\ AckFrisch(k[a], x)
  BY <1>1, <1>2, <1>7 DEF Verloren, Hinter
<1>9. PICK m \in netz : /\ Zusage(m) /\ m.von = x /\ m.an = a
                        /\ m.term = k[a].term /\ m.zeit = k[a].acks[x]
  BY <1>1, <1>8 DEF AcksBelegt, AckFrisch
<1>10. ~Frisch(m)
  BY <1>2, <1>7, <1>9 DEF Verloren
<1>11. m.zeit \in Nat
  BY <1>1, <1>9, ZusageTyp
<1>12. QED BY <1>1, <1>8, <1>9, <1>10, <1>11, FristenAnnahme DEF Frisch, AckFrisch

\* At most one validator accepts transfers, whatever the terms, as long as
\* every follower keeps the promise its acknowledgement makes.  With handovers
\* this takes at most four validators.
THEOREM OhneVoreiligeEinAnnehmenderGilt ==
  Handhabbar => (Spec => []OhneVoreiligeEinAnnehmender)
<1> SUFFICES ASSUME Handhabbar PROVE Spec => []OhneVoreiligeEinAnnehmender
  OBVIOUS
<1>1. MitWahl
  BY DEF Handhabbar
<1>2. BasisInv /\ WahlInv /\ EinAnnehmenderProTerm => OhneVoreiligeEinAnnehmender
  <2> SUFFICES ASSUME BasisInv, WahlInv, EinAnnehmenderProTerm, ~voreilig, NEW a \in Validator,
                      NEW b \in Validator, NimmtAn(a), NimmtAn(b), a # b
               PROVE  FALSE
    BY DEF OhneVoreiligeEinAnnehmender, NieZweiAnnehmende
  <2>1. ASSUME NEW x \in Validator, NimmtAn(x) PROVE Geklaert(k[x].term) /\ k[x].term \in Nat
    BY <2>1, Lage DEF WahlInv, WahlOK, NimmtAn
  <2>2. k[a].term # k[b].term
    BY DEF EinAnnehmenderProTerm
  <2>3. k[a].term < k[b].term \/ k[b].term < k[a].term
    BY <2>1, <2>2
  <2>4. QED BY <1>1, <2>1, <2>3, GeklaertNimmtNichtAn
<1>3. QED BY <1>1, <1>2, BasisInvariante, WahlInvariante, EinAnnehmenderProTermGilt, PTL

-----------------------------------------------------------------------------
(***************************************************************************)
(* One or two validators: nobody is elected, the leadership only passes    *)
(* from hand to hand.                                                      *)
(***************************************************************************)
\* The terms are never more than one apart, and the same wherever one leads.
ZweiInv ==
  /\ \A n \in Validator : k[n].rolle # "kandidat"
  /\ \A m \in netz : /\ m.art \in {"lease", "ack", "uebergabe"}
                     /\ \E v \in Validator : m.term <= k[v].term
  /\ \A a, b \in Validator : k[a].term <= k[b].term + 1
  /\ \A a, b \in Validator : k[a].rolle = "leiter" =>
       k[b].term = k[a].term /\ (k[b].rolle = "leiter" => a = b)

\* There is no third one.
LEMMA KeinDritter ==
  ASSUME ~MitWahl, NEW a \in Validator, NEW b \in Validator, NEW c \in Validator, a # b
  PROVE  c \in {a, b}
<1> SUFFICES ASSUME c \notin {a, b} PROVE FALSE
  OBVIOUS
<1>1. IsFiniteSet({b}) /\ Cardinality({b}) = 1
  BY FS_Singleton
<1>2. IsFiniteSet({b} \cup {a}) /\ Cardinality({b} \cup {a}) = 2
  BY <1>1, FS_AddElement
<1>3. Cardinality(({b} \cup {a}) \cup {c}) = 3
  BY <1>2, FS_AddElement
<1>4. ({b} \cup {a}) \cup {c} \subseteq Validator
  OBVIOUS
<1>5. Cardinality(({b} \cup {a}) \cup {c}) <= Cardinality(Validator)
  BY <1>4, SatzAnnahme, FS_Subset
<1>6. QED BY <1>3, <1>5, SatzAnnahme, FS_CardinalityType DEF MitWahl

\* A step that neither makes a leader nor reaches a new term.
LEMMA ZweiEinbau ==
  ASSUME BasisInv, BasisInv', ZweiInv, Schritt, NEW n \in Validator, NEW y, Setze(n, y),
         y.rolle \in {k[n].rolle, "folger"}, \E v \in Validator : y.term <= k[v].term,
         y.rolle = "leiter" => y.term = k[n].term,
         \A m \in netz' \ netz : m.art \in {"lease", "ack"} /\ m.term <= y.term
  PROVE  ZweiInv'
<1>1. k'[n] = y /\ \A v \in Validator \ {n} : k'[v] = k[v]
  BY Lage DEF Setze
<1>2. \A v \in Validator : k[v].term \in Nat /\ k'[v].term \in Nat /\ k'[v].term >= k[v].term
  <2>1. ASSUME NEW v \in Validator
        PROVE  k[v].term \in Nat /\ k'[v].term \in Nat /\ k'[v].term >= k[v].term
    <3>1. k[v].term \in Nat /\ k'[v].term \in Nat
      BY Lage DEF Schritt, TypeOK, Knoten
    <3>2. QED BY <3>1 DEF Schritt, Bindet
  <2>2. QED BY <2>1
<1>3. ASSUME NEW b \in Validator, k[b].rolle = "leiter" PROVE y.term = k[n].term
  BY <1>1, <1>2, <1>3 DEF ZweiInv
<1>4. ASSUME NEW m \in netz'
      PROVE  /\ m.art \in {"lease", "ack", "uebergabe"}
             /\ \E v \in Validator : m.term <= k'[v].term
  <2>1. m.term \in Nat
    BY DEF Schritt, TypeOK, Nachricht
  <2>2. CASE m \in netz
    BY <1>2, <2>1, <2>2 DEF ZweiInv
  <2>3. CASE m \notin netz
    BY <1>1, <2>3
  <2>4. QED BY <2>2, <2>3
<1>5. ASSUME NEW a \in Validator, NEW b \in Validator PROVE k'[a].term <= k'[b].term + 1
  BY <1>1, <1>2 DEF ZweiInv
<1>6. ASSUME NEW a \in Validator, NEW b \in Validator, k'[a].rolle = "leiter"
      PROVE  k'[b].term = k'[a].term /\ (k'[b].rolle = "leiter" => a = b)
  <2>1. k[a].rolle = "leiter"
    BY <1>1, <1>6
  <2>2. k'[a].term = k[a].term /\ k'[b].term = k[b].term
    BY <1>1, <1>3, <2>1
  <2>3. k'[b].rolle = "leiter" => k[b].rolle = "leiter"
    BY <1>1
  <2>4. QED BY <2>1, <2>2, <2>3 DEF ZweiInv
<1>7. ASSUME NEW v \in Validator PROVE k'[v].rolle # "kandidat"
  BY <1>1 DEF ZweiInv
<1>8. QED BY <1>4, <1>5, <1>6, <1>7 DEF ZweiInv

\* Who hands over is the only leader, and becomes none.
LEMMA UebergabeSendenZwei ==
  ASSUME BasisInv, ZweiInv, NEW n \in Validator, UebergabeSenden(n)
  PROVE  ZweiInv'
<1> DEFINE z == k[n]
           y == NachUebergabe(n, z)
           m == [Lease(n, z.term, z.satzTerm) EXCEPT !.art = "uebergabe", !.an = z.uebergabeAn]
<1>1. /\ z \in Knoten /\ z.term \in Nat /\ \A v \in Validator : k[v].term \in Nat
      /\ z.rolle = "leiter" /\ Setze(n, y) /\ netz' = netz \cup {m}
  BY Lage DEF UebergabeSenden
<1>2. y.term = z.term + 1 /\ y.rolle = "folger"
  BY <1>1 DEF NachUebergabe, Knoten
<1>3. m.art = "uebergabe" /\ m.term = z.term
  BY DEF Lease
<1> HIDE DEF y, m
<1>4. k'[n] = y /\ \A v \in Validator \ {n} : k'[v] = k[v]
  BY <1>1, Lage DEF Setze
<1>5. \A v \in Validator : k[v].term = z.term /\ (k[v].rolle = "leiter" => v = n)
  BY <1>1 DEF ZweiInv
<1>6. \A v \in Validator : k'[v].rolle = "folger" /\ k'[v].term \in {z.term, z.term + 1}
  <2>1. \A v \in Validator : k[v].rolle \in {"folger", "kandidat", "leiter"}
    BY Lage DEF Knoten
  <2>2. QED BY <1>2, <1>4, <1>5, <2>1 DEF ZweiInv
<1>7. \A q \in netz' : /\ q.art \in {"lease", "ack", "uebergabe"}
                       /\ q.term <= z.term
  BY <1>1, <1>3, <1>5 DEF ZweiInv
<1>8. \A q \in netz' : \E v \in Validator : q.term <= k'[v].term
  <2>1. ASSUME NEW q \in netz' PROVE q.term <= k'[n].term
    <3>1. q.term \in Nat
      <4>1. TypeOK'
        BY UebergabeSendenOK DEF BasisInv, Schritt
      <4>2. QED BY <4>1 DEF TypeOK, Nachricht
    <3>2. QED BY <1>1, <1>2, <1>4, <1>7, <3>1
  <2>2. QED BY <2>1
<1>9. \A a, b \in Validator : k'[a].term <= k'[b].term + 1
  BY <1>1, <1>6
<1>10. QED BY <1>6, <1>7, <1>8, <1>9 DEF ZweiInv

\* Who takes over finds no leader: the one it follows has left the term.
LEMMA UebernehmenZwei ==
  ASSUME BasisInv, ZweiInv, ~MitWahl, NEW n \in Validator, Uebernehmen(n)
  PROVE  ZweiInv'
<1> DEFINE z == [k[n] EXCEPT !.term = @ + 1, !.stimme = n]
           y == WerdeLeiter(n, z)
<1>1. /\ k[n] \in Knoten /\ AmtOK(n, k[n], netz, jetzt) /\ \A v \in Validator : k[v].term \in Nat
      /\ Setze(n, y) /\ netz' = netz \cup {Lease(n, y.term, y.satzTerm)}
      /\ k[n].wartet = k[n].term /\ netz \subseteq Nachricht
  BY Lage DEF Uebernehmen
<1>2. y.term = k[n].term + 1 /\ y.rolle = "leiter"
  BY <1>1 DEF WerdeLeiter, Knoten
<1> HIDE DEF y
<1>3. k'[n] = y /\ \A v \in Validator \ {n} : k'[v] = k[v]
  BY <1>1, Lage DEF Setze
<1>4. PICK u \in netz : /\ u.art = "uebergabe" /\ u.von = k[n].leiter /\ u.von # n
                        /\ u.term = k[n].term
  BY <1>1 DEF AmtOK
<1>5. u.von \in Validator /\ k[u.von].term > k[n].term
  BY <1>1, <1>4 DEF BasisInv, PostOK, Nachricht
<1>6. k[u.von].term = k[n].term + 1
  BY <1>1, <1>5 DEF ZweiInv
<1>7. \A v \in Validator : v \in {n, u.von}
  BY <1>4, <1>5, KeinDritter
<1>8. \A v \in Validator : k[v].rolle # "leiter"
  BY <1>1, <1>5, <1>7 DEF ZweiInv
<1>9. \A v \in Validator : k'[v].term = y.term /\ k'[v].rolle # "kandidat"
  BY <1>2, <1>3, <1>6, <1>7 DEF ZweiInv
<1>10. \A v \in Validator : k'[v].rolle = "leiter" => v = n
  BY <1>3, <1>8
<1>11. ASSUME NEW q \in netz'
       PROVE  q.art \in {"lease", "ack", "uebergabe"} /\ q.term <= y.term
  <2>1. CASE q \in netz
    <3>1. PICK v \in Validator : q.term <= k[v].term
      BY <2>1 DEF ZweiInv
    <3>2. k[v].term <= y.term /\ q.term \in Nat
      BY <1>1, <1>2, <1>6, <1>7, <2>1 DEF Nachricht
    <3>3. QED BY <1>1, <1>2, <2>1, <3>1, <3>2 DEF ZweiInv
  <2>2. CASE q \notin netz
    BY <1>1, <1>2, <2>2 DEF Lease
  <2>3. QED BY <2>1, <2>2
<1>12. \A a, b \in Validator : k'[a].term <= k'[b].term + 1
  BY <1>1, <1>2, <1>9
<1>13. QED BY <1>9, <1>10, <1>11, <1>12 DEF ZweiInv

\* A follower that accepts a lease, or a node that is refused one, reaches no
\* term that nobody was in before.
LEMMA NachrichtZwei ==
  ASSUME BasisInv, BasisInv', ZweiInv, Schritt, NEW n \in Validator, NEW m \in netz,
         EmpfangeLease(n, m) \/ EmpfangeAck(n, m) \/ EmpfangeUebergabe(n, m)
  PROVE  ZweiInv'
<1> DEFINE z == Gehoert(k[n], m)
<1>1. /\ k[n] \in Knoten /\ k[n].term \in Nat /\ m \in Nachricht /\ m.term \in Nat
      /\ m.von \in Validator /\ m.zeit \in Nat /\ k[n].term <= k[n].term
  BY Lage DEF Nachricht
<1>2. z \in Knoten /\ z.term = k[n].term /\ z.rolle = k[n].rolle /\ z.leiter = k[n].leiter
  BY <1>1, GehoertFelder
<1> HIDE DEF z
<1>3. \E v \in Validator : m.term <= k[v].term
  BY DEF ZweiInv
<1>4. CASE EmpfangeLease(n, m)
  <2> DEFINE f == IF m.term > z.term \/ z.leiter = Niemand \/ z.rolle # "folger"
                  THEN WerdeFolger(z, m.term, m.von) ELSE z
             g == [f EXCEPT !.letzteLease = jetzt, !.leiter = m.von, !.satzTerm = m.satz]
             y == IF LeaseAblehnen(z, m) THEN z ELSE g
             q == [Antwort(n, "ack", m.von, y.term, ~LeaseAblehnen(z, m)) EXCEPT !.zeit = m.zeit]
  <2>1. Setze(n, y) /\ netz' = netz \cup {q}
    BY <1>4 DEF EmpfangeLease, z
  <2>2. q.art = "ack" /\ q.term = y.term
    BY DEF Antwort
  <2>3. ~LeaseAblehnen(z, m) => g.rolle = "folger" /\ g.term = m.term
    BY <1>1, <1>2, LeaseFelder
  <2> HIDE DEF g, q
  <2>4. /\ y.rolle \in {k[n].rolle, "folger"} /\ (y.rolle = "leiter" => y.term = k[n].term)
        /\ y.term \in {m.term, k[n].term}
    BY <1>2, <2>3
  <2> HIDE DEF y
  <2>5. \A x \in netz' \ netz : x.art \in {"lease", "ack"} /\ x.term <= y.term
    BY <1>1, <2>1, <2>2, <2>4
  <2>6. QED BY <1>1, <1>3, <2>1, <2>4, <2>5, ZweiEinbau
<1>5. CASE EmpfangeAck(n, m)
  <2> DEFINE mit == [z EXCEPT !.acks[m.von] = IF m.zeit > @ THEN m.zeit ELSE @]
             w == WerdeFolger(z, m.term, Niemand)
             y == IF z.rolle = "leiter" /\ m.term = z.term /\ m.ja THEN mit
                  ELSE IF m.term > z.term THEN w ELSE z
  <2>1. Setze(n, y) /\ netz' = netz
    BY <1>5 DEF EmpfangeAck, z
  <2>2. mit.rolle = z.rolle /\ mit.term = z.term /\ w.rolle = "folger" /\ w.term = m.term
    BY <1>2 DEF WerdeFolger, Knoten
  <2> HIDE DEF mit, w
  <2>3. /\ y.rolle \in {k[n].rolle, "folger"} /\ (y.rolle = "leiter" => y.term = k[n].term)
        /\ y.term \in {m.term, k[n].term}
    BY <1>2, <2>2
  <2> HIDE DEF y
  <2>4. QED BY <1>1, <1>3, <2>1, <2>3, ZweiEinbau
<1>6. CASE EmpfangeUebergabe(n, m)
  <2> DEFINE y == IF m.term = z.term /\ m.von = z.leiter /\ m.satz = z.satzTerm
                  THEN [z EXCEPT !.wartet = m.term] ELSE z
  <2>1. Setze(n, y) /\ netz' = netz
    BY <1>6 DEF EmpfangeUebergabe, z
  <2>2. y.rolle = k[n].rolle /\ y.term = k[n].term
    BY <1>2 DEF Knoten
  <2> HIDE DEF y
  <2>3. QED BY <1>1, <2>1, <2>2, ZweiEinbau
<1>7. QED BY <1>4, <1>5, <1>6

\* Every step keeps ZweiInv: without a majority of three nobody stands.
LEMMA NextZwei ==
  ASSUME BasisInv, BasisInv', ZweiInv, ~MitWahl, Next
  PROVE  ZweiInv'
<1>1. CASE Tick
  BY <1>1 DEF Tick, ZweiInv
<1>2. ASSUME NEW n \in Validator, Takt(n) PROVE ZweiInv'
  <2>1. k[n] \in Knoten /\ k[n].term \in Nat /\ k[n].term <= k[n].term /\ Schritt
        /\ k[n].satzTerm \in Nat
    BY NextOK, Lage DEF BasisInv
  <2>2. CASE LeaseSenden(n)
    <3>1. Setze(n, k[n])
      BY <2>2, Lage DEF LeaseSenden, Setze
    <3>2. \A m \in netz' \ netz : m.art = "lease" /\ m.term = k[n].term
      BY <2>2 DEF LeaseSenden, Lease
    <3>3. QED BY <2>1, <3>1, <3>2, ZweiEinbau
  <2>3. ASSUME NEW v \in Leiterfaehig, UebergabeBeginnen(n, v) PROVE ZweiInv'
    <3> DEFINE y == [k[n] EXCEPT !.uebergabeAn = v]
    <3>1. Setze(n, y) /\ netz' = netz /\ y.term = k[n].term /\ y.rolle = k[n].rolle
      BY <2>1, <2>3 DEF UebergabeBeginnen, Knoten
    <3> HIDE DEF y
    <3>2. QED BY <2>1, <3>1, ZweiEinbau
  <2>4. ~Vorwahl(n) /\ ~Kandidieren(n) /\ ~KandidatGibtAuf(n)
    BY DEF Vorwahl, Kandidieren, KandidatGibtAuf, ZweiInv
  <2>5. QED BY <1>2, <2>2, <2>3, <2>4, UebergabeSendenZwei, UebernehmenZwei DEF Takt
<1>3. ASSUME NEW n \in Neustartende, Neustart(n) PROVE ZweiInv'
  <2> DEFINE y == NeueLeitung(n, k[n].term, k[n].stimme, k[n].leiter, k[n].satzTerm,
                              NieGespeichert(n))
  <2>1. /\ n \in Validator /\ Setze(n, y) /\ netz' = netz
        /\ y.term = k[n].term /\ y.rolle = IF k[n].leiter = n THEN "leiter" ELSE "folger"
    BY <1>3, SatzAnnahme DEF Neustart, NeueLeitung
  <2> HIDE DEF y
  <2>2. y.rolle \in {k[n].rolle, "folger"} /\ k[n].term <= k[n].term
    BY <2>1, Lage DEF AmtOK
  <2>3. QED BY <2>1, <2>2, NextOK, ZweiEinbau DEF BasisInv
<1>4. ASSUME NEW n \in Validator, NEW m \in netz, Empfange(n, m) PROVE ZweiInv'
  <2>1. m.art \in {"lease", "ack", "uebergabe"}
    BY DEF ZweiInv
  <2>2. EmpfangeLease(n, m) \/ EmpfangeAck(n, m) \/ EmpfangeUebergabe(n, m)
    BY <1>4, <2>1 DEF Empfange, EmpfangeVorbitte, EmpfangeVorstimme, EmpfangeBitte, EmpfangeStimme
  <2>3. QED BY <2>2, NextOK, NachrichtZwei DEF BasisInv
<1>5. QED BY <1>1, <1>2, <1>3, <1>4 DEF Next

\* With one or two validators at most one accepts transfers, whatever is lost,
\* late, repeated or restarted.
THEOREM NieZweiAnnehmendeGilt == ~MitWahl => (Spec => []NieZweiAnnehmende)
<1> SUFFICES ASSUME ~MitWahl PROVE Spec => []NieZweiAnnehmende
  OBVIOUS
<1>1. Init => ZweiInv
  BY DEF Init, NeueLeitung, ZweiInv
<1>2. BasisInv /\ BasisInv' /\ ZweiInv /\ [Next]_vars => ZweiInv'
  <2>1. UNCHANGED vars /\ ZweiInv => ZweiInv'
    BY DEF vars, ZweiInv
  <2>2. QED BY <2>1, NextZwei
<1>3. ZweiInv => NieZweiAnnehmende
  BY DEF ZweiInv, NieZweiAnnehmende, NimmtAn
<1>4. QED BY <1>1, <1>2, <1>3, BasisInvariante, PTL DEF Spec

\* Whatever the size of the Satz, one term never has two that accept transfers.
THEOREM EinAnnehmenderProTermImmer == Spec => []EinAnnehmenderProTerm
<1>1. CASE MitWahl
  BY <1>1, EinAnnehmenderProTermGilt
<1>2. CASE ~MitWahl
  <2>1. NieZweiAnnehmende => EinAnnehmenderProTerm
    BY DEF NieZweiAnnehmende, EinAnnehmenderProTerm
  <2>2. Spec => []NieZweiAnnehmende
    BY <1>2, NieZweiAnnehmendeGilt
  <2>3. QED BY <2>1, <2>2, PTL
<1>3. QED BY <1>1, <1>2

=============================================================================
