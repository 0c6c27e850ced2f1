-------------------------- MODULE CheckpointProofs --------------------------
(***************************************************************************)
(* Proofs about Checkpoint for every set of nodes and blocks, every        *)
(* committee and every choice of the times that FristenAnnahme allows, and *)
(* without the bounds of the TLC runs.                                     *)
(***************************************************************************)
EXTENDS Checkpoint, FiniteSetTheorems, TLAPS

-----------------------------------------------------------------------------
(***************************************************************************)
(* Slots.                                                                  *)
(***************************************************************************)
\* Natural division by a positive number stays natural.
LEMMA TeilNat == ASSUME NEW t \in Nat PROVE t \div SlotLaenge \in Nat
  BY FristenAnnahme

\* Times a slot length apart lie in different slots, in their order.
LEMMA SlotAbstand ==
  ASSUME NEW x \in Block, NEW y \in Block, Zeit[x] + SlotLaenge <= Zeit[y]
  PROVE  Slot(x) < Slot(y)
<1>1. Zeit[x] \in Nat /\ Zeit[y] \in Nat /\ SlotLaenge \in Nat \ {0}
  BY BlockAnnahme, FristenAnnahme
<1> HIDE DEF Slot
<1>2. \A s, t \in Nat, d \in Nat \ {0} : s + d <= t => s \div d < t \div d
  OBVIOUS
<1>3. QED BY <1>1, <1>2 DEF Slot

\* A block that this process may still sign comes after all that an earlier
\* process of this node signed.
LEMMA NachFrueheren ==
  ASSUME NEW x \in Block, NEW y \in Block, NEW s \in Nat,
         Zeit[x] + RueckToleranz <= s, Zeit[y] > s
  PROVE  Slot(x) < Slot(y)
<1>1. Zeit[x] + SlotLaenge <= Zeit[y]
  BY BlockAnnahme, FristenAnnahme
<1>2. QED BY <1>1, SlotAbstand

\* Slots are integers.
LEMMA SlotTyp == \A b \in Block : Slot(b) \in Nat
  BY BlockAnnahme, TeilNat DEF Slot

-----------------------------------------------------------------------------
(***************************************************************************)
(* Types, and the last checkpoint of a node.                               *)
(***************************************************************************)
\* The last checkpoint in memory is the youngest stored one.
Juengster ==
  \A n \in Validator :
    /\ letzter[n] = Keiner => zert[n] = {}
    /\ letzter[n] # Keiner => letzter[n] \in zert[n] /\ \A x \in zert[n] : Zeit[x] <= Zeit[letzter[n]]

\* A message of the protocol.
LEMMA MsgTyp ==
  ASSUME NEW n \in Validator, NEW b \in Block, NEW a \in {"vorschlag", "unterschrift", "zertifikat"}
  PROVE  Msg(a, n, b) \in Nachricht
  BY DEF Msg, Nachricht

\* No round is a round.
LEMMA KeineRundeTyp == KeineRunde \in Runde
  BY DEF KeineRunde, Runde

\* checkpointZertifikatAnnehmen keeps the type and the youngest on top.
LEMMA AufnehmenOK ==
  ASSUME TypeOK, Juengster, NEW n \in Validator, NEW b \in Block, Annehmbar(n, b), Aufnehmen(n, b)
  PROVE  /\ zert' \in [Validator -> SUBSET Block] /\ letzter' \in [Validator -> Block \cup {Keiner}]
         /\ \A v \in Validator : letzter'[v] \in zert'[v] \cup {Keiner}
         /\ Juengster'
<1>1. /\ zert' \in [Validator -> SUBSET Block] /\ letzter' \in [Validator -> Block \cup {Keiner}]
      /\ zert'[n] = zert[n] \cup {b} /\ letzter'[n] = b
      /\ \A v \in Validator \ {n} : zert'[v] = zert[v] /\ letzter'[v] = letzter[v]
  BY DEF TypeOK, Aufnehmen
<1>2. b # Keiner
  BY BlockAnnahme
<1>3. \A x \in zert[n] : Zeit[x] <= Zeit[b]
  <2> SUFFICES ASSUME NEW x \in zert[n] PROVE Zeit[x] <= Zeit[b]
    OBVIOUS
  <2>1. letzter[n] # Keiner /\ Zeit[x] <= Zeit[letzter[n]]
    BY DEF Juengster
  <2>2. letzter[n] \in Block /\ x \in Block
    BY <2>1 DEF TypeOK
  <2>3. Zeit[letzter[n]] <= Zeit[b]
    BY <2>1, <2>2, BlockAnnahme DEF Annehmbar, FolgtLetztem
  <2>4. QED BY <2>1, <2>2, <2>3, BlockAnnahme
<1>4. Juengster'
  BY <1>1, <1>2, <1>3, BlockAnnahme DEF Juengster
<1>5. QED BY <1>1, <1>4 DEF TypeOK

\* checkpointLetzterLaden finds what was the last checkpoint before.
LEMMA JuengstesOK ==
  ASSUME TypeOK, Juengster, NEW n \in Validator
  PROVE  LET l == Juengstes(zert[n])
         IN  /\ zert[n] = {} => l = Keiner
             /\ zert[n] # {} => l \in zert[n] /\ \A x \in zert[n] : Zeit[x] <= Zeit[l]
<1>1. CASE zert[n] = {}
  BY <1>1 DEF Juengstes
<1>2. CASE zert[n] # {}
  <2>1. \E l \in zert[n] : \A x \in zert[n] : Zeit[x] <= Zeit[l]
    BY <1>2 DEF Juengster
  <2>2. QED BY <1>2, <2>1 DEF Juengstes
<1>3. QED BY <1>1, <1>2

\* The type invariant, with what it needs, holds at the start.
LEMMA TypAnfang == Init => TypeOK /\ Juengster
  BY KeineRundeTyp DEF Init, TypeOK, Juengster

\* Every step keeps the type.
LEMMA TypSchritt ==
  ASSUME TypeOK, Juengster, [Next]_vars
  PROVE  TypeOK' /\ Juengster'
<1>1. CASE Tick
  BY <1>1 DEF Tick, TypeOK, Juengster
<1>2. ASSUME NEW n \in Leitende, NEW b \in Block, RundeBeginnen(n, b) PROVE TypeOK' /\ Juengster'
  <2>1. n \in Validator /\ jetzt \div SlotLaenge \in Nat
    BY KomiteeAnnahme, TeilNat DEF TypeOK
  <2>2. [block |-> b, phase |-> "eigene", von |-> {}] \in Runde
    BY DEF Runde
  <2>3. QED BY <1>2, <2>1, <2>2 DEF RundeBeginnen, TypeOK, Juengster
<1>3. ASSUME NEW n \in Leitende, RundeAbschliessen(n) PROVE TypeOK' /\ Juengster'
  <2> DEFINE b == runde[n].block
  <2>1. n \in Validator
    BY KomiteeAnnahme
  <2>2. b \in Block
    <3>1. runde[n] \in Runde
      BY <2>1 DEF TypeOK
    <3>2. QED BY <1>3, <3>1 DEF RundeAbschliessen, Runde, KeineRunde
  <2>3. Annehmbar(n, b) /\ Aufnehmen(n, b)
    BY <1>3 DEF RundeAbschliessen
  <2>4. netz' \subseteq Nachricht
    BY <1>3, <2>1, <2>2, MsgTyp DEF RundeAbschliessen, TypeOK
  <2>5. runde' \in [Validator -> Runde]
    BY <1>3, KeineRundeTyp DEF RundeAbschliessen, TypeOK
  <2> HIDE DEF b
  <2>6. QED BY <1>3, <2>1, <2>2, <2>3, <2>4, <2>5, AufnehmenOK DEF RundeAbschliessen, TypeOK
<1>4. ASSUME NEW n \in Leitende, RundeEndet(n) PROVE TypeOK' /\ Juengster'
  BY <1>4, KeineRundeTyp DEF RundeEndet, TypeOK, Juengster
<1>5. ASSUME NEW n \in Leitende, NEW m \in netz, Sammeln(n, m) PROVE TypeOK' /\ Juengster'
  <2>1. n \in Validator /\ m.von \in Validator /\ runde[n] \in Runde
    BY KomiteeAnnahme DEF TypeOK, Nachricht
  <2>2. [runde[n] EXCEPT !.von = @ \cup {m.von}] \in Runde
    BY <1>5, <2>1 DEF Runde, KeineRunde, Sammeln
  <2>3. QED BY <1>5, <2>1, <2>2 DEF Sammeln, TypeOK, Juengster
<1>6. ASSUME NEW n \in Validator, NEW b \in Block, VorschlagPruefen(n, b) PROVE TypeOK' /\ Juengster'
  BY <1>6 DEF VorschlagPruefen, TypeOK, Juengster
<1>7. ASSUME NEW n \in Validator, NEW b \in Block, Mitunterschreiben(n, b) PROVE TypeOK' /\ Juengster'
  <2>1. runde' \in [Validator -> Runde]
    <3>1. ASSUME runde[n].phase = "eigene"
          PROVE  [runde[n] EXCEPT !.phase = "sammelt", !.von = {n}] \in Runde
      <4>1. runde[n] \in Runde /\ runde[n] # KeineRunde
        BY <3>1 DEF TypeOK, KeineRunde
      <4>2. runde[n] \in [block : Block, phase : {"eigene", "sammelt"}, von : SUBSET Validator]
        BY <4>1 DEF Runde
      <4>3. QED BY <4>2 DEF Runde
    <3>2. QED BY <1>7, <3>1 DEF Mitunterschreiben, TypeOK
  <2>2. netz' \subseteq Nachricht
    BY <1>7, MsgTyp DEF Mitunterschreiben, TypeOK
  <2>3. QED BY <1>7, <2>1, <2>2 DEF Mitunterschreiben, TypeOK, Juengster
<1>8. ASSUME NEW n \in Validator, NEW b \in Block, UnterschriftVerweigert(n, b)
      PROVE  TypeOK' /\ Juengster'
  BY <1>8 DEF UnterschriftVerweigert, TypeOK, Juengster
<1>9. ASSUME NEW n \in Validator, NEW b \in Block, ZertifikatAnnehmen(n, b) PROVE TypeOK' /\ Juengster'
  <2>1. Annehmbar(n, b) /\ Aufnehmen(n, b)
    BY <1>9 DEF ZertifikatAnnehmen
  <2>2. QED BY <1>9, <2>1, AufnehmenOK DEF ZertifikatAnnehmen, TypeOK
<1>10. ASSUME NEW n \in Validator, NEW b \in Block, MerkenUnklar(n, b) PROVE TypeOK' /\ Juengster'
  BY <1>10 DEF MerkenUnklar, TypeOK, Juengster
<1>11. ASSUME NEW n \in Validator, NEW verloren \in BOOLEAN, Neustart(n, verloren)
       PROVE  TypeOK' /\ Juengster'
  <2> DEFINE l == Juengstes(zert[n])
  <2>1. /\ zert[n] = {} => l = Keiner
        /\ zert[n] # {} => l \in zert[n] /\ \A x \in zert[n] : Zeit[x] <= Zeit[l]
    BY JuengstesOK
  <2> HIDE DEF l
  <2>2. /\ zert' \in [Validator -> SUBSET Block]
        /\ \A v \in Validator \ {n} : zert'[v] = zert[v] /\ letzter'[v] = letzter[v]
        /\ letzter' = [letzter EXCEPT ![n] = IF verloren THEN Keiner ELSE l]
        /\ zert'[n] = IF verloren THEN {} ELSE zert[n]
    BY <1>11 DEF Neustart, TypeOK, l
  <2>3. l \in Block \cup {Keiner}
    BY <2>1 DEF TypeOK
  <2>4. letzter' \in [Validator -> Block \cup {Keiner}] /\ letzter'[n] = IF verloren THEN Keiner ELSE l
    BY <2>2, <2>3 DEF TypeOK
  <2>5. \A v \in Validator : letzter'[v] \in zert'[v] \cup {Keiner}
    BY <2>1, <2>2, <2>4 DEF TypeOK
  <2>6. Juengster'
    BY <2>1, <2>2, <2>4, BlockAnnahme DEF Juengster, TypeOK
  <2>7. QED BY <1>11, <2>2, <2>4, <2>5, <2>6, KeineRundeTyp DEF Neustart, TypeOK
<1>12. CASE UNCHANGED vars
  BY <1>12 DEF vars, TypeOK, Juengster
<1>13. QED
  BY <1>1, <1>2, <1>3, <1>4, <1>5, <1>6, <1>7, <1>8, <1>9, <1>10, <1>11, <1>12, KomiteeAnnahme DEF Next

\* The state always has its type, whatever restarts and losses do (Checkpoint).
THEOREM TypKorrekt == Spec => []TypeOK
<1>1. TypeOK /\ Juengster /\ [Next]_vars => (TypeOK /\ Juengster)'
  BY TypSchritt
<1>2. QED BY TypAnfang, <1>1, PTL DEF Spec

-----------------------------------------------------------------------------
(***************************************************************************)
(* What a member signs.                                                    *)
(***************************************************************************)
\* A signed block was old enough, and is noted unless the process that signed
\* it is gone.
SignaturenOK ==
  \A n \in Validator : \A b \in Unterschrieben(n) :
    /\ Zeit[b] + RueckToleranz <= jetzt
    /\ b \in merker[n] \/ Zeit[b] + RueckToleranz <= start[n]

\* A checked block is old enough, and younger than the process.
GeprueftOK ==
  \A n \in Validator : \A b \in geprueft[n] :
    n \in Komitee[b] /\ Zeit[b] > start[n] /\ Zeit[b] + RueckToleranz <= jetzt

MerkerEindeutig ==
  \A n \in Validator : \A x, y \in merker[n] : Slot(x) = Slot(y) => x = y

SigInv ==
  /\ \A n \in Validator : start[n] <= jetzt
  /\ SignaturenOK /\ GeprueftOK /\ MerkerEindeutig /\ KeinDoppelsignieren

\* What SlotsVorwaerts says of one step.
Vorwaerts ==
  \A n \in Validator : \A y \in Unterschrieben(n)' \ Unterschrieben(n) :
    y \in merker[n] \/ \A x \in Unterschrieben(n) : Slot(x) < Slot(y)

KeineNeue == \A n \in Validator : Unterschrieben(n)' = Unterschrieben(n)

\* Steps that sign nothing, start nothing and note nothing.
LEMMA OhneUnterschrift ==
  ASSUME TypeOK, TypeOK', SigInv, KeineNeue, start' = start, merker' = merker, jetzt <= jetzt',
         \A n \in Validator : \A b \in geprueft'[n] :
           b \in geprueft[n]
             \/ (n \in Komitee[b] /\ Zeit[b] > start[n] /\ Zeit[b] + RueckToleranz <= jetzt)
  PROVE  SigInv' /\ Vorwaerts
<1>1. jetzt \in Nat /\ jetzt' \in Nat /\ start \in [Validator -> Nat]
  BY DEF TypeOK
<1>2. \A n \in Validator : start'[n] <= jetzt'
  BY <1>1 DEF SigInv
<1>3. SignaturenOK'
  <2> SUFFICES ASSUME NEW n \in Validator, NEW b \in Unterschrieben(n)'
               PROVE  /\ Zeit[b] + RueckToleranz <= jetzt'
                      /\ b \in merker'[n] \/ Zeit[b] + RueckToleranz <= start'[n]
    BY DEF SignaturenOK
  <2>1. b \in Unterschrieben(n) /\ b \in Block
    BY DEF KeineNeue, Unterschrieben
  <2>2. Zeit[b] + RueckToleranz <= jetzt /\ (b \in merker[n] \/ Zeit[b] + RueckToleranz <= start[n])
    BY <2>1 DEF SigInv, SignaturenOK
  <2>3. QED BY <1>1, <2>1, <2>2, BlockAnnahme, FristenAnnahme
<1>4. GeprueftOK'
  <2> SUFFICES ASSUME NEW n \in Validator, NEW b \in geprueft'[n]
               PROVE  n \in Komitee[b] /\ Zeit[b] > start'[n] /\ Zeit[b] + RueckToleranz <= jetzt'
    BY DEF GeprueftOK
  <2>1. b \in Block
    BY DEF TypeOK
  <2>2. n \in Komitee[b] /\ Zeit[b] > start[n] /\ Zeit[b] + RueckToleranz <= jetzt
    BY DEF SigInv, GeprueftOK
  <2>3. QED BY <1>1, <2>1, <2>2, BlockAnnahme, FristenAnnahme
<1>5. MerkerEindeutig'
  BY DEF SigInv, MerkerEindeutig, Slot
<1>6. KeinDoppelsignieren'
  <2>1. \A n \in Validator : \A x, y \in Unterschrieben(n)' : Slot(x) = Slot(y) => x = y
    BY DEF SigInv, KeinDoppelsignieren, KeineNeue
  <2>2. QED BY <2>1 DEF KeinDoppelsignieren, Slot
<1>7. Vorwaerts
  BY DEF Vorwaerts, KeineNeue
<1>8. QED BY <1>2, <1>3, <1>4, <1>5, <1>6, <1>7 DEF SigInv

\* No signature is added where the messages stay, or a certificate is sent.
LEMMA KeineNeueOK ==
  ASSUME netz' = netz \/ \E n, b : netz' = netz \cup {Msg("zertifikat", n, b)}
  PROVE  KeineNeue
  BY DEF KeineNeue, Unterschrieben, Msg

\* A new note keeps the slots of the table apart.
LEMMA NotizOK ==
  ASSUME TypeOK, SigInv, NEW n \in Validator, NEW b \in Block, Belegbar(merker[n], b),
         merker' = [merker EXCEPT ![n] = @ \cup {b}]
  PROVE  MerkerEindeutig'
<1> SUFFICES ASSUME NEW v \in Validator, NEW x \in merker'[v], NEW y \in merker'[v], Slot(x) = Slot(y)
             PROVE  x = y
  BY DEF MerkerEindeutig, Slot
<1>1. merker'[n] = merker[n] \cup {b} /\ \A w \in Validator \ {n} : merker'[w] = merker[w]
  BY DEF TypeOK
<1>2. \A s, t \in merker[v] : Slot(s) = Slot(t) => s = t
  BY DEF SigInv, MerkerEindeutig
<1>3. merker[n] \subseteq Block
  BY DEF TypeOK
<1>4. \A t \in merker[n] : Slot(t) = Slot(b) => t = b
  <2>1. CASE b \in merker[n]
    BY <2>1 DEF SigInv, MerkerEindeutig
  <2>2. CASE \A t \in merker[n] : Slot(t) < Slot(b)
    BY <2>2, <1>3, SlotTyp
  <2>3. QED BY <2>1, <2>2 DEF Belegbar
<1>5. QED BY <1>1, <1>2, <1>4

\* The heart of the matter: what is signed now lies in a later slot than what
\* was signed before, or has its note already.
LEMMA NeueUnterschrift ==
  ASSUME TypeOK, SigInv, NEW n \in Validator, NEW b \in geprueft[n], Belegbar(merker[n], b),
         NEW x \in Unterschrieben(n), x # b
  PROVE  /\ Slot(x) # Slot(b)
         /\ b \notin merker[n] => Slot(x) < Slot(b)
<1>1. x \in Block /\ b \in Block /\ start[n] \in Nat /\ Zeit[b] > start[n]
  BY DEF TypeOK, Unterschrieben, SigInv, GeprueftOK
<1>2. CASE x \in merker[n]
  <2>1. CASE b \in merker[n]
    BY <1>2, <2>1 DEF SigInv, MerkerEindeutig
  <2>2. CASE b \notin merker[n]
    <3>1. Slot(x) < Slot(b)
      BY <1>2, <2>2 DEF Belegbar
    <3>2. QED BY <1>1, <3>1, SlotTyp
  <2>3. QED BY <2>1, <2>2
<1>3. CASE x \notin merker[n]
  <2>1. Zeit[x] + RueckToleranz <= start[n]
    BY <1>3 DEF SigInv, SignaturenOK
  <2>2. Slot(x) < Slot(b)
    BY <1>1, <2>1, NachFrueheren
  <2>3. QED BY <1>1, <2>2, SlotTyp
<1>4. QED BY <1>2, <1>3

LEMMA MitunterschreibenOK ==
  ASSUME TypeOK, TypeOK', SigInv, NEW n \in Validator, NEW b \in Block, Mitunterschreiben(n, b)
  PROVE  SigInv' /\ Vorwaerts
<1>1. /\ b \in geprueft[n] /\ Belegbar(merker[n], b)
      /\ merker' = [merker EXCEPT ![n] = @ \cup {b}] /\ geprueft' = [geprueft EXCEPT ![n] = @ \ {b}]
      /\ jetzt' = jetzt /\ start' = start
  BY DEF Mitunterschreiben
<1>2. /\ Unterschrieben(n)' = Unterschrieben(n) \cup {b}
      /\ \A v \in Validator \ {n} : Unterschrieben(v)' = Unterschrieben(v)
  BY DEF Mitunterschreiben, Unterschrieben, Msg
<1>3. merker'[n] = merker[n] \cup {b} /\ \A v \in Validator \ {n} : merker'[v] = merker[v]
  BY <1>1 DEF TypeOK
<1>4. \A v \in Validator : geprueft'[v] \subseteq geprueft[v]
  BY <1>1 DEF TypeOK
<1>5. Zeit[b] + RueckToleranz <= jetzt
  BY <1>1 DEF SigInv, GeprueftOK
<1>6. SignaturenOK'
  <2> SUFFICES ASSUME NEW v \in Validator, NEW x \in Unterschrieben(v)'
               PROVE  /\ Zeit[x] + RueckToleranz <= jetzt
                      /\ x \in merker'[v] \/ Zeit[x] + RueckToleranz <= start[v]
    BY <1>1 DEF SignaturenOK
  <2>1. CASE x \in Unterschrieben(v)
    BY <1>3, <2>1 DEF SigInv, SignaturenOK
  <2>2. CASE v = n /\ x = b
    BY <1>3, <1>5, <2>2
  <2>3. QED BY <1>2, <2>1, <2>2
<1>7. GeprueftOK'
  BY <1>1, <1>4 DEF SigInv, GeprueftOK
<1>8. MerkerEindeutig'
  BY <1>1, NotizOK
<1>9. KeinDoppelsignieren'
  <2> SUFFICES ASSUME NEW v \in Validator, NEW x \in Unterschrieben(v)', NEW y \in Unterschrieben(v)',
                      Slot(x) = Slot(y)
               PROVE  x = y
    BY DEF KeinDoppelsignieren, Slot
  <2>1. CASE x \in Unterschrieben(v) /\ y \in Unterschrieben(v)
    BY <2>1 DEF SigInv, KeinDoppelsignieren
  <2>2. CASE v = n /\ y = b
    BY <1>1, <1>2, <2>2, NeueUnterschrift
  <2>3. CASE v = n /\ x = b
    BY <1>1, <1>2, <2>3, NeueUnterschrift
  <2>4. QED BY <1>2, <2>1, <2>2, <2>3
<1>10. Vorwaerts
  <2> SUFFICES ASSUME NEW v \in Validator, NEW y \in Unterschrieben(v)' \ Unterschrieben(v),
                      y \notin merker[v], NEW x \in Unterschrieben(v)
               PROVE  Slot(x) < Slot(y)
    BY DEF Vorwaerts
  <2>1. v = n /\ y = b /\ x # b
    BY <1>2
  <2>2. QED BY <1>1, <2>1, NeueUnterschrift
<1>11. QED BY <1>1, <1>6, <1>7, <1>8, <1>9, <1>10 DEF SigInv

LEMMA MerkenUnklarOK ==
  ASSUME TypeOK, TypeOK', SigInv, NEW n \in Validator, NEW b \in Block, MerkenUnklar(n, b)
  PROVE  SigInv' /\ Vorwaerts
<1>1. /\ Belegbar(merker[n], b)
      /\ merker' = [merker EXCEPT ![n] = @ \cup {b}] /\ geprueft' = [geprueft EXCEPT ![n] = @ \ {b}]
      /\ jetzt' = jetzt /\ start' = start /\ netz' = netz
  BY DEF MerkenUnklar
<1>2. KeineNeue
  BY <1>1, KeineNeueOK
<1>3. \A v \in Validator : merker[v] \subseteq merker'[v] /\ geprueft'[v] \subseteq geprueft[v]
  BY <1>1 DEF TypeOK
<1>4. SignaturenOK'
  BY <1>1, <1>2, <1>3 DEF SigInv, SignaturenOK, KeineNeue
<1>5. GeprueftOK'
  BY <1>1, <1>3 DEF SigInv, GeprueftOK
<1>6. MerkerEindeutig'
  BY <1>1, NotizOK
<1>7. KeinDoppelsignieren'
  BY <1>2 DEF SigInv, KeinDoppelsignieren, KeineNeue, Slot
<1>8. QED BY <1>1, <1>2, <1>4, <1>5, <1>6, <1>7 DEF SigInv, Vorwaerts, KeineNeue

\* A start: what was signed before is older than the new process.
LEMMA NeustartOK ==
  ASSUME TypeOK, TypeOK', SigInv, NEW n \in Validator, NEW verloren \in BOOLEAN, Neustart(n, verloren)
  PROVE  SigInv' /\ Vorwaerts
<1>1. /\ start' = [start EXCEPT ![n] = jetzt] /\ geprueft' = [geprueft EXCEPT ![n] = {}]
      /\ merker' = IF verloren THEN [merker EXCEPT ![n] = {}] ELSE merker
      /\ jetzt' = jetzt /\ netz' = netz
  BY DEF Neustart
<1>2. KeineNeue
  BY <1>1, KeineNeueOK
<1>3. /\ start'[n] = jetzt /\ geprueft'[n] = {} /\ merker'[n] \subseteq merker[n]
      /\ \A v \in Validator \ {n} :
           start'[v] = start[v] /\ geprueft'[v] = geprueft[v] /\ merker'[v] = merker[v]
  BY <1>1 DEF TypeOK
<1>4. \A v \in Validator : start'[v] <= jetzt'
  BY <1>1, <1>3 DEF SigInv, TypeOK
<1>5. SignaturenOK'
  BY <1>1, <1>2, <1>3 DEF SigInv, SignaturenOK, KeineNeue
<1>6. GeprueftOK'
  BY <1>1, <1>3 DEF SigInv, GeprueftOK
<1>7. MerkerEindeutig'
  BY <1>3 DEF SigInv, MerkerEindeutig, Slot
<1>8. KeinDoppelsignieren'
  BY <1>2 DEF SigInv, KeinDoppelsignieren, KeineNeue, Slot
<1>9. QED BY <1>2, <1>4, <1>5, <1>6, <1>7, <1>8 DEF SigInv, Vorwaerts, KeineNeue

LEMMA SigSchritt ==
  ASSUME TypeOK, TypeOK', SigInv, [Next]_vars
  PROVE  SigInv' /\ Vorwaerts
<1>1. jetzt \in Nat /\ jetzt' \in Nat
  BY DEF TypeOK
<1>2. CASE Tick
  BY <1>1, <1>2, KeineNeueOK, OhneUnterschrift DEF Tick
<1>3. ASSUME NEW n \in Leitende, NEW b \in Block, RundeBeginnen(n, b) PROVE SigInv' /\ Vorwaerts
  BY <1>1, <1>3, KeineNeueOK, OhneUnterschrift DEF RundeBeginnen
<1>4. ASSUME NEW n \in Leitende, RundeAbschliessen(n) PROVE SigInv' /\ Vorwaerts
  <2>1. KeineNeue
    BY <1>4, KeineNeueOK DEF RundeAbschliessen
  <2>2. start' = start /\ merker' = merker /\ geprueft' = geprueft /\ jetzt' = jetzt
    BY <1>4 DEF RundeAbschliessen
  <2>3. QED BY <1>1, <2>1, <2>2, OhneUnterschrift
<1>5. ASSUME NEW n \in Leitende, RundeEndet(n) PROVE SigInv' /\ Vorwaerts
  BY <1>1, <1>5, KeineNeueOK, OhneUnterschrift DEF RundeEndet
<1>6. ASSUME NEW n \in Leitende, NEW m \in netz, Sammeln(n, m) PROVE SigInv' /\ Vorwaerts
  BY <1>1, <1>6, KeineNeueOK, OhneUnterschrift DEF Sammeln
<1>7. ASSUME NEW n \in Validator, NEW b \in Block, VorschlagPruefen(n, b) PROVE SigInv' /\ Vorwaerts
  <2>1. /\ KeineNeue /\ start' = start /\ merker' = merker /\ jetzt' = jetzt
        /\ geprueft' = [geprueft EXCEPT ![n] = @ \cup {b}]
    BY <1>7, KeineNeueOK DEF VorschlagPruefen
  <2>2. n \in Komitee[b] /\ Zeit[b] > start[n] /\ Zeit[b] + RueckToleranz <= jetzt
    BY <1>1, <1>7, BlockAnnahme, FristenAnnahme DEF VorschlagPruefen, Zulaessig, NachStart, Alter
  <2>3. \A v \in Validator : \A x \in geprueft'[v] : x \in geprueft[v] \/ (v = n /\ x = b)
    BY <2>1 DEF TypeOK
  <2>4. QED BY <1>1, <2>1, <2>2, <2>3, OhneUnterschrift
<1>8. ASSUME NEW n \in Validator, NEW b \in Block, UnterschriftVerweigert(n, b)
      PROVE  SigInv' /\ Vorwaerts
  <2>1. \A v \in Validator : geprueft'[v] \subseteq geprueft[v]
    BY <1>8 DEF UnterschriftVerweigert, TypeOK
  <2>2. QED BY <1>1, <1>8, <2>1, KeineNeueOK, OhneUnterschrift DEF UnterschriftVerweigert
<1>9. ASSUME NEW n \in Validator, NEW b \in Block, ZertifikatAnnehmen(n, b)
      PROVE  SigInv' /\ Vorwaerts
  BY <1>1, <1>9, KeineNeueOK, OhneUnterschrift DEF ZertifikatAnnehmen
<1>10. CASE UNCHANGED vars
  BY <1>1, <1>10, KeineNeueOK, OhneUnterschrift DEF vars
<1>11. QED
  BY <1>2, <1>3, <1>4, <1>5, <1>6, <1>7, <1>8, <1>9, <1>10, MitunterschreibenOK, MerkenUnklarOK, NeustartOK,
     KomiteeAnnahme DEF Next

LEMMA SigAnfang == Init => SigInv
  BY DEF Init, SigInv, SignaturenOK, GeprueftOK, MerkerEindeutig, KeinDoppelsignieren, Unterschrieben

\* No member ever signs two blocks of one slot (KeinDoppelsignieren), although
\* its tables may be lost at any restart: the note covers the running process,
\* and the start lock with the age of what is signed covers the ones before.
THEOREM KeinDoppelsignierenGilt == Spec => []KeinDoppelsignieren
<1>1. Init => TypeOK /\ Juengster /\ SigInv
  BY TypAnfang, SigAnfang
<1>2. TypeOK /\ Juengster /\ SigInv /\ [Next]_vars => (TypeOK /\ Juengster /\ SigInv)'
  BY TypSchritt, SigSchritt
<1>3. SigInv => KeinDoppelsignieren
  BY DEF SigInv
<1>4. QED BY <1>1, <1>2, <1>3, PTL DEF Spec

\* A new signature is for a later slot than all earlier ones, or was noted
\* already (SlotsVorwaerts), restarts and lost tables included.
THEOREM SlotsVorwaertsGilt == Spec => SlotsVorwaerts
<1>1. Init => TypeOK /\ Juengster /\ SigInv
  BY TypAnfang, SigAnfang
<1>2. TypeOK /\ Juengster /\ SigInv /\ [Next]_vars => (TypeOK /\ Juengster /\ SigInv)'
  BY TypSchritt, SigSchritt
<1>3. TypeOK /\ Juengster /\ SigInv /\ [Next]_vars => [Vorwaerts]_vars
  BY TypSchritt, SigSchritt
<1>4. QED BY <1>1, <1>2, <1>3, PTL DEF Spec, SlotsVorwaerts, Vorwaerts

-----------------------------------------------------------------------------
(***************************************************************************)
(* Certificates.                                                           *)
(***************************************************************************)
Unterzeichner(b) == {v \in Komitee[b] : Msg("unterschrift", v, b) \in netz}

\* A round counts members that signed its block.
RundenBelegt ==
  \A n \in Validator : runde[n].phase = "sammelt" => runde[n].von \subseteq Unterzeichner(runde[n].block)

\* A quorum of the committee signed what is certified.
ZertifikateBelegt ==
  \A b \in Zertifiziert : \E S \in SUBSET Unterzeichner(b) : Cardinality(S) >= Quorum(Komitee[b])

BelegInv == RundenBelegt /\ ZertifikateBelegt

\* Signatures stay.
LEMMA UnterzeichnerBleiben ==
  ASSUME netz \subseteq netz'
  PROVE  \A b : Unterzeichner(b) \subseteq Unterzeichner(b)'
  BY DEF Unterzeichner

\* Nothing is certified anew.
LEMMA ZertifikateBleiben ==
  ASSUME ZertifikateBelegt, netz \subseteq netz', Zertifiziert' = Zertifiziert
  PROVE  ZertifikateBelegt'
  BY UnterzeichnerBleiben DEF ZertifikateBelegt, Quorum

\* Steps that leave the messages alone, and rounds as they are or ended or begun.
LEMMA RundenGleich ==
  ASSUME BelegInv, netz' = netz,
         \A n \in Validator : runde'[n] = runde[n] \/ runde'[n].phase # "sammelt"
  PROVE  BelegInv'
<1>1. \A b : Unterzeichner(b)' = Unterzeichner(b)
  BY DEF Unterzeichner
<1>2. RundenBelegt'
  BY <1>1 DEF BelegInv, RundenBelegt
<1>3. Zertifiziert' = Zertifiziert
  BY DEF Zertifiziert
<1>4. QED BY <1>2, <1>3, ZertifikateBleiben DEF BelegInv

LEMMA BelegSchritt ==
  ASSUME TypeOK, TypeOK', SigInv, BelegInv, [Next]_vars
  PROVE  BelegInv'
<1>1. CASE Tick
  BY <1>1, RundenGleich DEF Tick
<1>2. ASSUME NEW n \in Leitende, NEW b \in Block, RundeBeginnen(n, b) PROVE BelegInv'
  <2>1. \A v \in Validator : runde'[v] = runde[v] \/ runde'[v].phase = "eigene"
    BY <1>2 DEF RundeBeginnen, TypeOK
  <2>2. QED BY <1>2, <2>1, RundenGleich DEF RundeBeginnen
<1>3. ASSUME NEW n \in Leitende, RundeAbschliessen(n) PROVE BelegInv'
  <2> DEFINE b == runde[n].block
  <2>1. /\ runde[n].phase = "sammelt" /\ Voll(n)
        /\ netz' = netz \cup {Msg("zertifikat", n, b)} /\ runde' = [runde EXCEPT ![n] = KeineRunde]
    BY <1>3 DEF RundeAbschliessen
  <2>2. \A c : Unterzeichner(c)' = Unterzeichner(c)
    BY <2>1 DEF Unterzeichner, Msg
  <2>3. RundenBelegt'
    <3>1. \A v \in Validator : runde'[v] = runde[v] \/ runde'[v] = KeineRunde
      BY <2>1 DEF TypeOK
    <3>2. QED BY <2>2, <3>1 DEF BelegInv, RundenBelegt, KeineRunde
  <2>4. Zertifiziert' \subseteq Zertifiziert \cup {b}
    BY <2>1 DEF Zertifiziert, Msg
  <2>5. \E S \in SUBSET Unterzeichner(b) : Cardinality(S) >= Quorum(Komitee[b])
    BY <2>1, KomiteeAnnahme DEF BelegInv, RundenBelegt, Voll
  <2> HIDE DEF b
  <2>6. ZertifikateBelegt'
    <3> SUFFICES ASSUME NEW c \in Zertifiziert'
                 PROVE  \E S \in SUBSET Unterzeichner(c)' : Cardinality(S) >= Quorum(Komitee[c])
      BY DEF ZertifikateBelegt, Quorum
    <3>1. QED BY <2>2, <2>4, <2>5 DEF BelegInv, ZertifikateBelegt
  <2>7. QED BY <2>3, <2>6 DEF BelegInv
<1>4. ASSUME NEW n \in Leitende, RundeEndet(n) PROVE BelegInv'
  <2>1. \A v \in Validator : runde'[v] = runde[v] \/ runde'[v] = KeineRunde
    BY <1>4 DEF RundeEndet, TypeOK
  <2>2. QED BY <1>4, <2>1, RundenGleich DEF RundeEndet, KeineRunde
<1>5. ASSUME NEW n \in Leitende, NEW m \in netz, Sammeln(n, m) PROVE BelegInv'
  <2>1. /\ m.art = "unterschrift" /\ m.block = runde[n].block /\ m.von \in Komitee[m.block]
        /\ runde' = [runde EXCEPT ![n].von = @ \cup {m.von}] /\ netz' = netz
        /\ runde[n].phase = "sammelt"
    BY <1>5 DEF Sammeln
  <2>2. m = Msg("unterschrift", m.von, m.block)
    BY <2>1 DEF TypeOK, Nachricht, Msg
  <2>3. m.von \in Unterzeichner(m.block)
    BY <2>1, <2>2 DEF Unterzeichner
  <2>4. /\ \A v \in Validator \ {n} : runde'[v] = runde[v]
        /\ runde'[n].block = runde[n].block /\ runde'[n].phase = runde[n].phase
        /\ runde'[n].von = runde[n].von \cup {m.von}
    <3>1. n \in Validator /\ runde[n] \in Runde /\ runde[n] # KeineRunde
      BY <2>1, KomiteeAnnahme DEF TypeOK, KeineRunde
    <3>2. runde[n] \in [block : Block, phase : {"eigene", "sammelt"}, von : SUBSET Validator]
      BY <3>1 DEF Runde
    <3>3. QED BY <2>1, <3>1, <3>2 DEF TypeOK
  <2>5. \A b : Unterzeichner(b)' = Unterzeichner(b)
    BY <2>1 DEF Unterzeichner
  <2>6. RundenBelegt'
    BY <2>1, <2>3, <2>4, <2>5 DEF BelegInv, RundenBelegt
  <2>7. Zertifiziert' = Zertifiziert
    BY <2>1 DEF Zertifiziert
  <2>8. QED BY <2>1, <2>6, <2>7, ZertifikateBleiben DEF BelegInv
<1>6. ASSUME NEW n \in Validator, NEW b \in Block, VorschlagPruefen(n, b) PROVE BelegInv'
  BY <1>6, RundenGleich DEF VorschlagPruefen
<1>7. ASSUME NEW n \in Validator, NEW b \in Block, Mitunterschreiben(n, b) PROVE BelegInv'
  <2>1. /\ netz \subseteq netz' /\ Msg("unterschrift", n, b) \in netz'
        /\ Zertifiziert' = Zertifiziert
    BY <1>7 DEF Mitunterschreiben, Zertifiziert, Msg
  <2>2. n \in Unterzeichner(b)'
    BY <1>7, <2>1 DEF Unterzeichner, Mitunterschreiben, SigInv, GeprueftOK
  <2>3. \A v \in Validator : runde'[v] = runde[v]
          \/ (v = n /\ runde'[v].block = b /\ runde'[v].von = {n})
    <3>1. CASE runde[n].block = b /\ runde[n].phase = "eigene"
      <4>1. runde' = [runde EXCEPT ![n].phase = "sammelt", ![n].von = {n}]
        BY <1>7, <3>1 DEF Mitunterschreiben
      <4>2. runde[n] \in Runde /\ runde[n] # KeineRunde
        BY <3>1 DEF TypeOK, KeineRunde
      <4>3. runde[n] \in [block : Block, phase : {"eigene", "sammelt"}, von : SUBSET Validator]
        BY <4>2 DEF Runde
      <4>4. QED BY <3>1, <4>1, <4>3 DEF TypeOK
    <3>2. CASE ~(runde[n].block = b /\ runde[n].phase = "eigene")
      BY <1>7, <3>2 DEF Mitunterschreiben
    <3>3. QED BY <3>1, <3>2
  <2>4. RundenBelegt'
    <3> SUFFICES ASSUME NEW v \in Validator, runde'[v].phase = "sammelt"
                 PROVE  runde'[v].von \subseteq
                          {u \in Komitee[runde'[v].block] : Msg("unterschrift", u, runde'[v].block) \in netz'}
      BY DEF RundenBelegt, Unterzeichner
    <3>1. CASE runde'[v] = runde[v]
      BY <2>1, <3>1 DEF BelegInv, RundenBelegt, Unterzeichner
    <3>2. CASE v = n /\ runde'[v].block = b /\ runde'[v].von = {n}
      BY <2>2, <3>2 DEF Unterzeichner
    <3>3. QED BY <2>3, <3>1, <3>2
  <2>5. QED BY <2>1, <2>4, ZertifikateBleiben DEF BelegInv
<1>8. ASSUME NEW n \in Validator, NEW b \in Block, UnterschriftVerweigert(n, b) PROVE BelegInv'
  BY <1>8, RundenGleich DEF UnterschriftVerweigert
<1>9. ASSUME NEW n \in Validator, NEW b \in Block, ZertifikatAnnehmen(n, b) PROVE BelegInv'
  BY <1>9, RundenGleich DEF ZertifikatAnnehmen
<1>10. ASSUME NEW n \in Validator, NEW b \in Block, MerkenUnklar(n, b) PROVE BelegInv'
  BY <1>10, RundenGleich DEF MerkenUnklar
<1>11. ASSUME NEW n \in Validator, NEW verloren \in BOOLEAN, Neustart(n, verloren) PROVE BelegInv'
  <2>1. \A v \in Validator : runde'[v] = runde[v] \/ runde'[v] = KeineRunde
    BY <1>11 DEF Neustart, TypeOK
  <2>2. QED BY <1>11, <2>1, RundenGleich DEF Neustart, KeineRunde
<1>12. CASE UNCHANGED vars
  BY <1>12, RundenGleich DEF vars
<1>13. QED
  BY <1>1, <1>2, <1>3, <1>4, <1>5, <1>6, <1>7, <1>8, <1>9, <1>10, <1>11, <1>12, KomiteeAnnahme DEF Next

LEMMA BelegAnfang == Init => BelegInv
  BY DEF Init, BelegInv, RundenBelegt, ZertifikateBelegt, Zertifiziert, KeineRunde

\* Two quorums of one committee share a member.
LEMMA QuorumSchnitt ==
  ASSUME NEW K, IsFiniteSet(K), NEW S \in SUBSET K, NEW T \in SUBSET K,
         Cardinality(S) >= Quorum(K), Cardinality(T) >= Quorum(K)
  PROVE  S \cap T # {}
<1>1. Cardinality(K) \in Nat /\ Cardinality(S) \in Nat /\ Cardinality(T) \in Nat
  BY FS_CardinalityType, FS_Subset
<1>2. \A c \in Nat : ((2 * c) \div 3 + 1) + ((2 * c) \div 3 + 1) > c
  OBVIOUS
<1>3. Cardinality(S) + Cardinality(T) > Cardinality(K)
  BY <1>1, <1>2 DEF Quorum
<1>4. QED BY <1>3, FS_MajoritiesIntersect

\* A member that signed both would have signed twice in the slot.
LEMMA EinZertifikat ==
  ASSUME KeinDoppelsignieren, BelegInv
  PROVE  EinZertifikatJeSlot
<1> SUFFICES ASSUME NEW x \in Zertifiziert, NEW y \in Zertifiziert,
                    Slot(x) = Slot(y), Komitee[x] = Komitee[y]
             PROVE  x = y
  BY DEF EinZertifikatJeSlot
<1>1. x \in Block /\ y \in Block
  BY DEF Zertifiziert
<1>2. PICK S \in SUBSET Unterzeichner(x) : Cardinality(S) >= Quorum(Komitee[x])
  BY DEF BelegInv, ZertifikateBelegt
<1>3. PICK T \in SUBSET Unterzeichner(y) : Cardinality(T) >= Quorum(Komitee[x])
  BY DEF BelegInv, ZertifikateBelegt
<1>4. IsFiniteSet(Komitee[x]) /\ Komitee[x] \subseteq Validator
  BY <1>1, KomiteeAnnahme, FS_Subset
<1>5. S \in SUBSET Komitee[x] /\ T \in SUBSET Komitee[x]
  BY DEF Unterzeichner
<1>6. PICK v \in S \cap T : TRUE
  BY <1>2, <1>3, <1>4, <1>5, QuorumSchnitt
<1>7. v \in Validator /\ x \in Unterschrieben(v) /\ y \in Unterschrieben(v)
  BY <1>1, <1>4, <1>6 DEF Unterzeichner, Unterschrieben
<1>8. QED BY <1>7 DEF KeinDoppelsignieren

\* One slot never gets two certificates from one committee, however leaders,
\* retries, losses and restarts interleave (EinZertifikatJeSlot).
THEOREM EinZertifikatJeSlotGilt == Spec => []EinZertifikatJeSlot
<1> DEFINE I == TypeOK /\ Juengster /\ SigInv /\ BelegInv
<1>1. Init => I
  BY TypAnfang, SigAnfang, BelegAnfang
<1>2. I /\ [Next]_vars => I'
  BY TypSchritt, SigSchritt, BelegSchritt
<1>3. I => EinZertifikatJeSlot
  BY EinZertifikat DEF SigInv
<1> HIDE DEF I
<1>4. QED BY <1>1, <1>2, <1>3, PTL DEF Spec

-----------------------------------------------------------------------------
(***************************************************************************)
(* The chain of a node.                                                    *)
(***************************************************************************)
\* To follow is transitive: the search for an older block stops later, so what
\* it finds from y it also finds from whatever has y in its past.
LEMMA NachfolgerTransitiv ==
  ASSUME NEW x \in Block, NEW y \in Block, NEW b \in Block,
         Zeit[x] <= Zeit[y], y \in Nachfolger[x], b \in Nachfolger[y]
  PROVE  b \in Nachfolger[x]
<1> DEFINE Zu(S, grenze) == \A z \in S : Zeit[z] >= grenze => Eltern[z] \subseteq S
<1>1. \A S \in SUBSET Block : y \in S /\ Zu(S, Zeit[x]) => x \in S
  BY DEF Nachfolger, Vorfahren
<1>2. \A S \in SUBSET Block : b \in S /\ Zu(S, Zeit[y]) => y \in S
  BY DEF Nachfolger, Vorfahren
<1>3. \A S \in SUBSET Block : Zu(S, Zeit[x]) => Zu(S, Zeit[y])
  <2> SUFFICES ASSUME NEW S \in SUBSET Block, Zu(S, Zeit[x]), NEW z \in S, Zeit[z] >= Zeit[y]
               PROVE  Eltern[z] \subseteq S
    OBVIOUS
  <2>1. Zeit[z] >= Zeit[x]
    BY BlockAnnahme
  <2>2. QED BY <2>1
<1>4. \A S \in SUBSET Block : b \in S /\ Zu(S, Zeit[x]) => x \in S
  BY <1>1, <1>2, <1>3
<1>5. QED BY <1>4 DEF Nachfolger, Vorfahren

\* checkpointZertifikatAnnehmen and the leader's own certificate: what is
\* accepted lies after the last checkpoint, hence after all of them.
LEMMA AufnehmenKette ==
  ASSUME TypeOK, Juengster, KetteJeKnoten,
         NEW n \in Validator, NEW b \in Block, Annehmbar(n, b), Aufnehmen(n, b)
  PROVE  KetteJeKnoten'
<1>1. /\ zert'[n] = zert[n] \cup {b}
      /\ \A v \in Validator \ {n} : zert'[v] = zert[v]
      /\ zert[n] \subseteq Block
  BY DEF TypeOK, Aufnehmen
<1>2. \A x \in zert[n] : x = b \/ (Zeit[x] < Zeit[b] /\ b \in Nachfolger[x])
  <2> SUFFICES ASSUME NEW x \in zert[n], x # b
               PROVE  Zeit[x] < Zeit[b] /\ b \in Nachfolger[x]
    OBVIOUS
  <2> DEFINE l == letzter[n]
  <2>1. l # Keiner /\ l \in zert[n] /\ Zeit[x] <= Zeit[l]
    BY DEF Juengster
  <2>2. l \in Block /\ x \in Block
    BY <1>1, <2>1
  <2>3. x = l \/ (Zeit[x] < Zeit[l] /\ l \in Nachfolger[x])
    BY <2>1, <2>2, BlockAnnahme DEF KetteJeKnoten
  <2>4. CASE l = b
    BY <2>3, <2>4
  <2>5. ASSUME l # b PROVE Zeit[b] > Zeit[l] /\ b \in Nachfolger[l]
    BY <2>1, <2>5 DEF Annehmbar, FolgtLetztem
  <2> HIDE DEF l
  <2>6. QED BY <2>2, <2>3, <2>4, <2>5, NachfolgerTransitiv, BlockAnnahme
<1>3. QED BY <1>1, <1>2 DEF KetteJeKnoten

\* Every step keeps the chain.
LEMMA KetteSchritt ==
  ASSUME TypeOK, Juengster, KetteJeKnoten, [Next]_vars
  PROVE  KetteJeKnoten'
<1>1. ASSUME zert' = zert PROVE KetteJeKnoten'
  BY <1>1 DEF KetteJeKnoten
<1>2. ASSUME NEW n \in Leitende, RundeAbschliessen(n) PROVE KetteJeKnoten'
  <2> DEFINE b == runde[n].block
  <2>1. n \in Validator
    BY KomiteeAnnahme
  <2>2. b \in Block
    <3>1. runde[n] \in Runde
      BY <2>1 DEF TypeOK
    <3>2. QED BY <1>2, <3>1 DEF RundeAbschliessen, Runde, KeineRunde
  <2>3. Annehmbar(n, b) /\ Aufnehmen(n, b)
    BY <1>2 DEF RundeAbschliessen
  <2> HIDE DEF b
  <2>4. QED BY <2>1, <2>2, <2>3, AufnehmenKette
<1>3. ASSUME NEW n \in Validator, NEW b \in Block, ZertifikatAnnehmen(n, b) PROVE KetteJeKnoten'
  BY <1>3, AufnehmenKette DEF ZertifikatAnnehmen
<1>4. ASSUME NEW n \in Stoerbar, NEW verloren \in BOOLEAN, Neustart(n, verloren) PROVE KetteJeKnoten'
  <2>1. \A v \in Validator : zert'[v] \subseteq zert[v]
    BY <1>4 DEF Neustart, TypeOK
  <2>2. QED BY <2>1 DEF KetteJeKnoten
<1>5. CASE UNCHANGED zert
  BY <1>1, <1>5
<1>6. QED
  <2>1. CASE Tick
    BY <1>1, <2>1 DEF Tick
  <2>2. ASSUME NEW n \in Leitende, NEW b \in Block, RundeBeginnen(n, b) PROVE KetteJeKnoten'
    BY <1>1, <2>2 DEF RundeBeginnen
  <2>3. ASSUME NEW n \in Leitende, RundeEndet(n) PROVE KetteJeKnoten'
    BY <1>1, <2>3 DEF RundeEndet
  <2>4. ASSUME NEW n \in Leitende, NEW m \in netz, Sammeln(n, m) PROVE KetteJeKnoten'
    BY <1>1, <2>4 DEF Sammeln
  <2>5. ASSUME NEW n \in Validator, NEW b \in Block,
               VorschlagPruefen(n, b) \/ Mitunterschreiben(n, b) \/ UnterschriftVerweigert(n, b)
        PROVE  KetteJeKnoten'
    BY <1>1, <2>5 DEF VorschlagPruefen, Mitunterschreiben, UnterschriftVerweigert
  <2>6. ASSUME NEW n \in Stoerbar, NEW b \in Block, MerkenUnklar(n, b) PROVE KetteJeKnoten'
    BY <1>1, <2>6 DEF MerkenUnklar
  <2>7. CASE UNCHANGED vars
    BY <1>5, <2>7 DEF vars
  <2>8. QED
    BY <1>2, <1>3, <1>4, <2>1, <2>2, <2>3, <2>4, <2>5, <2>6, <2>7 DEF Next

\* What one node stores is a chain, over restarts and lost databases
\* (KetteJeKnoten).
THEOREM KetteJeKnotenGilt == Spec => []KetteJeKnoten
<1> DEFINE I == TypeOK /\ Juengster /\ KetteJeKnoten
<1>1. Init => I
  BY TypAnfang DEF Init, KetteJeKnoten
<1>2. I /\ [Next]_vars => I'
  BY TypSchritt, KetteSchritt
<1>3. I => KetteJeKnoten
  OBVIOUS
<1> HIDE DEF I
<1>4. QED BY <1>1, <1>2, <1>3, PTL DEF Spec
=============================================================================
