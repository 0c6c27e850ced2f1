------------------------ MODULE BlockNachspielProofs ------------------------
(***************************************************************************)
(* Proofs about BlockNachspiel for every finite DAG, every number of       *)
(* goroutines, and any number of crashes and failed replays.               *)
(***************************************************************************)
EXTENDS BlockNachspiel, FiniteSetTheorems, WellFoundedInduction, TLAPS

-----------------------------------------------------------------------------
(***************************************************************************)
(* Least and greatest blocks.                                              *)
(***************************************************************************)
\* In a nonempty set of blocks some block has the least value, and some the greatest.
LEMMA Extrem ==
  ASSUME NEW f \in [Block -> Nat], NEW A \in SUBSET Block, A # {}
  PROVE  /\ \E x \in A : \A y \in A : f[x] <= f[y]
         /\ \E x \in A : \A y \in A : f[y] <= f[x]
<1> DEFINE Hat(S) == /\ \E x \in S : \A y \in S : f[x] <= f[y]
                     /\ \E x \in S : \A y \in S : f[y] <= f[x]
           Ohne == {S \in SUBSET Block : S # {} /\ ~Hat(S)}
<1>1. SUFFICES ASSUME Ohne # {} PROVE FALSE
  OBVIOUS
<1>2. Ohne \subseteq FiniteSubsetsOf(Block)
  BY FS_Subset, BlockTyp DEF FiniteSubsetsOf
<1>3. PICK S \in Ohne : \A T \in Ohne : ~(<<T, S>> \in StrictSubsetOrdering(Block))
  <2>1. IsWellFoundedOn(StrictSubsetOrdering(Block), FiniteSubsetsOf(Block))
    BY FS_StrictSubsetOrderingWellFounded
  <2> HIDE DEF Ohne
  <2>2. QED BY <1>1, <1>2, <2>1, WFMin
<1>4. PICK a \in S : TRUE
  OBVIOUS
<1>5. S \ {a} \notin Ohne
  <2>1. <<S \ {a}, S>> \in StrictSubsetOrdering(Block)
    BY <1>4 DEF StrictSubsetOrdering
  <2>2. QED BY <1>3, <2>1
<1>6. CASE S = {a}
  BY <1>6
<1>7. CASE S \ {a} # {}
  <2>1. Hat(S \ {a})
    BY <1>5, <1>7
  <2>2. PICK u \in S \ {a} : \A y \in S \ {a} : f[u] <= f[y]
    BY <2>1
  <2>3. PICK o \in S \ {a} : \A y \in S \ {a} : f[y] <= f[o]
    BY <2>1
  <2>4. f[u] \in Nat /\ f[o] \in Nat /\ f[a] \in Nat /\ \A y \in S : f[y] \in Nat
    OBVIOUS
  <2>5. \E x \in S : \A y \in S : f[x] <= f[y]
    <3>1. CASE f[u] <= f[a]
      BY <2>2, <3>1
    <3>2. CASE f[a] < f[u]
      BY <2>2, <2>4, <3>2
    <3>3. QED BY <2>4, <3>1, <3>2
  <2>6. \E x \in S : \A y \in S : f[y] <= f[x]
    <3>1. CASE f[a] <= f[o]
      BY <2>3, <3>1
    <3>2. CASE f[o] < f[a]
      BY <2>3, <2>4, <3>2
    <3>3. QED BY <2>4, <3>1, <3>2
  <2>7. QED BY <2>5, <2>6
<1>8. QED BY <1>6, <1>7

\* The first of a set in canonical order is one of the set, and none of its parents is.
LEMMA NiedrigsterTyp ==
  ASSUME NEW S \in SUBSET Block, S # {}
  PROVE  Niedrigster(S) \in S /\ Eltern[Niedrigster(S)] \cap S = {}
<1>1. \E x \in S : \A y \in S : Rang[x] <= Rang[y]
  BY Extrem, RangTyp
<1>2. Niedrigster(S) \in S /\ \A y \in S : Rang[Niedrigster(S)] <= Rang[y]
  BY <1>1 DEF Niedrigster
<1>3. \A p \in Eltern[Niedrigster(S)] : Rang[p] \in Nat /\ Rang[p] < Rang[Niedrigster(S)]
  BY <1>2, BlockTyp, HoeheTyp, RangTyp
<1>4. \A p \in S : Rang[p] \in Nat
  BY RangTyp
<1>5. QED BY <1>2, <1>3, <1>4, RangTyp

\* A height is a height.
LEMMA HoechsteTyp ==
  ASSUME NEW S \in SUBSET Block
  PROVE  Hoechste(S) \in Nat
<1> DEFINE H == {0} \cup {Hoehe[b] : b \in S}
<1>1. H \subseteq Nat
  BY HoeheTyp
<1>2. \E x \in H : \A y \in H : x >= y
  <2>1. CASE S = {}
    BY <2>1
  <2>2. CASE S # {}
    <3>1. PICK o \in S : \A y \in S : Hoehe[y] <= Hoehe[o]
      BY <2>2, Extrem, HoeheTyp
    <3>2. \A h \in H : Hoehe[o] >= h
      BY <1>1, <3>1, HoeheTyp
    <3>3. QED BY <3>1, <3>2
  <2>3. QED BY <2>1, <2>2
<1>3. Max(H) \in H
  BY <1>2 DEF Max
<1>4. QED BY <1>1, <1>3 DEF Hoechste

\* No stored block is higher than where the node starts.
LEMMA HoechsteGrenze ==
  ASSUME NEW S \in SUBSET Block, NEW h \in Nat, NEW x \in S
  PROVE  ~(Hoehe[x] > Max({h, Hoechste(S)}))
<1> DEFINE H == {0} \cup {Hoehe[b] : b \in S}
<1>1. H \subseteq Nat
  BY HoeheTyp
<1>2. PICK o \in S : \A y \in S : Hoehe[y] <= Hoehe[o]
  BY Extrem, HoeheTyp
<1>3. \A y \in H : Hoehe[o] >= y
  BY <1>1, <1>2, HoeheTyp
<1>4. Max(H) \in H /\ \A y \in H : Max(H) >= y
  BY <1>3 DEF Max
<1>5. Hoehe[x] \in Nat /\ Hoechste(S) \in Nat /\ Hoechste(S) >= Hoehe[x]
  BY <1>1, <1>4, HoeheTyp DEF Hoechste
<1>6. \E m \in {h, Hoechste(S)} : \A z \in {h, Hoechste(S)} : m >= z
  BY <1>5
<1>7. Max({h, Hoechste(S)}) >= Hoechste(S) /\ Max({h, Hoechste(S)}) \in Nat
  BY <1>5, <1>6 DEF Max
<1>8. QED BY <1>5, <1>7

\* The greater of two heights.
LEMMA MaxTyp ==
  ASSUME NEW x \in Nat, NEW y \in Nat
  PROVE  Max({x, y}) \in Nat
<1>1. \E m \in {x, y} : \A z \in {x, y} : m >= z
  OBVIOUS
<1>2. QED BY <1>1 DEF Max

-----------------------------------------------------------------------------
(***************************************************************************)
(* Types.                                                                  *)
(***************************************************************************)
\* The values that stand for nothing.
LEMMA LeerTyp ==
  /\ Beliebig \in Block /\ Untaetig \in Zug /\ Frei \in Spiel /\ LeeresDAG \in DAG
  /\ Frei.art = "frei" /\ Untaetig.stufe = "frei"
<1>1. Beliebig \in Block
  BY BlockTyp DEF Beliebig
<1>2. (CHOOSE g \in Laeufer : TRUE) \in Laeufer
  BY LaeuferTyp
<1>3. QED BY <1>1, <1>2 DEF Untaetig, Stufen, Frei, Zug, Spiel, LeeresDAG, DAG

\* Ancestors come from the set they are looked for in.
LEMMA ZurueckIn == \A b, T : Zurueck(b, T) \subseteq T
  BY DEF Zurueck

\* Parents in the set are ancestors, of the block itself and of an ancestor.
LEMMA ZurueckEltern ==
  ASSUME NEW b \in Block, NEW T \in SUBSET Block, NEW p \in T
  PROVE  /\ p \in Eltern[b] => p \in Zurueck(b, T)
         /\ \A x \in Zurueck(b, T) : p \in Eltern[x] => p \in Zurueck(b, T)
<1>1. ASSUME NEW S \in SUBSET T, Umfasst(S, b, T), p \in Eltern[b] PROVE p \in S
  BY <1>1 DEF Umfasst
<1>2. ASSUME NEW S \in SUBSET T, Umfasst(S, b, T), NEW x \in S, p \in Eltern[x] PROVE p \in S
  BY <1>2 DEF Umfasst
<1>3. QED BY <1>1, <1>2 DEF Zurueck

\* A delivery that goes on to another stage is a delivery.
LEMMA ZugWeiter ==
  ASSUME TypeOK, NEW g \in Laeufer, NEW s \in Stufen
  PROVE  [zug EXCEPT ![g].stufe = s] \in [Laeufer -> Zug]
  BY DEF TypeOK, Zug

\* A goroutine that is through has a delivery of its type.
LEMMA ZugEndet ==
  ASSUME TypeOK, NEW g \in Laeufer
  PROVE  [zug EXCEPT ![g] = Untaetig] \in [Laeufer -> Zug]
  BY LeerTyp DEF TypeOK

\* What is done with a block keeps the types of memory.
LEMMA ErledigtTyp ==
  ASSUME TypeOK, NEW b \in Block
  PROVE  /\ Erledigt(b) \in DAG
         /\ [mem EXCEPT !.warte = @ \cup {b}] \in DAG
         /\ [chronik EXCEPT !.ueber = @ \cup {b}] \in Chronik
         /\ [chronik EXCEPT !.verloren = @ \cup {b}] \in Chronik
  BY DEF TypeOK, Erledigt, DAG, Chronik

\* Init
LEMMA TypInit == Init => TypeOK
  BY LeerTyp DEF Init, TypeOK, Kopf, Tabelle, Chronik

\* A step keeps the types.
LEMMA TypSchritt == TypeOK /\ [Next]_vars => TypeOK'
<1> SUFFICES ASSUME TypeOK, [Next]_vars PROVE TypeOK'
  OBVIOUS
<1>1. ASSUME NEW g \in Laeufer, NEW b \in Block, NEW selbst \in BOOLEAN, Ankunft(g, b, selbst)
      PROVE  TypeOK'
  <2>1. mem' \in DAG
    BY <1>1, ZurueckIn DEF Ankunft, Geladen, Gespeicherte, TypeOK, DAG
  <2>2. zug' \in [Laeufer -> Zug]
    <3>1. \A M : Eltern[b] \ M \in SUBSET Block
      BY BlockTyp
    <3>2. QED BY <1>1, <3>1 DEF Ankunft, TypeOK, Stufen, Zug
  <2>3. QED BY <1>1, <2>1, <2>2 DEF Ankunft, TypeOK
<1>2. ASSUME NEW g \in Laeufer, Verwaisen(g) PROVE TypeOK'
  <2>1. zug[g].block \in Block /\ zug[g].fehlt \in SUBSET Block
    BY DEF TypeOK, Zug
  <2>2. mem' \in DAG
    BY <1>2, <2>1 DEF Verwaisen, TypeOK, DAG
  <2>3. QED BY <1>2, <2>2, ZugEndet DEF Verwaisen, TypeOK
<1>3. ASSUME NEW g \in Laeufer, KopfSpeichern(g) PROVE TypeOK'
  <2>1. db' \in Tabelle
    BY <1>3 DEF KopfSpeichern, NeuerKopf, TypeOK, Kopf, Tabelle
  <2>2. zug' \in [Laeufer -> Zug]
    BY <1>3, ZugWeiter DEF KopfSpeichern, Stufen
  <2>3. QED BY <1>3, <2>1, <2>2 DEF KopfSpeichern, TypeOK
<1>4. ASSUME NEW g \in Laeufer, NachspielBeginnt(g) PROVE TypeOK'
  <2>1. zug[g].block \in Block
    BY DEF TypeOK, Zug
  <2>2. Reihenfolge(zug[g].block) \in SUBSET Block
    BY <2>1, ZurueckIn DEF Reihenfolge, UnnachgespielteAhnen, TypeOK, DAG
  <2>3. spielt' \in Spiel
    BY <1>4, <2>2 DEF NachspielBeginnt, Spiel
  <2>4. zug' \in [Laeufer -> Zug]
    BY <1>4, ZugWeiter DEF NachspielBeginnt, Stufen
  <2>5. QED BY <1>4, <2>3, <2>4 DEF NachspielBeginnt, TypeOK
<1>5. ASSUME NEW g \in Laeufer, Einhaengen(g) PROVE TypeOK'
  <2>1. zug[g].block \in Block /\ mem.hoehe \in Nat
    BY DEF TypeOK, Zug, DAG
  <2>2. Max({mem.hoehe, Hoehe[zug[g].block]}) \in Nat
    BY <2>1, MaxTyp, HoeheTyp
  <2>3. Spitzen(zug[g].block) \in SUBSET Block
    BY <2>1 DEF Spitzen, TypeOK, DAG
  <2>4. mem' \in DAG
    BY <1>5, <2>1, <2>2, <2>3 DEF Einhaengen, TypeOK, DAG
  <2>5. db' \in Tabelle
    BY <1>5, <2>2 DEF Einhaengen, TypeOK, Tabelle
  <2>6. QED BY <1>5, <2>4, <2>5, ZugEndet, LeerTyp DEF Einhaengen, TypeOK
<1>6. ASSUME NEW g \in Laeufer, KopfLoeschen(g) PROVE TypeOK'
  <2>1. zug[g].block \in Block
    BY DEF TypeOK, Zug
  <2>2. db' \in Tabelle
    BY <1>6, <2>1 DEF KopfLoeschen, TypeOK, Kopf, Tabelle
  <2>3. chronik' \in Chronik
    BY <1>6, <2>1 DEF KopfLoeschen, TypeOK, Chronik
  <2>4. QED BY <1>6, <2>2, <2>3, ZugEndet DEF KopfLoeschen, TypeOK
<1>7. ASSUME NEW b \in Block, LokalGeloest(b) \/ WartezeitUm(b) PROVE TypeOK'
  BY <1>7 DEF LokalGeloest, WartezeitUm, TypeOK, DAG
<1>8. CASE ReparaturBeginnt
  <2>1. mem.luecke \in SUBSET Block /\ mem.luecke # {}
    BY <1>8 DEF ReparaturBeginnt, TypeOK, DAG
  <2>2. Niedrigster(mem.luecke) \in Block
    BY <2>1, NiedrigsterTyp
  <2>3. mem' \in DAG
    BY <1>8 DEF ReparaturBeginnt, TypeOK, DAG
  <2>4. spielt' \in Spiel
    BY <1>8, <2>2, LeerTyp DEF ReparaturBeginnt, Spiel
  <2>5. QED BY <1>8, <2>3, <2>4 DEF ReparaturBeginnt, TypeOK
<1>9. CASE ReparaturFertig
  BY <1>9, LeerTyp DEF ReparaturFertig, TypeOK
<1>10. ASSUME OhneWirkung \/ Anwenden \/ AnwendenScheitert \/ NochZurueckgestellt PROVE TypeOK'
  <2>1. spielt.rest \in SUBSET Block /\ spielt.rest # {}
    BY <1>10 DEF OhneWirkung, Anwenden, AnwendenScheitert, NochZurueckgestellt, TypeOK, Spiel
  <2>2. Niedrigster(spielt.rest) \in Block
    BY <2>1, NiedrigsterTyp
  <2>3. NochZuTun \in Spiel /\ spielt.von \in Laeufer
    BY DEF NochZuTun, TypeOK, Spiel
  <2>4. CASE OhneWirkung
    BY <2>2, <2>3, <2>4, ErledigtTyp DEF OhneWirkung, TypeOK
  <2>5. CASE Anwenden
    <3>1. db' \in Tabelle
      <4>1. /\ [db.wirkt EXCEPT ![Niedrigster(spielt.rest)] = @ + 1] \in [Block -> Nat]
            /\ [db.kopf EXCEPT ![Niedrigster(spielt.rest)] = Vermerkt(@)] \in [Block -> Kopf]
        BY <2>2 DEF Vermerkt, TypeOK, Kopf, Tabelle
      <4>2. db' = [db EXCEPT !.wirkt = [db.wirkt EXCEPT ![Niedrigster(spielt.rest)] = @ + 1],
                             !.kopf = [db.kopf EXCEPT ![Niedrigster(spielt.rest)] = Vermerkt(@)]]
        BY <2>5 DEF Anwenden, TypeOK, Tabelle
      <4>3. QED BY <4>1, <4>2 DEF TypeOK, Tabelle
    <3>2. QED BY <2>2, <2>3, <2>5, <3>1, ErledigtTyp DEF Anwenden, TypeOK
  <2>6. ASSUME Abbruch PROVE spielt' \in Spiel /\ zug' \in [Laeufer -> Zug]
    BY <2>3, <2>6, LeerTyp, ZugWeiter DEF Abbruch, Stufen, TypeOK
  <2>7. CASE AnwendenScheitert
    <3>1. zaehler' \in [abstuerze : Nat, fehler : Nat]
      BY <2>7 DEF AnwendenScheitert, TypeOK
    <3>2. QED BY <2>2, <2>6, <2>7, <3>1, ErledigtTyp DEF AnwendenScheitert, TypeOK
  <2>8. CASE NochZurueckgestellt
    BY <2>6, <2>8 DEF NochZurueckgestellt, TypeOK
  <2>9. QED BY <1>10, <2>4, <2>5, <2>7, <2>8
<1>11. CASE Absturz
  <2>1. zaehler' \in [abstuerze : Nat, fehler : Nat]
    BY <1>11 DEF Absturz, TypeOK
  <2>2. QED BY <1>11, <2>1, LeerTyp DEF Absturz, TypeOK
<1>12. CASE Start
  <2>1. Gespeicherte \in SUBSET Block /\ db.hoehe \in Nat
    BY DEF Gespeicherte, TypeOK, Tabelle
  <2>2. Max({db.hoehe, Hoechste(Gespeicherte)}) \in Nat
    BY <2>1, HoechsteTyp, MaxTyp
  <2>3. mem' \in DAG
    BY <1>12, <2>1, <2>2, LeerTyp DEF Start, Nachgespielt, DAG
  <2>4. QED BY <1>12, <2>3 DEF Start, TypeOK
<1>13. CASE UNCHANGED vars
  BY <1>13 DEF vars, TypeOK
<1>14. QED
  BY <1>1, <1>2, <1>3, <1>4, <1>5, <1>6, <1>7, <1>8, <1>9, <1>10, <1>11, <1>12, <1>13 DEF Next

\* Every value is of its type, whatever deliveries, failures and crashes do.
THEOREM TypKorrekt == Spec => []TypeOK
  BY TypInit, TypSchritt, PTL DEF Spec

-----------------------------------------------------------------------------
(***************************************************************************)
(* Effects, marks and memory.                                              *)
(***************************************************************************)
\* The converse of VermerkHeisstWirkung, for headers that were not lost.
WirkungHatVermerk ==
  \A b \in Block : Angewandt(b) /\ b \notin chronik.verloren => db.kopf[b] = "nach"

\* What this process remembers as replayed it has applied, or passed over.
ErinnertesWirkt == \A b \in mem.nach : Angewandt(b) \/ b \in chronik.ueber

\* A process that is down holds no lock and delivers nothing.
AusFrei == ~lauf => spielt.art = "frei" /\ \A g \in Laeufer : zug[g].stufe = "frei"

\* The delivery that holds replayMu still has its block before it, or has done it.
ZugSpielt ==
  spielt.art = "zug" =>
    /\ zug[spielt.von].stufe = "nachspielend"
    /\ zug[spielt.von].block \in spielt.rest \cup mem.nach

IInv == /\ TypeOK /\ VermerkHeisstWirkung /\ WirkungHatVermerk /\ NichtDoppelt
        /\ ErinnertesWirkt /\ AusFrei /\ ZugSpielt /\ NachAussenAngewandt

\* The part of the invariant about the tables.
TabInv == VermerkHeisstWirkung /\ WirkungHatVermerk /\ NichtDoppelt

\* Init
LEMMA InvInit == Init => IInv
<1> SUFFICES ASSUME Init PROVE IInv
  OBVIOUS
<1>1. TypeOK
  BY TypInit
<1>2. TabInv
  BY DEF Init, TabInv, VermerkHeisstWirkung, WirkungHatVermerk, NichtDoppelt, Angewandt
<1>3. ErinnertesWirkt /\ AusFrei /\ ZugSpielt /\ NachAussenAngewandt
  BY LeerTyp DEF Init, LeeresDAG, ErinnertesWirkt, AusFrei, ZugSpielt, NachAussenAngewandt
<1>4. QED BY <1>1, <1>2, <1>3 DEF IInv, TabInv

\* A step that leaves effects, marks and lost headers alone keeps TabInv.
LEMMA TabGleich ==
  ASSUME TabInv, UNCHANGED <<db.kopf, db.wirkt, chronik.verloren>>
  PROVE  TabInv'
  BY DEF TabInv, VermerkHeisstWirkung, WirkungHatVermerk, NichtDoppelt, Angewandt

\* A step keeps what the tables say of each other: the effects of a block and its
\* mark are written together, and one that is marked is not applied again.
LEMMA TabSchritt == TypeOK /\ TabInv /\ [Next]_vars => TabInv'
<1> SUFFICES ASSUME TypeOK, TabInv, [Next]_vars PROVE TabInv'
  OBVIOUS
<1> USE DEF TypeOK, Tabelle, Chronik
<1>1. ASSUME NEW g \in Laeufer, KopfSpeichern(g) PROVE TabInv'
  <2>1. /\ \A b \in Block : db'.wirkt[b] = db.wirkt[b]
        /\ \A b \in Block : db'.kopf[b] = db.kopf[b] \/ (db.kopf[b] = "keiner" /\ db'.kopf[b] = "offen")
        /\ chronik' = chronik
    BY <1>1 DEF KopfSpeichern, NeuerKopf
  <2>2. QED BY <2>1 DEF TabInv, VermerkHeisstWirkung, WirkungHatVermerk, NichtDoppelt, Angewandt
<1>2. ASSUME NEW g \in Laeufer, KopfLoeschen(g) PROVE TabInv'
  <2> DEFINE b == zug[g].block
  <2>1. b \in Block
    BY DEF Zug
  <2>2. /\ \A x \in Block : db'.wirkt[x] = db.wirkt[x]
        /\ \A x \in Block : db'.kopf[x] = IF x = b THEN "keiner" ELSE db.kopf[x]
        /\ chronik'.verloren = IF Angewandt(b) THEN chronik.verloren \cup {b} ELSE chronik.verloren
    BY <1>2, <2>1 DEF KopfLoeschen
  <2>3. QED BY <2>1, <2>2 DEF TabInv, VermerkHeisstWirkung, WirkungHatVermerk, NichtDoppelt, Angewandt
<1>3. ASSUME NEW g \in Laeufer, Einhaengen(g) PROVE TabInv'
  <2>1. UNCHANGED <<db.kopf, db.wirkt, chronik.verloren>>
    BY <1>3 DEF Einhaengen
  <2>2. QED BY <2>1, TabGleich
<1>4. CASE Anwenden
  <2> DEFINE b == Niedrigster(spielt.rest)
  <2>1. b \in Block
    BY <1>4, NiedrigsterTyp DEF Anwenden, Spiel
  <2>2. /\ \A x \in Block : db'.wirkt[x] = IF x = b THEN db.wirkt[x] + 1 ELSE db.wirkt[x]
        /\ \A x \in Block : db'.kopf[x] = IF x = b THEN Vermerkt(db.kopf[x]) ELSE db.kopf[x]
        /\ db.kopf[b] # "nach"
        /\ chronik'.verloren = IF db.kopf[b] = "keiner" THEN chronik.verloren \cup {b} ELSE chronik.verloren
    BY <1>4, <2>1 DEF Anwenden, Bekannt
  <2>3. \A x \in Block : db.wirkt[x] \in Nat
    OBVIOUS
  <2>4. db.wirkt[b] > 0 => b \in chronik.verloren
    BY <2>1, <2>2 DEF TabInv, WirkungHatVermerk, Angewandt
  <2>5. VermerkHeisstWirkung'
    BY <2>1, <2>2, <2>3 DEF TabInv, VermerkHeisstWirkung, Angewandt
  <2>6. WirkungHatVermerk'
    BY <2>1, <2>2, <2>3, <2>4 DEF TabInv, WirkungHatVermerk, Angewandt, Vermerkt
  <2>7. NichtDoppelt'
    BY <2>1, <2>2, <2>3, <2>4 DEF TabInv, NichtDoppelt
  <2>8. QED BY <2>5, <2>6, <2>7 DEF TabInv
<1>5. ASSUME UNCHANGED db, UNCHANGED chronik.verloren PROVE TabInv'
  BY <1>5, TabGleich
<1>6. ASSUME NEW g, NEW b, NEW selbst,
             Ankunft(g, b, selbst) \/ Verwaisen(g) \/ NachspielBeginnt(g) \/ LokalGeloest(b) \/ WartezeitUm(b)
      PROVE  TabInv'
  BY <1>5, <1>6 DEF Ankunft, Verwaisen, NachspielBeginnt, LokalGeloest, WartezeitUm
<1>7. CASE ReparaturBeginnt \/ ReparaturFertig \/ NochZurueckgestellt \/ Absturz \/ Start \/ UNCHANGED vars
  BY <1>5, <1>7 DEF ReparaturBeginnt, ReparaturFertig, NochZurueckgestellt, Absturz, Start, vars
<1>8. CASE OhneWirkung
  <2>1. UNCHANGED <<db, chronik.verloren>>
    BY <1>8 DEF OhneWirkung
  <2>2. QED BY <1>5, <2>1
<1>9. CASE AnwendenScheitert
  <2>1. UNCHANGED <<db, chronik.verloren>>
    BY <1>9 DEF AnwendenScheitert
  <2>2. QED BY <1>5, <2>1
<1>10. QED
  BY <1>1, <1>2, <1>3, <1>4, <1>6, <1>7, <1>8, <1>9 DEF Next

\* The part of the invariant about memory and replayMu.
MemInv == ErinnertesWirkt /\ AusFrei /\ ZugSpielt /\ NachAussenAngewandt

\* Effects and blocks passed over only grow.
LEMMA Waechst ==
  TypeOK /\ [Next]_vars =>
    \A b \in Block : Angewandt(b) \/ b \in chronik.ueber => Angewandt(b)' \/ b \in chronik'.ueber
<1> SUFFICES ASSUME TypeOK, [Next]_vars, NEW x \in Block, Angewandt(x) \/ x \in chronik.ueber
             PROVE  Angewandt(x)' \/ x \in chronik'.ueber
  OBVIOUS
<1> USE DEF TypeOK, Tabelle, Chronik
<1>1. chronik.ueber \subseteq chronik'.ueber
  <2>1. ASSUME NEW g, KopfLoeschen(g) PROVE chronik.ueber \subseteq chronik'.ueber
    BY <2>1 DEF KopfLoeschen
  <2>2. CASE OhneWirkung \/ Anwenden \/ AnwendenScheitert
    BY <2>2 DEF OhneWirkung, Anwenden, AnwendenScheitert
  <2>3. CASE UNCHANGED chronik
    BY <2>3
  <2>4. QED
    BY <2>1, <2>2, <2>3 DEF Next, vars, Ankunft, Verwaisen, KopfSpeichern, NachspielBeginnt, Einhaengen,
       LokalGeloest, WartezeitUm, ReparaturBeginnt, ReparaturFertig, NochZurueckgestellt, Absturz, Start
<1>2. db'.wirkt[x] = db.wirkt[x] \/ db'.wirkt[x] = db.wirkt[x] + 1
  <2>1. ASSUME NEW g, KopfSpeichern(g) \/ Einhaengen(g) \/ KopfLoeschen(g) PROVE db'.wirkt = db.wirkt
    BY <2>1 DEF KopfSpeichern, Einhaengen, KopfLoeschen
  <2>2. CASE Anwenden
    BY <2>2 DEF Anwenden
  <2>3. CASE UNCHANGED db
    BY <2>3
  <2>4. QED
    BY <2>1, <2>2, <2>3 DEF Next, vars, Ankunft, Verwaisen, NachspielBeginnt, LokalGeloest, WartezeitUm,
       ReparaturBeginnt, ReparaturFertig, OhneWirkung, AnwendenScheitert, NochZurueckgestellt, Absturz, Start
<1>3. QED BY <1>1, <1>2 DEF Angewandt

\* Memory that holds no more than before keeps what it says.
LEMMA MemGleich ==
  ASSUME TypeOK, [Next]_vars, MemInv, mem'.nach \subseteq mem.nach,
         \A x \in mem'.bloecke : x \notin mem'.vorab => x \in mem.bloecke \ mem.vorab \/ x \in mem'.nach
  PROVE  ErinnertesWirkt' /\ NachAussenAngewandt'
<1>1. mem.nach \subseteq Block /\ mem.bloecke \subseteq Block
  BY DEF TypeOK, DAG
<1>2. ErinnertesWirkt'
  BY <1>1, Waechst DEF MemInv, ErinnertesWirkt
<1>3. NachAussenAngewandt'
  BY <1>1, <1>2, Waechst DEF MemInv, NachAussenAngewandt, ErinnertesWirkt
<1>4. QED BY <1>2, <1>3

\* A block that was done with its effects, or passed over, may be remembered.
LEMMA MemErledigt ==
  ASSUME TypeOK, [Next]_vars, MemInv, NEW b \in Block, mem' = Erledigt(b),
         Angewandt(b)' \/ b \in chronik'.ueber
  PROVE  ErinnertesWirkt' /\ NachAussenAngewandt'
<1>1. /\ mem.nach \subseteq Block /\ mem.bloecke \subseteq Block
      /\ mem'.nach = mem.nach \cup {b} /\ mem'.bloecke = mem.bloecke /\ mem'.vorab = mem.vorab
  BY DEF TypeOK, DAG, Erledigt
<1>2. ErinnertesWirkt'
  BY <1>1, Waechst DEF MemInv, ErinnertesWirkt
<1>3. NachAussenAngewandt'
  BY <1>1, <1>2, Waechst DEF MemInv, NachAussenAngewandt, ErinnertesWirkt
<1>4. QED BY <1>2, <1>3

\* Whatever holds replayMu is lost with the process.
LEMMA AusFreiSchritt == AusFrei /\ [Next]_vars => AusFrei'
<1> SUFFICES ASSUME AusFrei, [Next]_vars PROVE AusFrei'
  OBVIOUS
<1>1. CASE Absturz
  BY <1>1, LeerTyp DEF Absturz, AusFrei
<1>2. CASE lauf' = TRUE
  BY <1>2 DEF AusFrei
<1>3. CASE UNCHANGED vars
  BY <1>3 DEF vars, AusFrei
<1>4. QED
  BY <1>1, <1>2, <1>3 DEF Next, Ankunft, Verwaisen, KopfSpeichern, NachspielBeginnt, Einhaengen,
     KopfLoeschen, LokalGeloest, WartezeitUm, ReparaturBeginnt, ReparaturFertig, OhneWirkung,
     Anwenden, AnwendenScheitert, NochZurueckgestellt, Start

\* A step keeps what memory says of the accounts.
LEMMA MemSchritt == TypeOK /\ VermerkHeisstWirkung /\ MemInv /\ [Next]_vars => MemInv'
<1> SUFFICES ASSUME TypeOK, VermerkHeisstWirkung, MemInv, [Next]_vars PROVE MemInv'
  OBVIOUS
<1>0. AusFrei'
  BY AusFreiSchritt DEF MemInv
<1>1. ASSUME NEW g \in Laeufer, NEW b \in Block, NEW selbst \in BOOLEAN, Ankunft(g, b, selbst)
      PROVE  MemInv'
  <2> DEFINE neu == Zurueck(b, mem.bloecke \cup Gespeicherte) \ mem.bloecke
  <2>1. neu \subseteq Gespeicherte
    BY ZurueckIn
  <2>2. /\ mem'.nach = mem.nach /\ mem'.bloecke = mem.bloecke \cup neu
        /\ mem'.vorab = mem.vorab \cup {x \in neu : db.kopf[x] = "offen"}
    BY <1>1 DEF Ankunft, Geladen, TypeOK, DAG
  <2>3. \A x \in neu \ mem'.vorab : Angewandt(x)
    BY <2>1, <2>2 DEF Gespeicherte, TypeOK, Tabelle, Kopf, VermerkHeisstWirkung
  <2>4. db' = db /\ chronik' = chronik /\ spielt' = spielt
    BY <1>1 DEF Ankunft
  <2>5. ErinnertesWirkt'
    BY <2>2, <2>4 DEF MemInv, ErinnertesWirkt, Angewandt
  <2>6. NachAussenAngewandt'
    BY <2>2, <2>3, <2>4 DEF MemInv, NachAussenAngewandt, ErinnertesWirkt, Angewandt
  <2>7. ZugSpielt'
    <3>1. spielt.art = "zug" => spielt.von # g
      BY <1>1, LeerTyp DEF Ankunft, MemInv, ZugSpielt
    <3>2. \A v \in Laeufer \ {g} : zug'[v] = zug[v]
      BY <1>1 DEF Ankunft, TypeOK
    <3>3. QED BY <2>2, <2>4, <3>1, <3>2 DEF MemInv, ZugSpielt, TypeOK, Spiel
  <2>8. QED BY <1>0, <2>5, <2>6, <2>7 DEF MemInv
<1>2. ASSUME NEW g \in Laeufer, Verwaisen(g) \/ KopfSpeichern(g) \/ KopfLoeschen(g) PROVE MemInv'
  <2>1. mem'.nach = mem.nach /\ mem'.bloecke = mem.bloecke /\ mem'.vorab = mem.vorab /\ spielt' = spielt
    BY <1>2 DEF Verwaisen, KopfSpeichern, KopfLoeschen, TypeOK, DAG
  <2>2. zug[g].stufe # "nachspielend" /\ \A v \in Laeufer \ {g} : zug'[v] = zug[v]
    BY <1>2 DEF Verwaisen, KopfSpeichern, KopfLoeschen, TypeOK
  <2>3. ZugSpielt'
    BY <2>1, <2>2 DEF MemInv, ZugSpielt, TypeOK, Spiel
  <2>4. QED BY <1>0, <2>1, <2>3, MemGleich DEF MemInv
<1>3. ASSUME NEW g \in Laeufer, NachspielBeginnt(g) PROVE MemInv'
  <2>1. mem' = mem
    BY <1>3 DEF NachspielBeginnt
  <2>2. ZugSpielt'
    <3>1. /\ spielt' = [art |-> "zug", von |-> g, rest |-> Reihenfolge(zug[g].block)]
          /\ zug'[g].stufe = "nachspielend" /\ zug'[g].block = zug[g].block
      BY <1>3 DEF NachspielBeginnt, TypeOK, Zug
    <3>2. QED BY <3>1 DEF ZugSpielt, Reihenfolge
  <2>3. QED BY <1>0, <2>1, <2>2, MemGleich DEF MemInv
<1>4. ASSUME NEW g \in Laeufer, Einhaengen(g) PROVE MemInv'
  <2> DEFINE b == zug[g].block
  <2>1. b \in mem.nach
    BY <1>4 DEF Einhaengen, MemInv, ZugSpielt
  <2>2. mem'.nach = mem.nach /\ mem'.bloecke = mem.bloecke \cup {b} /\ mem'.vorab = mem.vorab \ {b}
    BY <1>4 DEF Einhaengen, TypeOK, DAG
  <2>3. spielt'.art = "frei"
    BY <1>4, LeerTyp DEF Einhaengen
  <2>4. QED BY <1>0, <2>1, <2>2, <2>3, MemGleich DEF MemInv, ZugSpielt
<1>5. ASSUME NEW b \in Block, LokalGeloest(b) \/ WartezeitUm(b) PROVE MemInv'
  <2>1. /\ mem'.nach = mem.nach /\ mem'.bloecke = mem.bloecke /\ mem'.vorab = mem.vorab
        /\ spielt' = spielt /\ zug' = zug
    BY <1>5 DEF LokalGeloest, WartezeitUm, TypeOK, DAG
  <2>2. QED BY <1>0, <2>1, MemGleich DEF MemInv, ZugSpielt
<1>6. CASE ReparaturBeginnt
  <2>1. mem'.nach = mem.nach /\ mem'.bloecke = mem.bloecke /\ mem'.vorab = mem.vorab
    BY <1>6 DEF ReparaturBeginnt, TypeOK, DAG
  <2>2. spielt'.art = "reparatur"
    BY <1>6, LeerTyp DEF ReparaturBeginnt, Spiel
  <2>3. QED BY <1>0, <2>1, <2>2, MemGleich DEF MemInv, ZugSpielt
<1>7. CASE ReparaturFertig
  <2>1. mem' = mem /\ spielt'.art = "frei"
    BY <1>7, LeerTyp DEF ReparaturFertig
  <2>2. QED BY <1>0, <2>1, MemGleich DEF MemInv, ZugSpielt
<1>8. ASSUME OhneWirkung \/ Anwenden PROVE MemInv'
  <2>1. PICK b \in Block : b = Niedrigster(spielt.rest)
    BY <1>8, NiedrigsterTyp DEF OhneWirkung, Anwenden, TypeOK, Spiel
  <2>2. mem' = Erledigt(b) /\ spielt' = NochZuTun /\ zug' = zug
    BY <1>8, <2>1 DEF OhneWirkung, Anwenden
  <2>3. Angewandt(b)' \/ b \in chronik'.ueber
    <3>1. CASE OhneWirkung
      <4>1. db' = db
        BY <3>1 DEF OhneWirkung
      <4>2. CASE Bekannt(b)
        BY <2>1, <4>1, <4>2, Waechst DEF Bekannt, VermerkHeisstWirkung, MemInv, ErinnertesWirkt
      <4>3. CASE Angewandt(b)
        BY <4>1, <4>3 DEF Angewandt
      <4>4. CASE ~(Bekannt(b) \/ Angewandt(b))
        BY <2>1, <3>1, <4>4 DEF OhneWirkung, TypeOK, Chronik
      <4>5. QED BY <4>2, <4>3, <4>4
    <3>2. CASE Anwenden
      <4>1. db'.wirkt[b] = db.wirkt[b] + 1 /\ db.wirkt[b] \in Nat
        BY <2>1, <3>2 DEF Anwenden, TypeOK, Tabelle
      <4>2. QED BY <4>1 DEF Angewandt
    <3>3. QED BY <1>8, <3>1, <3>2
  <2>4. ZugSpielt'
    <3>1. mem'.nach = mem.nach \cup {b} /\ spielt'.rest = spielt.rest \ {b}
          /\ spielt'.art = spielt.art /\ spielt'.von = spielt.von
      BY <2>1, <2>2 DEF Erledigt, NochZuTun, TypeOK, DAG, Spiel
    <3>2. QED BY <2>2, <3>1 DEF MemInv, ZugSpielt
  <2>5. QED BY <1>0, <2>2, <2>3, <2>4, MemErledigt DEF MemInv
<1>9. ASSUME AnwendenScheitert \/ NochZurueckgestellt PROVE MemInv'
  <2>1. mem'.nach = mem.nach /\ mem'.bloecke = mem.bloecke /\ mem'.vorab = mem.vorab
    BY <1>9 DEF AnwendenScheitert, NochZurueckgestellt, TypeOK, DAG
  <2>2. spielt'.art = "frei"
    BY <1>9, LeerTyp DEF AnwendenScheitert, NochZurueckgestellt, Abbruch
  <2>3. QED BY <1>0, <2>1, <2>2, MemGleich DEF MemInv, ZugSpielt
<1>10. CASE Absturz
  <2>1. mem'.nach = {} /\ mem'.bloecke = {} /\ spielt'.art = "frei"
    BY <1>10, LeerTyp DEF Absturz, LeeresDAG
  <2>2. QED BY <1>0, <2>1 DEF MemInv, ErinnertesWirkt, NachAussenAngewandt, ZugSpielt
<1>11. CASE Start
  <2>1. /\ mem'.nach = Nachgespielt /\ mem'.bloecke = Gespeicherte
        /\ mem'.vorab = {x \in Gespeicherte : db.kopf[x] = "offen"}
        /\ db' = db /\ spielt' = spielt /\ zug' = zug
    BY <1>11 DEF Start, LeeresDAG
  <2>2. \A x \in Gespeicherte : db.kopf[x] = "offen" \/ db.kopf[x] = "nach"
    BY DEF Gespeicherte, TypeOK, Tabelle, Kopf
  <2>3. ErinnertesWirkt'
    BY <2>1 DEF ErinnertesWirkt, Nachgespielt, VermerkHeisstWirkung, Angewandt
  <2>4. NachAussenAngewandt'
    BY <2>1, <2>2 DEF NachAussenAngewandt, Gespeicherte, Nachgespielt, VermerkHeisstWirkung, Angewandt
  <2>5. spielt.art = "frei"
    BY <1>11 DEF Start, MemInv, AusFrei
  <2>6. QED BY <1>0, <2>1, <2>3, <2>4, <2>5 DEF MemInv, ZugSpielt
<1>12. CASE UNCHANGED vars
  BY <1>0, <1>12, MemGleich DEF vars, MemInv, ZugSpielt
<1>13. QED
  BY <1>1, <1>2, <1>3, <1>4, <1>5, <1>6, <1>7, <1>8, <1>9, <1>10, <1>11, <1>12 DEF Next

-----------------------------------------------------------------------------
(***************************************************************************)
(* Parents.                                                                *)
(***************************************************************************)
Unterwegs == {"geprueft", "gespeichert", "nachspielend"}
JeGespeichert == Gespeicherte \cup chronik.geloescht

\* What is in memory was stored, and so were the parents of what is stored.
BelegInv == /\ mem.bloecke \subseteq JeGespeichert
            /\ \A x \in Gespeicherte : Eltern[x] \subseteq JeGespeichert

\* The parents of a block that gets through AddPeerBlock are in memory.
ZugEltern ==
  \A g \in Laeufer : zug[g].stufe \in Unterwegs =>
    /\ Eltern[zug[g].block] \subseteq mem.bloecke
    /\ zug[g].stufe # "geprueft" => zug[g].block \in JeGespeichert

\* The parents of what is stored or in memory are in memory, unless their headers
\* were deleted; those of a block above bootHeight in any case.
ElternDa ==
  lauf => \A x \in Gespeicherte \cup mem.bloecke :
            /\ Eltern[x] \subseteq mem.bloecke \cup chronik.geloescht
            /\ Hoehe[x] > mem.boot => Eltern[x] \subseteq mem.bloecke

\* Tips are in memory.
SpitzenInv == mem.spitzen \subseteq mem.bloecke /\ KeineSpitzeUeberSpitze

AhnenInv == BelegInv /\ ZugEltern /\ ElternDa /\ SpitzenInv

\* A step that hangs in and stores nothing keeps it.
LEMMA AhnenGleich ==
  ASSUME TypeOK, AhnenInv, Gespeicherte' = Gespeicherte, chronik'.geloescht = chronik.geloescht,
         mem'.bloecke = mem.bloecke, mem'.boot = mem.boot, mem'.spitzen = mem.spitzen, lauf' = lauf,
         \A g \in Laeufer : \/ zug'[g] = zug[g]
                            \/ zug'[g].stufe \notin Unterwegs
                            \/ zug'[g].block = zug[g].block /\ zug[g].stufe = "gespeichert"
  PROVE  AhnenInv'
<1>1. JeGespeichert' = JeGespeichert
  BY DEF JeGespeichert
<1>2. BelegInv' /\ ElternDa'
  BY <1>1 DEF AhnenInv, BelegInv, ElternDa
<1>3. SpitzenInv'
  BY DEF AhnenInv, SpitzenInv, KeineSpitzeUeberSpitze
<1>4. ZugEltern'
  BY <1>1 DEF AhnenInv, ZugEltern, Unterwegs
<1>5. QED BY <1>2, <1>3, <1>4 DEF AhnenInv

\* Init
LEMMA AhnenInit == Init => AhnenInv
  BY LeerTyp DEF Init, AhnenInv, BelegInv, ZugEltern, ElternDa, SpitzenInv, KeineSpitzeUeberSpitze,
     LeeresDAG, Gespeicherte, Unterwegs

\* A step keeps parents.
LEMMA AhnenSchritt == TypeOK /\ MemInv /\ AhnenInv /\ [Next]_vars => AhnenInv'
<1> SUFFICES ASSUME TypeOK, MemInv, AhnenInv, [Next]_vars PROVE AhnenInv'
  OBVIOUS
<1>1. ASSUME NEW g \in Laeufer, NEW b \in Block, NEW selbst \in BOOLEAN, Ankunft(g, b, selbst)
      PROVE  AhnenInv'
  <2>1. PICK neu \in SUBSET Gespeicherte : mem'.bloecke = mem.bloecke \cup neu
    BY <1>1, ZurueckIn DEF Ankunft, Geladen, TypeOK, DAG
  <2>2. mem'.boot = mem.boot /\ mem'.spitzen = mem.spitzen /\ db' = db /\ chronik' = chronik /\ lauf' = lauf
    BY <1>1 DEF Ankunft, Geladen, TypeOK, DAG
  <2>3. Gespeicherte' = Gespeicherte /\ JeGespeichert' = JeGespeichert
    BY <2>2 DEF Gespeicherte, JeGespeichert
  <2>4. BelegInv' /\ ElternDa' /\ SpitzenInv'
    BY <2>1, <2>2, <2>3 DEF AhnenInv, BelegInv, ElternDa, SpitzenInv, KeineSpitzeUeberSpitze, JeGespeichert
  <2>5. \A h \in Laeufer : \/ zug'[h] = zug[h]
                           \/ zug'[h].stufe = "verwaist"
                           \/ /\ zug'[h].stufe = "geprueft" /\ zug'[h].block = b
                              /\ Eltern[b] \subseteq mem'.bloecke
    BY <1>1 DEF Ankunft, TypeOK
  <2>6. ZugEltern'
    BY <2>1, <2>3, <2>5 DEF AhnenInv, ZugEltern, Unterwegs
  <2>7. QED BY <2>4, <2>6 DEF AhnenInv
<1>2. ASSUME NEW g \in Laeufer, Verwaisen(g) PROVE AhnenInv'
  <2>1. /\ mem'.bloecke = mem.bloecke /\ mem'.boot = mem.boot /\ mem'.spitzen = mem.spitzen
        /\ Gespeicherte' = Gespeicherte /\ chronik' = chronik /\ lauf' = lauf
    BY <1>2 DEF Verwaisen, TypeOK, DAG, Gespeicherte
  <2>2. \A h \in Laeufer : zug'[h] = zug[h] \/ zug'[h].stufe = "frei"
    BY <1>2, LeerTyp DEF Verwaisen, TypeOK
  <2>3. QED BY <2>1, <2>2, AhnenGleich DEF Unterwegs
<1>3. ASSUME NEW g \in Laeufer, KopfSpeichern(g) PROVE AhnenInv'
  <2>1. PICK b \in Block : b = zug[g].block
    BY DEF TypeOK, Zug
  <2>2. mem' = mem /\ chronik' = chronik /\ lauf' = lauf /\ zug[g].stufe = "geprueft"
    BY <1>3 DEF KopfSpeichern
  <2>3. Gespeicherte' = Gespeicherte \cup {b}
    BY <1>3, <2>1 DEF KopfSpeichern, NeuerKopf, Gespeicherte, TypeOK, Tabelle
  <2>4. JeGespeichert' = JeGespeichert \cup {b}
    BY <2>2, <2>3 DEF JeGespeichert
  <2>5. Eltern[b] \subseteq mem.bloecke
    BY <2>1, <2>2 DEF AhnenInv, ZugEltern, Unterwegs
  <2>6. BelegInv' /\ ElternDa' /\ SpitzenInv'
    BY <2>2, <2>3, <2>4, <2>5 DEF AhnenInv, BelegInv, ElternDa, SpitzenInv, KeineSpitzeUeberSpitze
  <2>7. \A h \in Laeufer : \/ zug'[h] = zug[h]
                           \/ zug'[h].block = b /\ zug'[h].stufe = "gespeichert"
    BY <1>3, <2>1 DEF KopfSpeichern, TypeOK, Zug
  <2>8. ZugEltern'
    BY <2>2, <2>4, <2>5, <2>7 DEF AhnenInv, ZugEltern
  <2>9. QED BY <2>6, <2>8 DEF AhnenInv
<1>4. ASSUME NEW g \in Laeufer, NachspielBeginnt(g) PROVE AhnenInv'
  <2>1. mem' = mem /\ Gespeicherte' = Gespeicherte /\ chronik' = chronik /\ lauf' = lauf
    BY <1>4 DEF NachspielBeginnt, Gespeicherte
  <2>2. \A h \in Laeufer :
          zug'[h] = zug[h] \/ (zug'[h].block = zug[h].block /\ zug[h].stufe = "gespeichert")
    <3>1. zug[g].stufe = "gespeichert" /\ zug' = [zug EXCEPT ![g].stufe = "nachspielend"]
      BY <1>4 DEF NachspielBeginnt
    <3>2. \A h \in Laeufer \ {g} : zug'[h] = zug[h]
      BY <3>1 DEF TypeOK
    <3>3. zug'[g].block = zug[g].block
      BY <3>1 DEF TypeOK, Zug
    <3>4. ASSUME NEW h \in Laeufer
          PROVE  zug'[h] = zug[h] \/ (zug'[h].block = zug[h].block /\ zug[h].stufe = "gespeichert")
      <4>1. CASE h = g
        BY <3>1, <3>3, <4>1
      <4>2. CASE h # g
        BY <3>2, <4>2
      <4>3. QED BY <4>1, <4>2
    <3>5. QED BY <3>4
  <2>3. QED BY <2>1, <2>2, AhnenGleich
<1>5. ASSUME NEW g \in Laeufer, Einhaengen(g) PROVE AhnenInv'
  <2>1. PICK b \in Block : b = zug[g].block
    BY DEF TypeOK, Zug
  <2>2. Eltern[b] \subseteq mem.bloecke /\ b \in JeGespeichert
    BY <1>5, <2>1 DEF Einhaengen, AhnenInv, ZugEltern, MemInv, ZugSpielt, Unterwegs
  <2>3. /\ mem'.bloecke = mem.bloecke \cup {b} /\ mem'.boot = mem.boot /\ mem'.spitzen = Spitzen(b)
        /\ db'.kopf = db.kopf /\ chronik' = chronik /\ lauf' = lauf /\ lauf
    BY <1>5, <2>1 DEF Einhaengen, TypeOK, DAG, Tabelle
  <2>4. Gespeicherte' = Gespeicherte /\ JeGespeichert' = JeGespeichert
    BY <2>3 DEF Gespeicherte, JeGespeichert
  <2>5. BelegInv' /\ ElternDa'
    BY <2>2, <2>3, <2>4 DEF AhnenInv, BelegInv, ElternDa
  <2>6. mem'.spitzen \subseteq mem'.bloecke
    BY <2>3 DEF Spitzen, AhnenInv, SpitzenInv
  <2>7. ASSUME NEW t \in Spitzen(b), NEW p \in Spitzen(b), p \in Eltern[t] PROVE p \in chronik.geloescht
    <3>1. CASE t = b
      BY <2>7, <3>1, HoeheTyp DEF Spitzen
    <3>2. CASE t # b /\ p = b
      <4>1. t \in mem.spitzen /\ t \in mem.bloecke
        BY <2>7, <3>2 DEF Spitzen, AhnenInv, SpitzenInv
      <4>2. CASE b \in mem.spitzen
        BY <2>7, <3>2, <4>1, <4>2 DEF AhnenInv, SpitzenInv, KeineSpitzeUeberSpitze
      <4>3. CASE b \notin mem.spitzen
        <5>1. b \notin mem.bloecke
          BY <2>7, <3>2, <4>1, <4>3 DEF Spitzen
        <5>2. QED BY <2>3, <2>7, <3>2, <4>1, <5>1 DEF AhnenInv, ElternDa
      <4>4. QED BY <4>2, <4>3
    <3>3. CASE t # b /\ p # b
      BY <2>7, <3>3 DEF Spitzen, AhnenInv, SpitzenInv, KeineSpitzeUeberSpitze
    <3>4. QED BY <3>1, <3>2, <3>3
  <2>8. SpitzenInv'
    BY <2>3, <2>6, <2>7 DEF SpitzenInv, KeineSpitzeUeberSpitze
  <2>9. \A h \in Laeufer : zug'[h] = zug[h] \/ zug'[h].stufe = "frei"
    BY <1>5, LeerTyp DEF Einhaengen, TypeOK
  <2>10. ZugEltern'
    BY <2>3, <2>4, <2>9 DEF AhnenInv, ZugEltern, Unterwegs
  <2>11. QED BY <2>5, <2>8, <2>10 DEF AhnenInv
<1>6. ASSUME NEW g \in Laeufer, KopfLoeschen(g) PROVE AhnenInv'
  <2>1. PICK b \in Block : b = zug[g].block
    BY DEF TypeOK, Zug
  <2>2. mem' = mem /\ chronik'.geloescht = chronik.geloescht \cup {b} /\ lauf' = lauf
    BY <1>6, <2>1 DEF KopfLoeschen, TypeOK, Chronik
  <2>3. Gespeicherte' = Gespeicherte \ {b}
    BY <1>6, <2>1 DEF KopfLoeschen, Gespeicherte, TypeOK, Tabelle
  <2>4. JeGespeichert' = JeGespeichert \cup {b}
    BY <2>2, <2>3 DEF JeGespeichert
  <2>5. BelegInv' /\ ElternDa' /\ SpitzenInv'
    BY <2>2, <2>3, <2>4 DEF AhnenInv, BelegInv, ElternDa, SpitzenInv, KeineSpitzeUeberSpitze
  <2>6. \A h \in Laeufer : zug'[h] = zug[h] \/ zug'[h].stufe = "frei"
    BY <1>6, LeerTyp DEF KopfLoeschen, TypeOK
  <2>7. ZugEltern'
    BY <2>2, <2>4, <2>6 DEF AhnenInv, ZugEltern, Unterwegs
  <2>8. QED BY <2>5, <2>7 DEF AhnenInv
<1>7. ASSUME NEW b \in Block, LokalGeloest(b) \/ WartezeitUm(b) PROVE AhnenInv'
  <2>1. /\ mem'.bloecke = mem.bloecke /\ mem'.boot = mem.boot /\ mem'.spitzen = mem.spitzen
        /\ Gespeicherte' = Gespeicherte /\ chronik' = chronik /\ lauf' = lauf /\ zug' = zug
    BY <1>7 DEF LokalGeloest, WartezeitUm, TypeOK, DAG, Gespeicherte
  <2>2. QED BY <2>1, AhnenGleich
<1>8. CASE ReparaturBeginnt \/ ReparaturFertig
  <2>1. /\ mem'.bloecke = mem.bloecke /\ mem'.boot = mem.boot /\ mem'.spitzen = mem.spitzen
        /\ Gespeicherte' = Gespeicherte /\ chronik' = chronik /\ lauf' = lauf /\ zug' = zug
    BY <1>8 DEF ReparaturBeginnt, ReparaturFertig, TypeOK, DAG, Gespeicherte
  <2>2. QED BY <2>1, AhnenGleich
<1>9. CASE OhneWirkung \/ Anwenden
  <2>1. mem'.bloecke = mem.bloecke /\ mem'.boot = mem.boot /\ mem'.spitzen = mem.spitzen
    BY <1>9 DEF OhneWirkung, Anwenden, Erledigt, TypeOK, DAG
  <2>2. chronik'.geloescht = chronik.geloescht
    BY <1>9 DEF OhneWirkung, Anwenden, TypeOK, Chronik
  <2>3. Gespeicherte' = Gespeicherte
    <3>1. CASE OhneWirkung
      BY <3>1 DEF OhneWirkung, Gespeicherte
    <3>2. CASE Anwenden
      BY <3>2 DEF Anwenden, Vermerkt, Gespeicherte, TypeOK, Tabelle
    <3>3. QED BY <1>9, <3>1, <3>2
  <2>4. zug' = zug /\ lauf' = lauf
    BY <1>9 DEF OhneWirkung, Anwenden
  <2>5. QED BY <2>1, <2>2, <2>3, <2>4, AhnenGleich
<1>10. CASE AnwendenScheitert \/ NochZurueckgestellt
  <2>1. mem'.bloecke = mem.bloecke /\ mem'.boot = mem.boot /\ mem'.spitzen = mem.spitzen
    BY <1>10 DEF AnwendenScheitert, NochZurueckgestellt, TypeOK, DAG
  <2>2. chronik'.geloescht = chronik.geloescht
    BY <1>10 DEF AnwendenScheitert, NochZurueckgestellt, TypeOK, Chronik
  <2>3. Gespeicherte' = Gespeicherte /\ lauf' = lauf
    BY <1>10 DEF AnwendenScheitert, NochZurueckgestellt, Gespeicherte
  <2>4. \A h \in Laeufer : zug'[h] = zug[h] \/ zug'[h].stufe = "gescheitert"
    BY <1>10 DEF AnwendenScheitert, NochZurueckgestellt, Abbruch, TypeOK, Zug
  <2>5. QED BY <2>1, <2>2, <2>3, <2>4, AhnenGleich DEF Unterwegs
<1>11. CASE Absturz
  <2>1. /\ mem'.bloecke = {} /\ mem'.spitzen = {} /\ ~lauf' /\ db' = db /\ chronik' = chronik
        /\ \A g \in Laeufer : zug'[g].stufe = "frei"
    BY <1>11, LeerTyp DEF Absturz, LeeresDAG
  <2>2. Gespeicherte' = Gespeicherte /\ JeGespeichert' = JeGespeichert
    BY <2>1 DEF Gespeicherte, JeGespeichert
  <2>3. QED
    BY <2>1, <2>2 DEF AhnenInv, BelegInv, ZugEltern, ElternDa, SpitzenInv, KeineSpitzeUeberSpitze, Unterwegs
<1>12. CASE Start
  <2>1. /\ mem'.bloecke = Gespeicherte
        /\ mem'.spitzen = {b \in Gespeicherte : \A x \in Gespeicherte : b \notin Eltern[x]}
        /\ db' = db /\ chronik' = chronik /\ zug' = zug /\ ~lauf
        /\ mem'.boot = Max({db.hoehe, Hoechste(Gespeicherte)})
    BY <1>12 DEF Start, LeeresDAG
  <2>2. Gespeicherte' = Gespeicherte /\ JeGespeichert' = JeGespeichert
    BY <2>1 DEF Gespeicherte, JeGespeichert
  <2>3. \A x \in Gespeicherte : ~(Hoehe[x] > mem'.boot)
    BY <2>1, HoechsteGrenze DEF TypeOK, Tabelle, Gespeicherte
  <2>4. BelegInv' /\ ElternDa' /\ SpitzenInv'
    BY <2>1, <2>2, <2>3 DEF AhnenInv, BelegInv, ElternDa, SpitzenInv, KeineSpitzeUeberSpitze, JeGespeichert
  <2>5. ZugEltern'
    BY <2>1 DEF ZugEltern, Unterwegs, MemInv, AusFrei
  <2>6. QED BY <2>4, <2>5 DEF AhnenInv
<1>13. CASE UNCHANGED vars
  BY <1>13, AhnenGleich DEF vars, Gespeicherte
<1>14. QED
  BY <1>1, <1>2, <1>3, <1>4, <1>5, <1>6, <1>7, <1>8, <1>9, <1>10, <1>11, <1>12, <1>13 DEF Next

-----------------------------------------------------------------------------
(***************************************************************************)
(* Order.                                                                  *)
(***************************************************************************)
\* Done, or never to be expected.
Getan(p) == Angewandt(p) \/ p \in chronik.ueber \/ p \in chronik.geloescht

\* Nobody holds replayMu, and there is nothing to apply.
LEMMA FreiLeer == Frei.art = "frei" /\ Frei.rest = {}
  BY DEF Frei

\* Whoever holds replayMu: a delivery has every parent still missing before it, the
\* repair one block, whose parents are done.
ReiheInv ==
  /\ spielt.art = "frei" => spielt.rest = {}
  /\ spielt.art = "zug" =>
       \A x \in spielt.rest : Hoehe[x] > mem.boot => Eltern[x] \subseteq spielt.rest \cup mem.nach
  /\ spielt.art = "reparatur" =>
       /\ \A x, y \in spielt.rest : x = y
       /\ \A x \in spielt.rest : \A p \in Eltern[x] : Getan(p)

\* The parents of a block that waits for the repair wait as well, or are done.
LueckeInv ==
  \A x \in mem.luecke : \A p \in Eltern[x] :
    p \in mem.luecke \/ (spielt.art = "reparatur" /\ p \in spielt.rest) \/ Getan(p)

\* What is done stays done.
LEMMA GetanBleibt ==
  TypeOK /\ [Next]_vars => \A p \in Block : Getan(p) => Getan(p)'
<1> SUFFICES ASSUME TypeOK, [Next]_vars, NEW p \in Block, Getan(p) PROVE Getan(p)'
  OBVIOUS
<1>1. chronik.geloescht \subseteq chronik'.geloescht
  <2>1. ASSUME NEW g, KopfLoeschen(g) PROVE chronik.geloescht \subseteq chronik'.geloescht
    BY <2>1 DEF KopfLoeschen, TypeOK, Chronik
  <2>2. CASE OhneWirkung \/ Anwenden \/ AnwendenScheitert
    BY <2>2 DEF OhneWirkung, Anwenden, AnwendenScheitert, TypeOK, Chronik
  <2>3. CASE UNCHANGED chronik
    BY <2>3
  <2>4. QED
    BY <2>1, <2>2, <2>3 DEF Next, vars, Ankunft, Verwaisen, KopfSpeichern, NachspielBeginnt, Einhaengen,
       LokalGeloest, WartezeitUm, ReparaturBeginnt, ReparaturFertig, NochZurueckgestellt, Absturz, Start
<1>2. QED BY <1>1, Waechst DEF Getan

\* A step that leaves the order alone keeps it.
LEMMA ReiheGleich ==
  ASSUME TypeOK, [Next]_vars, ReiheInv, LueckeInv, spielt' = spielt, mem'.nach = mem.nach,
         mem'.boot = mem.boot, mem'.luecke = mem.luecke
  PROVE  ReiheInv' /\ LueckeInv'
<1>1. \A x \in Block : Eltern[x] \subseteq Block
  BY BlockTyp
<1>2. mem.luecke \subseteq Block /\ spielt.rest \subseteq Block
  BY DEF TypeOK, DAG, Spiel
<1>3. ReiheInv'
  BY <1>1, <1>2, GetanBleibt DEF ReiheInv
<1>4. LueckeInv'
  BY <1>1, <1>2, GetanBleibt DEF LueckeInv
<1>5. QED BY <1>3, <1>4

\* A step keeps the order.
LEMMA ReiheSchritt ==
  TypeOK /\ VermerkHeisstWirkung /\ MemInv /\ AhnenInv /\ ReiheInv /\ LueckeInv /\ [Next]_vars
    => ReiheInv' /\ LueckeInv'
<1> SUFFICES ASSUME TypeOK, VermerkHeisstWirkung, MemInv, AhnenInv, ReiheInv, LueckeInv, [Next]_vars
             PROVE  ReiheInv' /\ LueckeInv'
  OBVIOUS
<1>0. /\ \A x \in Block : Eltern[x] \subseteq Block
      /\ mem.luecke \subseteq Block /\ mem.nach \subseteq Block /\ mem.bloecke \subseteq Block
      /\ spielt.rest \subseteq Block
  BY BlockTyp DEF TypeOK, DAG, Spiel
<1>1. ASSUME NEW g, NEW b, NEW selbst,
             Ankunft(g, b, selbst) \/ Verwaisen(g) \/ KopfSpeichern(g) \/ KopfLoeschen(g)
               \/ LokalGeloest(b) \/ WartezeitUm(b)
      PROVE  ReiheInv' /\ LueckeInv'
  <2>1. spielt' = spielt /\ mem'.nach = mem.nach /\ mem'.boot = mem.boot /\ mem'.luecke = mem.luecke
    BY <1>1 DEF Ankunft, Geladen, Verwaisen, KopfSpeichern, KopfLoeschen, LokalGeloest, WartezeitUm, TypeOK, DAG
  <2>2. QED BY <2>1, ReiheGleich
<1>2. ASSUME NEW g \in Laeufer, NachspielBeginnt(g) PROVE ReiheInv' /\ LueckeInv'
  <2>1. PICK b \in Block : b = zug[g].block
    BY DEF TypeOK, Zug
  <2> DEFINE T == mem.bloecke \ mem.nach
  <2>2. /\ mem' = mem /\ lauf /\ spielt = Frei
        /\ spielt' = [art |-> "zug", von |-> g, rest |-> Zurueck(b, T) \cup {b}]
    BY <1>2, <2>1 DEF NachspielBeginnt, Reihenfolge, UnnachgespielteAhnen
  <2>3. Eltern[b] \subseteq mem.bloecke
    BY <1>2, <2>1 DEF NachspielBeginnt, AhnenInv, ZugEltern, Unterwegs
  <2>4. T \in SUBSET Block /\ Zurueck(b, T) \subseteq T
    BY <1>0, ZurueckIn
  <2>5. \A x \in Zurueck(b, T) : Hoehe[x] > mem.boot => Eltern[x] \subseteq mem.bloecke
    BY <2>2, <2>4 DEF AhnenInv, ElternDa
  <2>6. \A x \in spielt'.rest : Hoehe[x] > mem.boot => Eltern[x] \subseteq spielt'.rest \cup mem.nach
    <3> HIDE DEF T
    <3>1. \A p \in T : p \in Eltern[b] => p \in Zurueck(b, T)
      BY <2>4, ZurueckEltern
    <3>2. \A p \in T : \A x \in Zurueck(b, T) : p \in Eltern[x] => p \in Zurueck(b, T)
      BY <2>4, ZurueckEltern
    <3>3. QED BY <2>2, <2>3, <2>5, <3>1, <3>2 DEF T
  <2>7. ReiheInv'
    BY <2>2, <2>6 DEF ReiheInv
  <2>8. LueckeInv'
    BY <1>0, <2>2, LeerTyp, GetanBleibt DEF LueckeInv
  <2>9. QED BY <2>7, <2>8
<1>3. ASSUME NEW g \in Laeufer, Einhaengen(g) PROVE ReiheInv' /\ LueckeInv'
  <2>1. spielt' = Frei /\ mem'.luecke = mem.luecke /\ spielt.art = "zug"
    BY <1>3 DEF Einhaengen, TypeOK, DAG
  <2>2. QED BY <1>0, <2>1, GetanBleibt, FreiLeer DEF ReiheInv, LueckeInv
<1>4. CASE ReparaturBeginnt
  <2>1. PICK b \in Block : b = Niedrigster(mem.luecke)
    BY <1>0, <1>4, NiedrigsterTyp DEF ReparaturBeginnt
  <2>2. /\ spielt = Frei /\ spielt'.art = "reparatur" /\ spielt'.rest = {b}
        /\ mem'.luecke = mem.luecke \ {b}
    BY <1>4, <2>1, LeerTyp DEF ReparaturBeginnt, Spiel, TypeOK, DAG
  <2>3. b \in mem.luecke /\ Eltern[b] \cap mem.luecke = {}
    BY <1>0, <1>4, <2>1, NiedrigsterTyp DEF ReparaturBeginnt
  <2>4. \A p \in Eltern[b] : Getan(p)
    BY <2>2, <2>3, LeerTyp DEF LueckeInv
  <2>5. ReiheInv'
    BY <1>0, <2>2, <2>4, GetanBleibt DEF ReiheInv
  <2>6. LueckeInv'
    BY <1>0, <2>2, LeerTyp, GetanBleibt DEF LueckeInv
  <2>7. QED BY <2>5, <2>6
<1>5. CASE ReparaturFertig
  <2>1. spielt' = Frei /\ mem' = mem /\ spielt.rest = {}
    BY <1>5 DEF ReparaturFertig
  <2>2. QED BY <1>0, <2>1, GetanBleibt, FreiLeer DEF ReiheInv, LueckeInv
<1>6. CASE OhneWirkung \/ Anwenden
  <2>1. PICK b \in Block : b = Niedrigster(spielt.rest)
    BY <1>0, <1>6, NiedrigsterTyp DEF OhneWirkung, Anwenden
  <2>2. /\ spielt'.art = spielt.art /\ spielt'.rest = spielt.rest \ {b}
        /\ mem'.nach = mem.nach \cup {b} /\ mem'.boot = mem.boot /\ mem'.luecke = mem.luecke
    BY <1>6, <2>1 DEF OhneWirkung, Anwenden, Erledigt, NochZuTun, TypeOK, DAG, Spiel
  <2>3. Getan(b)'
    <3>1. MemInv'
      BY MemSchritt
    <3>2. QED BY <2>2, <3>1 DEF MemInv, ErinnertesWirkt, Getan
  <2>4. ReiheInv'
    BY <1>0, <2>2, GetanBleibt DEF ReiheInv
  <2>5. LueckeInv'
    BY <1>0, <2>2, <2>3, GetanBleibt DEF LueckeInv
  <2>6. QED BY <2>4, <2>5
<1>7. CASE AnwendenScheitert
  <2>1. PICK b \in Block : b = Niedrigster(spielt.rest)
    BY <1>0, <1>7, NiedrigsterTyp DEF AnwendenScheitert
  <2>2. spielt' = Frei /\ mem'.luecke = mem.luecke /\ b \in spielt.rest
    BY <1>0, <1>7, <2>1, NiedrigsterTyp DEF AnwendenScheitert, Abbruch, TypeOK, DAG
  <2>3. spielt.art = "reparatur" => Getan(b)'
    BY <1>7, <2>1 DEF AnwendenScheitert, Erzwungen, Getan, TypeOK, Chronik
  <2>4. spielt.art = "reparatur" => \A p \in spielt.rest : p = b
    BY <2>2 DEF ReiheInv
  <2>5. QED BY <1>0, <2>2, <2>3, <2>4, GetanBleibt, FreiLeer DEF ReiheInv, LueckeInv
<1>8. CASE NochZurueckgestellt
  <2>1. spielt' = Frei /\ mem' = mem /\ spielt.art # "reparatur"
    BY <1>8 DEF NochZurueckgestellt, Abbruch, Zurueckgestellt, Erzwungen
  <2>2. QED BY <1>0, <2>1, GetanBleibt, FreiLeer DEF ReiheInv, LueckeInv
<1>9. CASE Absturz
  <2>1. spielt' = Frei /\ mem'.luecke = {}
    BY <1>9 DEF Absturz, LeeresDAG
  <2>2. QED BY <2>1, FreiLeer DEF ReiheInv, LueckeInv
<1>10. CASE Start
  <2>1. /\ mem'.luecke = {x \in Gespeicherte : db.kopf[x] = "offen"}
        /\ db' = db /\ chronik' = chronik /\ spielt' = spielt /\ spielt.art = "frei"
    BY <1>10 DEF Start, LeeresDAG, MemInv, AusFrei
  <2>2. \A x \in Gespeicherte : db.kopf[x] = "offen" \/ Getan(x)
    BY DEF Gespeicherte, TypeOK, Tabelle, Kopf, VermerkHeisstWirkung, Getan
  <2>3. \A x \in Gespeicherte : \A p \in Eltern[x] : p \in Gespeicherte \/ Getan(p)
    BY DEF AhnenInv, BelegInv, JeGespeichert, Getan
  <2>4. Gespeicherte \subseteq Block
    BY DEF Gespeicherte
  <2>5. LueckeInv'
    BY <1>0, <2>1, <2>2, <2>3, <2>4, GetanBleibt DEF LueckeInv
  <2>6. ReiheInv'
    BY <2>1 DEF ReiheInv
  <2>7. QED BY <2>5, <2>6
<1>11. CASE UNCHANGED vars
  BY <1>11, ReiheGleich DEF vars
<1>12. QED
  BY <1>1, <1>2, <1>3, <1>4, <1>5, <1>6, <1>7, <1>8, <1>9, <1>10, <1>11 DEF Next

-----------------------------------------------------------------------------
(***************************************************************************)
(* Theorems.                                                               *)
(***************************************************************************)
\* Init
LEMMA ReiheInit == Init => ReiheInv /\ LueckeInv
  BY FreiLeer DEF Init, LeeresDAG, ReiheInv, LueckeInv

AlleInv == IInv /\ AhnenInv /\ ReiheInv /\ LueckeInv

\* The invariant holds throughout.
LEMMA InvImmer == Spec => []AlleInv
<1>1. Init => AlleInv
  BY InvInit, AhnenInit, ReiheInit DEF AlleInv
<1>2. AlleInv /\ [Next]_vars => AlleInv'
  <2> SUFFICES ASSUME AlleInv, [Next]_vars PROVE AlleInv'
    OBVIOUS
  <2>1. TypeOK /\ VermerkHeisstWirkung /\ TabInv /\ MemInv /\ AhnenInv /\ ReiheInv /\ LueckeInv
    BY DEF AlleInv, IInv, TabInv, MemInv
  <2>2. IInv'
    BY <2>1, TypSchritt, TabSchritt, MemSchritt DEF IInv, TabInv, MemInv
  <2>3. QED BY <2>1, <2>2, AhnenSchritt, ReiheSchritt DEF AlleInv
<1>3. QED BY <1>1, <1>2, PTL DEF Spec

\* A step applies a block only after its parents.
LEMMA ElternSchritt ==
  ASSUME AlleInv, [Next]_vars, NEW b \in Block, db'.wirkt[b] > db.wirkt[b], NEW p \in Eltern[b]
  PROVE  Angewandt(p) \/ p \in chronik.ueber \/ (Erzwungen /\ p \in chronik.geloescht)
<1> USE DEF AlleInv, IInv, TypeOK
<1>1. db.wirkt[b] \in Nat /\ p \in Block
  BY BlockTyp DEF Tabelle
<1>2. Anwenden
  <2>1. ASSUME NEW g, KopfSpeichern(g) \/ Einhaengen(g) \/ KopfLoeschen(g) PROVE FALSE
    <3>1. db'.wirkt = db.wirkt
      BY <2>1 DEF KopfSpeichern, Einhaengen, KopfLoeschen, Tabelle
    <3>2. QED BY <1>1, <3>1
  <2>2. db' # db
    BY <1>1
  <2>3. QED
    BY <2>1, <2>2 DEF Next, vars, Ankunft, Verwaisen, NachspielBeginnt, LokalGeloest, WartezeitUm,
       ReparaturBeginnt, ReparaturFertig, OhneWirkung, AnwendenScheitert, NochZurueckgestellt, Absturz, Start
<1>3. b = Niedrigster(spielt.rest)
  BY <1>1, <1>2 DEF Anwenden, Tabelle
<1>4. spielt.rest # {} /\ ~Uebersprungen(b)
  BY <1>2, <1>3 DEF Anwenden
<1>5. b \in spielt.rest /\ p \notin spielt.rest
  BY <1>3, <1>4, NiedrigsterTyp DEF Spiel
<1>6. CASE spielt.art = "reparatur"
  BY <1>5, <1>6 DEF ReiheInv, Getan, Erzwungen
<1>7. CASE spielt.art = "zug"
  <2>1. ~(Hoehe[b] <= mem.boot)
    BY <1>4, <1>7 DEF Uebersprungen, Erzwungen
  <2>2. Hoehe[b] > mem.boot
    BY <2>1, HoeheTyp DEF DAG
  <2>3. p \in mem.nach
    BY <1>5, <1>7, <2>2 DEF ReiheInv
  <2>4. QED BY <2>3 DEF ErinnertesWirkt
<1>8. QED BY <1>4, <1>6, <1>7 DEF ReiheInv, Spiel

\* A header marked as replayed has its effects in the accounts (MarkBlockReplayed).
THEOREM VermerkHeisstWirkungGilt == Spec => []VermerkHeisstWirkung
<1>1. AlleInv => VermerkHeisstWirkung
  BY DEF AlleInv, IInv
<1>2. QED BY InvImmer, <1>1, PTL

\* A block is applied once, over redelivery, repair and restarts, unless its header
\* was lost while its effects were stored.
THEOREM NichtDoppeltGilt == Spec => []NichtDoppelt
<1>1. AlleInv => NichtDoppelt
  BY DEF AlleInv, IInv
<1>2. QED BY InvImmer, <1>1, PTL

\* Only applied blocks, or those passed over, are handed out to peers (nachAussen).
THEOREM NachAussenAngewandtGilt == Spec => []NachAussenAngewandt
<1>1. AlleInv => NachAussenAngewandt
  BY DEF AlleInv, IInv
<1>2. QED BY InvImmer, <1>1, PTL

\* No tip is the parent of a tip, unless its header was deleted (spitzeEinhaengenLocked).
THEOREM KeineSpitzeUeberSpitzeGilt == Spec => []KeineSpitzeUeberSpitze
<1>1. AlleInv => KeineSpitzeUeberSpitze
  BY DEF AlleInv, AhnenInv, SpitzenInv
<1>2. QED BY InvImmer, <1>1, PTL

\* A block is applied after its parents (collectUnreplayedAncestors,
\* repairUnreplayedBlocks).
THEOREM ElternZuerstGilt == Spec => ElternZuerst
<1>1. AlleInv /\ [Next]_vars =>
        [\A b \in Block : db'.wirkt[b] > db.wirkt[b] =>
           \A p \in Eltern[b] :
              Angewandt(p) \/ p \in chronik.ueber \/ (Erzwungen /\ p \in chronik.geloescht)]_vars
  BY ElternSchritt
<1>2. QED BY InvImmer, <1>1, PTL DEF Spec, ElternZuerst
=============================================================================
