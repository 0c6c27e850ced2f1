-------------------------- MODULE WalAusgangProofs --------------------------
(***************************************************************************)
(* What leaves WalFlush: the blocks.  Until a crash the nonces of a sender *)
(* ascend in them (the stages and keys of what waits); no order is in two  *)
(* of them, over crashes and replays (whatever will be in a block is there *)
(* once, and the marks say for which records); and every order in force    *)
(* has a way into one (records, marks and stored balances taken together). *)
(***************************************************************************)
EXTENDS WalFlushProofs

-----------------------------------------------------------------------------
(***************************************************************************)
(* The nonces of a sender in the blocks, until the first crash.            *)
(***************************************************************************)
\* Signed orders of one sender, and t with the smaller nonce.
SelberSender(t, u) == Von[t] = Von[u] /\ Nonce[t] > 0 /\ Nonce[u] > 0
Frueher(t, u) == SelberSender(t, u) => Nonce[t] < Nonce[u]
Aufgereiht(q) == \A i, j \in DOMAIN q : i < j => Frueher(q[i].tx, q[j].tx)

\* The nonces of a sender name one order each.
NonceEindeutig == \A t, u \in Auftraege : SelberSender(t, u) /\ Nonce[t] = Nonce[u] => t = u

\* What will be a row, what waits to be a row or in the Korb, and all that will be in
\* a block, with the place it takes there.
MitZeile  == {p \in Offene : ~p.ohne}
Wartend   == {Eintrag(e) : e \in MitZeile \cup schwebend}
Dinge     == db.zeilen \cup Wartend \cup {Eintrag(e) : e \in korb.saetze}

\* The first life stays in its mode, and the Korb has no gap.
ModusOK ==
  /\ lauf = "laeuft"
  /\ \A p \in Offene : p.ohne = korb.an
  /\ ~korb.an => korb.saetze = {}
  /\ korb.fehlt = {} /\ korb.ab = korb.bis + 1 /\ korb.bis <= Kopf
  /\ \A e \in korb.saetze \cup schwebend : e.seq >= korb.ab
  /\ \A z \in db.zeilen : z.seq <= wal.naechste

\* A sender knew the answers to its smaller nonces when it asked, and a serial order
\* that waits has none of them before it.
FrageOK ==
  /\ \A u \in kunde.gestellt, t \in Auftraege : SelberSender(t, u) /\ Nonce[t] < Nonce[u] => t \in kunde.quittiert
  /\ kunde.quittiert \subseteq InKraft
  /\ \A e \in schwebend : e.tx \notin kunde.quittiert /\ \A r \in wal.saetze : e.tx = r.tx => e = r
  /\ NonceEindeutig \/ \A t \in InKraft : Nonce[t] > 0 => konten[Von[t]].nonce > Nonce[t]
  /\ \A t \in leert, p \in Offene : SelberSender(p.tx, t) => Nonce[p.tx] >= Nonce[t]

\* The items of a sender ascend: those of its one batch, then those of the queue, then
\* the record that floats.
ReihenOK ==
  /\ Aufgereiht(schlange)
  /\ \A b \in laufend : /\ Aufgereiht(b.posten)
                        /\ \A p \in ToSet(b.posten), q \in ToSet(schlange) : Frueher(p.tx, q.tx)
  /\ \A b, c \in laufend : b # c => \A p \in ToSet(b.posten), q \in ToSet(c.posten) : ~SelberSender(p.tx, q.tx)
  /\ \A p \in Offene, e \in schwebend : Frueher(p.tx, e.tx)

\* Rows come before what waits, blocks before everything.
StufenOK ==
  /\ \A z \in db.zeilen, w \in Wartend : Frueher(z.tx, w.tx)
  /\ \A i \in DOMAIN db.bloecke, d \in Dinge : Frueher(db.bloecke[i], d.tx)

\* The places in a block go by nonce.
PlaetzeOK == \A x, y \in Dinge : ImBlockVor(x, y) => Frueher(x.tx, y.tx)

\* The invariant of the order.
Ordnung   == ModusOK /\ FrageOK /\ ReihenOK /\ StufenOK /\ PlaetzeOK /\ NonceReihe
OrdnungOK == zaehler.abstuerze = 0 => Ordnung

\* What is on its way out is in force.
LEMMA DingeInKraft ==
  ASSUME Typ, Salden
  PROVE  /\ \A p \in Offene : p.tx \in InKraft
         /\ \A e \in schwebend : e.tx \in InKraft
         /\ \A d \in Dinge : d \in Zeilen /\ d.tx \in InKraft
         /\ \A i \in DOMAIN db.bloecke : db.bloecke[i] \in InKraft
<1>1. WegeOK
  BY DEF Salden
<1>2. \A p \in Offene : p \in Posten /\ p.tx \in InKraft
  BY <1>1, OffeneTyp DEF WegeOK, Txs
<1>3. \A e \in schwebend : e \in Saetze /\ e.tx \in InKraft
  BY <1>1 DEF WegeOK, Txs, Typ
<1>4. \A e \in korb.saetze : e \in Saetze /\ e.tx \in InKraft
  BY <1>1 DEF WegeOK, Txs, Typ, KorbTyp
<1>5. \A z \in db.zeilen : z \in Zeilen /\ z.tx \in InKraft
  BY <1>1 DEF WegeOK, Txs, Typ, DbTyp
<1>6. \A p \in Posten : Eintrag(p) \in Zeilen /\ Eintrag(p).tx = p.tx
  BY DEF Posten, Zeilen, Eintrag
<1>7. \A p \in Saetze : Eintrag(p) \in Zeilen /\ Eintrag(p).tx = p.tx
  BY DEF Saetze, Zeilen, Eintrag
<1>8. \A d \in Dinge : d \in Zeilen /\ d.tx \in InKraft
  BY <1>2, <1>3, <1>4, <1>5, <1>6, <1>7 DEF Dinge, Wartend, MitZeile
<1>9. \A i \in DOMAIN db.bloecke : db.bloecke[i] \in InKraft
  BY <1>1 DEF WegeOK, ToSet
<1>10. QED BY <1>2, <1>3, <1>8, <1>9

\* An order that is accepted now has the greatest nonce of its sender.
LEMMA Neuestes ==
  ASSUME Typ, FrageOK, NEW t \in Auftraege, t \notin InKraft, NonceFrei(t)
  PROVE  \A u \in InKraft : Frueher(u, t)
<1>1. SUFFICES ASSUME NEW u \in InKraft, SelberSender(u, t) PROVE Nonce[u] < Nonce[t]
  BY DEF Frueher
<1>2. u \in Auftraege /\ u \in kunde.gestellt /\ Nonce[u] \in Nat /\ Nonce[t] \in Nat
  BY NonceTyp DEF InKraft, Typ, KundeTyp
<1>3. ~(Nonce[t] < Nonce[u])
  BY <1>1, <1>2 DEF FrageOK, SelberSender
<1>4. Nonce[t] # Nonce[u]
  <2>1. SUFFICES ASSUME Nonce[t] = Nonce[u] PROVE FALSE
    OBVIOUS
  <2>2. CASE NonceEindeutig
    BY <1>1, <1>2, <2>1, <2>2 DEF NonceEindeutig
  <2>3. CASE \A v \in InKraft : Nonce[v] > 0 => konten[Von[v]].nonce > Nonce[v]
    <3>1. konten[Von[t]].nonce > Nonce[t] /\ Nonce[t] >= konten[Von[t]].nonce
      BY <1>1, <2>1, <2>3 DEF SelberSender, NonceFrei
    <3>2. konten[Von[t]].nonce \in Nat
      BY BeideKonten, KontoTyp
    <3>3. QED BY <1>2, <3>1, <3>2
  <2>4. QED BY <2>2, <2>3 DEF FrageOK
<1>5. QED BY <1>2, <1>3, <1>4

\* A floating order has none of its sender's later ones beside it.
LEMMA SchwebendLetzter ==
  ASSUME Typ, Salden, FrageOK, NEW e \in schwebend, NEW u \in kunde.gestellt, SelberSender(e.tx, u)
  PROVE  Nonce[e.tx] >= Nonce[u]
<1>1. e.tx \in Auftraege /\ u \in Auftraege
  BY DEF Typ, Saetze, KundeTyp
<1>2. Nonce[e.tx] \in Nat /\ Nonce[u] \in Nat
  BY <1>1, NonceTyp
<1>3. e.tx \notin kunde.quittiert
  BY DEF FrageOK
<1>4. ~(Nonce[e.tx] < Nonce[u])
  BY <1>1, <1>3 DEF FrageOK
<1>5. QED BY <1>2, <1>4

\* A new record is the last of its sender.
LEMMA OrdnungAnhaengen ==
  ASSUME Nacheinander, Typ, Nummern, Salden, Ordnung, NEW t \in Auftraege, Anhaengen(t)
  PROVE  Ordnung'
<1> DEFINE e == [seq |-> wal.naechste, tx |-> t]
<1>1. /\ wal'.naechste = wal.naechste + 1 /\ wal'.saetze = wal.saetze \cup {e} /\ e \in Saetze
      /\ schwebend' = schwebend \cup {e}
      /\ kunde'.gestellt = kunde.gestellt \cup {t} /\ kunde'.quittiert = kunde.quittiert
      /\ t \notin kunde.gestellt /\ lauf' = "laeuft"
      /\ UNCHANGED <<db, schlange, laufend, korb, leert, lauf, zaehler>>
  BY AnhaengenTut
<1>2. e.seq = wal.naechste /\ e.tx = t /\ Eintrag(e).seq = wal.naechste /\ Eintrag(e).tx = t /\ Eintrag(e).id = 0
  BY DEF Eintrag
<1> HIDE DEF e
<1>3. t \notin InKraft /\ NonceFrei(t) /\ t \notin leert /\ t \notin kunde.quittiert
  BY <1>1 DEF InKraft, Anhaengen, Salden, LeertOK, Ordnung, FrageOK
<1>4. \A u \in InKraft : Frueher(u, t)
  BY <1>3, Neuestes DEF Ordnung
<1>5. Offene' = Offene /\ MitZeile' = MitZeile /\ InKraft' = InKraft \cup {t}
  <2>1. Offene' = Offene
    BY <1>1 DEF Offene
  <2>2. InKraft' = InKraft \cup {t}
    BY <1>1, <1>3 DEF InKraft
  <2>3. QED BY <2>1, <2>2 DEF MitZeile
<1>6. Wartend' = Wartend \cup {Eintrag(e)} /\ Dinge' = Dinge \cup {Eintrag(e)}
  <2>1. Wartend' = Wartend \cup {Eintrag(e)}
    BY <1>1, <1>5 DEF Wartend
  <2>2. QED BY <1>1, <2>1 DEF Dinge
<1>7. Kopf \in Nat /\ wal.naechste = Kopf + 1 /\ Kopf' = Kopf + 1
  BY <1>1, KopfTyp DEF Kopf
<1>8. ModusOK'
  <2>1. korb.bis \in Nat /\ \A z \in db.zeilen : z.seq \in Nat
    BY DEF Typ, KorbTyp, DbTyp, Zeilen
  <2>2. wal.naechste >= korb.ab
    BY <1>7, <2>1 DEF Ordnung, ModusOK
  <2>3. \A x \in korb'.saetze \cup schwebend' : x.seq >= korb'.ab
    BY <1>1, <1>2, <2>2 DEF Ordnung, ModusOK
  <2>4. \A z \in db'.zeilen : z.seq <= wal'.naechste
    BY <1>1, <1>7, <2>1 DEF Ordnung, ModusOK
  <2>5. korb'.bis <= Kopf'
    BY <1>1, <1>7, <2>1 DEF Ordnung, ModusOK
  <2>6. QED BY <1>1, <1>5, <2>3, <2>4, <2>5 DEF Ordnung, ModusOK
<1>9. FrageOK'
  <2>1. ASSUME NEW u \in kunde'.gestellt, NEW v \in Auftraege, SelberSender(v, u), Nonce[v] < Nonce[u]
        PROVE  v \in kunde'.quittiert
    <3>1. CASE u = t
      BY <1>1, <2>1, <3>1 DEF Anhaengen, Gestellt, SelberSender
    <3>2. CASE u \in kunde.gestellt
      BY <1>1, <2>1, <3>2 DEF Ordnung, FrageOK
    <3>3. QED BY <1>1, <3>1, <3>2
  <2>2. kunde'.quittiert \subseteq InKraft'
    BY <1>1, <1>5 DEF Ordnung, FrageOK
  <2>3. ASSUME NEW f \in schwebend'
        PROVE  f.tx \notin kunde'.quittiert /\ \A r \in wal'.saetze : f.tx = r.tx => f = r
    <3>1. \A r \in wal.saetze : r.tx # t
      BY <1>3 DEF Salden, LogOK
    <3>2. \A f2 \in schwebend : f2.tx # t
      BY <1>3, DingeInKraft
    <3>3. CASE f = e
      BY <1>1, <1>2, <1>3, <3>1, <3>3
    <3>4. CASE f \in schwebend
      BY <1>1, <1>2, <3>2, <3>4 DEF Ordnung, FrageOK
    <3>5. QED BY <1>1, <3>3, <3>4
  <2>4. NonceEindeutig \/ \A u \in InKraft' : Nonce[u] > 0 => konten'[Von[u]].nonce > Nonce[u]
    <3>1. SUFFICES ASSUME ~NonceEindeutig, NEW u \in InKraft', Nonce[u] > 0
                   PROVE  konten'[Von[u]].nonce > Nonce[u]
      OBVIOUS
    <3>2. u \in Auftraege
      BY <1>5 DEF InKraft, Typ, KundeTyp
    <3>3. Von[u] \in Konten /\ Von[u] \in Beide(u) /\ Nonce[u] \in Nat
      BY <3>2, BeideKonten
    <3>4. CASE u = t
      BY <3>1, <3>3, <3>4, AnhaengenWirkt
    <3>5. CASE u \in InKraft
      <4>1. konten[Von[u]].nonce > Nonce[u]
        BY <3>1, <3>5 DEF Ordnung, FrageOK
      <4>2. konten'[Von[u]] = konten[Von[u]] \/ konten'[Von[u]].nonce >= konten[Von[u]].nonce
        BY <3>3, AnhaengenWirkt
      <4>3. konten'[Von[u]].nonce \in Nat /\ konten[Von[u]].nonce \in Nat
        <5>1. Typ'
          BY TypAnhaengen
        <5>2. konten' \in [Konten -> Konto] /\ konten \in [Konten -> Konto]
          BY <5>1 DEF Typ
        <5>3. QED BY <3>3, <5>2 DEF Konto
      <4>4. QED BY <3>3, <4>1, <4>2, <4>3
    <3>6. QED BY <1>5, <3>4, <3>5
  <2>5. \A u \in leert', p \in Offene' : SelberSender(p.tx, u) => Nonce[p.tx] >= Nonce[u]
    BY <1>1, <1>5 DEF Ordnung, FrageOK
  <2>6. QED BY <2>1, <2>2, <2>3, <2>4, <2>5 DEF FrageOK
<1>10. ReihenOK'
  <2>1. \A p \in Offene : Frueher(p.tx, t)
    BY <1>4, DingeInKraft
  <2>2. \A p \in Offene', f \in schwebend' : Frueher(p.tx, f.tx)
    BY <1>1, <1>2, <1>5, <2>1 DEF Ordnung, ReihenOK
  <2>3. QED BY <1>1, <2>2 DEF Ordnung, ReihenOK
<1>11. StufenOK'
  <2>1. \A z \in db.zeilen : Frueher(z.tx, t)
    BY <1>4, DingeInKraft DEF Dinge
  <2>2. \A i \in DOMAIN db.bloecke : Frueher(db.bloecke[i], t)
    BY <1>4, DingeInKraft
  <2>3. QED BY <1>1, <1>2, <1>6, <2>1, <2>2 DEF Ordnung, StufenOK
<1>12. PlaetzeOK'
  <2>1. \A x \in Dinge : Frueher(x.tx, t) /\ x.seq \in Nat /\ x.id \in Nat
    BY <1>4, DingeInKraft DEF Zeilen
  <2>2. ASSUME NEW x \in Dinge PROVE ~ImBlockVor(Eintrag(e), x)
    <3>1. x.seq <= wal.naechste
      <4>1. CASE x \in db.zeilen
        BY <4>1 DEF Ordnung, ModusOK
      <4>2. CASE \E p \in Offene \cup schwebend \cup korb.saetze : x = Eintrag(p)
        <5>1. PICK p \in Offene \cup schwebend \cup korb.saetze : x = Eintrag(p)
          BY <4>2
        <5>2. x.seq = p.seq
          BY <5>1 DEF Eintrag
        <5>3. p.seq <= Kopf
          BY DEF Nummern, PostenNummern, SchwebNummern, KorbNummern
        <5>4. QED BY <1>7, <2>1, <5>2, <5>3
      <4>3. QED BY <4>1, <4>2 DEF Dinge, Wartend, MitZeile
    <3>2. QED BY <1>2, <1>7, <2>1, <3>1 DEF ImBlockVor
  <2>3. ~ImBlockVor(Eintrag(e), Eintrag(e))
    BY <1>2, <1>7 DEF ImBlockVor
  <2>4. QED BY <1>2, <1>6, <2>1, <2>2, <2>3 DEF Ordnung, PlaetzeOK
<1>13. NonceReihe'
  BY <1>1 DEF Ordnung, NonceReihe
<1>14. QED BY <1>8, <1>9, <1>10, <1>11, <1>12, <1>13 DEF Ordnung

\* The steps that leave the queue, the batches, the rows and the blocks alone.
LEMMA OrdnungStill ==
  ASSUME Ordnung, ModusOK', FrageOK', UNCHANGED <<schlange, laufend, schwebend, korb>>,
         db'.zeilen = db.zeilen, db'.bloecke = db.bloecke
  PROVE  Ordnung'
<1>1. Offene' = Offene
  BY DEF Offene
<1>2. MitZeile' = MitZeile
  BY <1>1 DEF MitZeile
<1>3. Wartend' = Wartend
  BY <1>2 DEF Wartend
<1>4. Dinge' = Dinge
  BY <1>3 DEF Dinge
<1>5. ReihenOK'
  BY <1>1 DEF Ordnung, ReihenOK
<1>6. StufenOK' /\ PlaetzeOK'
  BY <1>3, <1>4 DEF Ordnung, StufenOK, PlaetzeOK
<1>7. NonceReihe'
  BY DEF Ordnung, NonceReihe
<1>8. QED BY <1>5, <1>6, <1>7 DEF Ordnung

\* New answers are those of records that no longer float.
LEMMA AntwortenOK ==
  ASSUME Typ, Salden, FrageOK, NEW U \in SUBSET schwebend, kunde'.gestellt = kunde.gestellt,
         kunde.quittiert \subseteq kunde'.quittiert,
         \A t \in kunde'.quittiert : t \in kunde.quittiert \/ \E r \in wal.saetze \ U : r.tx = t,
         leert' = leert, schwebend' = U
  PROVE  /\ InKraft' = InKraft /\ kunde'.quittiert \subseteq InKraft /\ kunde.quittiert \subseteq kunde'.quittiert
         /\ \A e \in U : e.tx \notin kunde'.quittiert
<1>1. InKraft' = InKraft
  BY DEF InKraft
<1>2. \A r \in wal.saetze : r.tx \in InKraft
  BY DEF Salden, LogOK
<1>3. ASSUME NEW e \in U PROVE e.tx \notin kunde'.quittiert
  <2>1. e.tx \notin kunde.quittiert /\ \A r \in wal.saetze : e.tx = r.tx => e = r
    BY DEF FrageOK
  <2>2. QED BY <2>1
<1>4. QED BY <1>1, <1>2, <1>3 DEF FrageOK

\* A group commit answers.
LEMMA OrdnungSichern ==
  ASSUME Typ, Salden, Ordnung, NEW bis, Sichern(bis)
  PROVE  Ordnung'
<1>1. /\ wal'.saetze = wal.saetze /\ wal'.naechste = wal.naechste
      /\ kunde'.gestellt = kunde.gestellt
      /\ kunde'.quittiert = kunde.quittiert \cup {r.tx : r \in {s \in wal.saetze \ schwebend : s.seq <= bis}}
      /\ UNCHANGED <<konten, db, schlange, laufend, korb, schwebend, leert, lauf, zaehler>>
  BY SichernTut
<1>2. /\ InKraft' = InKraft /\ kunde'.quittiert \subseteq InKraft /\ kunde.quittiert \subseteq kunde'.quittiert
      /\ \A e \in schwebend : e.tx \notin kunde'.quittiert
  BY <1>1, AntwortenOK DEF Ordnung
<1>3. Offene' = Offene /\ Kopf' = Kopf
  BY <1>1 DEF Offene, Kopf
<1>4. FrageOK'
  BY <1>1, <1>2, <1>3 DEF Ordnung, FrageOK
<1>5. ModusOK'
  BY <1>1, <1>3 DEF Ordnung, ModusOK
<1>6. QED BY <1>1, <1>4, <1>5, OrdnungStill

\* A serial order begins when no signed order of its sender is on its way to a row.
LEMMA OrdnungBeginnt ==
  ASSUME Nacheinander, Typ, Salden, Ordnung, NEW t \in Auftraege, SeriellBeginnt(t)
  PROVE  Ordnung'
<1>1. /\ leert' = leert \cup {t} /\ kunde'.gestellt = kunde.gestellt \cup {t}
      /\ kunde'.quittiert = kunde.quittiert /\ t \notin kunde.gestellt
      /\ UNCHANGED <<wal, konten, db, schlange, laufend, korb, schwebend, lauf, zaehler>>
  BY SeriellBeginntTut
<1>2. Offene' = Offene /\ Kopf' = Kopf /\ InKraft' = InKraft
  <2>1. InKraft' = InKraft
    BY <1>1 DEF InKraft
  <2>2. QED BY <1>1, <2>1 DEF Offene, Kopf
<1>3. \A p \in Offene : ~SelberSender(p.tx, t)
  <2>1. SUFFICES ASSUME NEW p \in Offene, SelberSender(p.tx, t) PROVE FALSE
    OBVIOUS
  <2>2. Von[t] \notin Signierte(schlange) \cup RohUnterwegs
    BY <2>1 DEF SeriellBeginnt, NichtsOffen, SelberSender
  <2>3. CASE p \in ToSet(schlange)
    BY <2>1, <2>2, <2>3 DEF Signierte, SelberSender
  <2>4. CASE \E b \in laufend : p \in ToSet(b.posten)
    <3>1. PICK b \in laufend : p \in ToSet(b.posten)
      BY <2>4
    <3>2. Von[p.tx] \in Signierte(b.posten)
      BY <2>1, <3>1 DEF Signierte, SelberSender
    <3>3. QED BY <2>1, <2>2, <3>2 DEF RohUnterwegs, SelberSender
  <2>5. QED BY <2>3, <2>4 DEF Offene
<1>4. FrageOK'
  <2>1. ASSUME NEW u \in kunde'.gestellt, NEW v \in Auftraege, SelberSender(v, u), Nonce[v] < Nonce[u]
        PROVE  v \in kunde'.quittiert
    <3>1. CASE u = t
      BY <1>1, <2>1, <3>1 DEF SeriellBeginnt, Gestellt, SelberSender
    <3>2. CASE u \in kunde.gestellt
      BY <1>1, <2>1, <3>2 DEF Ordnung, FrageOK
    <3>3. QED BY <1>1, <3>1, <3>2
  <2>2. QED BY <1>1, <1>2, <1>3, <2>1 DEF Ordnung, FrageOK
<1>5. ModusOK'
  BY <1>1, <1>2 DEF Ordnung, ModusOK
<1>6. QED BY <1>1, <1>4, <1>5, OrdnungStill

\* A serial order is refused when its nonce is used up.
LEMMA OrdnungAbgelehnt ==
  ASSUME Typ, Salden, Ordnung, NEW t \in leert, SeriellAbgelehnt(t)
  PROVE  Ordnung'
<1>1. /\ leert' = leert \ {t} /\ ~NonceFrei(t)
      /\ UNCHANGED <<wal, konten, db, schlange, laufend, korb, schwebend, lauf, kunde, zaehler>>
  BY DEF SeriellAbgelehnt
<1>2. t \in Auftraege /\ t \in kunde.gestellt
  BY DEF Typ, Auftraege, Salden, LeertOK
<1>3. Offene' = Offene /\ Kopf' = Kopf /\ InKraft' = InKraft \cup {t}
  BY <1>1, <1>2 DEF Offene, Kopf, InKraft
<1>4. konten[Von[t]].nonce > Nonce[t]
  BY <1>1, <1>2, BeideKonten, KontoTyp DEF NonceFrei
<1>5. FrageOK'
  BY <1>1, <1>3, <1>4 DEF Ordnung, FrageOK
<1>6. ModusOK'
  BY <1>1, <1>3 DEF Ordnung, ModusOK
<1>7. QED BY <1>1, <1>5, <1>6, OrdnungStill

\* A compaction takes records only.
LEMMA OrdnungKuerzen ==
  ASSUME Typ, Salden, Ordnung, NEW gross \in BOOLEAN, Kuerzen(gross)
  PROVE  Ordnung'
<1>1. /\ db'.zeilen = db.zeilen /\ db'.bloecke = db.bloecke /\ wal'.naechste = wal.naechste
      /\ wal'.saetze \subseteq wal.saetze
      /\ UNCHANGED <<konten, schlange, laufend, korb, schwebend, leert, lauf, kunde>>
  BY KuerzenTut
<1>2. Offene' = Offene /\ Kopf' = Kopf /\ InKraft' = InKraft
  BY <1>1 DEF Offene, Kopf, InKraft
<1>3. FrageOK'
  BY <1>1, <1>2 DEF Ordnung, FrageOK
<1>4. ModusOK'
  BY <1>1, <1>2 DEF Ordnung, ModusOK
<1>5. QED BY <1>1, <1>3, <1>4, OrdnungStill

\* A replacement frees nonces, but not for another order.
LEMMA OrdnungErsatz ==
  ASSUME NonceEindeutig, Typ, Salden, Ordnung, Ersatz(FALSE)
  PROVE  Ordnung'
<1>1. /\ db'.zeilen = db.zeilen /\ db'.bloecke = db.bloecke
      /\ kunde'.gestellt = kunde.gestellt /\ kunde'.quittiert = kunde.quittiert
      /\ UNCHANGED <<wal, schlange, laufend, schwebend, leert, korb, lauf>>
  BY ErsatzTut
<1>2. Offene' = Offene /\ Kopf' = Kopf /\ InKraft' = InKraft
  BY <1>1 DEF Offene, Kopf, InKraft
<1>3. FrageOK'
  BY <1>1, <1>2 DEF Ordnung, FrageOK
<1>4. ModusOK'
  BY <1>1, <1>2 DEF Ordnung, ModusOK
<1>5. QED BY <1>1, <1>3, <1>4, OrdnungStill

\* An item comes last in the queue.
LEMMA AngehaengtGereiht ==
  ASSUME NEW q \in Seq(Posten), NEW p \in Posten, Aufgereiht(q), \A x \in ToSet(q) : Frueher(x.tx, p.tx)
  PROVE  Aufgereiht(Append(q, p))
<1> DEFINE r == Append(q, p)
<1>1. Len(q) \in Nat /\ DOMAIN q = 1 .. Len(q) /\ DOMAIN r = 1 .. (Len(q) + 1)
      /\ (\A i \in 1 .. Len(q) : r[i] = q[i]) /\ r[Len(q) + 1] = p
  OBVIOUS
<1> HIDE DEF r
<1>2. ASSUME NEW i \in DOMAIN r, NEW j \in DOMAIN r, i < j
      PROVE  Frueher(r[i].tx, r[j].tx)
  <2>1. i \in 1 .. Len(q) /\ r[i] = q[i] /\ q[i] \in ToSet(q)
    BY <1>1, <1>2 DEF ToSet
  <2>2. CASE j = Len(q) + 1
    BY <1>1, <2>1, <2>2
  <2>3. CASE j \in 1 .. Len(q)
    BY <1>1, <1>2, <2>1, <2>3 DEF Aufgereiht
  <2>4. QED BY <1>1, <2>2, <2>3
<1>3. QED BY <1>2 DEF Aufgereiht, r

\* The record leaves the float for the end of the queue, or for the Korb.
LEMMA OrdnungEinreihen ==
  ASSUME Typ, Nummern, Salden, Unterwegs, Ordnung, NEW e \in schwebend, Einreihen(e)
  PROVE  Ordnung'
<1> DEFINE p == [seq |-> e.seq, tx |-> e.tx, ohne |-> korb.an]
<1>1. /\ p \in Posten /\ e \in Saetze /\ schlange' \in Seq(Posten)
      /\ korb'.saetze = korb.saetze \cup IF korb.an THEN {e} ELSE {}
      /\ schwebend' = schwebend \ {e}
      /\ kunde'.gestellt = kunde.gestellt
      /\ kunde'.quittiert = kunde.quittiert \cup {r.tx : r \in {s \in wal.saetze \ schwebend' : s.seq <= wal.haltbar}}
      /\ UNCHANGED <<wal, konten, db, laufend, leert, lauf, zaehler>>
  BY EinreihenTut
<1>2. /\ schlange' = IF Gedeckt(schlange, p) THEN schlange ELSE Append(schlange, p)
      /\ korb'.an = korb.an /\ korb'.fehlt = korb.fehlt /\ korb'.ab = korb.ab /\ korb'.bis = korb.bis
  BY DEF Einreihen, Typ, KorbTyp
<1>3. p.seq = e.seq /\ p.tx = e.tx /\ p.ohne = korb.an /\ Eintrag(p) = Eintrag(e)
  BY DEF Eintrag
<1> HIDE DEF p
<1>4. schlange \in Seq(Posten)
  BY DEF Typ
<1>5. \/ schlange' = schlange /\ p.ohne /\ Offene' = Offene
      \/ schlange' = Append(schlange, p) /\ ToSet(schlange') = ToSet(schlange) \cup {p} /\ Offene' = Offene \cup {p}
  <2>1. CASE Gedeckt(schlange, p)
    BY <1>1, <1>2, <2>1 DEF Offene, Gedeckt
  <2>2. CASE ~Gedeckt(schlange, p)
    <3>1. ToSet(Append(schlange, p)) = ToSet(schlange) \cup {p}
      <4> DEFINE r == <<p>>
      <4>1. r \in Seq(Posten) /\ ToSet(r) = {p}
        BY <1>1 DEF ToSet
      <4>2. Append(schlange, p) = schlange \o r
        BY <1>1, <1>4
      <4> HIDE DEF r
      <4>3. ToSet(schlange \o r) = ToSet(schlange) \cup ToSet(r)
        BY <1>4, <4>1, MengeVerkettet
      <4>4. QED BY <4>1, <4>2, <4>3
    <3>2. QED BY <1>1, <1>2, <2>2, <3>1 DEF Offene
  <2>3. QED BY <2>1, <2>2
<1>6. /\ InKraft' = InKraft /\ kunde'.quittiert \subseteq InKraft /\ kunde.quittiert \subseteq kunde'.quittiert
      /\ \A f \in schwebend' : f.tx \notin kunde'.quittiert
  <2> DEFINE U == schwebend \ {e}
  <2>1. /\ U \in SUBSET schwebend /\ schwebend' = U
        /\ kunde.quittiert \subseteq kunde'.quittiert
        /\ \A t \in kunde'.quittiert : t \in kunde.quittiert \/ \E r \in wal.saetze \ U : r.tx = t
    BY <1>1
  <2> HIDE DEF U
  <2>2. QED BY <1>1, <2>1, AntwortenOK DEF Ordnung
<1>7. Offene' \subseteq Offene \cup {p} /\ ToSet(schlange') \subseteq ToSet(schlange) \cup {p}
  BY <1>5
<1>8. MitZeile' = MitZeile \cup IF korb.an THEN {} ELSE {p}
  BY <1>3, <1>5 DEF MitZeile
<1>9. Wartend' \cup {Eintrag(k) : k \in korb'.saetze} = Wartend \cup {Eintrag(k) : k \in korb.saetze}
      /\ Wartend' \subseteq Wartend
  <2>1. CASE korb.an
    <3>1. MitZeile' = MitZeile /\ korb'.saetze = korb.saetze \cup {e}
      BY <1>1, <1>8, <2>1
    <3>2. QED BY <1>1, <3>1 DEF Wartend
  <2>2. CASE ~korb.an
    <3>1. MitZeile' = MitZeile \cup {p} /\ korb'.saetze = korb.saetze
      BY <1>1, <1>8, <2>2
    <3>2. QED BY <1>1, <1>3, <3>1 DEF Wartend
  <2>3. QED BY <2>1, <2>2
<1>10. Dinge' = Dinge
  BY <1>1, <1>9 DEF Dinge
<1>11. Kopf' = Kopf
  BY <1>1 DEF Kopf
<1>12. ModusOK'
  <2>1. korb'.saetze \cup schwebend' \subseteq korb.saetze \cup schwebend
    BY <1>1
  <2>2. \A x \in Offene' : x.ohne = korb'.an
    BY <1>2, <1>3, <1>7 DEF Ordnung, ModusOK
  <2>3. ~korb'.an => korb'.saetze = {}
    BY <1>1, <1>2 DEF Ordnung, ModusOK
  <2>4. QED BY <1>1, <1>2, <1>11, <2>1, <2>2, <2>3 DEF Ordnung, ModusOK
<1>13. FrageOK'
  <2>1. ASSUME NEW t \in leert', NEW x \in Offene', SelberSender(x.tx, t)
        PROVE  Nonce[x.tx] >= Nonce[t]
    <3>1. t \in kunde.gestellt /\ t \in leert
      BY <1>1 DEF Salden, LeertOK
    <3>2. CASE x \in Offene
      BY <2>1, <3>1, <3>2 DEF Ordnung, FrageOK
    <3>3. CASE x = p
      BY <1>3, <2>1, <3>1, <3>3, SchwebendLetzter DEF Ordnung
    <3>4. QED BY <1>7, <3>2, <3>3
  <2>2. QED BY <1>1, <1>6, <2>1 DEF Ordnung, FrageOK
<1>14. ReihenOK'
  <2>1. \A x \in Offene : Frueher(x.tx, p.tx)
    BY <1>3 DEF Ordnung, ReihenOK
  <2>2. Aufgereiht(schlange')
    <3>1. CASE schlange' = schlange
      BY <3>1 DEF Ordnung, ReihenOK
    <3>2. CASE schlange' = Append(schlange, p)
      <4>1. \A x \in ToSet(schlange) : Frueher(x.tx, p.tx)
        BY <2>1 DEF Offene
      <4>2. QED BY <1>1, <1>4, <3>2, <4>1, AngehaengtGereiht DEF Ordnung, ReihenOK
    <3>3. QED BY <1>5, <3>1, <3>2
  <2>3. ASSUME NEW b \in laufend', NEW x \in ToSet(b.posten), NEW y \in ToSet(schlange')
        PROVE  Frueher(x.tx, y.tx)
    <3>1. b \in laufend /\ x \in Offene
      BY <1>1 DEF Offene
    <3>2. CASE y = p
      BY <2>1, <3>1, <3>2
    <3>3. CASE y \in ToSet(schlange)
      BY <3>1, <3>3 DEF Ordnung, ReihenOK
    <3>4. QED BY <1>7, <3>2, <3>3
  <2>4. ASSUME NEW x \in Offene', NEW f \in schwebend'
        PROVE  Frueher(x.tx, f.tx)
    <3>1. f \in schwebend /\ f # e
      BY <1>1
    <3>2. CASE x \in Offene
      BY <3>1, <3>2 DEF Ordnung, ReihenOK
    <3>3. CASE x = p
      <4>1. Beide(e.tx) \cap Beide(f.tx) = {}
        BY <3>1 DEF Unterwegs, VorrangOK
      <4>2. QED BY <1>3, <3>3, <4>1 DEF Frueher, SelberSender, Beide
    <3>4. QED BY <1>7, <3>2, <3>3
  <2>5. QED BY <1>1, <2>2, <2>3, <2>4 DEF Ordnung, ReihenOK
<1>15. StufenOK'
  BY <1>1, <1>9, <1>10 DEF Ordnung, StufenOK
<1>16. PlaetzeOK' /\ NonceReihe'
  BY <1>1, <1>10 DEF Ordnung, PlaetzeOK, NonceReihe
<1>17. QED BY <1>12, <1>13, <1>14, <1>15, <1>16 DEF Ordnung

\* Waiting items only change place.
LEMMA OrdnungPlatz ==
  ASSUME Typ, Ordnung, ReihenOK', Offene' \subseteq Offene,
         UNCHANGED <<wal, konten, db, korb, schwebend, leert, lauf, kunde>>
  PROVE  Ordnung'
<1>1. MitZeile' \subseteq MitZeile
  BY DEF MitZeile
<1>2. Wartend' \subseteq Wartend
  BY <1>1 DEF Wartend
<1>3. Dinge' \subseteq Dinge
  BY <1>2 DEF Dinge
<1>4. Kopf' = Kopf /\ InKraft' = InKraft
  BY DEF Kopf, InKraft
<1>5. ModusOK'
  BY <1>4 DEF Ordnung, ModusOK
<1>6. FrageOK'
  BY <1>4 DEF Ordnung, FrageOK
<1>7. StufenOK' /\ PlaetzeOK' /\ NonceReihe'
  BY <1>2, <1>3 DEF Ordnung, StufenOK, PlaetzeOK, NonceReihe
<1>8. QED BY <1>5, <1>6, <1>7 DEF Ordnung

\* A part of an ordered sequence is ordered.
LEMMA AusgewaehltGereiht ==
  ASSUME NEW q \in Seq(Posten), Aufgereiht(q), NEW I \in SUBSET DOMAIN q
  PROVE  Aufgereiht(Ausgewaehlt(q, I))
<1>1. PICK n \in Nat : \E p : Waehlt(n, p, q, I)
  BY AusgewaehltReihe
<1>2. PICK p : Waehlt(n, p, q, I)
  BY <1>1
<1> DEFINE r == Ausgewaehlt(q, I)
<1>3. /\ p \in [1 .. n -> I] /\ DOMAIN r = 1 .. n /\ \A i \in 1 .. n : r[i] = q[p[i]]
      /\ \A i, j \in 1 .. n : i < j => p[i] < p[j]
  BY <1>2 DEF Waehlt
<1> HIDE DEF r
<1>4. ASSUME NEW i \in DOMAIN r, NEW j \in DOMAIN r, i < j PROVE Frueher(r[i].tx, r[j].tx)
  BY <1>3, <1>4 DEF Aufgereiht
<1>5. QED BY <1>4 DEF Aufgereiht, r

\* A worker takes of a sender only the first items, and only if no batch has any.
LEMMA OrdnungNimmt ==
  ASSUME Typ, Ordnung, FlushNimmt
  PROVE  Ordnung'
<1> DEFINE q == schlange
           I == Auswahl(q)
           frei == {i \in DOMAIN q : Von[q[i].tx] \notin RohUnterwegs}
           b == [posten |-> Ausgewaehlt(q, I), offen |-> KontenVon(ToSet(Ausgewaehlt(q, I)))]
<1>1. q \in Seq(Posten) /\ DOMAIN q = 1 .. Len(q) /\ Len(q) \in Nat
  BY DEF Typ
<1>2. /\ laufend' = laufend \cup {b} /\ schlange' = Ausgewaehlt(q, DOMAIN q \ I)
      /\ UNCHANGED <<wal, konten, db, korb, schwebend, leert, lauf, kunde, zaehler>>
  BY DEF FlushNimmt
<1>3. I = {i \in frei : Cardinality({j \in frei : j <= i}) <= Buendel}
  BY DEF Auswahl
<1>4. ASSUME NEW i \in I, NEW j \in DOMAIN q \ I, Von[q[i].tx] = Von[q[j].tx]
      PROVE  i < j
  <2>1. i \in frei /\ j \in frei /\ i \in Int /\ j \in Int
    BY <1>1, <1>3, <1>4
  <2>2. SUFFICES ASSUME j <= i PROVE FALSE
    BY <2>1
  <2> DEFINE A == {k \in frei : k <= j}
             B == {k \in frei : k <= i}
  <2>3. A \subseteq B
    BY <1>1, <2>1, <2>2
  <2>4. IsFiniteSet(B)
    <3>1. IsFiniteSet(1 .. Len(q))
      BY <1>1, FS_Interval
    <3>2. B \subseteq 1 .. Len(q)
      BY <1>1
    <3>3. QED BY <3>1, <3>2, FS_Subset
  <2>5. Cardinality(A) <= Cardinality(B) /\ Cardinality(B) <= Buendel
    BY <1>3, <1>4, <2>3, <2>4, FS_Subset
  <2>6. Cardinality(A) \in Nat /\ Cardinality(B) \in Nat /\ Buendel \in Nat
    BY <2>3, <2>4, FS_Subset, FS_CardinalityType, GrenzenTyp
  <2>7. Cardinality(A) <= Buendel
    BY <2>5, <2>6
  <2>8. j \in I
    BY <1>3, <2>1, <2>7
  <2>9. QED BY <1>4, <2>8
<1>5. I \in SUBSET DOMAIN q /\ \A i \in I : Von[q[i].tx] \notin RohUnterwegs
  BY <1>3
<1> HIDE DEF I
<1>6. ToSet(b.posten) = {q[i] : i \in I} /\ ToSet(schlange') = {q[i] : i \in DOMAIN q \ I}
  BY <1>1, <1>2, <1>5, AusgewaehltIst
<1>7. Aufgereiht(b.posten) /\ Aufgereiht(schlange')
  BY <1>1, <1>2, <1>5, AusgewaehltGereiht DEF Ordnung, ReihenOK
<1> HIDE DEF b
<1>8. ToSet(schlange') \subseteq ToSet(q) /\ ToSet(b.posten) \subseteq ToSet(q)
  BY <1>5, <1>6 DEF ToSet
<1>9. ASSUME NEW x \in ToSet(b.posten), NEW y \in ToSet(schlange') PROVE Frueher(x.tx, y.tx)
  <2>1. PICK i \in I : x = q[i]
    BY <1>6
  <2>2. PICK j \in DOMAIN q \ I : y = q[j]
    BY <1>6
  <2>3. CASE Von[x.tx] = Von[y.tx]
    <3>1. i < j
      BY <1>4, <2>1, <2>2, <2>3
    <3>2. QED BY <1>5, <2>1, <2>2, <3>1 DEF Ordnung, ReihenOK, Aufgereiht
  <2>4. QED BY <2>3 DEF Frueher, SelberSender
<1>10. ASSUME NEW x \in ToSet(b.posten), NEW c \in laufend, NEW y \in ToSet(c.posten)
       PROVE  ~SelberSender(x.tx, y.tx) /\ ~SelberSender(y.tx, x.tx)
  <2>1. Von[x.tx] \notin RohUnterwegs
    BY <1>5, <1>6
  <2>2. Nonce[y.tx] > 0 => Von[y.tx] \in RohUnterwegs
    BY DEF RohUnterwegs, Signierte
  <2>3. QED BY <2>1, <2>2 DEF SelberSender
<1>11. Offene' \subseteq Offene
  BY OffeneNimmt
<1>12. ReihenOK'
  <2>1. \A c \in laufend' : Aufgereiht(c.posten) /\ \A x \in ToSet(c.posten), y \in ToSet(schlange') : Frueher(x.tx, y.tx)
    BY <1>2, <1>7, <1>8, <1>9 DEF Ordnung, ReihenOK
  <2>2. \A c, d \in laufend' : c # d => \A x \in ToSet(c.posten), y \in ToSet(d.posten) : ~SelberSender(x.tx, y.tx)
    BY <1>2, <1>10 DEF Ordnung, ReihenOK
  <2>3. QED BY <1>2, <1>7, <1>11, <2>1, <2>2 DEF Ordnung, ReihenOK
<1>13. QED BY <1>2, <1>11, <1>12, OrdnungPlatz

\* The new rows and their records.
LEMMA NeueZeilenPaarig ==
  ASSUME NEW S, IsFiniteSet(S), \A x \in S : x.seq \in Nat /\ x.tx \in Auftraege,
         \A x, y \in S : x.seq = y.seq => x = y, NEW id \in Nat
  PROVE  /\ \A z \in NeueZeilen(S, id) : z \in Zeilen /\ z.id > id /\ \E x \in S : z.tx = x.tx /\ z.seq = x.seq
         /\ \A x \in S : \E z \in NeueZeilen(S, id) : z.tx = x.tx /\ z.seq = x.seq
         /\ \A y, z \in NeueZeilen(S, id) : y.seq = z.seq => y = z
<1> DEFINE n == Cardinality(S)
           R == Sortiert(S, NachSeq)
           f == [i \in 1 .. n |-> [seq |-> R[i].seq, id |-> id + i, tx |-> R[i].tx]]
<1>1. n \in Nat /\ R \in [1 .. n -> S] /\ (\A x \in S : \E i \in 1 .. n : R[i] = x)
      /\ \A i, j \in 1 .. n : i < j => R[i].seq < R[j].seq
  BY SortiertSaetze
<1>2. NeueZeilen(S, id) = {f[i] : i \in 1 .. n}
  BY <1>1 DEF NeueZeilen
<1> HIDE DEF n, R
<1>3. \A i \in 1 .. n : f[i] \in Zeilen /\ f[i].id = id + i /\ f[i].tx = R[i].tx /\ f[i].seq = R[i].seq /\ R[i] \in S
  BY <1>1 DEF Zeilen
<1> HIDE DEF f
<1>4. \A i \in 1 .. n : f[i].id > id
  BY <1>1, <1>3
<1>5. ASSUME NEW y \in NeueZeilen(S, id), NEW z \in NeueZeilen(S, id), y.seq = z.seq
      PROVE  y = z
  <2>1. PICK i \in 1 .. n : y = f[i]
    BY <1>2
  <2>2. PICK j \in 1 .. n : z = f[j]
    BY <1>2
  <2>3. R[i].seq = R[j].seq /\ R[i].seq \in Nat /\ R[j].seq \in Nat
    BY <1>3, <1>5, <2>1, <2>2
  <2>4. ~(i < j) /\ ~(j < i)
    BY <1>1, <2>3
  <2>5. i = j
    BY <1>1, <2>4
  <2>6. QED BY <2>1, <2>2, <2>5
<1>6. ASSUME NEW x \in S PROVE \E z \in NeueZeilen(S, id) : z.tx = x.tx /\ z.seq = x.seq
  <2>1. PICK i \in 1 .. n : R[i] = x
    BY <1>1
  <2>2. f[i] \in NeueZeilen(S, id)
    BY <1>2
  <2>3. QED BY <1>3, <2>1, <2>2
<1>7. \A z \in NeueZeilen(S, id) : z \in Zeilen /\ z.id > id /\ \E x \in S : z.tx = x.tx /\ z.seq = x.seq
  BY <1>2, <1>3, <1>4
<1>8. QED BY <1>5, <1>6, <1>7

\* Two ordered sequences after each other.
LEMMA VerkettetGereiht ==
  ASSUME NEW q \in Seq(Posten), NEW r \in Seq(Posten), Aufgereiht(q), Aufgereiht(r),
         \A x \in ToSet(q), y \in ToSet(r) : Frueher(x.tx, y.tx)
  PROVE  Aufgereiht(q \o r)
<1> DEFINE s == q \o r
           m == Len(q)
           n == Len(r)
<1>1. /\ s \in Seq(Posten) /\ Len(s) = m + n
      /\ \A i \in 1 .. m : s[i] = q[i]
      /\ \A i \in 1 .. n : s[m + i] = r[i]
  BY MengeVerkettet
<1>2. DOMAIN q = 1 .. m /\ DOMAIN r = 1 .. n /\ DOMAIN s = 1 .. (m + n) /\ m \in Nat /\ n \in Nat
  BY <1>1
<1> HIDE DEF s, m, n
<1>3. ASSUME NEW i \in 1 .. (m + n), ~(i \in 1 .. m) PROVE i - m \in 1 .. n /\ s[i] = r[i - m]
  <2>1. i - m \in 1 .. n /\ i = m + (i - m)
    BY <1>2, <1>3
  <2>2. QED BY <1>1, <2>1
<1>4. ASSUME NEW i \in 1 .. (m + n), NEW j \in 1 .. (m + n), i < j
      PROVE  Frueher(s[i].tx, s[j].tx)
  <2>1. CASE j \in 1 .. m
    <3>1. i \in 1 .. m
      BY <1>2, <1>4, <2>1
    <3>2. QED BY <1>1, <1>2, <1>4, <2>1, <3>1 DEF Aufgereiht
  <2>2. CASE i \in 1 .. m /\ ~(j \in 1 .. m)
    <3>1. s[i] \in ToSet(q) /\ s[j] \in ToSet(r)
      BY <1>1, <1>2, <1>3, <2>2 DEF ToSet
    <3>2. QED BY <3>1
  <2>3. CASE ~(i \in 1 .. m) /\ ~(j \in 1 .. m)
    <3>1. i - m \in DOMAIN r /\ j - m \in DOMAIN r /\ s[i] = r[i - m] /\ s[j] = r[j - m]
      BY <1>2, <1>3, <2>3
    <3>2. i - m < j - m
      BY <1>2, <1>4
    <3>3. QED BY <3>1, <3>2 DEF Aufgereiht
  <2>4. QED BY <1>2, <2>1, <2>2, <2>3
<1>5. QED BY <1>2, <1>4 DEF Aufgereiht, s

\* A failed batch is in front of the queue again.
LEMMA OrdnungScheitert ==
  ASSUME Typ, Ordnung, NEW b \in laufend, FlushScheitert(b)
  PROVE  Ordnung'
<1>1. /\ ToSet(schlange') = ToSet(schlange) \cup ToSet(b.posten) /\ laufend' = laufend \ {b}
      /\ UNCHANGED <<wal, konten, db, korb, schwebend, leert, lauf, kunde>>
  BY FlushScheitertTut
<1>2. schlange' = b.posten \o schlange /\ schlange \in Seq(Posten) /\ b.posten \in Seq(Posten)
  BY BuendelPosten DEF FlushScheitert, Zurueck, Typ
<1>3. Aufgereiht(schlange')
  BY <1>2, VerkettetGereiht DEF Ordnung, ReihenOK
<1>4. Offene' \subseteq Offene
  BY OffeneScheitert
<1>5. ASSUME NEW c \in laufend', NEW x \in ToSet(c.posten), NEW y \in ToSet(schlange')
      PROVE  Frueher(x.tx, y.tx)
  BY <1>1 DEF Ordnung, ReihenOK, Frueher
<1>6. ReihenOK'
  BY <1>1, <1>3, <1>4, <1>5 DEF Ordnung, ReihenOK
<1>7. QED BY <1>1, <1>4, <1>6, OrdnungPlatz

\* The rows of a batch come after all rows of their senders and before what waits.
LEMMA OrdnungSchreibt ==
  ASSUME Typ, Nummern, Salden, Ordnung,
         NEW b \in laufend, NEW G \in SUBSET b.offen, FlushSchreibt(b, G)
  PROVE  Ordnung'
<1> DEFINE P == OhneZeilen(b)
           N == NeueZeilen(P, db.id)
           c == [posten |-> b.posten, offen |-> b.offen \ G]
<1>1. /\ IsFiniteSet(P) /\ P \subseteq Offene
      /\ \A x \in P : x.seq \in Nat /\ x.tx \in Auftraege
      /\ \A x, y \in P : x.seq = y.seq => x = y
      /\ db'.bloecke = db.bloecke /\ db'.zeilen = db.zeilen \cup N
      /\ laufend' = (laufend \ {b}) \cup IF G = b.offen THEN {} ELSE {c}
      /\ UNCHANGED <<wal, konten, schlange, korb, schwebend, leert, lauf, kunde>>
  BY FlushSchreibtTut
<1>2. P # {} => G = b.offen
  BY DEF FlushSchreibt, OhneZeilen
<1>3. db.id \in Nat
  BY DEF Typ, DbTyp
<1>4. /\ \A z \in N : z \in Zeilen /\ z.id > db.id /\ \E x \in P : z.tx = x.tx /\ z.seq = x.seq
      /\ \A y, z \in N : y.seq = z.seq => y = z
  BY <1>1, <1>3, NeueZeilenPaarig
<1>5. c.posten = b.posten
  OBVIOUS
<1> HIDE DEF N, c
<1>6. \A x \in P : x \in ToSet(b.posten) /\ ~x.ohne /\ x \in MitZeile
  BY <1>1 DEF OhneZeilen, MitZeile
<1>7. P # {} => ~korb.an /\ korb.saetze = {}
  BY <1>1, <1>6 DEF Ordnung, ModusOK
<1> HIDE DEF P
<1>8. Offene' \subseteq Offene
  BY OffeneSchreibt
<1>9. ReihenOK'
  <2>1. \A d \in laufend' : \E l \in laufend : d.posten = l.posten /\ (d = l \/ (d = c /\ l = b))
    BY <1>1, <1>5
  <2>2. \A d \in laufend' : /\ Aufgereiht(d.posten)
                            /\ \A x \in ToSet(d.posten), y \in ToSet(schlange') : Frueher(x.tx, y.tx)
    BY <1>1, <2>1 DEF Ordnung, ReihenOK
  <2>3. ASSUME NEW d \in laufend', NEW g \in laufend', d # g, NEW x \in ToSet(d.posten), NEW y \in ToSet(g.posten)
        PROVE  ~SelberSender(x.tx, y.tx)
    <3>1. \A l \in laufend \ {b} : \A v \in ToSet(l.posten), w \in ToSet(b.posten) :
             ~SelberSender(v.tx, w.tx) /\ ~SelberSender(w.tx, v.tx)
      BY DEF Ordnung, ReihenOK
    <3>2. (d \in laufend \ {b} \/ d = c) /\ (g \in laufend \ {b} \/ g = c)
      BY <1>1
    <3>3. QED BY <1>5, <2>3, <3>1, <3>2 DEF Ordnung, ReihenOK
  <2>4. QED BY <1>1, <1>8, <2>2, <2>3 DEF Ordnung, ReihenOK
<1>10. Kopf' = Kopf /\ InKraft' = InKraft /\ MitZeile' \subseteq MitZeile
  BY <1>1, <1>8 DEF Kopf, InKraft, MitZeile
<1>11. Wartend' \subseteq Wartend
  BY <1>1, <1>10 DEF Wartend
<1>12. Dinge' \subseteq Dinge \cup N
  BY <1>1, <1>11 DEF Dinge
<1>13. \A x \in P : Eintrag(x) \in Wartend /\ Eintrag(x) \in Dinge /\ Eintrag(x).tx = x.tx /\ Eintrag(x).seq = x.seq /\ Eintrag(x).id = 0
  BY <1>6 DEF Wartend, Dinge, Eintrag
<1>14. ModusOK'
  <2>1. ASSUME NEW z \in N PROVE z.seq <= wal.naechste
    <3>1. PICK x \in P : z.seq = x.seq
      BY <1>4
    <3>2. x.seq <= Kopf /\ x.seq \in Nat
      BY <1>1 DEF Nummern, PostenNummern
    <3>3. QED BY <3>1, <3>2, KopfTyp
  <2>2. QED BY <1>1, <1>8, <1>10, <2>1 DEF Ordnung, ModusOK
<1>15. FrageOK'
  BY <1>1, <1>8, <1>10 DEF Ordnung, FrageOK
<1>16. ASSUME NEW x \in P, NEW w \in Wartend'
       PROVE  Frueher(x.tx, w.tx)
  <2>1. laufend' = laufend \ {b}
    BY <1>1, <1>2
  <2>2. PICK k \in MitZeile' \cup schwebend' : w = Eintrag(k)
    BY DEF Wartend
  <2>3. w.tx = k.tx
    BY <2>2 DEF Eintrag
  <2>4. CASE k \in schwebend
    <3>1. x \in Offene
      BY <1>1
    <3>2. QED BY <2>3, <2>4, <3>1 DEF Ordnung, ReihenOK
  <2>5. CASE k \in ToSet(schlange)
    BY <1>6, <2>3, <2>5 DEF Ordnung, ReihenOK
  <2>6. CASE \E l \in laufend \ {b} : k \in ToSet(l.posten)
    BY <1>6, <2>3, <2>6 DEF Ordnung, ReihenOK, Frueher
  <2>7. k \in schwebend \/ k \in Offene'
    BY <1>1, <2>2 DEF MitZeile
  <2>8. QED BY <1>1, <2>1, <2>4, <2>5, <2>6, <2>7 DEF Offene
<1>17. StufenOK'
  <2>1. \A z \in N, w \in Wartend' : Frueher(z.tx, w.tx)
    BY <1>4, <1>16
  <2>2. \A i \in DOMAIN db.bloecke, z \in N : Frueher(db.bloecke[i], z.tx)
    BY <1>4, <1>13 DEF Ordnung, StufenOK
  <2>3. QED BY <1>1, <1>11, <1>12, <2>1, <2>2 DEF Ordnung, StufenOK
<1>18. PlaetzeOK'
  <2>1. \A x \in Dinge \cup N : x.seq \in Nat /\ x.id \in Nat
    BY <1>4, DingeInKraft DEF Zeilen
  <2>2. ASSUME NEW x \in Dinge', NEW z \in N, ImBlockVor(x, z), x \in Dinge
        PROVE  Frueher(x.tx, z.tx)
    <3>1. PICK p \in P : z.tx = p.tx /\ z.seq = p.seq
      BY <1>4
    <3>2. ImBlockVor(x, Eintrag(p))
      BY <1>13, <2>2, <3>1 DEF ImBlockVor
    <3>3. Eintrag(p) \in Dinge /\ Eintrag(p).tx = z.tx
      BY <1>13, <3>1
    <3>4. Frueher(x.tx, Eintrag(p).tx)
      BY <2>2, <3>2, <3>3 DEF Ordnung, PlaetzeOK
    <3>5. QED BY <3>3, <3>4
  <2>3. ASSUME NEW z \in N, NEW y \in Dinge', y \in Dinge, ImBlockVor(z, y)
        PROVE  Frueher(z.tx, y.tx)
    <3>1. PICK p \in P : z.tx = p.tx /\ z.seq = p.seq
      BY <1>4
    <3>2. CASE z.seq < y.seq
      <4>1. ImBlockVor(Eintrag(p), y)
        BY <1>13, <3>1, <3>2 DEF ImBlockVor
      <4>2. Eintrag(p) \in Dinge /\ Eintrag(p).tx = z.tx
        BY <1>13, <3>1
      <4>3. Frueher(Eintrag(p).tx, y.tx)
        BY <2>3, <4>1, <4>2 DEF Ordnung, PlaetzeOK
      <4>4. QED BY <4>2, <4>3
    <3>3. CASE z.seq = y.seq
      <4>1. y.id = 0 \/ z.id < y.id
        BY <2>3, <3>3, <2>1 DEF ImBlockVor
      <4>2. y \notin db.zeilen
        <5>1. SUFFICES ASSUME y \in db.zeilen PROVE FALSE
          OBVIOUS
        <5>2. y.id \in 1 .. db.id
          BY <5>1 DEF Nummern, ZeilenNummern
        <5>3. QED BY <1>3, <1>4, <2>1, <4>1, <5>2
      <4>3. y \notin N
        <5>1. y \in N => y = z
          BY <1>4, <3>3
        <5>2. ~ImBlockVor(z, z)
          BY <1>3, <1>4, <2>1 DEF ImBlockVor
        <5>3. QED BY <2>3, <5>1, <5>2
      <4>4. y \in Wartend'
        <5>1. korb'.saetze = {}
          BY <1>1, <1>7, <3>1
        <5>2. QED BY <1>1, <4>2, <4>3, <5>1 DEF Dinge
      <4>5. QED BY <1>16, <3>1, <4>4
    <3>4. QED BY <2>3, <3>2, <3>3 DEF ImBlockVor
  <2>4. ASSUME NEW y \in N, NEW z \in N, ImBlockVor(y, z)
        PROVE  Frueher(y.tx, z.tx)
    <3>1. PICK p \in P : y.tx = p.tx /\ y.seq = p.seq
      BY <1>4
    <3>2. PICK q \in P : z.tx = q.tx /\ z.seq = q.seq
      BY <1>4
    <3>3. y.seq # z.seq
      <4>1. SUFFICES ASSUME y = z PROVE FALSE
        BY <1>4
      <4>2. QED BY <1>3, <1>4, <2>1, <2>4, <4>1 DEF ImBlockVor
    <3>4. ImBlockVor(Eintrag(p), Eintrag(q))
      BY <1>13, <2>4, <3>1, <3>2, <3>3 DEF ImBlockVor
    <3>5. QED BY <1>13, <3>1, <3>2, <3>4 DEF Ordnung, PlaetzeOK
  <2>5. \A x, y \in Dinge : ImBlockVor(x, y) => Frueher(x.tx, y.tx)
    BY DEF Ordnung, PlaetzeOK
  <2>6. ASSUME NEW x \in Dinge', NEW y \in Dinge', ImBlockVor(x, y)
        PROVE  Frueher(x.tx, y.tx)
    <3>1. (x \in Dinge \/ x \in N) /\ (y \in Dinge \/ y \in N)
      BY <1>12
    <3>2. QED BY <2>2, <2>3, <2>4, <2>5, <2>6, <3>1
  <2>7. QED BY <2>6 DEF PlaetzeOK
<1>19. NonceReihe'
  BY <1>1 DEF Ordnung, NonceReihe
<1>20. QED BY <1>9, <1>14, <1>15, <1>17, <1>18, <1>19 DEF Ordnung

\* The row of a serial order is the last of its sender.
LEMMA OrdnungSeriell ==
  ASSUME Typ, Nummern, Salden, Ordnung, NEW t \in leert, SeriellBucht(t)
  PROVE  Ordnung'
<1> DEFINE z == [seq |-> wal.naechste, id |-> db.id + 1, tx |-> t]
<1>1. /\ db'.bloecke = db.bloecke /\ db'.zeilen = db.zeilen \cup {z}
      /\ leert' = leert \ {t}
      /\ kunde'.gestellt = kunde.gestellt /\ kunde'.quittiert = kunde.quittiert \cup {t}
      /\ t \in Auftraege
      /\ UNCHANGED <<wal, schlange, laufend, korb, schwebend, lauf>>
  BY SeriellBuchtTut
<1>2. z.seq = wal.naechste /\ z.id = db.id + 1 /\ z.tx = t
  OBVIOUS
<1> HIDE DEF z
<1>3. t \notin InKraft /\ NonceFrei(t) /\ t \in kunde.gestellt /\ t \notin kunde.quittiert
  BY DEF InKraft, SeriellBucht, Salden, LeertOK, Ordnung, FrageOK
<1>4. \A u \in InKraft : Frueher(u, t)
  BY <1>1, <1>3, Neuestes DEF Ordnung
<1>5. Offene' = Offene /\ MitZeile' = MitZeile /\ InKraft' = InKraft \cup {t} /\ Kopf' = Kopf
  <2>1. Offene' = Offene /\ Kopf' = Kopf
    BY <1>1 DEF Offene, Kopf
  <2>2. InKraft' = InKraft \cup {t}
    BY <1>1, <1>3 DEF InKraft
  <2>3. QED BY <2>1, <2>2 DEF MitZeile
<1>6. Wartend' = Wartend /\ Dinge' = Dinge \cup {z}
  <2>1. Wartend' = Wartend
    BY <1>1, <1>5 DEF Wartend
  <2>2. QED BY <1>1, <2>1 DEF Dinge
<1>7. db.id \in Nat /\ wal.naechste \in Nat /\ wal.naechste = Kopf + 1 /\ Kopf \in Nat
  BY KopfTyp DEF Typ, DbTyp, WalTyp
<1>8. \A w \in Wartend : ~SelberSender(t, w.tx)
  <2>1. ASSUME NEW p \in Offene, SelberSender(t, p.tx) PROVE FALSE
    <3>1. Frueher(p.tx, t) /\ SelberSender(p.tx, t)
      BY <1>4, <2>1, DingeInKraft DEF SelberSender
    <3>2. Nonce[p.tx] < Nonce[t] /\ Nonce[p.tx] >= Nonce[t]
      BY <3>1 DEF Frueher, Ordnung, FrageOK
    <3>3. Nonce[p.tx] \in Nat /\ Nonce[t] \in Nat
      BY <1>1, NonceTyp, OffeneTyp DEF Posten
    <3>4. QED BY <3>2, <3>3
  <2>2. ASSUME NEW e \in schwebend, SelberSender(t, e.tx) PROVE FALSE
    <3>1. Frueher(e.tx, t) /\ SelberSender(e.tx, t)
      BY <1>4, <2>2, DingeInKraft DEF SelberSender
    <3>2. Nonce[e.tx] < Nonce[t] /\ Nonce[e.tx] >= Nonce[t]
      BY <1>3, <3>1, SchwebendLetzter DEF Frueher, Ordnung
    <3>3. Nonce[e.tx] \in Nat /\ Nonce[t] \in Nat
      BY <1>1, NonceTyp DEF Typ, Saetze
    <3>4. QED BY <3>2, <3>3
  <2>3. QED BY <2>1, <2>2 DEF Wartend, MitZeile, Eintrag
<1>9. ModusOK'
  BY <1>1, <1>2, <1>5, <1>7 DEF Ordnung, ModusOK
<1>10. FrageOK'
  <2>1. NonceEindeutig \/ \A u \in InKraft' : Nonce[u] > 0 => konten'[Von[u]].nonce > Nonce[u]
    <3>1. SUFFICES ASSUME ~NonceEindeutig, NEW u \in InKraft', Nonce[u] > 0
                   PROVE  konten'[Von[u]].nonce > Nonce[u]
      OBVIOUS
    <3>2. u \in Auftraege
      BY <1>1, <1>5 DEF InKraft, Typ, KundeTyp
    <3>3. Von[u] \in Konten /\ Von[u] \in Beide(u) /\ Nonce[u] \in Nat
      BY <3>2, BeideKonten
    <3>4. CASE u = t
      BY <3>1, <3>3, <3>4, SeriellWirkt
    <3>5. CASE u \in InKraft
      <4>1. konten[Von[u]].nonce > Nonce[u]
        BY <3>1, <3>5 DEF Ordnung, FrageOK
      <4>2. konten'[Von[u]] = konten[Von[u]] \/ konten'[Von[u]].nonce >= konten[Von[u]].nonce
        BY <3>3, SeriellWirkt
      <4>3. konten'[Von[u]].nonce \in Nat /\ konten[Von[u]].nonce \in Nat
        <5>1. konten' \in [Konten -> Konto] /\ konten \in [Konten -> Konto]
          BY SeriellBuchtTut DEF Typ
        <5>2. QED BY <3>3, <5>1 DEF Konto
      <4>4. QED BY <3>3, <4>1, <4>2, <4>3
    <3>6. QED BY <1>5, <3>4, <3>5
  <2>2. \A e \in schwebend : e.tx # t
    BY <1>3, DingeInKraft
  <2>3. QED BY <1>1, <1>5, <2>1, <2>2 DEF Ordnung, FrageOK
<1>11. ReihenOK'
  BY <1>1, <1>5 DEF Ordnung, ReihenOK
<1>12. StufenOK'
  <2>1. \A i \in DOMAIN db.bloecke : Frueher(db.bloecke[i], t)
    BY <1>4, DingeInKraft
  <2>2. \A w \in Wartend : Frueher(t, w.tx)
    BY <1>8 DEF Frueher
  <2>3. QED BY <1>1, <1>2, <1>6, <2>1, <2>2 DEF Ordnung, StufenOK
<1>13. PlaetzeOK'
  <2>1. \A x \in Dinge : Frueher(x.tx, t) /\ x.seq \in Nat /\ x.id \in Nat
    BY <1>4, DingeInKraft DEF Zeilen
  <2>2. ASSUME NEW x \in Dinge PROVE ~ImBlockVor(z, x)
    <3>1. CASE x \in db.zeilen
      <4>1. x.seq <= wal.naechste /\ x.id <= db.id /\ x.id # 0
        BY <3>1 DEF Ordnung, ModusOK, Nummern, ZeilenNummern
      <4>2. QED BY <1>2, <1>7, <2>1, <4>1 DEF ImBlockVor
    <3>2. CASE \E p \in Offene \cup schwebend \cup korb.saetze : x = Eintrag(p)
      <4>1. PICK p \in Offene \cup schwebend \cup korb.saetze : x = Eintrag(p)
        BY <3>2
      <4>2. x.seq = p.seq
        BY <4>1 DEF Eintrag
      <4>3. p.seq <= Kopf
        BY DEF Nummern, PostenNummern, SchwebNummern, KorbNummern
      <4>4. x.seq < wal.naechste
        BY <1>7, <2>1, <4>2, <4>3
      <4>5. QED BY <1>2, <1>7, <2>1, <4>4 DEF ImBlockVor
    <3>3. QED BY <3>1, <3>2 DEF Dinge, Wartend, MitZeile
  <2>3. ~ImBlockVor(z, z)
    BY <1>2, <1>7 DEF ImBlockVor
  <2>4. QED BY <1>2, <1>6, <2>1, <2>2, <2>3 DEF Ordnung, PlaetzeOK
<1>14. NonceReihe'
  BY <1>1 DEF Ordnung, NonceReihe
<1>15. QED BY <1>9, <1>10, <1>11, <1>12, <1>13, <1>14 DEF Ordnung

\* BlockFolge meets each entry once, in order.
LEMMA BlockFolgeReihe ==
  ASSUME NEW E \in SUBSET Zeilen, IsFiniteSet(E),
         \A x, y \in E : x.seq = y.seq /\ x.id = y.id => x = y
  PROVE  LET n == Cardinality(E)
             s == BlockFolge(E)
         IN  /\ n \in Nat /\ s \in [1 .. n -> E]
             /\ \A i, j \in 1 .. n : i < j => ImBlockVor(s[i], s[j])
             /\ \A x \in E : \E i \in 1 .. n : s[i] = x
<1> DEFINE vor == {p \in E \X E : ImBlockVor(p[1], p[2])}
           n == Cardinality(E)
           s == BlockFolge(E)
<1>1. \A x, y \in E : <<x, y>> \in vor <=> ImBlockVor(x, y)
  OBVIOUS
<1> HIDE DEF vor
<1>2. Ordnet(vor, E)
  <2>1. \A x \in E : x.seq \in Nat /\ x.id \in Nat
    BY DEF Zeilen
  <2>2. \A x, y \in E : x # y => ImBlockVor(x, y) \/ ImBlockVor(y, x)
    BY <2>1 DEF ImBlockVor
  <2>3. \A x, y, z \in E : ImBlockVor(x, y) /\ ImBlockVor(y, z) => ImBlockVor(x, z)
    BY <2>1 DEF ImBlockVor
  <2>4. \A x \in E : ~ImBlockVor(x, x)
    BY <2>1 DEF ImBlockVor
  <2>5. QED BY <1>1, <2>2, <2>3, <2>4 DEF Ordnet
<1>3. \E q \in [1 .. n -> E] : \A i, j \in 1 .. n : i < j => ImBlockVor(q[i], q[j])
  <2>1. PICK q \in [1 .. n -> E] : Steigend(q, n, vor)
    BY <1>2, ReiheGibtEs
  <2>2. QED BY <1>1, <2>1 DEF Steigend
<1>4. s \in [1 .. n -> E] /\ \A i, j \in 1 .. n : i < j => ImBlockVor(s[i], s[j])
  BY <1>3 DEF BlockFolge, Sortiert
<1> HIDE DEF s
<1>5. n \in Nat
  BY FS_CardinalityType
<1>6. Steigend(s, n, vor)
  BY <1>1, <1>4 DEF Steigend
<1>7. \A x \in E : \E i \in 1 .. n : s[i] = x
  BY <1>2, <1>4, <1>6, ReiheTrifft
<1>8. QED BY <1>4, <1>5, <1>7 DEF s

\* Up to which record a block goes, and what it takes.
BlockBis == Max({korb.bis} \cup Seqs(Bereit))
Inhalt ==
  IF korb.an THEN {Eintrag(e) : e \in Bereit} \cup {z \in db.zeilen : z.seq <= BlockBis + 1} ELSE db.zeilen

\* The entries of a block.
LEMMA InhaltTyp ==
  ASSUME Typ, Nummern
  PROVE  /\ Inhalt \in SUBSET Zeilen /\ IsFiniteSet(Inhalt)
         /\ \A x, y \in Inhalt : x.seq = y.seq /\ x.id = y.id => x = y
         /\ BlockBis \in Nat /\ BlockBis \in {korb.bis} \cup Seqs(Bereit) /\ BlockBis >= korb.bis
         /\ \A e \in Bereit : e.seq <= BlockBis
<1>1. Bereit \subseteq korb.saetze /\ IsFiniteSet(Bereit) /\ \A e \in Bereit : e.seq \in Nat /\ e.tx \in Auftraege
  BY BereitTyp
<1>2. /\ BlockBis \in Nat /\ BlockBis \in {korb.bis} \cup Seqs(Bereit) /\ BlockBis >= korb.bis
      /\ \A e \in Bereit : e.seq <= BlockBis
  <2>1. IsFiniteSet(Seqs(Bereit)) /\ Seqs(Bereit) \in SUBSET Nat
    BY <1>1, SeqsEndlich
  <2>2. korb.bis \in Nat
    BY DEF Typ, KorbTyp
  <2>3. /\ BlockBis \in Nat /\ BlockBis \in {korb.bis} \cup Seqs(Bereit) /\ korb.bis <= BlockBis
        /\ \A x \in Seqs(Bereit) : x <= BlockBis
    BY <2>1, <2>2, MaxMit DEF BlockBis
  <2>4. QED BY <2>2, <2>3 DEF Seqs
<1>3. db.zeilen \in SUBSET Zeilen /\ IsFiniteSet(db.zeilen)
  BY DEF Typ, DbTyp
<1> DEFINE f == [e \in Bereit |-> Eintrag(e)]
<1>4. {Eintrag(e) : e \in Bereit} \in SUBSET Zeilen /\ IsFiniteSet({Eintrag(e) : e \in Bereit})
  <2>1. IsFiniteSet({f[e] : e \in Bereit})
    BY <1>1, BildEndlich
  <2>2. {f[e] : e \in Bereit} = {Eintrag(e) : e \in Bereit}
    OBVIOUS
  <2>3. \A e \in Bereit : Eintrag(e) \in Zeilen
    BY <1>1 DEF Eintrag, Zeilen
  <2>4. QED BY <2>1, <2>2, <2>3
<1>5. Inhalt \in SUBSET Zeilen /\ IsFiniteSet(Inhalt)
  <2> DEFINE Z == {z \in db.zeilen : z.seq <= BlockBis + 1}
  <2>1. IsFiniteSet(Z) /\ Z \in SUBSET Zeilen
    BY <1>3, FS_Subset
  <2> HIDE DEF Z
  <2>2. IsFiniteSet({Eintrag(e) : e \in Bereit} \cup Z)
    BY <1>4, <2>1, FS_Union
  <2>3. Inhalt = IF korb.an THEN {Eintrag(e) : e \in Bereit} \cup Z ELSE db.zeilen
    BY DEF Inhalt, Z
  <2>4. QED BY <1>3, <1>4, <2>1, <2>2, <2>3
<1>6. \A x, y \in Inhalt : x.seq = y.seq /\ x.id = y.id => x = y
  <2>1. \A x \in Inhalt : (\E e \in korb.saetze : x = Eintrag(e)) \/ x \in db.zeilen
    BY <1>1 DEF Inhalt
  <2>2. \A e, g \in korb.saetze : e.seq = g.seq => Eintrag(e) = Eintrag(g)
    BY DEF Nummern, KorbNummern
  <2>3. \A z \in db.zeilen : z.id # 0
    BY DEF Nummern, ZeilenNummern
  <2>4. \A e \in korb.saetze : Eintrag(e).id = 0 /\ Eintrag(e).seq = e.seq
    BY DEF Eintrag
  <2>5. \A y, z \in db.zeilen : y.id = z.id => y = z
    BY DEF Nummern, ZeilenNummern
  <2>6. QED BY <2>1, <2>2, <2>3, <2>4, <2>5
<1>7. QED BY <1>2, <1>5, <1>6

\* The orders a block appends.
Angefuegt(n, s) ==
  /\ s \in [1 .. n -> Inhalt]
  /\ \A i, j \in 1 .. n : i < j => ImBlockVor(s[i], s[j])
  /\ \A x \in Inhalt : \E i \in 1 .. n : s[i] = x
  /\ DOMAIN db'.bloecke = 1 .. (Len(db.bloecke) + n)
  /\ \A i \in 1 .. Len(db.bloecke) : db'.bloecke[i] = db.bloecke[i]
  /\ \A i \in 1 .. n : db'.bloecke[Len(db.bloecke) + i] = s[i].tx

\* What a block appends and takes away.
LEMMA BlockWirkt ==
  ASSUME Typ, Nummern, Block
  PROVE  /\ \E n \in Nat : \E s : Angefuegt(n, s)
         /\ db'.zeilen = db.zeilen \ Inhalt
         /\ korb.an => /\ korb'.saetze = korb.saetze \ Bereit /\ korb'.bis = BlockBis /\ korb'.an = korb.an
                       /\ korb'.ab = Max({korb.ab, BlockBis + 1}) /\ korb'.fehlt = korb.fehlt
                       /\ db'.marke = BlockBis
         /\ ~korb.an => korb' = korb /\ db'.marke = db.marke
<1> DEFINE n == Cardinality(Inhalt)
           s == BlockFolge(Inhalt)
           txs == [i \in 1 .. n |-> s[i].tx]
<1>1. /\ n \in Nat /\ s \in [1 .. n -> Inhalt]
      /\ \A i, j \in 1 .. n : i < j => ImBlockVor(s[i], s[j])
      /\ \A x \in Inhalt : \E i \in 1 .. n : s[i] = x
  BY InhaltTyp, BlockFolgeReihe
<1>2. /\ db' = [db EXCEPT !.bloecke = @ \o txs, !.zeilen = @ \ Inhalt,
                          !.marke = IF korb.an THEN BlockBis ELSE @]
      /\ korb' = IF korb.an
                 THEN [korb EXCEPT !.bis = BlockBis, !.ab = Max({@, BlockBis + 1}), !.saetze = @ \ Bereit]
                 ELSE korb
  BY DEF Block, Inhalt, BlockBis
<1>3. db \in DbTyp /\ db.bloecke \in Seq(Auftraege) /\ korb \in KorbTyp
  BY DEF Typ, DbTyp
<1>4. \A x \in Inhalt : x.tx \in Auftraege
  BY InhaltTyp DEF Zeilen
<1> HIDE DEF n, s
<1>5. txs \in Seq(Auftraege) /\ DOMAIN txs = 1 .. n /\ Len(txs) = n /\ \A i \in 1 .. n : txs[i] = s[i].tx
  BY <1>1, <1>4
<1> HIDE DEF txs
<1>6. db'.bloecke = db.bloecke \o txs /\ db'.zeilen = db.zeilen \ Inhalt
  BY <1>2, <1>3 DEF DbTyp
<1>7. /\ Len(db.bloecke \o txs) = Len(db.bloecke) + n /\ db.bloecke \o txs \in Seq(Auftraege)
      /\ \A i \in 1 .. Len(db.bloecke) : (db.bloecke \o txs)[i] = db.bloecke[i]
      /\ \A i \in 1 .. n : (db.bloecke \o txs)[Len(db.bloecke) + i] = txs[i]
  <2> DEFINE q == db.bloecke
  <2>1. q \in Seq(Auftraege) /\ txs \in Seq(Auftraege)
    BY <1>3, <1>5
  <2> HIDE DEF q
  <2>2. /\ q \o txs \in Seq(Auftraege) /\ Len(q \o txs) = Len(q) + Len(txs)
        /\ \A i \in 1 .. Len(q) : (q \o txs)[i] = q[i]
        /\ \A i \in 1 .. Len(txs) : (q \o txs)[Len(q) + i] = txs[i]
    BY <2>1, MengeVerkettet
  <2>3. QED BY <1>5, <2>2 DEF q
<1>8. DOMAIN (db.bloecke \o txs) = 1 .. (Len(db.bloecke) + n)
  BY <1>7
<1>9. Angefuegt(n, s)
  BY <1>1, <1>5, <1>6, <1>7, <1>8 DEF Angefuegt
<1>10. korb.an => /\ korb'.saetze = korb.saetze \ Bereit /\ korb'.bis = BlockBis /\ korb'.an = korb.an
                  /\ korb'.ab = Max({korb.ab, BlockBis + 1}) /\ korb'.fehlt = korb.fehlt
                  /\ db'.marke = BlockBis
  <2>1. SUFFICES ASSUME korb.an
                 PROVE  /\ korb'.saetze = korb.saetze \ Bereit /\ korb'.bis = BlockBis /\ korb'.an = korb.an
                        /\ korb'.ab = Max({korb.ab, BlockBis + 1}) /\ korb'.fehlt = korb.fehlt
                        /\ db'.marke = BlockBis
    OBVIOUS
  <2> DEFINE m == Max({korb.ab, BlockBis + 1})
  <2>2. korb' = [korb EXCEPT !.bis = BlockBis, !.ab = m, !.saetze = @ \ Bereit]
    BY <1>2, <2>1
  <2> HIDE DEF m
  <2>3. /\ korb'.saetze = korb.saetze \ Bereit /\ korb'.bis = BlockBis /\ korb'.an = korb.an
        /\ korb'.ab = m /\ korb'.fehlt = korb.fehlt
    BY <1>3, <2>2 DEF KorbTyp
  <2>4. db'.marke = BlockBis
    BY <1>2, <1>3, <2>1 DEF DbTyp
  <2>5. QED BY <2>3, <2>4 DEF m
<1>11. ~korb.an => korb' = korb /\ db'.marke = db.marke
  BY <1>2, <1>3 DEF DbTyp
<1>12. QED BY <1>1, <1>6, <1>9, <1>10, <1>11

\* What the Korb keeps, and what floats, comes after all that a block takes.
LEMMA UebrigSpaeter ==
  ASSUME Typ, Nummern, ModusOK, korb.an, NEW e \in (korb.saetze \ Bereit) \cup schwebend
  PROVE  e.seq >= BlockBis + 1
<1>1. /\ BlockBis \in Nat /\ BlockBis \in {korb.bis} \cup Seqs(Bereit)
  BY InhaltTyp
<1>2. e.seq \in Nat /\ e.seq >= korb.ab /\ korb.ab = korb.bis + 1 /\ korb.bis \in Nat /\ wal.haltbar \in Nat
  BY DEF Typ, KorbTyp, WalTyp, Saetze, ModusOK
<1>3. CASE BlockBis = korb.bis
  BY <1>2, <1>3
<1>4. CASE BlockBis \in Seqs(Bereit)
  <2>1. PICK g \in Bereit : g.seq = BlockBis
    BY <1>4 DEF Seqs
  <2>2. SUFFICES ASSUME e.seq <= g.seq PROVE FALSE
    BY <1>1, <1>2, <2>1
  <2>3. g.seq <= wal.haltbar /\ korb.ab .. g.seq \subseteq Seqs(korb.saetze) /\ g.seq \in Nat
    BY <1>1, <2>1 DEF Bereit, ModusOK
  <2>4. e.seq \in korb.ab .. g.seq
    BY <1>2, <2>2, <2>3
  <2>5. CASE e \in schwebend
    <3>1. PICK k \in korb.saetze : k.seq = e.seq
      BY <2>3, <2>4 DEF Seqs
    <3>2. QED BY <2>5, <3>1 DEF Nummern, SchwebNummern
  <2>6. CASE e \in korb.saetze \ Bereit
    <3>1. e.seq <= wal.haltbar
      BY <1>2, <2>2, <2>3
    <3>2. korb.ab .. e.seq \subseteq korb.ab .. g.seq
      BY <1>2, <2>2, <2>3
    <3>3. korb.ab .. e.seq \subseteq Seqs(korb.saetze) \cup korb.fehlt
      BY <2>3, <3>2
    <3>4. e \in Bereit
      BY <2>6, <3>1, <3>3 DEF Bereit
    <3>5. QED BY <2>6, <3>4
  <2>7. QED BY <2>5, <2>6
<1>5. QED BY <1>1, <1>3, <1>4

\* A block goes on where the last one ended, and takes all that comes first.
LEMMA OrdnungBlock ==
  ASSUME Typ, Nummern, Salden, Ordnung, Block
  PROVE  Ordnung'
<1>1. UNCHANGED <<wal, konten, schlange, laufend, schwebend, leert, lauf, kunde, zaehler>>
  BY BlockTut
<1>2. /\ \E n \in Nat : \E s : Angefuegt(n, s)
      /\ db'.zeilen = db.zeilen \ Inhalt
      /\ korb.an => /\ korb'.saetze = korb.saetze \ Bereit /\ korb'.bis = BlockBis /\ korb'.an = korb.an
                    /\ korb'.ab = Max({korb.ab, BlockBis + 1}) /\ korb'.fehlt = korb.fehlt
      /\ ~korb.an => korb' = korb
  BY BlockWirkt
<1>3. Offene' = Offene /\ MitZeile' = MitZeile /\ Kopf' = Kopf /\ InKraft' = InKraft
  <2>1. Offene' = Offene /\ Kopf' = Kopf /\ InKraft' = InKraft
    BY <1>1 DEF Offene, Kopf, InKraft
  <2>2. QED BY <2>1 DEF MitZeile
<1>4. Wartend' = Wartend
  BY <1>1, <1>3 DEF Wartend
<1>5. korb'.saetze \subseteq korb.saetze
  BY <1>2
<1>6. Dinge' \subseteq Dinge
  BY <1>2, <1>4, <1>5 DEF Dinge
<1>7. ModusOK'
  <2>1. \A z \in db'.zeilen : z.seq <= wal'.naechste
    BY <1>1, <1>2 DEF Ordnung, ModusOK
  <2>2. CASE ~korb.an
    BY <1>1, <1>2, <1>3, <2>1, <2>2 DEF Ordnung, ModusOK
  <2>3. CASE korb.an
    <3>1. korb'.ab = korb'.bis + 1
      <4>1. BlockBis \in Nat /\ BlockBis >= korb.bis /\ korb.bis \in Nat /\ korb.ab = korb.bis + 1
        BY InhaltTyp DEF Ordnung, ModusOK, Typ, KorbTyp
      <4>2. Max({korb.ab, BlockBis + 1}) = BlockBis + 1
        <5>1. korb.ab \in Nat /\ BlockBis + 1 \in Nat /\ korb.ab <= BlockBis + 1
          BY <4>1
        <5>2. /\ Max({korb.ab, BlockBis + 1}) \in {korb.ab, BlockBis + 1}
              /\ Max({korb.ab, BlockBis + 1}) >= BlockBis + 1
          BY <5>1, GroesseresNat
        <5>3. QED BY <5>1, <5>2
      <4>3. QED BY <1>2, <2>3, <4>2
    <3>2. korb'.bis <= Kopf
      <4>1. BlockBis \in {korb.bis} \cup Seqs(Bereit) /\ Bereit \subseteq korb.saetze
        BY InhaltTyp, BereitTyp
      <4>2. korb.bis <= Kopf /\ \A e \in korb.saetze : e.seq <= Kopf
        BY DEF Ordnung, ModusOK, Nummern, KorbNummern
      <4>3. QED BY <1>2, <2>3, <4>1, <4>2 DEF Seqs
    <3>3. \A e \in korb'.saetze \cup schwebend' : e.seq >= korb'.ab
      BY <1>1, <1>2, <2>3, <3>1, UebrigSpaeter DEF Ordnung
    <3>4. QED BY <1>1, <1>2, <1>3, <2>1, <2>3, <3>1, <3>2, <3>3 DEF Ordnung, ModusOK
  <2>4. QED BY <2>2, <2>3
<1>8. FrageOK'
  BY <1>1, <1>3 DEF Ordnung, FrageOK
<1>9. ReihenOK'
  BY <1>1, <1>3 DEF Ordnung, ReihenOK
<1>10. PlaetzeOK'
  BY <1>6 DEF Ordnung, PlaetzeOK
<1>11. ASSUME NEW x \in Inhalt, NEW d \in Dinge'
       PROVE  Frueher(x.tx, d.tx)
  <2>1. CASE ~korb.an
    <3>1. x \in db.zeilen
      BY <2>1 DEF Inhalt
    <3>2. db'.zeilen = {} /\ korb'.saetze = {}
      BY <1>2, <2>1 DEF Inhalt, Ordnung, ModusOK
    <3>3. d \in Wartend
      BY <1>4, <3>2 DEF Dinge
    <3>4. QED BY <3>1, <3>3 DEF Ordnung, StufenOK
  <2>2. CASE korb.an
    <3>1. x \in Dinge /\ d \in Dinge
      <4>1. x \in db.zeilen \/ \E e \in korb.saetze : x = Eintrag(e)
        BY <2>2, BereitTyp DEF Inhalt
      <4>2. QED BY <1>6, <4>1 DEF Dinge
    <3>2. x.seq \in Nat /\ x.id \in Nat /\ d.seq \in Nat /\ d.id \in Nat /\ BlockBis \in Nat
      BY <3>1, DingeInKraft, InhaltTyp DEF Zeilen
    <3>3. x.seq <= BlockBis \/ (x.seq <= BlockBis + 1 /\ x.id # 0)
      <4>1. CASE \E e \in Bereit : x = Eintrag(e)
        BY <4>1, InhaltTyp DEF Eintrag
      <4>2. CASE x \in db.zeilen /\ x.seq <= BlockBis + 1
        <5>1. x.id # 0
          BY <4>2 DEF Nummern, ZeilenNummern
        <5>2. QED BY <4>2, <5>1
      <4>3. QED BY <2>2, <4>1, <4>2 DEF Inhalt
    <3>4. d.seq > BlockBis + 1 \/ (d.seq >= BlockBis + 1 /\ d.id = 0)
      <4>1. CASE d \in db'.zeilen
        BY <1>2, <2>2, <3>2, <4>1 DEF Inhalt
      <4>2. CASE \E e \in (korb.saetze \ Bereit) \cup schwebend : d = Eintrag(e)
        BY <2>2, <4>2, UebrigSpaeter DEF Eintrag, Ordnung
      <4>3. MitZeile = {}
        BY <2>2 DEF MitZeile, Ordnung, ModusOK
      <4>4. QED BY <1>1, <1>2, <1>3, <2>2, <4>1, <4>2, <4>3 DEF Dinge, Wartend
    <3>5. ImBlockVor(x, d)
      BY <3>2, <3>3, <3>4 DEF ImBlockVor
    <3>6. QED BY <3>1, <3>5 DEF Ordnung, PlaetzeOK
  <2>3. QED BY <2>1, <2>2
<1>12. PICK n \in Nat : \E s : Angefuegt(n, s)
  BY <1>2
<1>13. PICK s : Angefuegt(n, s)
  BY <1>12
<1> DEFINE m == Len(db.bloecke)
<1>14. m \in Nat /\ DOMAIN db.bloecke = 1 .. m
  BY DEF Typ, DbTyp
<1> HIDE DEF m
<1>15. /\ DOMAIN db'.bloecke = 1 .. (m + n)
       /\ \A i \in 1 .. m : db'.bloecke[i] = db.bloecke[i]
       /\ \A i \in 1 .. n : db'.bloecke[m + i] = s[i].tx /\ s[i] \in Inhalt
       /\ \A i, j \in 1 .. n : i < j => ImBlockVor(s[i], s[j])
  BY <1>13 DEF Angefuegt, m
<1>16. \A i \in DOMAIN db'.bloecke : i \in 1 .. m \/ \E k \in 1 .. n : i = m + k
  <2>1. SUFFICES ASSUME NEW i \in 1 .. (m + n), ~(i \in 1 .. m) PROVE i - m \in 1 .. n /\ i = m + (i - m)
    BY <1>15
  <2>2. QED BY <1>14, <2>1
<1>17. Inhalt \subseteq Dinge
  <2>1. \A x \in Inhalt : x \in db.zeilen \/ \E e \in korb.saetze : x = Eintrag(e)
    BY BereitTyp DEF Inhalt
  <2>2. QED BY <2>1 DEF Dinge
<1>18. StufenOK'
  <2>1. \A z \in db'.zeilen, w \in Wartend' : Frueher(z.tx, w.tx)
    BY <1>2, <1>4 DEF Ordnung, StufenOK
  <2>2. ASSUME NEW i \in DOMAIN db'.bloecke, NEW d \in Dinge'
        PROVE  Frueher(db'.bloecke[i], d.tx)
    <3>1. CASE i \in 1 .. m
      BY <1>6, <1>14, <1>15, <3>1 DEF Ordnung, StufenOK
    <3>2. CASE \E k \in 1 .. n : i = m + k
      BY <1>11, <1>15, <3>2
    <3>3. QED BY <1>16, <3>1, <3>2
  <2>3. QED BY <2>1, <2>2 DEF StufenOK
<1>19. NonceReihe'
  <2>1. ASSUME NEW i \in 1 .. (m + n), NEW j \in 1 .. (m + n), i < j
        PROVE  Frueher(db'.bloecke[i], db'.bloecke[j])
    <3>1. CASE j \in 1 .. m
      <4>1. i \in 1 .. (j - 1) /\ i \in 1 .. m
        BY <1>14, <2>1, <3>1
      <4>2. QED BY <1>14, <1>15, <3>1, <4>1 DEF Ordnung, NonceReihe, Frueher, SelberSender
    <3>2. CASE i \in 1 .. m /\ \E k \in 1 .. n : j = m + k
      <4>1. PICK k \in 1 .. n : j = m + k
        BY <3>2
      <4>2. s[k] \in Dinge /\ db'.bloecke[j] = s[k].tx
        BY <1>15, <1>17, <4>1
      <4>3. QED BY <1>14, <1>15, <3>2, <4>2 DEF Ordnung, StufenOK
    <3>3. CASE (\E k \in 1 .. n : i = m + k) /\ (\E k \in 1 .. n : j = m + k)
      <4>1. PICK k \in 1 .. n : i = m + k
        BY <3>3
      <4>2. PICK l \in 1 .. n : j = m + l
        BY <3>3
      <4>3. k < l
        BY <1>14, <2>1, <4>1, <4>2
      <4>4. s[k] \in Dinge /\ s[l] \in Dinge /\ ImBlockVor(s[k], s[l])
        BY <1>15, <1>17, <4>3
      <4>5. Frueher(s[k].tx, s[l].tx)
        BY <4>4 DEF Ordnung, PlaetzeOK
      <4>6. QED BY <1>15, <4>1, <4>2, <4>5
    <3>4. CASE (\E k \in 1 .. n : i = m + k) /\ j \in 1 .. m
      BY <1>14, <2>1, <3>4
    <3>5. QED BY <1>15, <1>16, <3>1, <3>2, <3>3, <3>4
  <2>2. ASSUME NEW j \in DOMAIN db'.bloecke, NEW i \in 1 .. (j - 1)
        PROVE  Frueher(db'.bloecke[i], db'.bloecke[j])
    <3>1. i \in 1 .. (m + n) /\ j \in 1 .. (m + n) /\ i < j
      BY <1>14, <1>15, <2>2
    <3>2. QED BY <2>1, <3>1
  <2>3. QED BY <2>2 DEF NonceReihe, Frueher, SelberSender
<1>20. QED BY <1>7, <1>8, <1>9, <1>10, <1>18, <1>19 DEF Ordnung

\* Every step of the first life.
LEMMA OrdnungSchritt ==
  ASSUME Nacheinander, ~ErsatzUnterbrochen, NonceEindeutig \/ MaxErsatz = 0,
         Typ, Nummern, Salden, Unterwegs, OrdnungOK, [Next]_vars
  PROVE  OrdnungOK'
<1>1. SUFFICES ASSUME zaehler'.abstuerze = 0 PROVE Ordnung'
  BY DEF OrdnungOK
<1>2. CASE UNCHANGED vars
  <2>1. UNCHANGED <<wal, konten, db, schlange, laufend, korb, schwebend, leert, lauf, kunde, zaehler>>
    BY <1>2 DEF vars
  <2>2. Ordnung
    BY <1>1, <2>1 DEF OrdnungOK
  <2>3. Offene' = Offene /\ Kopf' = Kopf /\ InKraft' = InKraft
    BY <2>1 DEF Offene, Kopf, InKraft
  <2>4. ModusOK' /\ FrageOK'
    BY <2>1, <2>2, <2>3 DEF Ordnung, ModusOK, FrageOK
  <2>5. QED BY <2>1, <2>2, <2>4, OrdnungStill
<1>3. CASE Next
  <2>1. zaehler.abstuerze = 0 /\ ~(\E bis \in 0 .. Kopf : Absturz(bis))
    <3>1. zaehler.abstuerze \in Nat
      BY DEF Typ, ZaehlerTyp
    <3>2. QED BY <1>1, <1>3, <3>1, ZaehlerTut
  <2>2. Ordnung /\ lauf = "laeuft"
    BY <2>1 DEF OrdnungOK, Ordnung, ModusOK
  <2>3. ~(\E an \in BOOLEAN : Einspielen(an)) /\ ~Anschluss
    BY <2>2 DEF Einspielen, Anschluss
  <2>4. CASE \E t \in Auftraege : Anhaengen(t)
    BY <2>2, <2>4, OrdnungAnhaengen
  <2>5. CASE \E t \in Auftraege : SeriellBeginnt(t)
    BY <2>2, <2>5, OrdnungBeginnt
  <2>6. CASE \E e \in schwebend : Einreihen(e)
    BY <2>2, <2>6, OrdnungEinreihen
  <2>7. CASE \E bis \in 1 .. Kopf : Sichern(bis)
    BY <2>2, <2>7, OrdnungSichern
  <2>8. CASE FlushNimmt
    BY <2>2, <2>8, OrdnungNimmt
  <2>9. CASE \E b \in laufend : FlushScheitert(b)
    BY <2>2, <2>9, OrdnungScheitert
  <2>10. CASE \E b \in laufend : \E G \in SUBSET b.offen : FlushSchreibt(b, G)
    BY <2>2, <2>10, OrdnungSchreibt
  <2>11. CASE \E t \in leert : SeriellBucht(t)
    BY <2>2, <2>11, OrdnungSeriell
  <2>12. CASE \E t \in leert : SeriellAbgelehnt(t)
    BY <2>2, <2>12, OrdnungAbgelehnt
  <2>13. CASE Block
    BY <2>2, <2>13, OrdnungBlock
  <2>14. CASE \E gross \in BOOLEAN : Kuerzen(gross)
    BY <2>2, <2>14, OrdnungKuerzen
  <2>15. CASE \E u \in BOOLEAN : Ersatz(u)
    <3>1. PICK u \in BOOLEAN : Ersatz(u)
      BY <2>15
    <3>2. u = FALSE /\ MaxErsatz # 0
      <4>1. zaehler.ersatz \in Nat /\ zaehler.ersatz < MaxErsatz
        BY <3>1 DEF Ersatz, Typ, ZaehlerTyp
      <4>2. MaxErsatz # 0
        BY <4>1
      <4>3. QED BY <3>1, <4>2, ErsatzTut
    <3>3. QED BY <2>2, <3>1, <3>2, OrdnungErsatz
  <2>16. QED BY <1>3, <2>1, <2>3, <2>4, <2>5, <2>6, <2>7, <2>8, <2>9, <2>10, <2>11, <2>12, <2>13, <2>14, <2>15 DEF Next
<1>4. QED BY <1>2, <1>3

\* At the beginning nothing is on its way.
LEMMA OrdnungAnfang == Init => OrdnungOK
<1> SUFFICES ASSUME Init PROVE OrdnungOK
  OBVIOUS
<1>1. /\ wal.saetze = {} /\ wal.naechste = 1 /\ lauf = "laeuft"
      /\ schlange = <<>> /\ laufend = {} /\ schwebend = {} /\ leert = {}
      /\ kunde.gestellt = {} /\ kunde.quittiert = {}
  BY DEF Init
<1>2. db.zeilen = {} /\ db.bloecke = <<>> /\ korb.bis = 0 /\ korb.ab = 1 /\ korb.fehlt = {} /\ korb.saetze = {}
  <2>1. PICK an \in {w[1] : w \in Wechsel} :
          /\ korb = [an |-> an, ab |-> 1, bis |-> 0, fehlt |-> {}, saetze |-> {}]
          /\ db = [konten |-> konten, zeilen |-> {}, id |-> 0, vermerke |-> {}, ab |-> 1,
                   markeDa |-> an, marke |-> 0, boden |-> 0, bloecke |-> <<>>]
    BY DEF Init
  <2>2. QED BY <2>1
<1>3. Kopf = 0 /\ Offene = {} /\ InKraft = {}
  BY <1>1 DEF Kopf, Offene, ToSet, InKraft
<1>4. Wartend = {} /\ Dinge = {}
  BY <1>1, <1>2, <1>3 DEF Dinge, Wartend, MitZeile
<1>5. ModusOK /\ FrageOK
  BY <1>1, <1>2, <1>3 DEF ModusOK, FrageOK
<1>6. ReihenOK
  BY <1>1, <1>3 DEF ReihenOK, Aufgereiht
<1>7. StufenOK /\ PlaetzeOK
  BY <1>2, <1>4 DEF StufenOK, PlaetzeOK
<1>8. NonceReihe
  BY <1>2 DEF NonceReihe
<1>9. QED BY <1>5, <1>6, <1>7, <1>8 DEF OrdnungOK, Ordnung

\* Until a crash the nonces of a sender ascend in the blocks (flushWALQueue,
\* walVorSeriellLeeren, walRohAuswahlLocked), if each sender awaits its answers, and if
\* a replacement of the state, should there be one, finds no nonce used twice.
THEOREM NonceReiheOhneAbsturzGilt ==
  ASSUME Nacheinander, ~ErsatzUnterbrochen, NonceEindeutig \/ MaxErsatz = 0
  PROVE  Spec => []NonceReiheOhneAbsturz
<1> DEFINE I == Typ /\ Nummern /\ Salden /\ Unterwegs /\ OrdnungOK
<1>1. I /\ [Next]_vars => I'
  BY TypSchritt, SaldenSchritt, UnterwegsSchritt, OrdnungSchritt
<1>2. Init => I
  BY TypAnfang, SaldenAnfang, UnterwegsAnfang, OrdnungAnfang
<1>3. I => NonceReiheOhneAbsturz
  BY DEF OrdnungOK, Ordnung, NonceReiheOhneAbsturz
<1> HIDE DEF I
<1>4. QED BY <1>1, <1>2, <1>3, PTL DEF Spec

-----------------------------------------------------------------------------
(***************************************************************************)
(* One way at most.  Whatever will be in a block (Dinge) is there once for *)
(* each order and not yet in one; queue and batches hold an item once.     *)
(***************************************************************************)
\* An order has one number.
Nummerierte     == wal.saetze \cup Offene \cup schwebend \cup korb.saetze
NummerJeAuftrag == \A x, y \in Nummerierte : x.tx = y.tx => x.seq = y.seq

\* An item stands in one place.
EinmalReihe(q) == \A i, j \in DOMAIN q : q[i].seq = q[j].seq => i = j
PostenEinmal ==
  /\ EinmalReihe(schlange)
  /\ \A b \in laufend : /\ EinmalReihe(b.posten)
                        /\ \A p \in ToSet(b.posten), q \in ToSet(schlange) : p.seq # q.seq
  /\ \A b, c \in laufend : b # c => \A p \in ToSet(b.posten), q \in ToSet(c.posten) : p.seq # q.seq

\* An order is in one block, or on one way there.
WegEinmal ==
  /\ \A i, j \in DOMAIN db.bloecke : db.bloecke[i] = db.bloecke[j] => i = j
  /\ \A i \in DOMAIN db.bloecke, d \in Dinge : db.bloecke[i] # d.tx
  /\ \A x, y \in Dinge : x.tx = y.tx => x = y
  /\ \A p \in MitZeile, k \in korb.saetze : p.seq # k.seq

Einmal == NummerJeAuftrag /\ PostenEinmal /\ WegEinmal

\* The Korb stays as it is over every restart, or there is one restart at most: what a
\* switch leaves behind may not meet another crash.
ModusBleibt   == \A w \in Wechsel : w[1] = w[2]
EinUmschalten == ModusBleibt \/ zaehler.abstuerze <= 1

\* An order that other nodes get to see.
Draussen(t) == t \in ToSet(db.bloecke) \/ \E z \in db.zeilen : z.tx = t

\* What the next start will take as done: with the Korb what its mark covers, and there
\* is no row; without it what has a mark, and below the marks what is stored.
MarkeGilt == db.markeDa = korb.an
KorbGilt  ==
  korb.an =>
    /\ \A p \in Offene : p.ohne
    /\ \A r \in wal.saetze : /\ \A z \in db.zeilen : z.tx # r.tx
                             /\ r.tx \in ToSet(db.bloecke) => r.seq <= db.marke
    /\ Laeuft => db.marke <= korb.bis
VermerkeGelten ==
  ~korb.an =>
    /\ korb.saetze = {}
    /\ \A r \in Nachspielbar :
         /\ r.seq >= db.ab => (Draussen(r.tx) => r.seq \in db.vermerke)
         /\ r.seq < db.ab => \A a \in Beide(r.tx) : r.seq <= db.konten[a].wal
    /\ Laeuft => db.ab <= wal.naechste
Vermerkt == MarkeGilt /\ KorbGilt /\ VermerkeGelten

\* As long as the Korb stays as it is, or up to the first start after a crash.
VermerktOK ==
  (ModusBleibt \/ zaehler.abstuerze = 0 \/ (zaehler.abstuerze = 1 /\ lauf = "aus")) => Vermerkt
\* Without a crash the node runs.
LaufOK == zaehler.abstuerze = 0 => lauf = "laeuft"

-----------------------------------------------------------------------------

\* What is numbered belongs to orders in force.
LEMMA NummerierteInKraft ==
  ASSUME Typ, Salden
  PROVE  \A x \in Nummerierte : x.tx \in InKraft
<1>1. \A r \in wal.saetze : r.tx \in InKraft
  BY DEF Salden, LogOK
<1>2. Txs(Offene) \cup Txs(schwebend) \cup Txs(korb.saetze) \subseteq InKraft
  BY DEF Salden, WegeOK
<1>3. QED BY <1>1, <1>2 DEF Nummerierte, Txs

\* What is numbered takes its number along.
LEMMA NummernBleiben ==
  ASSUME NummerJeAuftrag, \A x \in Nummerierte' : \E y \in Nummerierte : y.tx = x.tx /\ y.seq = x.seq
  PROVE  NummerJeAuftrag'
<1>1. ASSUME NEW x \in Nummerierte', NEW y \in Nummerierte', x.tx = y.tx
      PROVE  x.seq = y.seq
  <2>1. PICK v \in Nummerierte : v.tx = x.tx /\ v.seq = x.seq
    OBVIOUS
  <2>2. PICK w \in Nummerierte : w.tx = y.tx /\ w.seq = y.seq
    OBVIOUS
  <2>3. v.seq = w.seq
    BY <1>1, <2>1, <2>2 DEF NummerJeAuftrag
  <2>4. QED BY <2>1, <2>2, <2>3
<1>2. QED BY <1>1 DEF NummerJeAuftrag

\* A step that takes nothing new on its way.
LEMMA EinmalWeniger ==
  ASSUME Einmal, PostenEinmal',
         wal'.saetze \subseteq wal.saetze, Offene' \subseteq Offene, schwebend' \subseteq schwebend,
         korb'.saetze \subseteq korb.saetze, db'.zeilen \subseteq db.zeilen, db'.bloecke = db.bloecke
  PROVE  Einmal'
<1>1. Nummerierte' \subseteq Nummerierte
  BY DEF Nummerierte
<1>2. MitZeile' \subseteq MitZeile
  BY DEF MitZeile
<1>3. Wartend' \subseteq Wartend
  BY <1>2 DEF Wartend
<1>4. Dinge' \subseteq Dinge
  BY <1>3 DEF Dinge
<1>5. NummerJeAuftrag'
  BY <1>1 DEF Einmal, NummerJeAuftrag
<1>6. WegEinmal'
  BY <1>2, <1>4 DEF Einmal, WegEinmal
<1>7. QED BY <1>5, <1>6 DEF Einmal

\* The steps that leave the queue and the batches alone and take nothing new on its way.
LEMMA EinmalSonst ==
  ASSUME Typ, Einmal,
         \/ UNCHANGED vars
         \/ \E bis : Sichern(bis)
         \/ \E t \in Auftraege : SeriellBeginnt(t)
         \/ \E t \in leert : SeriellAbgelehnt(t)
         \/ \E gross \in BOOLEAN : Kuerzen(gross)
         \/ Anschluss
         \/ Ersatz(FALSE)
         \/ \E an \in BOOLEAN : Einspielen(an) /\ ~StimmigMitDatei(PeekNachStart)
  PROVE  Einmal'
<1>1. /\ wal'.saetze \subseteq wal.saetze /\ UNCHANGED <<schlange, laufend, schwebend>>
      /\ korb'.saetze \subseteq korb.saetze /\ db'.zeilen \subseteq db.zeilen /\ db'.bloecke = db.bloecke
  <2>1. CASE UNCHANGED vars
    BY <2>1 DEF vars
  <2>2. CASE \E bis : Sichern(bis)
    BY <2>2, SichernTut
  <2>3. CASE \E t \in Auftraege : SeriellBeginnt(t)
    BY <2>3, SeriellBeginntTut
  <2>4. CASE \E t \in leert : SeriellAbgelehnt(t)
    BY <2>4 DEF SeriellAbgelehnt
  <2>5. CASE \E gross \in BOOLEAN : Kuerzen(gross)
    BY <2>5, KuerzenTut
  <2>6. CASE Anschluss
    BY <2>6, AnschlussTut
  <2>7. CASE Ersatz(FALSE)
    BY <2>7, ErsatzTut
  <2>8. CASE \E an \in BOOLEAN : Einspielen(an) /\ ~StimmigMitDatei(PeekNachStart)
    BY <2>8, VerweigertTut
  <2>9. QED BY <2>1, <2>2, <2>3, <2>4, <2>5, <2>6, <2>7, <2>8
<1>2. Offene' = Offene
  BY <1>1 DEF Offene
<1>3. PostenEinmal'
  BY <1>1 DEF Einmal, PostenEinmal
<1>4. QED BY <1>1, <1>2, <1>3, EinmalWeniger

\* A crash leaves the log, the rows and the blocks.
LEMMA EinmalAbsturz ==
  ASSUME Typ, Einmal, NEW bis, Absturz(bis)
  PROVE  Einmal'
<1>1. /\ wal'.saetze \subseteq wal.saetze /\ schlange' = <<>> /\ laufend' = {} /\ schwebend' = {}
      /\ korb'.saetze = {} /\ UNCHANGED db
  BY AbsturzTut
<1>2. ToSet(schlange') = {} /\ Offene' = {}
  BY <1>1 DEF ToSet, Offene
<1>3. PostenEinmal'
  BY <1>1, <1>2 DEF PostenEinmal, EinmalReihe
<1>4. QED BY <1>1, <1>2, <1>3, EinmalWeniger

\* A new order is nowhere yet.
LEMMA EinmalAnhaengen ==
  ASSUME Typ, Nummern, Salden, Einmal, NEW t \in Auftraege, Anhaengen(t)
  PROVE  Einmal'
<1> DEFINE e == [seq |-> wal.naechste, tx |-> t]
<1>1. /\ wal'.saetze = wal.saetze \cup {e} /\ schwebend' = schwebend \cup {e}
      /\ t \notin kunde.gestellt
      /\ UNCHANGED <<db, schlange, laufend, korb>>
  BY AnhaengenTut
<1>2. e.tx = t /\ Eintrag(e).tx = t
  BY DEF Eintrag
<1> HIDE DEF e
<1>3. t \notin InKraft
  BY <1>1 DEF InKraft
<1>4. Offene' = Offene /\ MitZeile' = MitZeile
  <2>1. Offene' = Offene
    BY <1>1 DEF Offene
  <2>2. QED BY <2>1 DEF MitZeile
<1>5. Dinge' = Dinge \cup {Eintrag(e)}
  <2>1. Wartend' = Wartend \cup {Eintrag(e)}
    BY <1>1, <1>4 DEF Wartend
  <2>2. QED BY <1>1, <2>1 DEF Dinge
<1>6. Nummerierte' = Nummerierte \cup {e}
  BY <1>1, <1>4 DEF Nummerierte
<1>7. NummerJeAuftrag'
  BY <1>2, <1>3, <1>6, NummerierteInKraft DEF Einmal, NummerJeAuftrag
<1>8. PostenEinmal'
  BY <1>1 DEF Einmal, PostenEinmal
<1>9. WegEinmal'
  <2>1. (\A d \in Dinge : d.tx # t) /\ \A i \in DOMAIN db.bloecke : db.bloecke[i] # t
    BY <1>3, DingeInKraft
  <2>2. QED BY <1>1, <1>2, <1>4, <1>5, <2>1 DEF Einmal, WegEinmal
<1>10. QED BY <1>7, <1>8, <1>9 DEF Einmal

\* A serial order is nowhere yet.
LEMMA EinmalSeriell ==
  ASSUME Typ, Salden, Einmal, NEW t \in leert, SeriellBucht(t)
  PROVE  Einmal'
<1> DEFINE z == [seq |-> wal.naechste, id |-> db.id + 1, tx |-> t]
<1>1. /\ db'.bloecke = db.bloecke /\ db'.zeilen = db.zeilen \cup {z}
      /\ UNCHANGED <<wal, schlange, laufend, korb, schwebend>>
  BY SeriellBuchtTut
<1>2. z.tx = t
  OBVIOUS
<1> HIDE DEF z
<1>3. t \notin InKraft
  BY DEF InKraft
<1>4. Offene' = Offene /\ MitZeile' = MitZeile
  <2>1. Offene' = Offene
    BY <1>1 DEF Offene
  <2>2. QED BY <2>1 DEF MitZeile
<1>5. Dinge' = Dinge \cup {z}
  <2>1. Wartend' = Wartend
    BY <1>1, <1>4 DEF Wartend
  <2>2. QED BY <1>1, <2>1 DEF Dinge
<1>6. NummerJeAuftrag'
  BY <1>1, <1>4 DEF Einmal, NummerJeAuftrag, Nummerierte
<1>7. PostenEinmal'
  BY <1>1 DEF Einmal, PostenEinmal
<1>8. WegEinmal'
  <2>1. (\A d \in Dinge : d.tx # t) /\ \A i \in DOMAIN db.bloecke : db.bloecke[i] # t
    BY <1>3, DingeInKraft
  <2>2. QED BY <1>1, <1>2, <1>4, <1>5, <2>1 DEF Einmal, WegEinmal
<1>9. QED BY <1>6, <1>7, <1>8 DEF Einmal

\* An item of its own comes last in the queue.
LEMMA AngehaengtEinmal ==
  ASSUME NEW q \in Seq(Posten), NEW p \in Posten, EinmalReihe(q), \A x \in ToSet(q) : x.seq # p.seq
  PROVE  EinmalReihe(Append(q, p))
<1> DEFINE r == Append(q, p)
<1>1. /\ Len(q) \in Nat /\ DOMAIN q = 1 .. Len(q) /\ DOMAIN r = 1 .. (Len(q) + 1)
      /\ r[Len(q) + 1] = p /\ \A i \in 1 .. Len(q) : r[i] = q[i]
  OBVIOUS
<1>2. \A i \in 1 .. Len(q) : q[i] \in ToSet(q)
  BY <1>1 DEF ToSet
<1> HIDE DEF r
<1>3. ASSUME NEW i \in DOMAIN r, NEW j \in DOMAIN r, r[i].seq = r[j].seq PROVE i = j
  <2>1. CASE i \in 1 .. Len(q) /\ j \in 1 .. Len(q)
    BY <1>1, <1>3, <2>1 DEF EinmalReihe
  <2>2. CASE i = Len(q) + 1 /\ j \in 1 .. Len(q)
    BY <1>1, <1>2, <1>3, <2>2
  <2>3. CASE j = Len(q) + 1 /\ i \in 1 .. Len(q)
    BY <1>1, <1>2, <1>3, <2>3
  <2>4. QED BY <1>1, <2>1, <2>2, <2>3
<1>4. QED BY <1>3 DEF EinmalReihe, r

\* A part of a sequence holds an item once.
LEMMA AusgewaehltEinmal ==
  ASSUME NEW q \in Seq(Posten), EinmalReihe(q), NEW I \in SUBSET DOMAIN q
  PROVE  EinmalReihe(Ausgewaehlt(q, I))
<1>1. PICK n \in Nat : \E p : Waehlt(n, p, q, I)
  BY AusgewaehltReihe
<1>2. PICK p : Waehlt(n, p, q, I)
  BY <1>1
<1> DEFINE r == Ausgewaehlt(q, I)
<1>3. /\ p \in [1 .. n -> I] /\ DOMAIN r = 1 .. n /\ \A i \in 1 .. n : r[i] = q[p[i]]
      /\ \A i, j \in 1 .. n : i < j => p[i] < p[j]
  BY <1>2 DEF Waehlt
<1>4. \A i \in I : i \in Int
  OBVIOUS
<1> HIDE DEF r
<1>5. ASSUME NEW i \in 1 .. n, NEW j \in 1 .. n, r[i].seq = r[j].seq PROVE i = j
  <2>1. p[i] \in I /\ p[j] \in I /\ p[i] \in Int /\ p[j] \in Int
    BY <1>3, <1>4
  <2>2. p[i] = p[j]
    BY <1>3, <1>5, <2>1 DEF EinmalReihe
  <2>3. ~(i < j) /\ ~(j < i)
    BY <1>3, <2>1, <2>2
  <2>4. QED BY <2>3
<1>6. QED BY <1>3, <1>5 DEF EinmalReihe, r

\* Two sequences with nothing in common, one after the other.
LEMMA VerkettetEinmal ==
  ASSUME NEW q \in Seq(Posten), NEW r \in Seq(Posten), EinmalReihe(q), EinmalReihe(r),
         \A x \in ToSet(q), y \in ToSet(r) : x.seq # y.seq
  PROVE  EinmalReihe(q \o r)
<1> DEFINE s == q \o r
           m == Len(q)
           n == Len(r)
<1>1. /\ m \in Nat /\ n \in Nat /\ DOMAIN q = 1 .. m /\ DOMAIN r = 1 .. n /\ DOMAIN s = 1 .. (m + n)
      /\ \A i \in 1 .. m : s[i] = q[i]
      /\ \A i \in 1 .. n : s[m + i] = r[i]
  <2>1. s \in Seq(Posten) /\ Len(s) = m + n
    BY MengeVerkettet
  <2>2. DOMAIN s = 1 .. Len(s)
    BY <2>1
  <2>3. QED BY <2>1, <2>2, MengeVerkettet
<1>2. (\A i \in 1 .. m : q[i] \in ToSet(q)) /\ \A i \in 1 .. n : r[i] \in ToSet(r)
  BY <1>1 DEF ToSet
<1> HIDE DEF s, m, n
<1>3. \A i \in 1 .. (m + n) : i \in 1 .. m \/ \E k \in 1 .. n : i = m + k
  <2>1. ASSUME NEW i \in 1 .. (m + n), i \notin 1 .. m PROVE \E k \in 1 .. n : i = m + k
    <3>1. i - m \in 1 .. n /\ i = m + (i - m)
      BY <1>1, <2>1
    <3>2. QED BY <3>1
  <2>2. QED BY <2>1
<1>4. ASSUME NEW i \in DOMAIN s, NEW j \in DOMAIN s, s[i].seq = s[j].seq PROVE i = j
  <2>1. CASE i \in 1 .. m /\ j \in 1 .. m
    BY <1>1, <1>4, <2>1 DEF EinmalReihe
  <2>2. CASE i \in 1 .. m /\ \E k \in 1 .. n : j = m + k
    BY <1>1, <1>2, <1>4, <2>2
  <2>3. CASE j \in 1 .. m /\ \E k \in 1 .. n : i = m + k
    BY <1>1, <1>2, <1>4, <2>3
  <2>4. ASSUME NEW k \in 1 .. n, NEW l \in 1 .. n, i = m + k, j = m + l PROVE i = j
    <3>1. r[k].seq = r[l].seq
      BY <1>1, <1>4, <2>4
    <3>2. k = l
      BY <1>1, <3>1 DEF EinmalReihe
    <3>3. QED BY <2>4, <3>2
  <2>5. i \in 1 .. (m + n) /\ j \in 1 .. (m + n)
    BY <1>1
  <2>6. CASE (\E k \in 1 .. n : i = m + k) /\ \E l \in 1 .. n : j = m + l
    BY <2>4, <2>6
  <2>7. QED BY <1>3, <2>1, <2>2, <2>3, <2>5, <2>6
<1>5. QED BY <1>4 DEF EinmalReihe, s

\* A record leaves the float for the queue, or for the Korb.
LEMMA EinmalEinreihen ==
  ASSUME Typ, Nummern, Einmal, NEW e \in schwebend, Einreihen(e)
  PROVE  Einmal'
<1> DEFINE p == [seq |-> e.seq, tx |-> e.tx, ohne |-> korb.an]
<1>1. /\ p \in Posten /\ e \in Saetze /\ schlange' \in Seq(Posten)
      /\ korb'.saetze = korb.saetze \cup IF korb.an THEN {e} ELSE {}
      /\ schwebend' = schwebend \ {e}
      /\ UNCHANGED <<wal, db, laufend>>
  BY EinreihenTut
<1>2. schlange' = IF Gedeckt(schlange, p) THEN schlange ELSE Append(schlange, p)
  BY DEF Einreihen
<1>3. p.seq = e.seq /\ p.tx = e.tx /\ p.ohne = korb.an /\ Eintrag(p) = Eintrag(e)
  BY DEF Eintrag
<1>4. Offene' \subseteq Offene \cup {p}
  BY OffeneEinreihen
<1> HIDE DEF p
<1>5. schlange \in Seq(Posten) /\ ToSet(schlange) \subseteq Offene /\ ToSet(schlange') \subseteq ToSet(schlange) \cup {p}
  <2>1. ToSet(Append(schlange, p)) \subseteq ToSet(schlange) \cup {p}
    BY <1>1 DEF ToSet, Typ
  <2>2. QED BY <1>2, <2>1 DEF Offene, Typ
<1>6. \A x \in Offene : x.seq # p.seq
  BY <1>3 DEF Nummern, SchwebNummern
<1>7. PostenEinmal'
  <2>1. EinmalReihe(schlange')
    <3>1. CASE schlange' = schlange
      BY <3>1 DEF Einmal, PostenEinmal
    <3>2. CASE schlange' = Append(schlange, p)
      BY <1>1, <1>5, <1>6, <3>2, AngehaengtEinmal DEF Einmal, PostenEinmal
    <3>3. QED BY <1>2, <3>1, <3>2
  <2>2. ASSUME NEW b \in laufend, NEW x \in ToSet(b.posten), NEW y \in ToSet(schlange')
        PROVE  x.seq # y.seq
    <3>1. x \in Offene
      BY DEF Offene
    <3>2. QED BY <1>5, <1>6, <3>1 DEF Einmal, PostenEinmal
  <2>3. QED BY <1>1, <2>1, <2>2 DEF Einmal, PostenEinmal
<1>8. NummerJeAuftrag'
  <2>1. Nummerierte' \subseteq Nummerierte \cup {p}
    BY <1>1, <1>4 DEF Nummerierte
  <2>2. e \in Nummerierte
    BY DEF Nummerierte
  <2>3. QED BY <1>3, <2>1, <2>2, NummernBleiben DEF Einmal
<1>9. MitZeile' \subseteq MitZeile \cup IF korb.an THEN {} ELSE {p}
  BY <1>3, <1>4 DEF MitZeile
<1>10. Dinge' \subseteq Dinge
  <2>1. \A x \in MitZeile' : Eintrag(x) \in Wartend
    BY <1>3, <1>9 DEF Wartend
  <2>2. Wartend' \subseteq Wartend
    BY <1>1, <2>1 DEF Wartend
  <2>3. \A k \in korb'.saetze : Eintrag(k) \in Wartend \cup {Eintrag(l) : l \in korb.saetze}
    BY <1>1 DEF Wartend
  <2>4. QED BY <1>1, <2>2, <2>3 DEF Dinge
<1>11. \A x \in MitZeile', k \in korb'.saetze : x.seq # k.seq
  <2>1. CASE korb.an
    <3>1. MitZeile' \subseteq MitZeile /\ korb'.saetze = korb.saetze \cup {e}
      BY <1>1, <1>9, <2>1
    <3>2. \A x \in MitZeile : x.seq # e.seq
      BY <1>3, <1>6 DEF MitZeile
    <3>3. QED BY <3>1, <3>2 DEF Einmal, WegEinmal
  <2>2. CASE ~korb.an
    <3>1. MitZeile' \subseteq MitZeile \cup {p} /\ korb'.saetze = korb.saetze
      BY <1>1, <1>9, <2>2
    <3>2. \A k \in korb.saetze : k.seq # p.seq
      BY <1>3 DEF Nummern, SchwebNummern
    <3>3. QED BY <3>1, <3>2 DEF Einmal, WegEinmal
  <2>3. QED BY <2>1, <2>2
<1>12. WegEinmal'
  BY <1>1, <1>10, <1>11 DEF Einmal, WegEinmal
<1>13. QED BY <1>7, <1>8, <1>12 DEF Einmal

\* Items move from the queue to a batch.
LEMMA EinmalNimmt ==
  ASSUME Typ, Einmal, FlushNimmt
  PROVE  Einmal'
<1> DEFINE q == schlange
           I == Auswahl(q)
           b == [posten |-> Ausgewaehlt(q, I), offen |-> KontenVon(ToSet(Ausgewaehlt(q, I)))]
<1>1. q \in Seq(Posten) /\ EinmalReihe(q)
  BY DEF Typ, Einmal, PostenEinmal
<1>2. /\ laufend' = laufend \cup {b} /\ schlange' = Ausgewaehlt(q, DOMAIN q \ I)
      /\ UNCHANGED <<wal, db, korb, schwebend>>
  BY DEF FlushNimmt
<1>3. I \in SUBSET DOMAIN q
  BY DEF Auswahl
<1> HIDE DEF I
<1>4. ToSet(b.posten) = {q[i] : i \in I} /\ ToSet(schlange') = {q[i] : i \in DOMAIN q \ I}
  BY <1>1, <1>2, <1>3, AusgewaehltIst
<1>5. EinmalReihe(b.posten) /\ EinmalReihe(schlange')
  BY <1>1, <1>2, <1>3, AusgewaehltEinmal
<1> HIDE DEF b
<1>6. ToSet(schlange') \subseteq ToSet(schlange) /\ ToSet(b.posten) \subseteq ToSet(schlange)
  BY <1>3, <1>4 DEF ToSet
<1>7. ASSUME NEW x \in ToSet(b.posten), NEW y \in ToSet(schlange') PROVE x.seq # y.seq
  <2>1. PICK i \in I : x = q[i]
    BY <1>4
  <2>2. PICK j \in DOMAIN q \ I : y = q[j]
    BY <1>4
  <2>3. QED BY <1>1, <1>3, <2>1, <2>2 DEF EinmalReihe
<1>8. PostenEinmal'
  <2>1. \A c \in laufend' : /\ EinmalReihe(c.posten)
                            /\ \A x \in ToSet(c.posten), y \in ToSet(schlange') : x.seq # y.seq
    BY <1>2, <1>5, <1>6, <1>7 DEF Einmal, PostenEinmal
  <2>2. \A c, d \in laufend' : c # d => \A x \in ToSet(c.posten), y \in ToSet(d.posten) : x.seq # y.seq
    BY <1>2, <1>6 DEF Einmal, PostenEinmal
  <2>3. QED BY <1>5, <2>1, <2>2 DEF PostenEinmal
<1>9. Offene' \subseteq Offene
  BY OffeneNimmt
<1>10. QED BY <1>2, <1>8, <1>9, EinmalWeniger

\* A failed batch is in the queue again.
LEMMA EinmalScheitert ==
  ASSUME Typ, Einmal, NEW b \in laufend, FlushScheitert(b)
  PROVE  Einmal'
<1>1. /\ schlange' = b.posten \o schlange /\ laufend' = laufend \ {b}
      /\ UNCHANGED <<wal, db, korb, schwebend>>
  BY DEF FlushScheitert, Zurueck
<1>2. b.posten \in Seq(Posten) /\ schlange \in Seq(Posten)
  BY BuendelPosten DEF Typ
<1>3. ToSet(schlange') = ToSet(b.posten) \cup ToSet(schlange)
  BY <1>1, <1>2, MengeVerkettet
<1>4. EinmalReihe(schlange')
  BY <1>1, <1>2, VerkettetEinmal DEF Einmal, PostenEinmal
<1>5. PostenEinmal'
  BY <1>1, <1>3, <1>4 DEF Einmal, PostenEinmal
<1>6. Offene' \subseteq Offene
  BY OffeneScheitert
<1>7. QED BY <1>1, <1>5, <1>6, EinmalWeniger

\* The rows of a batch take the place of its items.
LEMMA EinmalSchreibt ==
  ASSUME Typ, Nummern, Einmal, NEW b \in laufend, NEW G \in SUBSET b.offen, FlushSchreibt(b, G)
  PROVE  Einmal'
<1> DEFINE P == OhneZeilen(b)
           N == NeueZeilen(P, db.id)
           c == [posten |-> b.posten, offen |-> b.offen \ G]
<1>1. /\ IsFiniteSet(P) /\ P \subseteq Offene
      /\ \A x \in P : x.seq \in Nat /\ x.tx \in Auftraege
      /\ \A x, y \in P : x.seq = y.seq => x = y
      /\ db'.bloecke = db.bloecke /\ db'.zeilen = db.zeilen \cup N
      /\ laufend' = (laufend \ {b}) \cup IF G = b.offen THEN {} ELSE {c}
      /\ UNCHANGED <<wal, schlange, korb, schwebend>>
  BY FlushSchreibtTut
<1>2. P # {} => G = b.offen
  BY DEF FlushSchreibt, OhneZeilen
<1>3. db.id \in Nat
  BY DEF Typ, DbTyp
<1>4. /\ \A z \in N : z \in Zeilen /\ z.id > db.id /\ \E x \in P : z.tx = x.tx /\ z.seq = x.seq
      /\ \A y, z \in N : y.seq = z.seq => y = z
  BY <1>1, <1>3, NeueZeilenPaarig
<1>5. c.posten = b.posten
  OBVIOUS
<1> HIDE DEF N, c
<1>6. \A x \in P : x \in ToSet(b.posten) /\ x \in MitZeile
  BY <1>1 DEF OhneZeilen, MitZeile
<1> HIDE DEF P
<1>7. Offene' \subseteq Offene
  BY OffeneSchreibt
<1>8. PostenEinmal'
  <2>1. \A d \in laufend' : \E l \in laufend : d.posten = l.posten /\ (d = l \/ (d = c /\ l = b))
    BY <1>1, <1>5
  <2>2. \A d \in laufend' : /\ EinmalReihe(d.posten)
                            /\ \A x \in ToSet(d.posten), y \in ToSet(schlange') : x.seq # y.seq
    BY <1>1, <2>1 DEF Einmal, PostenEinmal
  <2>3. ASSUME NEW d \in laufend', NEW g \in laufend', d # g, NEW x \in ToSet(d.posten), NEW y \in ToSet(g.posten)
        PROVE  x.seq # y.seq
    <3>1. \A l \in laufend \ {b} : \A v \in ToSet(l.posten), w \in ToSet(b.posten) : v.seq # w.seq
      BY DEF Einmal, PostenEinmal
    <3>2. (d \in laufend \ {b} \/ d = c) /\ (g \in laufend \ {b} \/ g = c)
      BY <1>1
    <3>3. QED BY <1>5, <2>3, <3>1, <3>2 DEF Einmal, PostenEinmal
  <2>4. QED BY <1>1, <2>2, <2>3 DEF Einmal, PostenEinmal
<1>9. NummerJeAuftrag'
  <2>1. Nummerierte' \subseteq Nummerierte
    BY <1>1, <1>7 DEF Nummerierte
  <2>2. QED BY <2>1 DEF Einmal, NummerJeAuftrag
<1>10. MitZeile' \subseteq MitZeile
  BY <1>7 DEF MitZeile
<1>11. Wartend' \subseteq Wartend
  BY <1>1, <1>10 DEF Wartend
<1>12. Dinge' \subseteq Dinge \cup N
  BY <1>1, <1>11 DEF Dinge
<1>13. \A x \in P : Eintrag(x) \in Dinge /\ Eintrag(x).tx = x.tx /\ Eintrag(x).seq = x.seq /\ Eintrag(x).id = 0
  BY <1>6 DEF Wartend, Dinge, Eintrag
<1>14. ASSUME NEW x \in P PROVE Eintrag(x) \notin Dinge'
  <2>1. laufend' = laufend \ {b}
    BY <1>1, <1>2
  <2>2. SUFFICES ASSUME Eintrag(x) \in Dinge' PROVE FALSE
    OBVIOUS
  <2>3. CASE Eintrag(x) \in db.zeilen
    BY <1>13, <2>3 DEF Nummern, ZeilenNummern
  <2>4. CASE Eintrag(x) \in N
    <3>1. Eintrag(x).id > db.id
      BY <1>4, <2>4
    <3>2. QED BY <1>3, <1>13, <3>1
  <2>5. CASE \E k \in MitZeile' \cup schwebend \cup korb.saetze : Eintrag(x) = Eintrag(k)
    <3>1. PICK k \in MitZeile' \cup schwebend \cup korb.saetze : Eintrag(x) = Eintrag(k)
      BY <2>5
    <3>2. k.seq = x.seq
      BY <3>1 DEF Eintrag
    <3>3. CASE k \in schwebend
      <4>1. x \in Offene
        BY <1>1
      <4>2. QED BY <3>2, <3>3, <4>1 DEF Nummern, SchwebNummern
    <3>4. CASE k \in korb.saetze
      BY <1>6, <3>2, <3>4 DEF Einmal, WegEinmal
    <3>5. CASE k \in MitZeile'
      <4>1. k \in ToSet(schlange) \/ \E l \in laufend \ {b} : k \in ToSet(l.posten)
        BY <1>1, <2>1, <3>5 DEF MitZeile, Offene
      <4>2. QED BY <1>6, <3>2, <4>1 DEF Einmal, PostenEinmal
    <3>6. QED BY <3>1, <3>3, <3>4, <3>5
  <2>6. QED BY <1>1, <2>2, <2>3, <2>4, <2>5 DEF Dinge, Wartend
<1>15. \A z \in N : \A d \in Dinge' : d \in Dinge => d.tx # z.tx
  <2>1. ASSUME NEW z \in N, NEW d \in Dinge', d \in Dinge, d.tx = z.tx PROVE FALSE
    <3>1. PICK x \in P : z.tx = x.tx
      BY <1>4
    <3>2. Eintrag(x) \in Dinge /\ d.tx = Eintrag(x).tx
      BY <1>13, <2>1, <3>1
    <3>3. d = Eintrag(x)
      BY <2>1, <3>2 DEF Einmal, WegEinmal
    <3>4. QED BY <1>14, <3>3
  <2>2. QED BY <2>1
<1>16. \A y, z \in N : y.tx = z.tx => y = z
  <2>1. ASSUME NEW y \in N, NEW z \in N, y.tx = z.tx PROVE y = z
    <3>1. PICK v \in P : y.tx = v.tx /\ y.seq = v.seq
      BY <1>4
    <3>2. PICK w \in P : z.tx = w.tx /\ z.seq = w.seq
      BY <1>4
    <3>3. v \in Nummerierte /\ w \in Nummerierte
      BY <1>1 DEF Nummerierte
    <3>4. v.seq = w.seq
      BY <2>1, <3>1, <3>2, <3>3 DEF Einmal, NummerJeAuftrag
    <3>5. QED BY <1>4, <3>1, <3>2, <3>4
  <2>2. QED BY <2>1
<1>17. \A x, y \in Dinge' : x.tx = y.tx => x = y
  BY <1>12, <1>15, <1>16 DEF Einmal, WegEinmal
<1>18. \A i \in DOMAIN db.bloecke, z \in N : db.bloecke[i] # z.tx
  BY <1>4, <1>13 DEF Einmal, WegEinmal
<1>19. WegEinmal'
  BY <1>1, <1>10, <1>12, <1>17, <1>18 DEF Einmal, WegEinmal
<1>20. QED BY <1>8, <1>9, <1>19 DEF Einmal

\* What a block takes was on its way, and is no more.
LEMMA InhaltGeht ==
  ASSUME Typ, Nummern, Einmal, Block
  PROVE  /\ Inhalt \subseteq Dinge /\ Dinge' \subseteq Dinge /\ Inhalt \cap Dinge' = {}
         /\ Offene' = Offene /\ MitZeile' = MitZeile /\ korb'.saetze \subseteq korb.saetze
<1>1. UNCHANGED <<wal, konten, schlange, laufend, schwebend>>
  BY BlockTut
<1>2. /\ db'.zeilen = db.zeilen \ Inhalt
      /\ korb.an => korb'.saetze = korb.saetze \ Bereit
      /\ ~korb.an => korb' = korb
  BY BlockWirkt
<1>3. Bereit \subseteq korb.saetze
  BY BereitTyp
<1>4. Offene' = Offene /\ MitZeile' = MitZeile
  <2>1. Offene' = Offene
    BY <1>1 DEF Offene
  <2>2. QED BY <2>1 DEF MitZeile
<1>5. Wartend' = Wartend
  BY <1>1, <1>4 DEF Wartend
<1>6. korb'.saetze \subseteq korb.saetze
  BY <1>2
<1>7. Dinge' \subseteq Dinge
  BY <1>2, <1>5, <1>6 DEF Dinge
<1>8. \A x \in Inhalt : x \in db.zeilen \/ (korb.an /\ \E e \in Bereit : x = Eintrag(e))
  BY DEF Inhalt
<1>9. Inhalt \subseteq Dinge
  BY <1>3, <1>8 DEF Dinge
<1>10. ASSUME NEW x \in Inhalt, x \in Dinge' PROVE FALSE
  <2>1. \A k : Eintrag(k).id = 0 /\ Eintrag(k).seq = k.seq
    BY DEF Eintrag
  <2>2. x \notin db'.zeilen
    BY <1>2
  <2>3. PICK k \in MitZeile \cup schwebend \cup korb'.saetze : x = Eintrag(k)
    BY <1>1, <1>4, <1>10, <2>2 DEF Dinge, Wartend
  <2>4. x.id = 0 /\ x.seq = k.seq
    BY <2>1, <2>3
  <2>5. x \notin db.zeilen
    BY <2>4 DEF Nummern, ZeilenNummern
  <2>6. PICK e \in Bereit : korb.an /\ x = Eintrag(e)
    BY <1>8, <2>5
  <2>7. e.seq = k.seq /\ e \in korb.saetze
    BY <1>3, <2>1, <2>4, <2>6
  <2>8. CASE k \in MitZeile
    BY <2>7, <2>8 DEF Einmal, WegEinmal
  <2>9. CASE k \in schwebend
    BY <2>7, <2>9 DEF Nummern, SchwebNummern
  <2>10. CASE k \in korb'.saetze
    <3>1. k \in korb.saetze /\ k \notin Bereit
      BY <1>2, <2>6, <2>10
    <3>2. QED BY <2>7, <3>1 DEF Nummern, KorbNummern
  <2>11. QED BY <2>3, <2>8, <2>9, <2>10
<1>11. QED BY <1>4, <1>6, <1>7, <1>9, <1>10

\* Orders move from their way out into the block.
LEMMA EinmalBlock ==
  ASSUME Typ, Nummern, Einmal, Block
  PROVE  Einmal'
<1>1. UNCHANGED <<wal, konten, schlange, laufend, schwebend>>
  BY BlockTut
<1>2. /\ Inhalt \subseteq Dinge /\ Dinge' \subseteq Dinge /\ Inhalt \cap Dinge' = {}
      /\ Offene' = Offene /\ MitZeile' = MitZeile /\ korb'.saetze \subseteq korb.saetze
  BY InhaltGeht
<1>3. PICK n \in Nat : \E s : Angefuegt(n, s)
  BY BlockWirkt
<1>4. PICK s : Angefuegt(n, s)
  BY <1>3
<1> DEFINE m == Len(db.bloecke)
<1>5. m \in Nat /\ DOMAIN db.bloecke = 1 .. m
  BY DEF Typ, DbTyp
<1> HIDE DEF m
<1>6. /\ s \in [1 .. n -> Inhalt]
      /\ \A i, j \in 1 .. n : i < j => ImBlockVor(s[i], s[j])
      /\ DOMAIN db'.bloecke = 1 .. (m + n)
      /\ \A i \in 1 .. m : db'.bloecke[i] = db.bloecke[i]
      /\ \A i \in 1 .. n : db'.bloecke[m + i] = s[i].tx
  BY <1>4 DEF Angefuegt, m
<1>7. \A i \in 1 .. (m + n) : i \in 1 .. m \/ \E k \in 1 .. n : i = m + k
  <2>1. ASSUME NEW i \in 1 .. (m + n), i \notin 1 .. m PROVE \E k \in 1 .. n : i = m + k
    <3>1. i - m \in 1 .. n /\ i = m + (i - m)
      BY <1>5, <2>1
    <3>2. QED BY <3>1
  <2>2. QED BY <2>1
<1>8. \A i \in 1 .. n : s[i] \in Inhalt /\ s[i] \in Dinge
  BY <1>2, <1>6
<1>9. \A i \in 1 .. m : \A d \in Dinge : db.bloecke[i] # d.tx
  BY <1>5 DEF Einmal, WegEinmal
<1>10. \A i \in 1 .. m, k \in 1 .. n : db.bloecke[i] # s[k].tx
  BY <1>8, <1>9
<1>11. \A k, l \in 1 .. n : s[k].tx = s[l].tx => k = l
  <2>1. ASSUME NEW k \in 1 .. n, NEW l \in 1 .. n, s[k].tx = s[l].tx PROVE k = l
    <3>1. s[k] = s[l]
      BY <1>8, <2>1 DEF Einmal, WegEinmal
    <3>2. s[k].seq \in Nat /\ s[k].id \in Nat
      BY <1>8, InhaltTyp DEF Zeilen
    <3>3. ~ImBlockVor(s[k], s[l]) /\ ~ImBlockVor(s[l], s[k])
      BY <3>1, <3>2 DEF ImBlockVor
    <3>4. QED BY <1>6, <3>3
  <2>2. QED BY <2>1
<1>12. ASSUME NEW i \in 1 .. (m + n), NEW j \in 1 .. (m + n), db'.bloecke[i] = db'.bloecke[j]
       PROVE  i = j
  <2>1. CASE i \in 1 .. m /\ j \in 1 .. m
    BY <1>5, <1>6, <1>12, <2>1 DEF Einmal, WegEinmal
  <2>2. CASE i \in 1 .. m /\ \E k \in 1 .. n : j = m + k
    BY <1>6, <1>10, <1>12, <2>2
  <2>3. CASE j \in 1 .. m /\ \E k \in 1 .. n : i = m + k
    BY <1>6, <1>10, <1>12, <2>3
  <2>4. CASE (\E k \in 1 .. n : i = m + k) /\ \E l \in 1 .. n : j = m + l
    BY <1>6, <1>11, <1>12, <2>4
  <2>5. QED BY <1>7, <2>1, <2>2, <2>3, <2>4
<1>13. ASSUME NEW i \in 1 .. (m + n), NEW d \in Dinge' PROVE db'.bloecke[i] # d.tx
  <2>1. CASE i \in 1 .. m
    BY <1>2, <1>6, <1>9, <2>1
  <2>2. CASE \E k \in 1 .. n : i = m + k
    <3>1. PICK k \in 1 .. n : i = m + k
      BY <2>2
    <3>2. s[k] # d /\ s[k] \in Dinge /\ d \in Dinge
      BY <1>2, <1>8
    <3>3. s[k].tx # d.tx
      BY <3>2 DEF Einmal, WegEinmal
    <3>4. QED BY <1>6, <3>1, <3>3
  <2>3. QED BY <1>7, <2>1, <2>2
<1>14. WegEinmal'
  BY <1>2, <1>6, <1>12, <1>13 DEF Einmal, WegEinmal
<1>15. NummerJeAuftrag'
  <2>1. Nummerierte' \subseteq Nummerierte
    BY <1>1, <1>2 DEF Nummerierte
  <2>2. QED BY <2>1 DEF Einmal, NummerJeAuftrag
<1>16. PostenEinmal'
  BY <1>1 DEF Einmal, PostenEinmal
<1>17. QED BY <1>14, <1>15, <1>16 DEF Einmal

\* What the start makes of the Korb.
LEMMA KorbNachStart ==
  ASSUME Typ, NEW an \in BOOLEAN, Einspielen(an), StimmigMitDatei(PeekNachStart)
  PROVE  /\ <<korb.an, an>> \in Wechsel /\ korb'.an = an /\ korb'.ab = korb'.bis + 1 /\ korb'.fehlt = {}
         /\ korb'.bis \in {db.marke, db.boden} /\ korb'.bis >= db.marke /\ korb'.bis >= db.boden
         /\ korb'.saetze = IF an /\ db.markeDa THEN {r \in Nachspielbar : r.seq > korb'.bis} ELSE {}
<1> DEFINE bis == Max({db.marke, db.boden})
<1>1. db.marke \in Nat /\ db.boden \in Nat
  BY DEF Typ, DbTyp
<1>2. bis \in {db.marke, db.boden} /\ bis >= db.marke /\ bis >= db.boden
  BY <1>1, GroesseresNat
<1>3. /\ <<korb.an, an>> \in Wechsel
      /\ korb' = [an |-> an, ab |-> bis + 1, bis |-> bis, fehlt |-> {}, saetze |->
                    IF an /\ db.markeDa THEN {r \in Nachspielbar : r.seq > bis} ELSE {}]
  BY DEF Einspielen
<1> HIDE DEF bis
<1>4. QED BY <1>2, <1>3

\* The marks after it.
LEMMA VermerkeNachStart ==
  ASSUME Typ, NEW an \in BOOLEAN
  PROVE  LET v == Nachholen(an).vermerke
         IN  /\ db.vermerke \subseteq v /\ \A r \in Nachzuholen(an) : r.seq \in v
             /\ \A s \in v : \/ s \in db.vermerke
                             \/ \E r \in Nachspielbar : /\ r.seq = s
                                                        /\ r \in Nachzuholen(an) \/ \E z \in db.zeilen : z.tx = r.tx
<1> DEFINE S == {r \in Nachspielbar : ZeileFehlt(r, an) /\ ~NeuAngewandt(r)}
           da == {r \in S : \E z \in db.zeilen : z.seq = r.seq /\ z.tx = r.tx}
           T == S \ da
           m == MitVermerk(db, T)
<1>1. Nachzuholen(an) = T /\ T \subseteq Nachspielbar /\ \A r \in da : r \in Nachspielbar /\ \E z \in db.zeilen : z.tx = r.tx
  BY DEF Nachzuholen
<1>2. Nachholen(an) = [m EXCEPT !.vermerke = @ \cup Seqs(da)]
  BY DEF Nachholen
<1> HIDE DEF T, da
<1>3. m.vermerke = db.vermerke \cup Seqs(T) /\ DOMAIN m = DOMAIN db /\ "vermerke" \in DOMAIN db
  BY DEF MitVermerk, Typ, DbTyp
<1> HIDE DEF m
<1>4. Nachholen(an).vermerke = db.vermerke \cup Seqs(T) \cup Seqs(da)
  BY <1>2, <1>3
<1>5. QED BY <1>1, <1>4 DEF Seqs

\* Whatever the start puts on its way is neither in a block nor in a row.
LEMMA NachgeholtFrei ==
  ASSUME Typ, Vermerkt, NEW an \in BOOLEAN, NEW r \in Nachspielbar,
         \/ ZeileFehlt(r, an) /\ ~NeuAngewandt(r)
         \/ ~OhneZeile(r, an) /\ NeuAngewandt(r)
         \/ an /\ db.markeDa /\ r.seq > db.marke
  PROVE  ~Draussen(r.tx)
<1>1. r \in wal.saetze /\ r.seq \in Nat /\ db.ab \in Nat /\ db.marke \in Nat /\ r.tx \in Auftraege
  BY NachspielTyp DEF Typ, DbTyp
<1>2. korb.an \in BOOLEAN /\ db.markeDa = korb.an
  BY DEF Typ, KorbTyp, Vermerkt, MarkeGilt
<1>3. ~(an /\ db.markeDa) => ~OhneZeile(r, an)
  BY DEF ZeileFehlt, OhneZeile
<1>4. CASE korb.an
  <2>1. (\A z \in db.zeilen : z.tx # r.tx) /\ (r.tx \in ToSet(db.bloecke) => r.seq <= db.marke)
    BY <1>1, <1>4 DEF Vermerkt, KorbGilt
  <2>2. r.seq > db.marke
    <3>1. CASE an
      BY <1>2, <1>4, <3>1 DEF ZeileFehlt, OhneZeile
    <3>2. CASE ~an
      <4>1. ~(r.seq <= db.marke)
        BY <1>2, <1>3, <1>4, <3>2 DEF OhneZeile, Uebergang
      <4>2. QED BY <1>1, <4>1
    <3>3. QED BY <3>1, <3>2
  <2>3. QED BY <1>1, <2>1, <2>2 DEF Draussen
<1>5. CASE ~korb.an
  <2>1. ~(r.seq >= db.ab /\ r.seq \in db.vermerke)
    BY <1>2, <1>3, <1>5 DEF OhneZeile
  <2>2. r.seq >= db.ab
    <3>1. CASE NeuAngewandt(r)
      <4>1. PICK a \in Beide(r.tx) : r.seq > db.konten[a].wal
        BY <3>1 DEF NeuAngewandt, Fehlende
      <4>2. db.konten[a].wal \in Nat
        BY <1>1, BeideKonten, KontoTyp
      <4>3. ~(r.seq <= db.konten[a].wal)
        BY <1>1, <4>1, <4>2
      <4>4. ~(r.seq < db.ab)
        BY <1>5, <4>3 DEF Vermerkt, VermerkeGelten
      <4>5. QED BY <1>1, <4>4
    <3>2. CASE ~NeuAngewandt(r)
      BY <1>2, <1>5, <3>2 DEF ZeileFehlt, Uebergang
    <3>3. QED BY <3>1, <3>2
  <2>3. QED BY <1>5, <2>1, <2>2 DEF Vermerkt, VermerkeGelten
<1>6. QED BY <1>2, <1>4, <1>5

\* The start gives each record one way out, and only where it has none.
LEMMA EinmalEinspielen ==
  ASSUME Typ, Nummern, Salden, Vermerkt, Einmal,
         NEW an \in BOOLEAN, Einspielen(an), StimmigMitDatei(PeekNachStart)
  PROVE  Einmal'
<1> DEFINE S == Nachzuholen(an)
           N == NeueZeilen(S, db.id)
<1>1. /\ wal'.saetze = wal.saetze /\ schlange' = NachgespielteSchlange(an) /\ db' = Nachholen(an)
      /\ laufend' = laufend /\ schwebend' = schwebend /\ laufend = {} /\ schwebend = {}
      /\ korb'.saetze \subseteq wal.saetze
  BY EinspielenTut DEF Nummern, Ruhe
<1>2. /\ S \subseteq Nachspielbar /\ IsFiniteSet(S)
      /\ \A x \in S : x.seq \in Nat /\ x.tx \in Auftraege
      /\ \A x, y \in S : x.seq = y.seq => x = y
      /\ db'.bloecke = db.bloecke /\ db'.zeilen = db.zeilen \cup N
  BY <1>1, NachholenTyp
<1>3. \A r \in S : ZeileFehlt(r, an) /\ ~NeuAngewandt(r)
  BY DEF Nachzuholen
<1>4. \A z \in N : \E x \in S : z.tx = x.tx /\ z.seq = x.seq
  BY <1>2, NeueZeilenPaarig DEF Typ, DbTyp
<1>5. \A y, z \in N : y.seq = z.seq => y = z
  BY <1>2, NeueZeilenPaarig DEF Typ, DbTyp
<1> HIDE DEF N, S
<1>6. /\ \A p \in ToSet(schlange') : \E r \in Nachspielbar :
            p.seq = r.seq /\ p.tx = r.tx /\ p.ohne = OhneZeile(r, an) /\ NeuAngewandt(r)
      /\ EinmalReihe(schlange')
  BY <1>1, NachgespielteSchlangeIst DEF EinmalReihe
<1>7. Offene' = ToSet(schlange')
  BY <1>1 DEF Offene
<1>8. Nachspielbar \subseteq wal.saetze /\ \A r, s \in wal.saetze : r.tx = s.tx => r = s
  BY NachspielTyp DEF Salden, LogOK
<1>9. NummerJeAuftrag'
  <2>1. ASSUME NEW x \in Nummerierte' PROVE \E y \in Nummerierte : y.tx = x.tx /\ y.seq = x.seq
    <3>1. x \in wal.saetze \/ x \in ToSet(schlange')
      BY <1>1, <1>7 DEF Nummerierte
    <3>2. \E y \in wal.saetze : y.tx = x.tx /\ y.seq = x.seq
      BY <1>6, <1>8, <3>1
    <3>3. QED BY <3>2 DEF Nummerierte
  <2>2. QED BY <2>1, NummernBleiben DEF Einmal
<1>10. PostenEinmal'
  BY <1>1, <1>6 DEF PostenEinmal
<1> DEFINE Zeile(r) == r \in S
           Posten1(r) == NeuAngewandt(r) /\ ~OhneZeile(r, an)
           ImKorb(r) == an /\ db.markeDa /\ r.seq > db.marke
<1>11. \A r \in Nachspielbar : /\ ~(Zeile(r) /\ Posten1(r))
                               /\ ImKorb(r) => ~Zeile(r) /\ ~Posten1(r)
  BY <1>3 DEF ZeileFehlt, OhneZeile
<1>12. \A r \in Nachspielbar : Zeile(r) \/ Posten1(r) \/ ImKorb(r) => ~Draussen(r.tx)
  BY <1>3, NachgeholtFrei
<1>13. \A p \in MitZeile' : \E r \in Nachspielbar : Posten1(r) /\ p.seq = r.seq /\ p.tx = r.tx
  BY <1>6, <1>7 DEF MitZeile
<1>14. \A k \in korb'.saetze : k \in Nachspielbar /\ ImKorb(k)
  <2>1. ASSUME NEW k \in korb'.saetze PROVE k \in Nachspielbar /\ ImKorb(k)
    <3>1. an /\ db.markeDa /\ k \in Nachspielbar /\ k.seq > korb'.bis /\ korb'.bis >= db.marke
      BY KorbNachStart
    <3>2. k.seq \in Nat /\ korb'.bis \in Nat /\ db.marke \in Nat
      BY <3>1, NachspielTyp, KorbNachStart DEF Typ, DbTyp
    <3>3. k.seq > db.marke
      BY <3>1, <3>2
    <3>4. QED BY <3>1, <3>3
  <2>2. QED BY <2>1
<1>15. \A z \in N : \E r \in Nachspielbar : Zeile(r) /\ z.seq = r.seq /\ z.tx = r.tx
  BY <1>2, <1>4
<1>16. \A d \in Dinge' : \/ d \in db.zeilen
                         \/ d \in N
                         \/ \E p \in MitZeile' : d = Eintrag(p)
                         \/ \E k \in korb'.saetze : d = Eintrag(k)
  BY <1>1, <1>2 DEF Dinge, Wartend
<1>17. \A k : Eintrag(k).tx = k.tx /\ Eintrag(k).seq = k.seq
  BY DEF Eintrag
<1>18. \A x, y : x.tx = y.tx /\ x.seq = y.seq => Eintrag(x) = Eintrag(y)
  BY DEF Eintrag
<1> HIDE DEF Zeile, Posten1, ImKorb
<1>19. \A d \in Dinge' : d \notin db.zeilen => ~Draussen(d.tx)
  BY <1>12, <1>13, <1>14, <1>15, <1>16, <1>17
<1>20. \A z \in db.zeilen : Draussen(z.tx) /\ z \in Dinge
  BY DEF Draussen, Dinge
<1>21. ASSUME NEW x \in Dinge', NEW y \in Dinge', x.tx = y.tx PROVE x = y
  <2>1. CASE x \in db.zeilen \/ y \in db.zeilen
    <3>1. x \in db.zeilen /\ y \in db.zeilen
      BY <1>19, <1>20, <1>21, <2>1
    <3>2. QED BY <1>20, <1>21, <3>1 DEF Einmal, WegEinmal
  <2>2. ASSUME x \in N PROVE x = y \/ y \in db.zeilen
    <3>1. PICK r \in Nachspielbar : Zeile(r) /\ x.seq = r.seq /\ x.tx = r.tx
      BY <1>15, <2>2
    <3>2. \A s \in Nachspielbar : s.tx = y.tx => s = r
      BY <1>8, <1>21, <3>1
    <3>3. y \in N => x = y
      BY <1>5, <1>15, <2>2, <3>1, <3>2
    <3>4. \A p \in MitZeile' : y # Eintrag(p)
      BY <1>11, <1>13, <1>17, <3>1, <3>2
    <3>5. \A k \in korb'.saetze : y # Eintrag(k)
      BY <1>11, <1>14, <1>17, <3>1, <3>2
    <3>6. QED BY <1>16, <3>3, <3>4, <3>5
  <2>3. ASSUME NEW p \in MitZeile', x = Eintrag(p) PROVE x = y \/ y \in db.zeilen \/ y \in N
    <3>1. PICK r \in Nachspielbar : Posten1(r) /\ p.seq = r.seq /\ p.tx = r.tx
      BY <1>13
    <3>2. \A s \in Nachspielbar : s.tx = y.tx => s = r
      BY <1>8, <1>17, <1>21, <2>3, <3>1
    <3>3. ASSUME NEW q \in MitZeile', y = Eintrag(q) PROVE x = y
      BY <1>13, <1>17, <1>18, <2>3, <3>1, <3>2, <3>3
    <3>4. \A k \in korb'.saetze : y # Eintrag(k)
      BY <1>11, <1>14, <1>17, <3>1, <3>2
    <3>5. QED BY <1>16, <3>3, <3>4
  <2>4. ASSUME NEW k \in korb'.saetze, NEW l \in korb'.saetze, x = Eintrag(k), y = Eintrag(l) PROVE x = y
    BY <1>8, <1>14, <1>17, <1>21, <2>4
  <2>5. ASSUME y \in N PROVE x = y \/ x \in db.zeilen
    <3>1. PICK r \in Nachspielbar : Zeile(r) /\ y.seq = r.seq /\ y.tx = r.tx
      BY <1>15, <2>5
    <3>2. \A s \in Nachspielbar : s.tx = x.tx => s = r
      BY <1>8, <1>21, <3>1
    <3>3. x \in N => x = y
      BY <2>2, <1>5, <1>15, <2>5, <3>1, <3>2
    <3>4. \A p \in MitZeile' : x # Eintrag(p)
      BY <1>11, <1>13, <1>17, <3>1, <3>2
    <3>5. \A k \in korb'.saetze : x # Eintrag(k)
      BY <1>11, <1>14, <1>17, <3>1, <3>2
    <3>6. QED BY <1>16, <3>3, <3>4, <3>5
  <2>6. ASSUME NEW k \in korb'.saetze, NEW q \in MitZeile', x = Eintrag(k), y = Eintrag(q) PROVE FALSE
    <3>1. PICK r \in Nachspielbar : Posten1(r) /\ q.tx = r.tx
      BY <1>13
    <3>2. k \in Nachspielbar /\ ImKorb(k) /\ k.tx = q.tx
      BY <1>14, <1>17, <1>21, <2>6
    <3>3. k = r
      BY <1>8, <3>1, <3>2
    <3>4. QED BY <1>11, <3>1, <3>2, <3>3
  <2>7. QED BY <1>16, <2>1, <2>2, <2>3, <2>4, <2>5, <2>6
<1>22. \A p \in MitZeile', k \in korb'.saetze : p.seq # k.seq
  <2>1. ASSUME NEW p \in MitZeile', NEW k \in korb'.saetze, p.seq = k.seq PROVE FALSE
    <3>1. PICK r \in Nachspielbar : Posten1(r) /\ p.seq = r.seq
      BY <1>13
    <3>2. k \in Nachspielbar /\ ImKorb(k)
      BY <1>14
    <3>3. r = k
      BY <1>8, <2>1, <3>1, <3>2 DEF Nummern, SatzNummern
    <3>4. QED BY <1>11, <3>1, <3>2, <3>3
  <2>2. QED BY <2>1
<1>23. \A i \in DOMAIN db.bloecke, d \in Dinge' : db.bloecke[i] # d.tx
  <2>1. \A i \in DOMAIN db.bloecke : Draussen(db.bloecke[i])
    BY DEF Draussen, ToSet
  <2>2. QED BY <1>19, <1>20, <2>1 DEF Einmal, WegEinmal
<1>24. WegEinmal'
  BY <1>2, <1>21, <1>22, <1>23 DEF Einmal, WegEinmal
<1>25. QED BY <1>9, <1>10, <1>24 DEF Einmal

-----------------------------------------------------------------------------

\* What the marks say after a step.
LEMMA VermerkeTun ==
  ASSUME Typ
  PROVE  /\ \A b \in laufend : \A G \in SUBSET b.offen : FlushSchreibt(b, G) =>
              db'.vermerke = db.vermerke \cup Seqs(OhneZeilen(b))
         /\ \A t \in leert : SeriellBucht(t) => db'.vermerke = db.vermerke
         /\ Block => db'.vermerke = db.vermerke
         /\ \A gross \in BOOLEAN : Kuerzen(gross) =>
              /\ db'.vermerke = {s \in db.vermerke : s >= KuerzenBis}
              /\ db'.markeDa = db.markeDa /\ db'.marke = db.marke
              /\ db'.ab \in {db.ab, KuerzenBis} /\ db'.ab >= db.ab /\ db'.ab >= KuerzenBis
         /\ Ersatz(FALSE) => db'.vermerke = {} /\ db'.markeDa = db.markeDa /\ db'.marke = db.marke
<1>1. db \in DbTyp
  BY DEF Typ
<1>2. ASSUME NEW b \in laufend, NEW G \in SUBSET b.offen, FlushSchreibt(b, G)
      PROVE  db'.vermerke = db.vermerke \cup Seqs(OhneZeilen(b))
  <2> DEFINE P == OhneZeilen(b)
             m == MitVermerk(db, P)
  <2>1. P = {p \in ToSet(b.posten) : ~p.ohne}
    BY DEF OhneZeilen
  <2> HIDE DEF P
  <2>2. db' = [m EXCEPT !.konten = [a \in Konten |-> IF a \in G THEN Upsert(@[a], konten[a]) ELSE @[a]]]
    BY <1>2, <2>1 DEF FlushSchreibt
  <2>3. m.vermerke = db.vermerke \cup Seqs(P) /\ DOMAIN m = DOMAIN db /\ "vermerke" \in DOMAIN db
    BY <1>1 DEF MitVermerk, DbTyp
  <2> HIDE DEF m
  <2>4. db'.vermerke = m.vermerke
    BY <2>2, <2>3
  <2>5. QED BY <2>3, <2>4 DEF P
<1>3. ASSUME NEW t \in leert, SeriellBucht(t) PROVE db'.vermerke = db.vermerke
  BY <1>1, <1>3 DEF SeriellBucht, DbTyp
<1>4. Block => db'.vermerke = db.vermerke
  <2>1. SUFFICES ASSUME Block PROVE db'.vermerke = db.vermerke
    OBVIOUS
  <2>2. \E x, y, z : db' = [db EXCEPT !.bloecke = x, !.zeilen = y, !.marke = z]
    BY <2>1 DEF Block
  <2>3. QED BY <1>1, <2>2 DEF DbTyp
<1>5. ASSUME NEW gross \in BOOLEAN, Kuerzen(gross)
      PROVE  /\ db'.vermerke = {s \in db.vermerke : s >= KuerzenBis}
             /\ db'.markeDa = db.markeDa /\ db'.marke = db.marke
             /\ db'.ab \in {db.ab, KuerzenBis} /\ db'.ab >= db.ab /\ db'.ab >= KuerzenBis
  <2> DEFINE x == Max({db.ab, KuerzenBis})
             y == {s \in db.vermerke : s >= KuerzenBis}
  <2>1. db' = [db EXCEPT !.ab = x, !.vermerke = y]
    BY <1>5 DEF Kuerzen
  <2>2. x \in {db.ab, KuerzenBis} /\ x >= db.ab /\ x >= KuerzenBis
    <3>1. db.ab \in Nat /\ KuerzenBis \in Nat
      BY <1>1, KuerzenBisIst DEF DbTyp
    <3>2. QED BY <3>1, GroesseresNat
  <2> HIDE DEF x
  <2>3. QED BY <1>1, <2>1, <2>2 DEF DbTyp
<1>6. Ersatz(FALSE) => db'.vermerke = {} /\ db'.markeDa = db.markeDa /\ db'.marke = db.marke
  <2>1. SUFFICES ASSUME Ersatz(FALSE) PROVE db'.vermerke = {} /\ db'.markeDa = db.markeDa /\ db'.marke = db.marke
    OBVIOUS
  <2>2. \E x : db' = [[db EXCEPT !.konten = x] EXCEPT !.boden = Kopf, !.vermerke = {}, !.ab = Kopf + 1]
    BY <2>1 DEF Ersatz, MitBoden
  <2>3. QED BY <1>1, <2>2 DEF DbTyp
<1>7. QED BY <1>2, <1>3, <1>4, <1>5, <1>6

\* A step that leaves the database, and with it all that has been said, alone.
LEMMA VermerktStill ==
  ASSUME Vermerkt, Offene' \subseteq Offene, wal'.saetze \subseteq wal.saetze, db' = db,
         korb'.an = korb.an, korb'.saetze \subseteq korb.saetze,
         Laeuft' => Laeuft /\ korb'.bis = korb.bis /\ wal'.naechste = wal.naechste
  PROVE  Vermerkt'
<1>1. MarkeGilt'
  BY DEF Vermerkt, MarkeGilt
<1>2. KorbGilt'
  BY DEF Vermerkt, KorbGilt
<1>3. \A t : Draussen(t)' <=> Draussen(t)
  BY DEF Draussen
<1>4. Nachspielbar' \subseteq Nachspielbar
  BY DEF Nachspielbar
<1>5. VermerkeGelten'
  BY <1>3, <1>4 DEF Vermerkt, VermerkeGelten
<1>6. QED BY <1>1, <1>2, <1>5 DEF Vermerkt

LEMMA VermerktSonst ==
  ASSUME Typ, Vermerkt,
         \/ UNCHANGED vars
         \/ \E bis : Sichern(bis)
         \/ \E t \in Auftraege : SeriellBeginnt(t)
         \/ \E t \in leert : SeriellAbgelehnt(t)
         \/ FlushNimmt
         \/ \E b \in laufend : FlushScheitert(b)
         \/ \E bis : Absturz(bis)
         \/ Anschluss
         \/ \E an \in BOOLEAN : Einspielen(an) /\ ~StimmigMitDatei(PeekNachStart)
  PROVE  Vermerkt'
<1>1. CASE UNCHANGED vars
  <2>1. UNCHANGED <<wal, db, korb, lauf, schlange, laufend>>
    BY <1>1 DEF vars
  <2>2. Offene' = Offene
    BY <2>1 DEF Offene
  <2>3. QED BY <2>1, <2>2, VermerktStill DEF Laeuft
<1>2. CASE (\E bis : Sichern(bis)) \/ (\E t \in Auftraege : SeriellBeginnt(t)) \/ (\E t \in leert : SeriellAbgelehnt(t))
  <2>1. /\ wal'.saetze = wal.saetze /\ wal'.naechste = wal.naechste
        /\ UNCHANGED <<db, korb, lauf, schlange, laufend>>
    <3>1. CASE \E bis : Sichern(bis)
      BY <3>1, SichernTut
    <3>2. CASE \E t \in Auftraege : SeriellBeginnt(t)
      BY <3>2, SeriellBeginntTut
    <3>3. CASE \E t \in leert : SeriellAbgelehnt(t)
      BY <3>3 DEF SeriellAbgelehnt
    <3>4. QED BY <1>2, <3>1, <3>2, <3>3
  <2>2. Offene' = Offene
    BY <2>1 DEF Offene
  <2>3. QED BY <2>1, <2>2, VermerktStill DEF Laeuft
<1>3. CASE FlushNimmt \/ \E b \in laufend : FlushScheitert(b)
  <2>1. Offene' \subseteq Offene
    BY <1>3, OffeneNimmt, OffeneScheitert
  <2>2. UNCHANGED <<wal, db, korb, lauf>>
    BY <1>3, FlushNimmtTut, FlushScheitertTut
  <2>3. QED BY <2>1, <2>2, VermerktStill DEF Laeuft
<1>4. CASE \E bis : Absturz(bis)
  <2>1. PICK bis : Absturz(bis)
    BY <1>4
  <2>2. /\ wal'.saetze \subseteq wal.saetze /\ db' = db /\ schlange' = <<>> /\ laufend' = {} /\ lauf' = "aus"
        /\ korb'.saetze = {}
    BY <2>1, AbsturzTut
  <2>3. korb'.an = korb.an
    BY <2>1 DEF Absturz, AllesFluechtigeWeg, Typ, KorbTyp
  <2>4. Offene' = {}
    BY <2>2 DEF Offene, ToSet
  <2>5. ~Laeuft'
    BY <2>2 DEF Laeuft
  <2>6. QED BY <2>2, <2>3, <2>4, <2>5, VermerktStill
<1>5. CASE Anschluss
  <2>1. /\ lauf = "eingespielt" /\ korb'.saetze = korb.saetze
        /\ UNCHANGED <<wal, schlange, laufend>>
    BY <1>5, AnschlussTut
  <2>2. db.markeDa = korb.an
    BY DEF Vermerkt, MarkeGilt
  <2>3. db' = db /\ korb'.an = korb.an /\ korb'.bis = korb.bis
    BY <1>5, <2>2 DEF Anschluss, Uebergang, Typ, KorbTyp
  <2>4. Offene' = Offene
    BY <2>1 DEF Offene
  <2>5. QED BY <2>1, <2>3, <2>4, VermerktStill DEF Laeuft
<1>6. CASE \E an \in BOOLEAN : Einspielen(an) /\ ~StimmigMitDatei(PeekNachStart)
  <2>1. lauf' = "verweigert" /\ UNCHANGED <<wal, db, korb, schlange, laufend>>
    BY <1>6, VerweigertTut
  <2>2. Offene' = Offene
    BY <2>1 DEF Offene
  <2>3. QED BY <2>1, <2>2, VermerktStill DEF Laeuft
<1>7. QED BY <1>1, <1>2, <1>3, <1>4, <1>5, <1>6

\* A new record comes after everything stored.
LEMMA VermerktAnhaengen ==
  ASSUME Typ, Nummern, Salden, Vermerkt, NEW t \in Auftraege, Anhaengen(t)
  PROVE  Vermerkt'
<1> DEFINE e == [seq |-> wal.naechste, tx |-> t]
<1>1. /\ wal'.saetze = wal.saetze \cup {e} /\ wal'.naechste = wal.naechste + 1
      /\ lauf = "laeuft" /\ t \notin kunde.gestellt /\ UNCHANGED <<db, schlange, laufend, korb, lauf>>
  BY AnhaengenTut
<1>2. wal.naechste \in Nat /\ db.ab \in Nat
  BY DEF Typ, WalTyp, DbTyp
<1>3. t \notin InKraft /\ Laeuft
  BY <1>1 DEF InKraft, Laeuft
<1>4. (\A z \in db.zeilen : z.tx # t) /\ t \notin ToSet(db.bloecke)
  BY <1>3 DEF Salden, WegeOK, Txs
<1>5. e.tx = t /\ e.seq = wal.naechste
  OBVIOUS
<1> HIDE DEF e
<1>6. Offene' = Offene
  BY <1>1 DEF Offene
<1>7. MarkeGilt'
  BY <1>1 DEF Vermerkt, MarkeGilt
<1>8. KorbGilt'
  BY <1>1, <1>3, <1>4, <1>5, <1>6 DEF Vermerkt, KorbGilt, Laeuft
<1>9. \A u : Draussen(u)' <=> Draussen(u)
  BY <1>1 DEF Draussen
<1>10. Nachspielbar' \subseteq Nachspielbar \cup {e}
  BY <1>1 DEF Nachspielbar
<1>11. ~korb.an => ~Draussen(e.tx) /\ e.seq >= db.ab /\ ~(e.seq < db.ab)
  <2>1. ~korb.an => db.ab <= wal.naechste
    BY <1>3 DEF Vermerkt, VermerkeGelten
  <2>2. QED BY <1>2, <1>4, <1>5, <2>1 DEF Draussen
<1>12. VermerkeGelten'
  <2>1. ~korb.an => db.ab <= wal'.naechste
    BY <1>1, <1>2, <1>3 DEF Vermerkt, VermerkeGelten
  <2>2. QED BY <1>1, <1>9, <1>10, <1>11, <2>1 DEF Vermerkt, VermerkeGelten
<1>13. QED BY <1>7, <1>8, <1>12 DEF Vermerkt

\* An item is without a row where the Korb is on.
LEMMA VermerktEinreihen ==
  ASSUME Typ, Vermerkt, NEW e \in schwebend, Einreihen(e)
  PROVE  Vermerkt'
<1> DEFINE p == [seq |-> e.seq, tx |-> e.tx, ohne |-> korb.an]
<1>1. /\ korb'.saetze = korb.saetze \cup IF korb.an THEN {e} ELSE {}
      /\ lauf = "laeuft" /\ UNCHANGED <<wal, db, lauf>>
  BY EinreihenTut
<1>2. Offene' \subseteq Offene \cup {p}
  BY OffeneEinreihen
<1>3. p.ohne = korb.an
  OBVIOUS
<1> HIDE DEF p
<1>4. korb'.an = korb.an /\ korb'.bis = korb.bis
  BY DEF Einreihen, Typ, KorbTyp
<1>5. MarkeGilt'
  BY <1>1, <1>4 DEF Vermerkt, MarkeGilt
<1>6. KorbGilt'
  BY <1>1, <1>2, <1>3, <1>4 DEF Vermerkt, KorbGilt, Laeuft
<1>7. \A u : Draussen(u)' <=> Draussen(u)
  BY <1>1 DEF Draussen
<1>8. Nachspielbar' = Nachspielbar
  BY <1>1 DEF Nachspielbar
<1>9. ~korb.an => korb'.saetze = korb.saetze
  BY <1>1
<1>10. VermerkeGelten'
  BY <1>1, <1>4, <1>7, <1>8, <1>9 DEF Vermerkt, VermerkeGelten, Laeuft
<1>11. QED BY <1>5, <1>6, <1>10 DEF Vermerkt

\* A row comes with its mark.
LEMMA VermerktSchreibt ==
  ASSUME Typ, Nummern, Einmal, Vermerkt, NEW b \in laufend, NEW G \in SUBSET b.offen, FlushSchreibt(b, G)
  PROVE  Vermerkt'
<1> DEFINE P == OhneZeilen(b)
           N == NeueZeilen(P, db.id)
<1>1. /\ IsFiniteSet(P) /\ P \subseteq Offene
      /\ \A x \in P : x.seq \in Nat /\ x.tx \in Auftraege
      /\ \A x, y \in P : x.seq = y.seq => x = y
      /\ db'.ab = db.ab /\ db'.markeDa = db.markeDa /\ db'.marke = db.marke /\ db'.boden = db.boden
      /\ db'.bloecke = db.bloecke /\ db'.zeilen = db.zeilen \cup N
      /\ lauf = "laeuft" /\ UNCHANGED <<wal, korb, lauf>>
  BY FlushSchreibtTut
<1>2. db'.vermerke = db.vermerke \cup Seqs(P)
  BY VermerkeTun
<1>3. \A z \in N : \E x \in P : z.tx = x.tx /\ z.seq = x.seq
  BY <1>1, NeueZeilenPaarig DEF Typ, DbTyp
<1>4. \A x \in P : ~x.ohne
  BY DEF OhneZeilen
<1> HIDE DEF N, P
<1>5. Offene' \subseteq Offene
  BY OffeneSchreibt
<1>6. MarkeGilt'
  BY <1>1 DEF Vermerkt, MarkeGilt
<1>7. KorbGilt'
  <2>1. korb.an => N = {}
    BY <1>1, <1>3, <1>4 DEF Vermerkt, KorbGilt
  <2>2. QED BY <1>1, <1>5, <2>1 DEF Vermerkt, KorbGilt, Laeuft
<1>8. Nachspielbar' = Nachspielbar
  BY <1>1 DEF Nachspielbar
<1>9. ASSUME NEW r \in Nachspielbar, Draussen(r.tx)'
      PROVE  Draussen(r.tx) \/ r.seq \in Seqs(P)
  <2>1. CASE r.tx \in ToSet(db'.bloecke) \/ \E z \in db.zeilen : z.tx = r.tx
    BY <1>1, <2>1 DEF Draussen
  <2>2. CASE \E z \in N : z.tx = r.tx
    <3>1. PICK x \in P : x.tx = r.tx
      BY <1>3, <2>2
    <3>2. x \in Nummerierte /\ r \in Nummerierte
      BY <1>1, <3>1, NachspielTyp DEF Nummerierte
    <3>3. x.seq = r.seq
      BY <3>1, <3>2 DEF Einmal, NummerJeAuftrag
    <3>4. QED BY <3>1, <3>3 DEF Seqs
  <2>3. QED BY <1>1, <1>9, <2>1, <2>2 DEF Draussen
<1>10. \A a \in Konten : db'.konten[a].wal >= db.konten[a].wal /\ db'.konten[a].wal \in Nat /\ db.konten[a].wal \in Nat
  <2>1. ASSUME NEW a \in Konten
        PROVE  db'.konten[a].wal >= db.konten[a].wal /\ db'.konten[a].wal \in Nat /\ db.konten[a].wal \in Nat
    <3>1. db.konten[a].wal \in Nat /\ konten[a].wal \in Nat
      BY KontoTyp
    <3>2. db'.konten[a].wal = db.konten[a].wal
          \/ (db.konten[a].wal < konten[a].wal /\ db'.konten[a].wal = konten[a].wal)
      BY FlushWirkt
    <3>3. QED BY <3>1, <3>2
  <2>2. QED BY <2>1
<1>11. ASSUME ~korb.an, NEW r \in Nachspielbar, r.seq < db.ab, NEW a \in Beide(r.tx)
       PROVE  r.seq <= db'.konten[a].wal
  <2>1. a \in Konten /\ r.seq \in Nat
    BY NachspielTyp
  <2>2. r.seq <= db.konten[a].wal
    BY <1>11 DEF Vermerkt, VermerkeGelten
  <2>3. QED BY <1>10, <2>1, <2>2
<1>12. VermerkeGelten'
  BY <1>1, <1>2, <1>8, <1>9, <1>11 DEF Vermerkt, VermerkeGelten, Laeuft
<1>13. QED BY <1>6, <1>7, <1>12 DEF Vermerkt

\* The row of a serial order is no record's.
LEMMA VermerktSeriell ==
  ASSUME Typ, Nummern, Salden, Vermerkt, NEW t \in leert, SeriellBucht(t)
  PROVE  Vermerkt'
<1>1. /\ db'.ab = db.ab /\ db'.markeDa = db.markeDa /\ db'.marke = db.marke /\ db'.boden = db.boden
      /\ db'.bloecke = db.bloecke
      /\ db'.zeilen = db.zeilen \cup {[seq |-> wal.naechste, id |-> db.id + 1, tx |-> t]}
      /\ lauf = "laeuft" /\ UNCHANGED <<wal, schlange, laufend, korb, lauf>>
  BY SeriellBuchtTut
<1>2. db'.vermerke = db.vermerke
  BY VermerkeTun
<1>3. \A r \in wal.saetze : r.tx # t
  BY DEF Salden, LogOK, InKraft
<1>4. Offene' = Offene
  BY <1>1 DEF Offene
<1>5. MarkeGilt'
  BY <1>1 DEF Vermerkt, MarkeGilt
<1>6. \A z \in db'.zeilen : z \in db.zeilen \/ z.tx = t
  BY <1>1
<1>7. KorbGilt'
  BY <1>1, <1>3, <1>4, <1>6 DEF Vermerkt, KorbGilt, Laeuft
<1>8. Nachspielbar' = Nachspielbar
  BY <1>1 DEF Nachspielbar
<1>9. \A r \in Nachspielbar : Draussen(r.tx)' => Draussen(r.tx)
  BY <1>1, <1>3, <1>6, NachspielTyp DEF Draussen
<1>10. \A a \in Konten : db'.konten[a].wal >= db.konten[a].wal /\ db'.konten[a].wal \in Nat /\ db.konten[a].wal \in Nat
  <2>1. ASSUME NEW a \in Konten
        PROVE  db'.konten[a].wal >= db.konten[a].wal /\ db'.konten[a].wal \in Nat /\ db.konten[a].wal \in Nat
    <3>1. db.konten[a].wal \in Nat /\ konten[a].wal \in Nat
      BY KontoTyp
    <3>2. CASE a \in Beide(t)
      BY <3>1, <3>2, SeriellWirkt
    <3>3. CASE a \notin Beide(t)
      BY <3>1, <3>3, SeriellWirkt
    <3>4. QED BY <3>2, <3>3
  <2>2. QED BY <2>1
<1>11. ASSUME ~korb.an, NEW r \in Nachspielbar, r.seq < db.ab, NEW a \in Beide(r.tx)
       PROVE  r.seq <= db'.konten[a].wal
  <2>1. a \in Konten /\ r.seq \in Nat
    BY NachspielTyp
  <2>2. r.seq <= db.konten[a].wal
    BY <1>11 DEF Vermerkt, VermerkeGelten
  <2>3. QED BY <1>10, <2>1, <2>2
<1>12. VermerkeGelten'
  BY <1>1, <1>2, <1>8, <1>9, <1>11 DEF Vermerkt, VermerkeGelten, Laeuft
<1>13. QED BY <1>5, <1>7, <1>12 DEF Vermerkt

\* Whose order is in a block after a block.
LEMMA BlockInhalt ==
  ASSUME Typ, Nummern, Block
  PROVE  /\ \A t : t \in ToSet(db'.bloecke) => t \in ToSet(db.bloecke) \/ \E x \in Inhalt : x.tx = t
         /\ ToSet(db.bloecke) \subseteq ToSet(db'.bloecke)
         /\ \A x \in Inhalt : x.tx \in ToSet(db'.bloecke)
<1>1. PICK n \in Nat : \E s : Angefuegt(n, s)
  BY BlockWirkt
<1>2. PICK s : Angefuegt(n, s)
  BY <1>1
<1> DEFINE m == Len(db.bloecke)
           D == db'.bloecke
<1>3. m \in Nat /\ DOMAIN db.bloecke = 1 .. m
  BY DEF Typ, DbTyp
<1>4. /\ s \in [1 .. n -> Inhalt] /\ \A x \in Inhalt : \E i \in 1 .. n : s[i] = x
      /\ DOMAIN D = 1 .. (m + n)
      /\ \A i \in 1 .. m : D[i] = db.bloecke[i]
      /\ \A i \in 1 .. n : D[m + i] = s[i].tx
  BY <1>2 DEF Angefuegt
<1>5. \A t : t \in ToSet(D) <=> \E i \in DOMAIN D : D[i] = t
  BY DEF ToSet
<1>6. \A t : t \in ToSet(db.bloecke) <=> \E i \in DOMAIN db.bloecke : db.bloecke[i] = t
  BY DEF ToSet
<1> HIDE DEF m, D
<1>7. \A i \in 1 .. (m + n) : i \in 1 .. m \/ \E k \in 1 .. n : i = m + k
  <2>1. ASSUME NEW i \in 1 .. (m + n), i \notin 1 .. m PROVE \E k \in 1 .. n : i = m + k
    <3>1. i - m \in 1 .. n /\ i = m + (i - m)
      BY <1>3, <2>1
    <3>2. QED BY <3>1
  <2>2. QED BY <2>1
<1>8. \A i \in 1 .. m : i \in 1 .. (m + n)
  BY <1>3
<1>9. \A i \in 1 .. n : m + i \in 1 .. (m + n)
  BY <1>3
<1>10. \A i \in 1 .. n : s[i] \in Inhalt
  BY <1>4
<1>11. \A t : t \in ToSet(D) => t \in ToSet(db.bloecke) \/ \E x \in Inhalt : x.tx = t
  <2>1. SUFFICES ASSUME NEW t, t \in ToSet(D) PROVE t \in ToSet(db.bloecke) \/ \E x \in Inhalt : x.tx = t
    OBVIOUS
  <2>2. PICK i \in 1 .. (m + n) : D[i] = t
    BY <1>4, <1>5, <2>1
  <2>3. CASE i \in 1 .. m
    BY <1>3, <1>4, <1>6, <2>2, <2>3
  <2>4. ASSUME NEW k \in 1 .. n, i = m + k PROVE \E x \in Inhalt : x.tx = t
    <3>1. s[k].tx = t /\ s[k] \in Inhalt
      BY <1>4, <1>10, <2>2, <2>4
    <3>2. QED BY <3>1
  <2>5. QED BY <1>7, <2>3, <2>4
<1>12. ToSet(db.bloecke) \subseteq ToSet(D)
  BY <1>3, <1>4, <1>5, <1>6, <1>8
<1>13. \A x \in Inhalt : x.tx \in ToSet(D)
  BY <1>4, <1>5, <1>9
<1>14. QED BY <1>11, <1>12, <1>13 DEF D

\* What a block takes from the Korb is below its mark, what it takes from the rows was
\* to be seen before.
LEMMA VermerktBlock ==
  ASSUME Typ, Nummern, Einmal, Vermerkt, Block
  PROVE  Vermerkt'
<1>1. /\ db'.zeilen \subseteq db.zeilen
      /\ db'.konten = db.konten /\ db'.ab = db.ab /\ db'.markeDa = db.markeDa /\ db'.boden = db.boden
      /\ lauf = "laeuft" /\ UNCHANGED <<wal, schlange, laufend, lauf>>
  BY BlockTut
<1>2. db'.vermerke = db.vermerke
  BY VermerkeTun
<1>3. /\ korb.an => korb'.bis = BlockBis /\ korb'.an = korb.an /\ db'.marke = BlockBis
      /\ ~korb.an => korb' = korb /\ db'.marke = db.marke
  BY BlockWirkt
<1>4. /\ BlockBis \in Nat /\ BlockBis >= korb.bis /\ \A e \in Bereit : e.seq <= BlockBis
  BY InhaltTyp
<1>5. Bereit \subseteq korb.saetze
  BY BereitTyp
<1>6. db.marke \in Nat /\ korb.bis \in Nat
  BY DEF Typ, DbTyp, KorbTyp
<1>7. Offene' = Offene /\ Nachspielbar' = Nachspielbar /\ Laeuft
  BY <1>1 DEF Offene, Nachspielbar, Laeuft
<1>8. MarkeGilt'
  BY <1>1, <1>3 DEF Vermerkt, MarkeGilt
<1>9. ASSUME korb.an, NEW r \in wal.saetze, r.tx \in ToSet(db'.bloecke)
      PROVE  r.seq <= BlockBis
  <2>1. CASE r.tx \in ToSet(db.bloecke)
    <3>1. r.seq <= db.marke /\ db.marke <= korb.bis
      BY <1>7, <1>9, <2>1 DEF Vermerkt, KorbGilt
    <3>2. r.seq \in Nat
      BY SatzTyp
    <3>3. QED BY <1>4, <1>6, <3>1, <3>2
  <2>2. CASE \E x \in Inhalt : x.tx = r.tx
    <3>1. PICK x \in Inhalt : x.tx = r.tx
      BY <2>2
    <3>2. x \notin db.zeilen
      BY <1>9, <3>1 DEF Vermerkt, KorbGilt
    <3>3. PICK e \in Bereit : x = Eintrag(e)
      BY <1>9, <3>2 DEF Inhalt
    <3>4. e.tx = r.tx /\ e \in Nummerierte /\ r \in Nummerierte
      BY <1>5, <3>1, <3>3 DEF Eintrag, Nummerierte
    <3>5. e.seq = r.seq
      BY <3>4 DEF Einmal, NummerJeAuftrag
    <3>6. QED BY <1>4, <3>5
  <2>3. QED BY <1>9, <2>1, <2>2, BlockInhalt
<1>10. KorbGilt'
  <2>1. CASE korb.an
    <3>1. \A r \in wal.saetze : \A z \in db'.zeilen : z.tx # r.tx
      BY <1>1, <2>1 DEF Vermerkt, KorbGilt
    <3>2. \A r \in wal.saetze : r.tx \in ToSet(db'.bloecke) => r.seq <= db'.marke
      BY <1>3, <1>9, <2>1
    <3>3. db'.marke <= korb'.bis
      BY <1>3, <1>4, <2>1
    <3>4. \A p \in Offene' : p.ohne
      BY <1>7, <2>1 DEF Vermerkt, KorbGilt
    <3>5. QED BY <1>1, <3>1, <3>2, <3>3, <3>4 DEF KorbGilt
  <2>2. CASE ~korb.an
    BY <1>3, <2>2 DEF KorbGilt
  <2>3. QED BY <2>1, <2>2
<1>11. ASSUME ~korb.an, NEW t, Draussen(t)' PROVE Draussen(t)
  <2>1. Inhalt = db.zeilen
    BY <1>11 DEF Inhalt
  <2>2. t \in ToSet(db'.bloecke) => t \in ToSet(db.bloecke) \/ \E x \in db.zeilen : x.tx = t
    BY <2>1, BlockInhalt
  <2>3. QED BY <1>1, <1>11, <2>2 DEF Draussen
<1>12. VermerkeGelten'
  BY <1>1, <1>2, <1>3, <1>7, <1>11 DEF Vermerkt, VermerkeGelten, Laeuft
<1>13. QED BY <1>8, <1>10, <1>12 DEF Vermerkt

\* Above a replacement there is nothing.
LEMMA VermerktErsatz ==
  ASSUME Typ, Nummern, Vermerkt, Ersatz(FALSE)
  PROVE  Vermerkt'
<1>1. /\ db'.zeilen = db.zeilen /\ db'.bloecke = db.bloecke /\ db'.boden = Kopf /\ db'.ab = Kopf + 1
      /\ lauf = "laeuft" /\ UNCHANGED <<wal, schlange, laufend, korb, lauf>>
  BY ErsatzTut
<1>2. db'.markeDa = db.markeDa /\ db'.marke = db.marke
  BY VermerkeTun
<1>3. Offene' = Offene
  BY <1>1 DEF Offene
<1>4. MarkeGilt' /\ KorbGilt'
  BY <1>1, <1>2, <1>3 DEF Vermerkt, MarkeGilt, KorbGilt, Laeuft
<1>5. Nachspielbar' = {}
  <2>1. ASSUME NEW r \in Nachspielbar' PROVE FALSE
    <3>1. r \in wal.saetze /\ r.seq > Kopf
      BY <1>1 DEF Nachspielbar
    <3>2. r.seq <= Kopf /\ r.seq \in Nat /\ Kopf \in Nat
      BY <3>1, SatzTyp, KopfTyp DEF Nummern, SatzNummern
    <3>3. QED BY <3>1, <3>2
  <2>2. QED BY <2>1
<1>6. db'.ab <= wal'.naechste
  BY <1>1, KopfTyp
<1>7. VermerkeGelten'
  BY <1>1, <1>5, <1>6 DEF Vermerkt, VermerkeGelten
<1>8. QED BY <1>4, <1>7 DEF Vermerkt

\* Below a compaction all is stored.
LEMMA VermerktKuerzen ==
  ASSUME Typ, Nummern, Salden, Unterwegs, KeinNachzuegler, Vermerkt, NEW gross \in BOOLEAN, Kuerzen(gross)
  PROVE  Vermerkt'
<1>1. /\ db'.konten = db.konten /\ db'.zeilen = db.zeilen /\ db'.bloecke = db.bloecke /\ db'.boden = db.boden
      /\ wal'.naechste = wal.naechste /\ wal'.saetze \subseteq wal.saetze
      /\ lauf = "laeuft" /\ UNCHANGED <<schlange, laufend, korb, lauf>>
  BY KuerzenTut
<1>2. /\ db'.vermerke = {s \in db.vermerke : s >= KuerzenBis}
      /\ db'.markeDa = db.markeDa /\ db'.marke = db.marke
      /\ db'.ab \in {db.ab, KuerzenBis} /\ db'.ab >= db.ab /\ db'.ab >= KuerzenBis
  BY VermerkeTun
<1>3. /\ KuerzenBis \in Nat
      /\ \A n \in Nat : n < KuerzenBis /\ n >= db.boden => n + Abstand < Kopf /\ \A p \in Offene : n < p.seq
  BY KuerzenBisIst
<1>4. db.ab \in Nat /\ db.boden \in Nat /\ Abstand \in Nat /\ Kopf \in Nat /\ wal.naechste = Kopf + 1
  BY KopfTyp, GrenzenTyp DEF Typ, DbTyp
<1>5. Offene' = Offene /\ Nachspielbar' \subseteq Nachspielbar /\ Laeuft
  BY <1>1 DEF Offene, Nachspielbar, Laeuft
<1>6. MarkeGilt' /\ KorbGilt'
  BY <1>1, <1>2, <1>5 DEF Vermerkt, MarkeGilt, KorbGilt, Laeuft
<1>7. ~korb.an => db'.ab <= wal.naechste
  <2>1. KuerzenBis <= Kopf + 1
    <3>1. CASE KuerzenBis > db.boden
      <4>1. KuerzenBis - 1 \in Nat /\ KuerzenBis - 1 < KuerzenBis /\ KuerzenBis - 1 >= db.boden
        BY <1>3, <1>4, <3>1
      <4>2. KuerzenBis - 1 + Abstand < Kopf
        BY <1>3, <4>1
      <4>3. QED BY <1>3, <1>4, <4>2
    <3>2. CASE KuerzenBis <= db.boden
      BY <1>3, <1>4, <3>2 DEF Unterwegs, BodenOK
    <3>3. QED BY <1>3, <1>4, <3>1, <3>2
  <2>2. ~korb.an => db.ab <= wal.naechste
    BY <1>5 DEF Vermerkt, VermerkeGelten
  <2>3. QED BY <1>2, <1>3, <1>4, <2>1, <2>2
<1>8. ASSUME NEW r \in Nachspielbar, r.seq < KuerzenBis, NEW a \in Beide(r.tx)
      PROVE  r.seq <= db.konten[a].wal
  <2>1. r \in wal.saetze /\ r.seq > db.boden /\ r.seq \in Nat
    BY NachspielTyp DEF Nachspielbar
  <2>2. r.seq >= db.boden
    BY <1>4, <2>1
  <2>3. r.seq + Abstand < Kopf /\ \A p \in Offene : r.seq < p.seq
    BY <1>3, <1>8, <2>1, <2>2
  <2>4. r \notin schwebend
    <3>1. SUFFICES ASSUME r \in schwebend PROVE FALSE
      OBVIOUS
    <3>2. Kopf - r.seq <= Abstand
      BY <3>1 DEF KeinNachzuegler
    <3>3. QED BY <1>4, <2>1, <2>3, <3>2
  <2>5. ~Traeger(a, r.seq)
    <3>1. SUFFICES ASSUME Traeger(a, r.seq) PROVE FALSE
      OBVIOUS
    <3>2. PICK p \in Offene : p.seq <= r.seq
      BY <3>1 DEF Traeger, Offene
    <3>3. p.seq \in Nat
      BY OffeneTyp DEF Posten
    <3>4. QED BY <2>1, <2>3, <3>2, <3>3
  <2>6. QED BY <1>5, <1>8, <2>4, <2>5 DEF Unterwegs, GetragenOK
<1>9. \A u : Draussen(u)' <=> Draussen(u)
  BY <1>1 DEF Draussen
<1>10. ASSUME ~korb.an, NEW r \in Nachspielbar, r.seq >= db'.ab, Draussen(r.tx)
       PROVE  r.seq \in db'.vermerke
  <2>1. r.seq \in Nat
    BY NachspielTyp
  <2>2. r.seq >= db.ab /\ r.seq >= KuerzenBis
    BY <1>2, <1>3, <1>4, <1>10, <2>1
  <2>3. r.seq \in db.vermerke
    BY <1>10, <2>2 DEF Vermerkt, VermerkeGelten
  <2>4. QED BY <1>2, <2>2, <2>3
<1>11. ASSUME ~korb.an, NEW r \in Nachspielbar, r.seq < db'.ab
       PROVE  \A a \in Beide(r.tx) : r.seq <= db.konten[a].wal
  <2>1. CASE r.seq < db.ab
    BY <1>11, <2>1 DEF Vermerkt, VermerkeGelten
  <2>2. CASE r.seq < KuerzenBis
    BY <1>8, <2>2
  <2>3. QED BY <1>2, <1>11, <2>1, <2>2
<1>12. VermerkeGelten'
  <2>1. ~korb.an => korb.saetze = {}
    BY DEF Vermerkt, VermerkeGelten
  <2>2. QED BY <1>1, <1>5, <1>7, <1>9, <1>10, <1>11, <2>1 DEF VermerkeGelten
<1>13. QED BY <1>6, <1>12 DEF Vermerkt

\* The start with the Korb as it was: with it no row is owed, without it each new row has
\* its mark.
LEMMA VermerktEinspielen ==
  ASSUME Typ, Nummern, Salden, Vermerkt,
         NEW an \in BOOLEAN, Einspielen(an), StimmigMitDatei(PeekNachStart), an = korb.an
  PROVE  Vermerkt'
<1> DEFINE S == Nachzuholen(an)
           N == NeueZeilen(S, db.id)
<1>1. /\ wal'.saetze = wal.saetze /\ wal'.naechste = PeekNachStart
      /\ schlange' = NachgespielteSchlange(an) /\ db' = Nachholen(an)
      /\ laufend' = laufend /\ laufend = {}
  BY EinspielenTut DEF Nummern, Ruhe
<1>2. /\ S \subseteq Nachspielbar /\ IsFiniteSet(S)
      /\ \A x \in S : x.seq \in Nat /\ x.tx \in Auftraege
      /\ \A x, y \in S : x.seq = y.seq => x = y
      /\ db'.konten = db.konten
      /\ db'.ab = db.ab /\ db'.markeDa = db.markeDa /\ db'.marke = db.marke /\ db'.boden = db.boden
      /\ db'.bloecke = db.bloecke /\ db'.zeilen = db.zeilen \cup N
  BY <1>1, NachholenTyp
<1>3. \A r \in S : ~OhneZeile(r, an)
  BY DEF Nachzuholen, ZeileFehlt
<1>4. \A z \in N : \E x \in S : z.tx = x.tx /\ z.seq = x.seq
  BY <1>2, NeueZeilenPaarig DEF Typ, DbTyp
<1>5. db.vermerke \subseteq db'.vermerke /\ \A r \in S : r.seq \in db'.vermerke
  BY <1>1, VermerkeNachStart
<1> HIDE DEF N, S
<1>6. \A p \in ToSet(schlange') : \E r \in Nachspielbar : p.ohne = OhneZeile(r, an)
  BY <1>1, NachgespielteSchlangeIst
<1>7. Offene' = ToSet(schlange')
  BY <1>1 DEF Offene
<1>8. Nachspielbar' = Nachspielbar /\ Nachspielbar \subseteq wal.saetze
  BY <1>1, <1>2 DEF Nachspielbar
<1>9. /\ korb'.an = an /\ korb'.bis >= db.marke
      /\ ~an => korb'.saetze = {}
  BY KorbNachStart
<1>10. db.markeDa = an
  BY DEF Vermerkt, MarkeGilt
<1>11. MarkeGilt'
  BY <1>2, <1>9, <1>10 DEF MarkeGilt
<1>12. KorbGilt'
  <2>1. SUFFICES ASSUME an PROVE KorbGilt'
    BY <1>9 DEF KorbGilt
  <2>2. \A r : OhneZeile(r, an)
    BY <1>10, <2>1 DEF OhneZeile
  <2>3. db'.zeilen = db.zeilen
    BY <1>2, <1>3, <1>4, <2>2
  <2>4. \A p \in Offene' : p.ohne
    BY <1>6, <1>7, <2>2
  <2>5. db'.marke <= korb'.bis
    <3>1. db.marke \in Nat /\ korb'.bis \in Nat
      BY EinspielenTut DEF Typ, DbTyp, KorbTyp
    <3>2. QED BY <1>2, <1>9, <3>1
  <2>6. QED BY <1>1, <1>2, <2>1, <2>3, <2>4, <2>5 DEF Vermerkt, KorbGilt
<1>13. ASSUME NEW r \in Nachspielbar, Draussen(r.tx)', ~Draussen(r.tx) PROVE r.seq \in db'.vermerke
  <2>1. PICK z \in N : z.tx = r.tx
    BY <1>2, <1>13 DEF Draussen
  <2>2. PICK x \in S : x.tx = r.tx
    BY <1>4, <2>1
  <2>3. x = r
    BY <1>2, <1>8, <2>2 DEF Salden, LogOK
  <2>4. QED BY <1>5, <2>3
<1>14. db'.ab <= wal'.naechste
  BY <1>1, <1>2 DEF StimmigMitDatei
<1>15. VermerkeGelten'
  <2>1. SUFFICES ASSUME ~an PROVE VermerkeGelten'
    BY <1>9 DEF VermerkeGelten
  <2>2. \A r \in Nachspielbar : r.seq >= db'.ab => (Draussen(r.tx)' => r.seq \in db'.vermerke)
    BY <1>2, <1>5, <1>13, <2>1 DEF Vermerkt, VermerkeGelten
  <2>3. \A r \in Nachspielbar : r.seq < db'.ab => \A a \in Beide(r.tx) : r.seq <= db'.konten[a].wal
    BY <1>2, <2>1 DEF Vermerkt, VermerkeGelten
  <2>4. QED BY <1>8, <1>9, <1>14, <2>1, <2>2, <2>3 DEF VermerkeGelten
<1>16. QED BY <1>11, <1>12, <1>15 DEF Vermerkt

-----------------------------------------------------------------------------

\* Every step.
LEMMA EinmalSchritt ==
  ASSUME ~ErsatzUnterbrochen, Typ, Nummern, Salden, VermerktOK, LaufOK, EinUmschalten, Einmal, [Next]_vars
  PROVE  Einmal'
<1>1. CASE \E t \in Auftraege : Anhaengen(t)
  BY <1>1, EinmalAnhaengen
<1>2. CASE \E e \in schwebend : Einreihen(e)
  BY <1>2, EinmalEinreihen
<1>3. CASE FlushNimmt
  BY <1>3, EinmalNimmt
<1>4. CASE \E b \in laufend : FlushScheitert(b)
  BY <1>4, EinmalScheitert
<1>5. CASE \E b \in laufend : \E G \in SUBSET b.offen : FlushSchreibt(b, G)
  BY <1>5, EinmalSchreibt
<1>6. CASE \E t \in leert : SeriellBucht(t)
  BY <1>6, EinmalSeriell
<1>7. CASE Block
  BY <1>7, EinmalBlock
<1>8. CASE \E bis \in 0 .. Kopf : Absturz(bis)
  BY <1>8, EinmalAbsturz
<1>9. ASSUME NEW an \in BOOLEAN, Einspielen(an), StimmigMitDatei(PeekNachStart) PROVE Einmal'
  <2>1. lauf = "aus"
    BY <1>9 DEF Einspielen
  <2>2. zaehler.abstuerze \in Nat /\ zaehler.abstuerze # 0
    BY <2>1 DEF LaufOK, Typ, ZaehlerTyp
  <2>3. ModusBleibt \/ zaehler.abstuerze = 1
    BY <2>2 DEF EinUmschalten
  <2>4. Vermerkt
    BY <2>1, <2>3 DEF VermerktOK
  <2>5. QED BY <1>9, <2>4, EinmalEinspielen
<1>10. CASE \E u \in BOOLEAN : Ersatz(u)
  <2>1. PICK u \in BOOLEAN : Ersatz(u)
    BY <1>10
  <2>2. u = FALSE
    BY <2>1, ErsatzTut
  <2>3. QED BY <2>1, <2>2, EinmalSonst
<1>11. CASE \/ UNCHANGED vars
            \/ \E bis \in 1 .. Kopf : Sichern(bis)
            \/ \E t \in Auftraege : SeriellBeginnt(t)
            \/ \E t \in leert : SeriellAbgelehnt(t)
            \/ \E gross \in BOOLEAN : Kuerzen(gross)
            \/ Anschluss
            \/ \E an \in BOOLEAN : Einspielen(an) /\ ~StimmigMitDatei(PeekNachStart)
  BY <1>11, EinmalSonst
<1>12. QED BY <1>1, <1>2, <1>3, <1>4, <1>5, <1>6, <1>7, <1>8, <1>9, <1>10, <1>11 DEF Next

\* Every step that ends no run leaves it as it is, or is a part of the start.
LEMMA AusBleibt ==
  ASSUME ~ErsatzUnterbrochen, Typ, Nummern, [Next]_vars, lauf' = "aus",
         zaehler'.abstuerze = zaehler.abstuerze
  PROVE  lauf = "aus"
<1>1. CASE UNCHANGED vars
  BY <1>1 DEF vars
<1>2. CASE Next
  <2>1. ~(\E bis \in 0 .. Kopf : Absturz(bis))
    <3>1. zaehler.abstuerze \in Nat
      BY DEF Typ, ZaehlerTyp
    <3>2. QED BY <1>2, <3>1, ZaehlerTut
  <2>2. ~(\E u \in BOOLEAN : Ersatz(u))
    <3>1. ASSUME NEW u \in BOOLEAN, Ersatz(u) PROVE FALSE
      <4>1. u = FALSE
        BY <3>1, ErsatzTut
      <4>2. QED BY <3>1, <4>1, ErsatzTut
    <3>2. QED BY <3>1
  <2>3. Anschluss => lauf' # "aus"
    BY AnschlussTut
  <2>4. QED BY <2>1, <2>2, <2>3, LaufTut DEF vars
<1>3. QED BY <1>1, <1>2

\* Every step.
LEMMA VermerktSchritt ==
  ASSUME ~ErsatzUnterbrochen, Typ, Nummern, Salden, Unterwegs, KeinNachzuegler, Einmal, VermerktOK, LaufOK,
         [Next]_vars
  PROVE  VermerktOK'
<1>1. SUFFICES ASSUME ModusBleibt \/ zaehler'.abstuerze = 0 \/ (zaehler'.abstuerze = 1 /\ lauf' = "aus")
               PROVE  Vermerkt'
  BY DEF VermerktOK, ModusBleibt
<1>2. Vermerkt
  <2>1. zaehler.abstuerze \in Nat
    BY DEF Typ, ZaehlerTyp
  <2>2. zaehler'.abstuerze = zaehler.abstuerze \/ zaehler'.abstuerze = zaehler.abstuerze + 1
    BY ZaehlerTut DEF vars
  <2>3. ModusBleibt \/ zaehler.abstuerze = 0 \/ (zaehler.abstuerze = 1 /\ zaehler'.abstuerze = 1 /\ lauf' = "aus")
    BY <1>1, <2>1, <2>2
  <2>4. QED BY <2>3, AusBleibt DEF VermerktOK
<1>3. CASE \E t \in Auftraege : Anhaengen(t)
  BY <1>2, <1>3, VermerktAnhaengen
<1>4. CASE \E e \in schwebend : Einreihen(e)
  BY <1>2, <1>4, VermerktEinreihen
<1>5. CASE \E b \in laufend : \E G \in SUBSET b.offen : FlushSchreibt(b, G)
  BY <1>2, <1>5, VermerktSchreibt
<1>6. CASE \E t \in leert : SeriellBucht(t)
  BY <1>2, <1>6, VermerktSeriell
<1>7. CASE Block
  BY <1>2, <1>7, VermerktBlock
<1>8. CASE \E gross \in BOOLEAN : Kuerzen(gross)
  BY <1>2, <1>8, VermerktKuerzen
<1>9. CASE \E u \in BOOLEAN : Ersatz(u)
  <2>1. PICK u \in BOOLEAN : Ersatz(u)
    BY <1>9
  <2>2. u = FALSE
    BY <2>1, ErsatzTut
  <2>3. QED BY <1>2, <2>1, <2>2, VermerktErsatz
<1>10. ASSUME NEW an \in BOOLEAN, Einspielen(an), StimmigMitDatei(PeekNachStart) PROVE Vermerkt'
  <2>1. lauf = "aus" /\ lauf' = "eingespielt" /\ zaehler' = zaehler
    BY <1>10, EinspielenTut
  <2>2. zaehler'.abstuerze # 0
    BY <2>1 DEF LaufOK
  <2>3. ModusBleibt
    BY <1>1, <2>1, <2>2
  <2>4. <<korb.an, an>> \in Wechsel
    BY <1>10, KorbNachStart
  <2>5. an = korb.an
    BY <2>3, <2>4 DEF ModusBleibt
  <2>6. QED BY <1>2, <1>10, <2>5, VermerktEinspielen
<1>11. CASE \/ UNCHANGED vars
            \/ \E bis \in 1 .. Kopf : Sichern(bis)
            \/ \E t \in Auftraege : SeriellBeginnt(t)
            \/ \E t \in leert : SeriellAbgelehnt(t)
            \/ FlushNimmt
            \/ \E b \in laufend : FlushScheitert(b)
            \/ \E bis \in 0 .. Kopf : Absturz(bis)
            \/ Anschluss
            \/ \E an \in BOOLEAN : Einspielen(an) /\ ~StimmigMitDatei(PeekNachStart)
  BY <1>2, <1>11, VermerktSonst
<1>12. QED BY <1>3, <1>4, <1>5, <1>6, <1>7, <1>8, <1>9, <1>10, <1>11 DEF Next

\* Every step.
LEMMA LaufSchritt ==
  ASSUME ~ErsatzUnterbrochen, Typ, Nummern, LaufOK, [Next]_vars
  PROVE  LaufOK'
<1>1. CASE UNCHANGED vars
  BY <1>1 DEF vars, LaufOK
<1>2. CASE Next
  <2>1. SUFFICES ASSUME zaehler'.abstuerze = 0 PROVE lauf' = "laeuft"
    BY DEF LaufOK
  <2>2. zaehler.abstuerze = 0 /\ ~(\E bis \in 0 .. Kopf : Absturz(bis))
    <3>1. zaehler.abstuerze \in Nat
      BY DEF Typ, ZaehlerTyp
    <3>2. QED BY <1>2, <2>1, <3>1, ZaehlerTut
  <2>3. lauf = "laeuft"
    BY <2>2 DEF LaufOK
  <2>4. CASE \E u \in BOOLEAN : Ersatz(u)
    <3>1. PICK u \in BOOLEAN : Ersatz(u)
      BY <2>4
    <3>2. u = FALSE
      BY <3>1, ErsatzTut
    <3>3. QED BY <2>3, <3>1, <3>2, ErsatzTut
  <2>5. CASE ~\E u \in BOOLEAN : Ersatz(u)
    BY <2>2, <2>3, <2>5, LaufTut DEF vars
  <2>6. QED BY <2>4, <2>5
<1>3. QED BY <1>1, <1>2

\* At the beginning nothing is on its way, and nothing noted.
LEMMA EinmalAnfang == Init => Einmal /\ VermerktOK /\ LaufOK
<1> SUFFICES ASSUME Init PROVE Einmal /\ VermerktOK /\ LaufOK
  OBVIOUS
<1>1. /\ wal.saetze = {} /\ wal.naechste = 1 /\ lauf = "laeuft"
      /\ schlange = <<>> /\ laufend = {} /\ schwebend = {}
  BY DEF Init
<1>2. /\ db.zeilen = {} /\ db.bloecke = <<>> /\ db.markeDa = korb.an /\ db.marke = 0 /\ db.ab = 1
      /\ korb.bis = 0 /\ korb.saetze = {}
  <2>1. PICK an \in {w[1] : w \in Wechsel} :
          /\ korb = [an |-> an, ab |-> 1, bis |-> 0, fehlt |-> {}, saetze |-> {}]
          /\ db = [konten |-> konten, zeilen |-> {}, id |-> 0, vermerke |-> {}, ab |-> 1,
                   markeDa |-> an, marke |-> 0, boden |-> 0, bloecke |-> <<>>]
    BY DEF Init
  <2>2. QED BY <2>1
<1>3. Offene = {} /\ Nachspielbar = {}
  BY <1>1 DEF Offene, ToSet, Nachspielbar
<1>4. MitZeile = {} /\ Wartend = {} /\ Dinge = {} /\ Nummerierte = {}
  BY <1>1, <1>2, <1>3 DEF Dinge, Wartend, MitZeile, Nummerierte
<1>5. NummerJeAuftrag
  BY <1>4 DEF NummerJeAuftrag
<1>6. PostenEinmal
  BY <1>1 DEF PostenEinmal, EinmalReihe
<1>7. WegEinmal
  BY <1>2, <1>4 DEF WegEinmal
<1>8. Vermerkt
  BY <1>1, <1>2, <1>3 DEF Vermerkt, MarkeGilt, KorbGilt, VermerkeGelten
<1>9. QED BY <1>1, <1>5, <1>6, <1>7, <1>8 DEF Einmal, VermerktOK, LaufOK

\* No order takes effect twice or gets into two blocks (recoverFromWAL, walAusgangNachholen,
\* flushWALBatch, speicherKorbNachWiederanlauf), if the Korb stays as it is or there is one
\* restart: with two, the second after a switch, it does not hold (observations of the README).
THEOREM NichtDoppeltGilt ==
  ASSUME ~ErsatzUnterbrochen
  PROVE  Spec /\ []KeinNachzuegler /\ []EinUmschalten => []NichtDoppelt
<1> DEFINE I == Typ /\ Nummern /\ Salden /\ Unterwegs /\ Einmal /\ VermerktOK /\ LaufOK
<1>1. I /\ KeinNachzuegler /\ EinUmschalten /\ [Next]_vars => I'
  BY TypSchritt, SaldenSchritt, UnterwegsSchritt, EinmalSchritt, VermerktSchritt, LaufSchritt
<1>2. Init => I
  BY TypAnfang, SaldenAnfang, UnterwegsAnfang, EinmalAnfang
<1>3. I => NichtDoppelt
  <2>1. SUFFICES ASSUME I PROVE NichtDoppelt
    OBVIOUS
  <2>2. ASSUME NEW a \in Konten, NEW t \in Auftraege
        PROVE  konten[a].wirkt[t] <= 1 /\ db.konten[a].wirkt[t] <= 1
    <3>1. konten[a].wirkt[t] \in Nat /\ db.konten[a].wirkt[t] \in Nat
      BY <2>1, KontoTyp
    <3>2. db.konten[a].wirkt[t] <= konten[a].wirkt[t] /\ konten[a].wirkt[t] <= 1
      BY <2>1 DEF Salden, KontenOK
    <3>3. QED BY <3>1, <3>2
  <2>3. IsInjective(db.bloecke)
    BY <2>1 DEF Einmal, WegEinmal, IsInjective
  <2>4. QED BY <2>2, <2>3 DEF NichtDoppelt
<1> HIDE DEF I
<1>4. QED BY <1>1, <1>2, <1>3, PTL DEF Spec

-----------------------------------------------------------------------------
(***************************************************************************)
(* One way at least.  No record above the floor is without a way out: what *)
(* the log and the Korb hold, what the next start takes as done.           *)
(***************************************************************************)
\* What is under way has the number of its record.
Laufendes   == Offene \cup schwebend \cup korb.saetze
SelbeNummer == \A r \in wal.saetze, x \in Laufendes : x.seq = r.seq => x.tx = r.tx

\* The file has no gap above the high-water mark, and what is durable is in it or below
\* the mark; the mark of the Korb is durable.
DateiOK ==
  /\ \A r \in wal.saetze : \A s \in 1 .. r.seq : s \in Seqs(wal.saetze) \/ s <= wal.hwm
  /\ Laeuft => Kopf \in Seqs(wal.saetze) \/ Kopf <= wal.hwm
  /\ wal.haltbar \in Seqs(wal.saetze) \/ wal.haltbar <= wal.hwm
  /\ lauf = "eingespielt" => wal.haltbar = Kopf /\ (db.markeDa \/ korb.saetze = {})
  /\ db.marke <= wal.haltbar

\* What the Korb holds and what floats lies above what went into blocks, and the Korb
\* waits for what floats.
KorbFolge ==
  korb.an /\ Laeuft =>
    /\ korb.ab <= Kopf + 1 /\ korb.bis <= wal.haltbar /\ \A f \in korb.fehlt : f <= Kopf
    /\ \A e \in korb.saetze : e.seq > korb.bis
    /\ \A e \in schwebend : e.seq > korb.bis /\ e.seq >= korb.ab /\ e.seq \notin korb.fehlt
Folge == DateiOK /\ KorbFolge

\* Without the Korb nothing is in it.
KorbAus == ~korb.an => korb.saetze = {}

\* Every record above the floor is in a block or on its way into one.
HatWeg(t) == Draussen(t) \/ \E x \in MitZeile \cup schwebend \cup korb.saetze : x.tx = t
LogWeg    == Laeuft => \A r \in Nachspielbar : HatWeg(r.tx)

\* An order that is stored but not in the log can be seen by other nodes, or was noted
\* as lost.
GespeichertOK ==
  Pruefbar /\ (Laeuft \/ (lauf = "aus" /\ StimmigMitDatei(PeekNachStart))) =>
    \A t \in Auftraege :
      db.konten[Von[t]].wirkt[t] = 1 => Draussen(t) \/ ImLog(t) \/ t \in kunde.ersetzt

\* What the next start will take as done has been done: without the Korb what has a mark
\* or lies below the marks, with it what its mark covers.
GetanOhne ==
  ~korb.an => \A r \in Nachspielbar : r.seq \in db.vermerke \/ r.seq < db.ab => Draussen(r.tx)
GetanMit ==
  korb.an => /\ db.vermerke = {}
             /\ \A r \in Nachspielbar :
                  r.seq <= db.marke \/ (Laeuft /\ r.seq <= korb.bis) => r.tx \in ToSet(db.bloecke)
Getan == GetanOhne /\ GetanMit /\ (Laeuft => \A s \in db.vermerke : s <= Kopf)
GetanOK ==
  /\ IsFiniteSet(db.vermerke)
  /\ (ModusBleibt \/ zaehler.abstuerze = 0 \/ (zaehler.abstuerze = 1 /\ lauf = "aus")) => Getan

-----------------------------------------------------------------------------

\* A step after which everything under way was so before.
LEMMA SelbeNummerRuhig ==
  ASSUME SelbeNummer, wal'.saetze \subseteq wal.saetze,
         \A x \in Laufendes' : \E y \in Laufendes : y.seq = x.seq /\ y.tx = x.tx
  PROVE  SelbeNummer'
<1>1. ASSUME NEW r \in wal'.saetze, NEW x \in Laufendes', x.seq = r.seq PROVE x.tx = r.tx
  <2>1. PICK y \in Laufendes : y.seq = x.seq /\ y.tx = x.tx
    OBVIOUS
  <2>2. y.tx = r.tx
    BY <1>1, <2>1 DEF SelbeNummer
  <2>3. QED BY <2>1, <2>2
<1>2. QED BY <1>1 DEF SelbeNummer

\* The batches and the queue hold the same items, whichever holds them.
LEMMA OffeneGleich ==
  ASSUME Typ, FlushNimmt \/ \E b \in laufend : FlushScheitert(b)
  PROVE  Offene' = Offene
<1>1. CASE FlushNimmt
  <2>1. PICK b \in BuendelTyp :
          /\ laufend' = laufend \cup {b} /\ ToSet(schlange) = ToSet(schlange') \cup ToSet(b.posten)
    BY <1>1, FlushNimmtTut
  <2>2. QED BY <2>1 DEF Offene
<1>2. CASE \E b \in laufend : FlushScheitert(b)
  <2>1. PICK b \in laufend : FlushScheitert(b)
    BY <1>2
  <2>2. ToSet(schlange') = ToSet(schlange) \cup ToSet(b.posten) /\ laufend' = laufend \ {b}
    BY <2>1, FlushScheitertTut
  <2>3. QED BY <2>2 DEF Offene
<1>3. QED BY <1>1, <1>2

\* Every step.
LEMMA SelbeNummerSchritt ==
  ASSUME ~ErsatzUnterbrochen, Typ, Nummern, SelbeNummer, [Next]_vars
  PROVE  SelbeNummer'
<1>1. CASE \E t \in Auftraege : Anhaengen(t)
  <2>1. PICK t \in Auftraege : Anhaengen(t)
    BY <1>1
  <2> DEFINE e == [seq |-> wal.naechste, tx |-> t]
  <2>2. /\ wal'.saetze = wal.saetze \cup {e} /\ schwebend' = schwebend \cup {e}
        /\ UNCHANGED <<schlange, laufend, korb>>
    BY <2>1, AnhaengenTut
  <2>3. e.seq = wal.naechste
    OBVIOUS
  <2> HIDE DEF e
  <2>4. Laufendes' = Laufendes \cup {e}
    BY <2>2 DEF Laufendes, Offene
  <2>5. \A x \in Laufendes \cup wal.saetze : x.seq # e.seq
    <3>1. ASSUME NEW x \in Laufendes \cup wal.saetze PROVE x.seq # e.seq
      <4>1. x.seq <= Kopf /\ x.seq \in Nat
        BY OffeneTyp DEF Laufendes, Nummern, PostenNummern, SchwebNummern, KorbNummern, SatzNummern,
                         Typ, KorbTyp, WalTyp, Saetze, Posten
      <4>2. QED BY <2>3, <4>1, KopfTyp
    <3>2. QED BY <3>1
  <2>6. QED BY <2>2, <2>4, <2>5 DEF SelbeNummer
<1>2. CASE \E e \in schwebend : Einreihen(e)
  <2>1. PICK e \in schwebend : Einreihen(e)
    BY <1>2
  <2>2. /\ korb'.saetze = korb.saetze \cup IF korb.an THEN {e} ELSE {}
        /\ schwebend' = schwebend \ {e} /\ wal' = wal
    BY <2>1, EinreihenTut
  <2>3. \A x \in Offene' : x \in Offene \/ (x.seq = e.seq /\ x.tx = e.tx)
    BY <2>1, OffeneEinreihen
  <2>4. \A x \in Laufendes' : \E y \in Laufendes : y.seq = x.seq /\ y.tx = x.tx
    BY <2>1, <2>2, <2>3 DEF Laufendes
  <2>5. QED BY <2>2, <2>4, SelbeNummerRuhig
<1>3. CASE \E an \in BOOLEAN : Einspielen(an) /\ StimmigMitDatei(PeekNachStart)
  <2>1. PICK an \in BOOLEAN : Einspielen(an) /\ StimmigMitDatei(PeekNachStart)
    BY <1>3
  <2>2. /\ wal'.saetze = wal.saetze /\ schlange' = NachgespielteSchlange(an)
        /\ laufend' = {} /\ schwebend' = {} /\ korb'.saetze \subseteq wal.saetze
    BY <2>1, EinspielenTut DEF Nummern, Ruhe
  <2>3. \A x \in ToSet(schlange') : \E y \in wal.saetze : y.seq = x.seq /\ y.tx = x.tx
    BY <2>2, NachgespielteSchlangeIst, NachspielTyp
  <2>4. \A x \in Laufendes' : \E y \in wal.saetze : y.seq = x.seq /\ y.tx = x.tx
    BY <2>2, <2>3 DEF Laufendes, Offene
  <2>5. \A y, r \in wal.saetze : y.seq = r.seq => y = r
    BY DEF Nummern, SatzNummern
  <2>6. QED BY <2>2, <2>4, <2>5 DEF SelbeNummer
<1>4. CASE \E bis \in 0 .. Kopf : Absturz(bis)
  <2>1. Laufendes' = {}
    <3>1. schlange' = <<>> /\ laufend' = {} /\ schwebend' = {} /\ korb'.saetze = {}
      BY <1>4, AbsturzTut
    <3>2. QED BY <3>1 DEF Laufendes, Offene, ToSet
  <2>2. QED BY <2>1 DEF SelbeNummer
<1>5. CASE \E b \in laufend : \E G \in SUBSET b.offen : FlushSchreibt(b, G)
  <2>1. Offene' \subseteq Offene
    BY <1>5, OffeneSchreibt
  <2>2. UNCHANGED <<wal, schwebend, korb>>
    BY <1>5, FlushSchreibtTut
  <2>3. Laufendes' \subseteq Laufendes
    BY <2>1, <2>2 DEF Laufendes
  <2>4. QED BY <2>2, <2>3, SelbeNummerRuhig
<1>6. CASE FlushNimmt \/ \E b \in laufend : FlushScheitert(b)
  <2>1. UNCHANGED <<wal, schwebend, korb>>
    BY <1>6, FlushNimmtTut, FlushScheitertTut
  <2>2. Laufendes' = Laufendes
    BY <1>6, <2>1, OffeneGleich DEF Laufendes
  <2>3. QED BY <2>1, <2>2, SelbeNummerRuhig
<1>7. CASE \/ UNCHANGED vars
           \/ \E bis \in 1 .. Kopf : Sichern(bis)
           \/ \E t \in Auftraege : SeriellBeginnt(t)
           \/ \E t \in leert : SeriellBucht(t)
           \/ \E t \in leert : SeriellAbgelehnt(t)
           \/ Block
           \/ \E gross \in BOOLEAN : Kuerzen(gross)
           \/ Anschluss
           \/ \E u \in BOOLEAN : Ersatz(u)
           \/ \E an \in BOOLEAN : Einspielen(an) /\ ~StimmigMitDatei(PeekNachStart)
  <2>1. /\ wal'.saetze \subseteq wal.saetze /\ UNCHANGED <<schlange, laufend, schwebend>>
        /\ korb'.saetze \subseteq korb.saetze
    <3>1. CASE UNCHANGED vars \/ \E t \in leert : SeriellAbgelehnt(t)
      BY <3>1 DEF vars, SeriellAbgelehnt
    <3>2. CASE (\E bis \in 1 .. Kopf : Sichern(bis)) \/ \E t \in Auftraege : SeriellBeginnt(t)
      BY <3>2, SichernTut, SeriellBeginntTut
    <3>3. CASE \E t \in leert : SeriellBucht(t)
      BY <3>3, SeriellBuchtTut
    <3>4. CASE Block
      BY <3>4, BlockTut
    <3>5. CASE \E gross \in BOOLEAN : Kuerzen(gross)
      BY <3>5, KuerzenTut
    <3>6. CASE Anschluss
      BY <3>6, AnschlussTut
    <3>7. CASE \E u \in BOOLEAN : Ersatz(u)
      BY <3>7, ErsatzTut
    <3>8. CASE \E an \in BOOLEAN : Einspielen(an) /\ ~StimmigMitDatei(PeekNachStart)
      BY <3>8, VerweigertTut
    <3>9. QED BY <1>7, <3>1, <3>2, <3>3, <3>4, <3>5, <3>6, <3>7, <3>8
  <2>2. Laufendes' \subseteq Laufendes
    BY <2>1 DEF Laufendes, Offene
  <2>3. QED BY <2>1, <2>2, SelbeNummerRuhig
<1>8. QED BY <1>1, <1>2, <1>3, <1>4, <1>5, <1>6, <1>7 DEF Next

-----------------------------------------------------------------------------

\* The numbers of the log and of the Korb.
LEMMA ZahlenTyp ==
  ASSUME Typ
  PROVE  /\ Kopf \in Nat /\ wal.naechste = Kopf + 1 /\ wal.haltbar \in Nat /\ wal.hwm \in Nat
         /\ wal.haltbar <= Kopf /\ wal.hwm <= Kopf
         /\ db.marke \in Nat /\ db.boden \in Nat /\ db.ab \in Nat /\ korb.bis \in Nat /\ korb.ab \in Nat
         /\ \A f \in korb.fehlt : f \in Nat
         /\ \A e \in korb.saetze \cup schwebend : e.seq \in Nat
BY KopfTyp DEF Typ, WalTyp, DbTyp, KorbTyp, Saetze

\* A step that leaves the log, the Korb and its mark alone.
LEMMA FolgeRuhig ==
  ASSUME Folge, UNCHANGED <<wal, korb, lauf>>, db'.marke = db.marke, schwebend' \subseteq schwebend,
         lauf = "eingespielt" => db'.markeDa = db.markeDa
  PROVE  Folge'
<1>1. Kopf' = Kopf /\ Laeuft' = Laeuft
  BY DEF Kopf, Laeuft
<1>2. DateiOK'
  BY <1>1 DEF Folge, DateiOK
<1>3. KorbFolge'
  BY <1>1 DEF Folge, KorbFolge
<1>4. QED BY <1>2, <1>3 DEF Folge

LEMMA FolgeSonst ==
  ASSUME Typ, Nummern, Folge,
         \/ UNCHANGED vars
         \/ \E t \in Auftraege : SeriellBeginnt(t)
         \/ \E t \in leert : SeriellBucht(t)
         \/ \E t \in leert : SeriellAbgelehnt(t)
         \/ FlushNimmt
         \/ \E b \in laufend : FlushScheitert(b)
         \/ \E b \in laufend : \E G \in SUBSET b.offen : FlushSchreibt(b, G)
         \/ Ersatz(FALSE)
  PROVE  Folge'
<1>1. /\ UNCHANGED <<wal, korb, lauf, schwebend>> /\ db'.marke = db.marke
      /\ lauf = "eingespielt" => db'.markeDa = db.markeDa
  <2>1. CASE UNCHANGED vars \/ \E t \in leert : SeriellAbgelehnt(t)
    BY <2>1 DEF vars, SeriellAbgelehnt
  <2>2. CASE \E t \in Auftraege : SeriellBeginnt(t)
    BY <2>2, SeriellBeginntTut
  <2>3. CASE \E t \in leert : SeriellBucht(t)
    BY <2>3, SeriellBuchtTut
  <2>4. CASE FlushNimmt
    BY <2>4, FlushNimmtTut
  <2>5. CASE \E b \in laufend : FlushScheitert(b)
    BY <2>5, FlushScheitertTut
  <2>6. CASE \E b \in laufend : \E G \in SUBSET b.offen : FlushSchreibt(b, G)
    BY <2>6, FlushSchreibtTut
  <2>7. CASE Ersatz(FALSE)
    BY <2>7, ErsatzTut, VermerkeTun
  <2>8. QED BY <2>1, <2>2, <2>3, <2>4, <2>5, <2>6, <2>7
<1>2. QED BY <1>1, FolgeRuhig

\* A new record is the last of the file, and above the Korb.
LEMMA FolgeAnhaengen ==
  ASSUME Typ, Folge, NEW t \in Auftraege, Anhaengen(t)
  PROVE  Folge'
<1> DEFINE e == [seq |-> wal.naechste, tx |-> t]
<1>1. /\ wal'.saetze = wal.saetze \cup {e} /\ wal'.naechste = wal.naechste + 1
      /\ wal'.haltbar = wal.haltbar /\ wal'.hwm = wal.hwm
      /\ schwebend' = schwebend \cup {e} /\ lauf = "laeuft" /\ UNCHANGED <<db, korb, lauf>>
  BY AnhaengenTut
<1>2. e.seq = wal.naechste
  OBVIOUS
<1> HIDE DEF e
<1>3. /\ Kopf \in Nat /\ wal.naechste = Kopf + 1 /\ wal.haltbar \in Nat /\ wal.hwm \in Nat
      /\ wal.haltbar <= Kopf /\ korb.bis \in Nat /\ korb.ab \in Nat /\ \A f \in korb.fehlt : f \in Nat
  BY ZahlenTyp
<1>4. Kopf' = Kopf + 1 /\ Laeuft /\ Laeuft'
  BY <1>1, <1>3 DEF Kopf, Laeuft
<1>5. Seqs(wal'.saetze) = Seqs(wal.saetze) \cup {Kopf + 1}
  BY <1>1, <1>2, <1>3 DEF Seqs
<1>6. \A s \in 1 .. Kopf : s \in Seqs(wal.saetze) \/ s <= wal.hwm
  <2>1. CASE Kopf <= wal.hwm
    BY <1>3, <2>1
  <2>2. CASE Kopf \in Seqs(wal.saetze)
    <3>1. PICK r \in wal.saetze : r.seq = Kopf
      BY <2>2 DEF Seqs
    <3>2. QED BY <3>1 DEF Folge, DateiOK
  <2>3. QED BY <1>4, <2>1, <2>2 DEF Folge, DateiOK
<1>7. \A r \in wal'.saetze : \A s \in 1 .. r.seq : s \in Seqs(wal'.saetze) \/ s <= wal'.hwm
  <2>1. ASSUME NEW s \in 1 .. e.seq PROVE s \in Seqs(wal'.saetze) \/ s <= wal'.hwm
    <3>1. s \in 1 .. Kopf \/ s = Kopf + 1
      BY <1>2, <1>3
    <3>2. QED BY <1>1, <1>5, <1>6, <3>1
  <2>2. QED BY <1>1, <1>5, <2>1 DEF Folge, DateiOK
<1>8. DateiOK'
  BY <1>1, <1>4, <1>5, <1>7 DEF Folge, DateiOK
<1>9. KorbFolge'
  <2>1. SUFFICES ASSUME korb.an PROVE KorbFolge'
    BY <1>1 DEF KorbFolge
  <2>2. /\ korb.ab <= Kopf + 1 /\ korb.bis <= wal.haltbar /\ \A f \in korb.fehlt : f <= Kopf
        /\ \A x \in korb.saetze : x.seq > korb.bis
        /\ \A x \in schwebend : x.seq > korb.bis /\ x.seq >= korb.ab /\ x.seq \notin korb.fehlt
    BY <1>4, <2>1 DEF Folge, KorbFolge
  <2>3. e.seq > korb.bis /\ e.seq >= korb.ab /\ e.seq \notin korb.fehlt
    BY <1>2, <1>3, <2>2
  <2>4. korb.ab <= Kopf' + 1 /\ \A f \in korb.fehlt : f <= Kopf'
    BY <1>3, <1>4, <2>2
  <2>5. QED BY <1>1, <2>2, <2>3, <2>4 DEF KorbFolge
<1>10. QED BY <1>8, <1>9 DEF Folge

\* What floated is now in the Korb.
LEMMA FolgeEinreihen ==
  ASSUME Typ, Folge, NEW e \in schwebend, Einreihen(e)
  PROVE  Folge'
<1>1. /\ korb'.saetze = korb.saetze \cup IF korb.an THEN {e} ELSE {}
      /\ schwebend' = schwebend \ {e} /\ lauf = "laeuft" /\ UNCHANGED <<wal, db, lauf>>
  BY EinreihenTut
<1>2. korb'.an = korb.an /\ korb'.bis = korb.bis /\ korb'.ab = korb.ab /\ korb'.fehlt = korb.fehlt
  BY DEF Einreihen, Typ, KorbTyp
<1>3. Kopf' = Kopf /\ Laeuft' = Laeuft
  BY <1>1 DEF Kopf, Laeuft
<1>4. DateiOK'
  BY <1>1, <1>3 DEF Folge, DateiOK
<1>5. KorbFolge'
  BY <1>1, <1>2, <1>3 DEF Folge, KorbFolge
<1>6. QED BY <1>4, <1>5 DEF Folge

\* Every number up to the last is in the file or below the high-water mark.
LEMMA FolgeSichern ==
  ASSUME Typ, Folge, NEW bis, Sichern(bis)
  PROVE  Folge'
<1>1. /\ wal'.saetze = wal.saetze /\ wal'.naechste = wal.naechste /\ wal'.hwm = wal.hwm /\ wal'.haltbar = bis
      /\ bis \in wal.haltbar .. Kopf /\ lauf = "laeuft" /\ UNCHANGED <<db, korb, schwebend, lauf>>
  BY SichernTut
<1>2. /\ Kopf \in Nat /\ wal.haltbar \in Nat /\ wal.hwm \in Nat /\ db.marke \in Nat /\ korb.bis \in Nat
  BY ZahlenTyp
<1>3. Kopf' = Kopf /\ Laeuft' = Laeuft /\ Laeuft /\ bis \in Nat /\ bis >= wal.haltbar /\ bis <= Kopf
  BY <1>1, <1>2 DEF Kopf, Laeuft
<1>4. bis \in Seqs(wal.saetze) \/ bis <= wal.hwm
  <2>1. CASE Kopf <= wal.hwm
    BY <1>2, <1>3, <2>1
  <2>2. CASE Kopf \in Seqs(wal.saetze)
    <3>1. PICK r \in wal.saetze : r.seq = Kopf
      BY <2>2 DEF Seqs
    <3>2. bis = 0 \/ bis \in 1 .. r.seq
      BY <1>2, <1>3, <3>1
    <3>3. QED BY <1>2, <3>2 DEF Folge, DateiOK
  <2>3. QED BY <1>3, <2>1, <2>2 DEF Folge, DateiOK
<1>5. db.marke <= bis
  BY <1>2, <1>3 DEF Folge, DateiOK
<1>6. DateiOK'
  BY <1>1, <1>3, <1>4, <1>5 DEF Folge, DateiOK
<1>7. korb.an => korb.bis <= bis
  BY <1>2, <1>3 DEF Folge, KorbFolge
<1>8. KorbFolge'
  BY <1>1, <1>3, <1>7 DEF Folge, KorbFolge
<1>9. QED BY <1>6, <1>8 DEF Folge

\* The high-water mark is above all that goes.
LEMMA FolgeKuerzen ==
  ASSUME Typ, Nummern, Folge, NEW gross \in BOOLEAN, Kuerzen(gross)
  PROVE  Folge'
<1>1. /\ wal'.naechste = wal.naechste /\ wal'.haltbar = wal.haltbar
      /\ wal'.saetze = IF gross THEN {r \in wal.saetze : r.seq >= KuerzenBis} ELSE wal.saetze
      /\ wal'.hwm = (IF gross THEN Kopf ELSE wal.hwm)
      /\ lauf = "laeuft" /\ UNCHANGED <<korb, schwebend, lauf>>
  BY KuerzenTut
<1>2. db'.marke = db.marke
  BY VermerkeTun
<1>3. Kopf' = Kopf /\ Laeuft' = Laeuft
  BY <1>1 DEF Kopf, Laeuft
<1>4. Kopf \in Nat /\ wal.haltbar \in Nat /\ wal.haltbar <= Kopf
  BY ZahlenTyp
<1>5. DateiOK'
  <2>1. CASE gross
    <3>1. wal'.hwm = Kopf /\ wal'.saetze \subseteq wal.saetze
      BY <1>1, <2>1
    <3>2. ASSUME NEW r \in wal'.saetze, NEW s \in 1 .. r.seq PROVE s <= wal'.hwm
      <4>1. r.seq \in Nat /\ r.seq <= Kopf
        BY <3>1, SatzTyp DEF Nummern, SatzNummern
      <4>2. QED BY <1>4, <3>1, <4>1
    <3>3. QED BY <1>1, <1>2, <1>3, <1>4, <3>1, <3>2 DEF Folge, DateiOK
  <2>2. CASE ~gross
    <3>1. wal'.saetze = wal.saetze /\ wal'.hwm = wal.hwm
      BY <1>1, <2>2
    <3>2. QED BY <1>1, <1>2, <1>3, <3>1 DEF Folge, DateiOK
  <2>3. QED BY <2>1, <2>2
<1>6. KorbFolge'
  BY <1>1, <1>3 DEF Folge, KorbFolge
<1>7. QED BY <1>5, <1>6 DEF Folge

\* What is durable survives.
LEMMA FolgeAbsturz ==
  ASSUME Typ, Folge, NEW bis, Absturz(bis)
  PROVE  Folge'
<1>1. /\ wal'.saetze = {r \in wal.saetze : r.seq <= bis} /\ wal'.haltbar = wal.haltbar /\ wal'.hwm = wal.hwm
      /\ bis \in wal.haltbar .. Kopf /\ lauf' = "aus" /\ db' = db
  BY AbsturzTut
<1>2. wal.haltbar \in Nat /\ Kopf \in Nat
  BY ZahlenTyp
<1>3. bis \in Nat /\ wal.haltbar <= bis /\ ~Laeuft'
  BY <1>1, <1>2 DEF Laeuft
<1>4. \A s \in Seqs(wal.saetze) : s <= bis => s \in Seqs(wal'.saetze)
  BY <1>1 DEF Seqs
<1>5. ASSUME NEW r \in wal'.saetze, NEW s \in 1 .. r.seq
      PROVE  s \in Seqs(wal'.saetze) \/ s <= wal.hwm
  <2>1. r \in wal.saetze /\ r.seq <= bis
    BY <1>1
  <2>2. r.seq \in Nat
    BY <2>1, SatzTyp
  <2>3. s <= bis
    BY <1>3, <2>1, <2>2
  <2>4. s \in Seqs(wal.saetze) \/ s <= wal.hwm
    BY <2>1 DEF Folge, DateiOK
  <2>5. QED BY <1>4, <2>3, <2>4
<1>6. DateiOK'
  BY <1>1, <1>3, <1>4, <1>5 DEF Folge, DateiOK
<1>7. QED BY <1>3, <1>6 DEF Folge, KorbFolge

\* A block goes up to a durable record, and leaves what comes after it.
LEMMA FolgeBlock ==
  ASSUME Typ, Nummern, Folge, Block
  PROVE  Folge'
<1>1. /\ korb.an => /\ korb'.saetze = korb.saetze \ Bereit /\ korb'.bis = BlockBis /\ korb'.an = korb.an
                    /\ korb'.ab = Max({korb.ab, BlockBis + 1}) /\ korb'.fehlt = korb.fehlt
                    /\ db'.marke = BlockBis
      /\ ~korb.an => korb' = korb /\ db'.marke = db.marke
  BY BlockWirkt
<1>2. lauf = "laeuft" /\ UNCHANGED <<wal, schwebend, lauf>>
  BY BlockTut
<1>3. CASE ~korb.an
  BY <1>1, <1>2, <1>3, FolgeRuhig
<1>4. CASE korb.an
  <2>1. /\ BlockBis \in Nat /\ BlockBis \in {korb.bis} \cup Seqs(Bereit) /\ BlockBis >= korb.bis
    BY InhaltTyp
  <2>2. /\ Kopf \in Nat /\ wal.haltbar \in Nat /\ wal.haltbar <= Kopf /\ korb.bis \in Nat /\ korb.ab \in Nat
        /\ \A e \in korb.saetze \cup schwebend : e.seq \in Nat
    BY ZahlenTyp
  <2>3. Laeuft /\ Laeuft' /\ Kopf' = Kopf
    BY <1>2 DEF Laeuft, Kopf
  <2>4. /\ korb.ab <= Kopf + 1 /\ korb.bis <= wal.haltbar /\ \A f \in korb.fehlt : f <= Kopf
        /\ \A e \in korb.saetze : e.seq > korb.bis
        /\ \A e \in schwebend : e.seq > korb.bis /\ e.seq >= korb.ab /\ e.seq \notin korb.fehlt
    BY <1>4, <2>3 DEF Folge, KorbFolge
  <2>5. ASSUME NEW g \in Bereit, g.seq = BlockBis
        PROVE  g.seq <= wal.haltbar /\ korb.ab .. g.seq \subseteq Seqs(korb.saetze) \cup korb.fehlt
    BY DEF Bereit
  <2>6. BlockBis <= wal.haltbar
    <3>1. CASE BlockBis = korb.bis
      BY <2>4, <3>1
    <3>2. CASE BlockBis \in Seqs(Bereit)
      <4>1. PICK g \in Bereit : g.seq = BlockBis
        BY <3>2 DEF Seqs
      <4>2. QED BY <2>5, <4>1
    <3>3. QED BY <2>1, <3>1, <3>2
  <2>7. ASSUME NEW e \in korb'.saetze PROVE e.seq > BlockBis
    <3>1. e \in korb.saetze /\ e \notin Bereit /\ e.seq \in Nat
      BY <1>1, <1>4, <2>2
    <3>2. SUFFICES ASSUME e.seq <= BlockBis PROVE FALSE
      BY <2>1, <3>1
    <3>3. BlockBis # korb.bis
      BY <2>2, <2>4, <3>1, <3>2
    <3>4. PICK g \in Bereit : g.seq = BlockBis
      BY <2>1, <3>3 DEF Seqs
    <3>5. korb.ab .. e.seq \subseteq korb.ab .. g.seq
      BY <2>1, <2>2, <3>1, <3>2, <3>4
    <3>6. korb.ab .. e.seq \subseteq Seqs(korb.saetze) \cup korb.fehlt
      BY <2>5, <3>4, <3>5
    <3>7. e.seq <= wal.haltbar
      BY <2>1, <2>2, <2>6, <3>1, <3>2
    <3>8. QED BY <3>1, <3>6, <3>7 DEF Bereit
  <2>8. ASSUME NEW e \in schwebend PROVE e.seq > BlockBis
    <3>1. e.seq \in Nat /\ e.seq > korb.bis /\ e.seq >= korb.ab /\ e.seq \notin korb.fehlt
      BY <2>2, <2>4
    <3>2. SUFFICES ASSUME e.seq <= BlockBis PROVE FALSE
      BY <2>1, <3>1
    <3>3. BlockBis # korb.bis
      BY <2>2, <3>1, <3>2
    <3>4. PICK g \in Bereit : g.seq = BlockBis
      BY <2>1, <3>3 DEF Seqs
    <3>5. e.seq \in korb.ab .. g.seq
      BY <2>1, <2>2, <3>1, <3>2, <3>4
    <3>6. e.seq \in Seqs(korb.saetze)
      BY <2>5, <3>1, <3>4, <3>5
    <3>7. PICK h \in korb.saetze : h.seq = e.seq
      BY <3>6 DEF Seqs
    <3>8. QED BY <3>7 DEF Nummern, SchwebNummern
  <2>9. korb'.ab \in {korb.ab, BlockBis + 1}
    BY <1>1, <1>4, <2>1, <2>2, GroesseresNat
  <2>10. korb'.ab <= Kopf' + 1 /\ \A e \in schwebend : e.seq >= korb'.ab
    <3>1. CASE korb'.ab = korb.ab
      BY <2>3, <2>4, <3>1
    <3>2. CASE korb'.ab = BlockBis + 1
      <4>1. ASSUME NEW e \in schwebend PROVE e.seq >= BlockBis + 1
        <5>1. e.seq \in Nat
          BY <2>2
        <5>2. QED BY <2>1, <2>8, <5>1
      <4>2. QED BY <2>1, <2>2, <2>3, <2>6, <3>2, <4>1
    <3>3. QED BY <2>9, <3>1, <3>2
  <2>11. KorbFolge'
    BY <1>1, <1>2, <1>4, <2>3, <2>4, <2>6, <2>7, <2>8, <2>10 DEF KorbFolge
  <2>12. DateiOK'
    BY <1>1, <1>2, <1>4, <2>3, <2>6 DEF Folge, DateiOK
  <2>13. QED BY <2>11, <2>12 DEF Folge
<1>5. QED BY <1>3, <1>4

\* The start goes on behind the file, with what is above the blocks.
LEMMA FolgeEinspielen ==
  ASSUME Typ, Nummern, Unterwegs, Folge, NEW an \in BOOLEAN, Einspielen(an)
  PROVE  Folge'
<1>1. CASE ~StimmigMitDatei(PeekNachStart)
  <2>1. lauf' = "verweigert" /\ UNCHANGED <<wal, db, korb, schwebend>>
    BY <1>1, VerweigertTut
  <2>2. ~Laeuft' /\ Kopf' = Kopf
    BY <2>1 DEF Laeuft, Kopf
  <2>3. DateiOK'
    BY <2>1, <2>2 DEF Folge, DateiOK
  <2>4. KorbFolge'
    BY <2>2 DEF KorbFolge
  <2>5. QED BY <2>3, <2>4 DEF Folge
<1>2. CASE StimmigMitDatei(PeekNachStart)
  <2> DEFINE peek == PeekNachStart
  <2>1. /\ lauf' = "eingespielt" /\ wal'.saetze = wal.saetze /\ wal'.hwm = wal.hwm
        /\ wal'.haltbar = peek - 1 /\ Kopf' = peek - 1 /\ db' = Nachholen(an)
        /\ lauf = "aus" /\ UNCHANGED schwebend
    BY <1>2, EinspielenTut
  <2>2. db'.marke = db.marke /\ db'.markeDa = db.markeDa
    BY <2>1, NachholenTyp
  <2>3. /\ peek \in Nat \ {0} /\ wal.hwm < peek /\ \A r \in wal.saetze : r.seq < peek
        /\ peek - 1 \in {0, wal.hwm} \cup Seqs(wal.saetze)
    BY PeekIst
  <2>4. db.ab <= peek
    BY <1>2 DEF StimmigMitDatei
  <2>5. /\ korb'.an = an /\ korb'.ab = korb'.bis + 1 /\ korb'.fehlt = {}
        /\ korb'.bis \in {db.marke, db.boden}
        /\ korb'.saetze = IF an /\ db.markeDa THEN {r \in Nachspielbar : r.seq > korb'.bis} ELSE {}
    BY <1>2, KorbNachStart
  <2> HIDE DEF peek
  <2>6. /\ wal.haltbar \in Nat /\ wal.hwm \in Nat /\ db.marke \in Nat /\ db.boden \in Nat /\ db.ab \in Nat
    BY ZahlenTyp
  <2>7. wal.haltbar < peek
    <3>1. CASE wal.haltbar \in Seqs(wal.saetze)
      BY <2>3, <3>1 DEF Seqs
    <3>2. CASE wal.haltbar <= wal.hwm
      BY <2>3, <2>6, <3>2
    <3>3. QED BY <3>1, <3>2 DEF Folge, DateiOK
  <2>8. db.marke < peek /\ db.boden < peek
    BY <2>3, <2>4, <2>6, <2>7 DEF Folge, DateiOK, Unterwegs, BodenOK
  <2>9. db.marke <= peek - 1 /\ korb'.bis <= peek - 1 /\ korb'.bis \in Nat
    BY <2>3, <2>5, <2>6, <2>8
  <2>10. schwebend' = {}
    BY <2>1 DEF Nummern, Ruhe
  <2>11. peek - 1 \in Seqs(wal.saetze) \/ peek - 1 <= wal.hwm
    BY <2>3, <2>6
  <2>12. \A e \in korb'.saetze : e.seq > korb'.bis
    BY <2>5
  <2>13. db'.markeDa \/ korb'.saetze = {}
    BY <2>2, <2>5
  <2>14. DateiOK'
    BY <2>1, <2>2, <2>9, <2>11, <2>13 DEF Folge, DateiOK
  <2>15. korb'.ab <= Kopf' + 1
    BY <2>1, <2>3, <2>5, <2>9
  <2>16. KorbFolge'
    BY <2>1, <2>5, <2>9, <2>10, <2>12, <2>15 DEF KorbFolge
  <2>17. QED BY <2>14, <2>16 DEF Folge
<1>3. QED BY <1>1, <1>2

\* The Korb goes on, or begins, behind what is in the file.
LEMMA FolgeAnschluss ==
  ASSUME Typ, Nummern, Folge, Anschluss
  PROVE  Folge'
<1>1. /\ lauf = "eingespielt" /\ lauf' \in {"laeuft", "verweigert"} /\ korb'.saetze = korb.saetze
      /\ UNCHANGED <<wal, schwebend>>
  BY AnschlussTut
<1>2. /\ Kopf \in Nat /\ wal.haltbar \in Nat /\ korb.bis \in Nat
  BY ZahlenTyp
<1>3. Laeuft /\ Kopf' = Kopf /\ schwebend' = {} /\ wal.haltbar = Kopf /\ (db.markeDa \/ korb.saetze = {})
  BY <1>1 DEF Laeuft, Kopf, Nummern, Ruhe, Folge, DateiOK
<1>4. \/ db'.marke \in {0, db.marke} /\ korb' = korb
      \/ db' = db /\ lauf' = "verweigert"
      \/ /\ korb.an /\ ~db.markeDa /\ db'.marke = Kopf
         /\ korb'.an = korb.an /\ korb'.ab = Kopf + 1 /\ korb'.bis = Kopf /\ korb'.fehlt = korb.fehlt
      \/ /\ db' = db /\ korb'.an = korb.an /\ korb'.ab = korb.ab /\ korb'.bis = korb.bis
         /\ \E n : korb'.fehlt = n .. Kopf
  BY <1>1 DEF Anschluss, Typ, DbTyp, KorbTyp
<1>5. db'.marke <= Kopf
  BY <1>2, <1>3, <1>4 DEF Folge, DateiOK
<1>6. DateiOK'
  BY <1>1, <1>3, <1>5 DEF Folge, DateiOK, Laeuft
<1>7. KorbFolge'
  <2>1. SUFFICES ASSUME korb'.an, Laeuft' PROVE KorbFolge'
    BY DEF KorbFolge
  <2>2. korb.an /\ lauf' # "verweigert"
    BY <1>4, <2>1 DEF Laeuft
  <2>3. /\ korb.ab <= Kopf + 1 /\ korb.bis <= wal.haltbar /\ \A f \in korb.fehlt : f <= Kopf
        /\ \A e \in korb.saetze : e.seq > korb.bis
    BY <1>3, <2>2 DEF Folge, KorbFolge
  <2>4. korb'.ab <= Kopf + 1 /\ korb'.bis <= Kopf /\ \A f \in korb'.fehlt : f <= Kopf
    <3>1. CASE korb' = korb
      BY <1>3, <2>3, <3>1
    <3>2. CASE korb'.ab = Kopf + 1 /\ korb'.bis = Kopf /\ korb'.fehlt = korb.fehlt
      BY <1>2, <2>3, <3>2
    <3>3. CASE korb'.ab = korb.ab /\ korb'.bis = korb.bis /\ \E n : korb'.fehlt = n .. Kopf
      <4>1. PICK n : korb'.fehlt = n .. Kopf
        BY <3>3
      <4>2. \A f \in n .. Kopf : f <= Kopf
        OBVIOUS
      <4>3. QED BY <1>3, <2>3, <3>3, <4>1, <4>2
    <3>4. QED BY <1>4, <2>2, <3>1, <3>2, <3>3
  <2>6. \A e \in korb'.saetze : e.seq > korb'.bis
    BY <1>1, <1>3, <1>4, <2>2, <2>3
  <2>7. QED BY <1>1, <1>3, <2>4, <2>6 DEF KorbFolge
<1>8. QED BY <1>6, <1>7 DEF Folge

\* Every step.
LEMMA FolgeSchritt ==
  ASSUME ~ErsatzUnterbrochen, Typ, Nummern, Unterwegs, Folge, [Next]_vars
  PROVE  Folge'
<1>1. CASE \E t \in Auftraege : Anhaengen(t)
  BY <1>1, FolgeAnhaengen
<1>2. CASE \E e \in schwebend : Einreihen(e)
  BY <1>2, FolgeEinreihen
<1>3. CASE \E bis \in 1 .. Kopf : Sichern(bis)
  BY <1>3, FolgeSichern
<1>4. CASE Block
  BY <1>4, FolgeBlock
<1>5. CASE \E gross \in BOOLEAN : Kuerzen(gross)
  BY <1>5, FolgeKuerzen
<1>6. CASE \E bis \in 0 .. Kopf : Absturz(bis)
  BY <1>6, FolgeAbsturz
<1>7. CASE \E an \in BOOLEAN : Einspielen(an)
  BY <1>7, FolgeEinspielen
<1>8. CASE Anschluss
  BY <1>8, FolgeAnschluss
<1>9. ASSUME NEW u \in BOOLEAN, Ersatz(u) PROVE Ersatz(FALSE)
  BY <1>9, ErsatzTut
<1>10. QED BY <1>1, <1>2, <1>3, <1>4, <1>5, <1>6, <1>7, <1>8, <1>9, FolgeSonst DEF Next

-----------------------------------------------------------------------------

\* What other nodes see stays to be seen.
LEMMA DraussenBleibt ==
  ASSUME Typ, Nummern, [Next]_vars, NEW t, Draussen(t)
  PROVE  Draussen(t)'
<1>1. CASE Block
  <2>1. db'.zeilen = db.zeilen \ Inhalt
    BY <1>1, BlockWirkt
  <2>2. ToSet(db.bloecke) \subseteq ToSet(db'.bloecke) /\ \A x \in Inhalt : x.tx \in ToSet(db'.bloecke)
    BY <1>1, BlockInhalt
  <2>3. QED BY <2>1, <2>2 DEF Draussen
<1>2. CASE ~Block
  <2>1. db.zeilen \subseteq db'.zeilen /\ db'.bloecke = db.bloecke
    <3>1. CASE UNCHANGED vars \/ \E u \in leert : SeriellAbgelehnt(u)
      BY <3>1 DEF vars, SeriellAbgelehnt
    <3>2. CASE \E u \in Auftraege : Anhaengen(u) \/ SeriellBeginnt(u)
      BY <3>2, AnhaengenTut, SeriellBeginntTut
    <3>3. CASE \E e \in schwebend : Einreihen(e)
      BY <3>3, EinreihenTut
    <3>4. CASE (\E bis \in 1 .. Kopf : Sichern(bis)) \/ FlushNimmt
      BY <3>4, SichernTut, FlushNimmtTut
    <3>5. CASE \E b \in laufend : FlushScheitert(b) \/ \E G \in SUBSET b.offen : FlushSchreibt(b, G)
      BY <3>5, FlushScheitertTut, FlushSchreibtTut
    <3>6. CASE \E u \in leert : SeriellBucht(u)
      BY <3>6, SeriellBuchtTut
    <3>7. CASE \E gross \in BOOLEAN : Kuerzen(gross)
      BY <3>7, KuerzenTut
    <3>8. CASE \E bis \in 0 .. Kopf : Absturz(bis)
      BY <3>8, AbsturzTut
    <3>9. CASE \E an \in BOOLEAN : Einspielen(an)
      <4>1. PICK an \in BOOLEAN : Einspielen(an)
        BY <3>9
      <4>2. CASE StimmigMitDatei(PeekNachStart)
        BY <4>1, <4>2, EinspielenTut, NachholenTyp
      <4>3. CASE ~StimmigMitDatei(PeekNachStart)
        BY <4>1, <4>3, VerweigertTut
      <4>4. QED BY <4>2, <4>3
    <3>10. CASE Anschluss
      BY <3>10, AnschlussTut
    <3>11. CASE \E u \in BOOLEAN : Ersatz(u)
      BY <3>11, ErsatzTut
    <3>12. QED BY <1>2, <3>1, <3>2, <3>3, <3>4, <3>5, <3>6, <3>7, <3>8, <3>9, <3>10, <3>11 DEF Next
  <2>2. QED BY <2>1 DEF Draussen
<1>3. QED BY <1>1, <1>2

\* What floats comes to the queue or into the Korb.
LEMMA WegEinreihen ==
  ASSUME Typ, Nummern, NEW e \in schwebend, Einreihen(e), NEW x \in MitZeile \cup schwebend \cup korb.saetze
  PROVE  \E y \in (MitZeile \cup schwebend \cup korb.saetze)' : y.tx = x.tx
<1> DEFINE p == [seq |-> e.seq, tx |-> e.tx, ohne |-> korb.an]
<1>1. /\ p \in Posten
      /\ korb'.saetze = korb.saetze \cup IF korb.an THEN {e} ELSE {}
      /\ schwebend' = schwebend \ {e}
      /\ UNCHANGED <<wal, db, laufend>>
  BY EinreihenTut
<1>2. schlange' = IF Gedeckt(schlange, p) THEN schlange ELSE Append(schlange, p)
  BY DEF Einreihen
<1>3. p.tx = e.tx /\ p.ohne = korb.an
  OBVIOUS
<1> HIDE DEF p
<1>4. ToSet(Append(schlange, p)) = ToSet(schlange) \cup {p}
  <2>1. schlange \in Seq(Posten)
    BY DEF Typ
  <2>2. QED BY <1>1, <2>1 DEF ToSet
<1>5. ToSet(schlange) \subseteq ToSet(schlange')
  BY <1>2, <1>4
<1>6. MitZeile \subseteq MitZeile'
  <2>1. Offene \subseteq Offene'
    BY <1>1, <1>5 DEF Offene
  <2>2. QED BY <2>1 DEF MitZeile
<1>7. CASE x # e \/ korb.an
  BY <1>1, <1>6, <1>7
<1>8. CASE x = e /\ ~korb.an
  <2>1. ~Gedeckt(schlange, p)
    BY <1>3, <1>8 DEF Gedeckt
  <2>2. p \in ToSet(schlange')
    BY <1>2, <1>4, <2>1
  <2>3. p \in MitZeile'
    BY <1>3, <1>8, <2>2 DEF MitZeile, Offene
  <2>4. QED BY <1>3, <1>8, <2>3
<1>9. QED BY <1>7, <1>8

\* An item becomes its row.
LEMMA WegSchreibt ==
  ASSUME Typ, Nummern, NEW b \in laufend, NEW G \in SUBSET b.offen, FlushSchreibt(b, G),
         NEW x \in MitZeile \cup schwebend \cup korb.saetze
  PROVE  HatWeg(x.tx)'
<1> DEFINE P == OhneZeilen(b)
           N == NeueZeilen(P, db.id)
           c == [posten |-> b.posten, offen |-> b.offen \ G]
<1>1. /\ IsFiniteSet(P) /\ \A y \in P : y.seq \in Nat /\ y.tx \in Auftraege
      /\ \A y, z \in P : y.seq = z.seq => y = z
      /\ db'.zeilen = db.zeilen \cup N
      /\ laufend' = (laufend \ {b}) \cup IF G = b.offen THEN {} ELSE {c}
      /\ UNCHANGED <<schlange, korb, schwebend>>
  BY FlushSchreibtTut
<1>2. db.id \in Nat
  BY DEF Typ, DbTyp
<1>3. \A y \in P : \E z \in N : z.tx = y.tx
  BY <1>1, <1>2, NeueZeilenPaarig
<1> HIDE DEF N, c
<1>4. CASE x \in P
  <2>1. PICK z \in N : z.tx = x.tx
    BY <1>3, <1>4
  <2>2. z \in db'.zeilen
    BY <1>1, <2>1
  <2>3. Draussen(x.tx)'
    BY <2>1, <2>2 DEF Draussen
  <2>4. QED BY <2>3 DEF HatWeg
<1>5. CASE x \in MitZeile /\ x \notin P
  <2>1. ~x.ohne /\ x \notin ToSet(b.posten)
    BY <1>5 DEF MitZeile, OhneZeilen
  <2>2. x \in ToSet(schlange) \/ \E l \in laufend \ {b} : x \in ToSet(l.posten)
    BY <1>5, <2>1 DEF MitZeile, Offene
  <2>3. x \in ToSet(schlange') \/ \E l \in laufend' : x \in ToSet(l.posten)
    BY <1>1, <2>2
  <2>4. x \in MitZeile'
    BY <2>1, <2>3 DEF MitZeile, Offene
  <2>5. QED BY <2>4 DEF HatWeg
<1>6. CASE x \in schwebend \cup korb.saetze
  <2>1. x \in schwebend' \cup korb'.saetze
    BY <1>1, <1>6
  <2>2. QED BY <2>1 DEF HatWeg
<1>7. QED BY <1>4, <1>5, <1>6

\* An entry of the Korb is in a block or stays.
LEMMA WegBlock ==
  ASSUME Typ, Nummern, Block, NEW x \in MitZeile \cup schwebend \cup korb.saetze
  PROVE  HatWeg(x.tx)'
<1>1. UNCHANGED <<schlange, laufend, schwebend>>
  BY BlockTut
<1>2. /\ korb.an => korb'.saetze = korb.saetze \ Bereit
      /\ ~korb.an => korb' = korb
  BY BlockWirkt
<1>3. MitZeile' = MitZeile
  BY <1>1 DEF MitZeile, Offene
<1>4. CASE korb.an /\ x \in Bereit
  <2>1. Eintrag(x) \in Inhalt /\ Eintrag(x).tx = x.tx
    BY <1>4 DEF Inhalt, Eintrag
  <2>2. x.tx \in ToSet(db'.bloecke)
    BY <2>1, BlockInhalt
  <2>3. QED BY <2>2 DEF HatWeg, Draussen
<1>5. CASE ~(korb.an /\ x \in Bereit)
  <2>1. x \in (MitZeile \cup schwebend \cup korb.saetze)'
    BY <1>1, <1>2, <1>3, <1>5
  <2>2. QED BY <2>1 DEF HatWeg
<1>6. QED BY <1>4, <1>5

\* A running process loses no way out.
LEMMA HatWegBleibt ==
  ASSUME Typ, Nummern, ~ErsatzUnterbrochen, [Next]_vars, lauf # "aus", lauf' # "aus", NEW t, HatWeg(t)
  PROVE  HatWeg(t)'
<1>1. CASE Draussen(t)
  BY <1>1, DraussenBleibt DEF HatWeg
<1>2. CASE \E x \in MitZeile \cup schwebend \cup korb.saetze : x.tx = t
  <2>1. PICK x \in MitZeile \cup schwebend \cup korb.saetze : x.tx = t
    BY <1>2
  <2>2. CASE \E e \in schwebend : Einreihen(e)
    BY <2>1, <2>2, WegEinreihen DEF HatWeg
  <2>3. CASE \E b \in laufend : \E G \in SUBSET b.offen : FlushSchreibt(b, G)
    BY <2>1, <2>3, WegSchreibt
  <2>4. CASE Block
    BY <2>1, <2>4, WegBlock
  <2>5. CASE FlushNimmt \/ \E b \in laufend : FlushScheitert(b)
    <3>1. UNCHANGED <<korb, schwebend>>
      BY <2>5, FlushNimmtTut, FlushScheitertTut
    <3>2. MitZeile' = MitZeile
      BY <2>5, OffeneGleich DEF MitZeile
    <3>3. QED BY <2>1, <3>1, <3>2 DEF HatWeg
  <2>6. CASE \/ UNCHANGED vars
             \/ \E u \in Auftraege : Anhaengen(u) \/ SeriellBeginnt(u)
             \/ \E bis \in 1 .. Kopf : Sichern(bis)
             \/ \E u \in leert : SeriellBucht(u) \/ SeriellAbgelehnt(u)
             \/ \E gross \in BOOLEAN : Kuerzen(gross)
             \/ Anschluss
             \/ \E u \in BOOLEAN : Ersatz(u)
    <3>1. UNCHANGED <<schlange, laufend>> /\ schwebend \subseteq schwebend' /\ korb'.saetze = korb.saetze
      <4>1. CASE UNCHANGED vars \/ \E u \in leert : SeriellAbgelehnt(u)
        BY <4>1 DEF vars, SeriellAbgelehnt
      <4>2. CASE \E u \in Auftraege : Anhaengen(u) \/ SeriellBeginnt(u)
        BY <4>2, AnhaengenTut, SeriellBeginntTut
      <4>3. CASE \E bis \in 1 .. Kopf : Sichern(bis)
        BY <4>3, SichernTut
      <4>4. CASE \E u \in leert : SeriellBucht(u)
        BY <4>4, SeriellBuchtTut
      <4>5. CASE (\E gross \in BOOLEAN : Kuerzen(gross)) \/ Anschluss
        BY <4>5, KuerzenTut, AnschlussTut
      <4>6. CASE \E u \in BOOLEAN : Ersatz(u)
        BY <4>6, ErsatzTut
      <4>7. QED BY <2>6, <4>1, <4>2, <4>3, <4>4, <4>5, <4>6
    <3>2. MitZeile' = MitZeile
      BY <3>1 DEF MitZeile, Offene
    <3>3. QED BY <2>1, <3>1, <3>2 DEF HatWeg
  <2>7. ~(\E bis \in 0 .. Kopf : Absturz(bis)) /\ ~(\E an \in BOOLEAN : Einspielen(an))
    BY AbsturzTut DEF Einspielen
  <2>8. QED BY <2>2, <2>3, <2>4, <2>5, <2>6, <2>7 DEF Next
<1>3. QED BY <1>1, <1>2 DEF HatWeg

-----------------------------------------------------------------------------

\* Only an acceptance adds to what a start would replay.
LEMMA NachspielbarTut ==
  ASSUME ~ErsatzUnterbrochen, Typ, Nummern, [Next]_vars
  PROVE  \/ Nachspielbar' \subseteq Nachspielbar
         \/ \E t \in Auftraege : /\ Anhaengen(t)
                                 /\ Nachspielbar' \subseteq Nachspielbar \cup {[seq |-> wal.naechste, tx |-> t]}
<1>1. CASE \E t \in Auftraege : Anhaengen(t)
  <2>1. PICK t \in Auftraege : Anhaengen(t)
    BY <1>1
  <2>2. wal'.saetze = wal.saetze \cup {[seq |-> wal.naechste, tx |-> t]} /\ db' = db
    BY <2>1, AnhaengenTut
  <2>3. Nachspielbar' \subseteq Nachspielbar \cup {[seq |-> wal.naechste, tx |-> t]}
    BY <2>2 DEF Nachspielbar
  <2>4. QED BY <2>1, <2>3
<1>2. CASE \E u \in BOOLEAN : Ersatz(u)
  <2>1. PICK u \in BOOLEAN : Ersatz(u)
    BY <1>2
  <2>2. wal' = wal /\ db'.boden = Kopf
    BY <2>1, ErsatzTut
  <2>3. \A r \in wal.saetze : ~(r.seq > Kopf)
    BY SatzTyp, KopfTyp DEF Nummern, SatzNummern
  <2>4. Nachspielbar' = {}
    BY <2>2, <2>3 DEF Nachspielbar
  <2>5. QED BY <2>4
<1>3. CASE ~(\E t \in Auftraege : Anhaengen(t)) /\ ~(\E u \in BOOLEAN : Ersatz(u))
  <2>1. wal'.saetze \subseteq wal.saetze /\ db'.boden = db.boden
    <3>1. CASE UNCHANGED vars \/ \E u \in leert : SeriellAbgelehnt(u)
      BY <3>1 DEF vars, SeriellAbgelehnt
    <3>2. CASE \E u \in Auftraege : SeriellBeginnt(u)
      BY <3>2, SeriellBeginntTut
    <3>3. CASE \E e \in schwebend : Einreihen(e)
      BY <3>3, EinreihenTut
    <3>4. CASE (\E bis \in 1 .. Kopf : Sichern(bis)) \/ FlushNimmt
      BY <3>4, SichernTut, FlushNimmtTut
    <3>5. CASE \E b \in laufend : FlushScheitert(b) \/ \E G \in SUBSET b.offen : FlushSchreibt(b, G)
      BY <3>5, FlushScheitertTut, FlushSchreibtTut
    <3>6. CASE \E u \in leert : SeriellBucht(u)
      BY <3>6, SeriellBuchtTut
    <3>7. CASE \E gross \in BOOLEAN : Kuerzen(gross)
      BY <3>7, KuerzenTut
    <3>8. CASE \E bis \in 0 .. Kopf : Absturz(bis)
      BY <3>8, AbsturzTut
    <3>9. CASE \E an \in BOOLEAN : Einspielen(an)
      <4>1. PICK an \in BOOLEAN : Einspielen(an)
        BY <3>9
      <4>2. CASE StimmigMitDatei(PeekNachStart)
        BY <4>1, <4>2, EinspielenTut, NachholenTyp
      <4>3. CASE ~StimmigMitDatei(PeekNachStart)
        BY <4>1, <4>3, VerweigertTut
      <4>4. QED BY <4>2, <4>3
    <3>10. CASE Anschluss \/ Block
      BY <3>10, AnschlussTut, BlockTut
    <3>11. QED BY <1>3, <3>1, <3>2, <3>3, <3>4, <3>5, <3>6, <3>7, <3>8, <3>9, <3>10 DEF Next
  <2>2. QED BY <2>1 DEF Nachspielbar
<1>4. QED BY <1>1, <1>2, <1>3

\* Every step.
LEMMA KorbAusSchritt ==
  ASSUME Typ, Nummern, KorbAus, [Next]_vars
  PROVE  KorbAus'
<1>1. CASE \E e \in schwebend : Einreihen(e)
  <2>1. PICK e \in schwebend : Einreihen(e)
    BY <1>1
  <2>2. korb'.saetze = korb.saetze \cup IF korb.an THEN {e} ELSE {}
    BY <2>1, EinreihenTut
  <2>3. korb'.an = korb.an
    BY <2>1 DEF Einreihen, Typ, KorbTyp
  <2>4. QED BY <2>2, <2>3 DEF KorbAus
<1>2. CASE \E an \in BOOLEAN : Einspielen(an) /\ StimmigMitDatei(PeekNachStart)
  BY <1>2, KorbNachStart DEF KorbAus
<1>3. CASE \E an \in BOOLEAN : Einspielen(an) /\ ~StimmigMitDatei(PeekNachStart)
  BY <1>3, VerweigertTut DEF KorbAus
<1>4. CASE Block
  BY <1>4, BlockWirkt DEF KorbAus
<1>5. CASE Anschluss
  <2>1. korb'.saetze = korb.saetze /\ korb'.an = korb.an
    BY <1>5, AnschlussTut DEF Anschluss, Typ, KorbTyp
  <2>2. QED BY <2>1 DEF KorbAus
<1>6. CASE (\E bis \in 0 .. Kopf : Absturz(bis)) \/ \E u \in BOOLEAN : Ersatz(u)
  <2>1. korb'.saetze = {} \/ korb' = korb
    <3>1. CASE \E bis \in 0 .. Kopf : Absturz(bis)
      BY <3>1, AbsturzTut
    <3>2. CASE \E u \in BOOLEAN : Ersatz(u)
      BY <3>2, ErsatzTut, FluechtigesWeg
    <3>3. QED BY <1>6, <3>1, <3>2
  <2>2. QED BY <2>1 DEF KorbAus
<1>7. CASE \/ UNCHANGED vars
           \/ \E t \in Auftraege : Anhaengen(t) \/ SeriellBeginnt(t)
           \/ \E bis \in 1 .. Kopf : Sichern(bis)
           \/ FlushNimmt
           \/ \E b \in laufend : FlushScheitert(b) \/ \E G \in SUBSET b.offen : FlushSchreibt(b, G)
           \/ \E t \in leert : SeriellBucht(t) \/ SeriellAbgelehnt(t)
           \/ \E gross \in BOOLEAN : Kuerzen(gross)
  <2>1. korb' = korb
    <3>1. CASE UNCHANGED vars \/ \E t \in leert : SeriellBucht(t) \/ SeriellAbgelehnt(t)
      BY <3>1, SeriellBuchtTut DEF vars, SeriellAbgelehnt
    <3>2. CASE \/ \E t \in Auftraege : Anhaengen(t) \/ SeriellBeginnt(t)
               \/ \E bis \in 1 .. Kopf : Sichern(bis)
      BY <3>2, AnhaengenTut, SeriellBeginntTut, SichernTut
    <3>3. CASE FlushNimmt \/ \E b \in laufend : FlushScheitert(b) \/ \E G \in SUBSET b.offen : FlushSchreibt(b, G)
      BY <3>3, FlushNimmtTut, FlushScheitertTut, FlushSchreibtTut
    <3>4. CASE \E gross \in BOOLEAN : Kuerzen(gross)
      BY <3>4, KuerzenTut
    <3>5. QED BY <1>7, <3>1, <3>2, <3>3, <3>4
  <2>2. QED BY <2>1 DEF KorbAus
<1>8. QED BY <1>1, <1>2, <1>3, <1>4, <1>5, <1>6, <1>7 DEF Next

\* The start puts on its way what was not there.
LEMMA WegEinspielen ==
  ASSUME Typ, Nummern, Vermerkt, Getan,
         NEW an \in BOOLEAN, Einspielen(an), StimmigMitDatei(PeekNachStart), NEW r \in Nachspielbar
  PROVE  HatWeg(r.tx)'
<1>1. /\ schlange' = NachgespielteSchlange(an) /\ db' = Nachholen(an)
  BY EinspielenTut
<1>2. /\ Nachzuholen(an) \subseteq Nachspielbar /\ IsFiniteSet(Nachzuholen(an))
      /\ \A x \in Nachzuholen(an) : x.seq \in Nat /\ x.tx \in Auftraege
      /\ \A x, y \in Nachzuholen(an) : x.seq = y.seq => x = y
      /\ db'.bloecke = db.bloecke /\ db'.zeilen = db.zeilen \cup NeueZeilen(Nachzuholen(an), db.id)
  BY <1>1, NachholenTyp
<1>3. Draussen(r.tx) => HatWeg(r.tx)'
  BY <1>2 DEF HatWeg, Draussen
<1>4. r.seq \in Nat /\ db.marke \in Nat /\ db.boden \in Nat /\ db.ab \in Nat /\ r.seq > db.boden
  BY NachspielTyp, ZahlenTyp DEF Nachspielbar
<1>5. db.markeDa = korb.an /\ korb.an \in BOOLEAN
  BY DEF Typ, KorbTyp, Vermerkt, MarkeGilt
<1>6. korb.an /\ r.seq <= db.marke => Draussen(r.tx)
  BY DEF Getan, GetanMit, Draussen
<1>7. CASE OhneZeile(r, an)
  <2>1. CASE an /\ db.markeDa
    <3>1. /\ korb'.saetze = {s \in Nachspielbar : s.seq > korb'.bis}
          /\ korb'.bis \in {db.marke, db.boden}
      BY <2>1, KorbNachStart
    <3>2. CASE r.seq > korb'.bis
      <4>1. r \in korb'.saetze
        BY <3>1, <3>2
      <4>2. QED BY <4>1 DEF HatWeg
    <3>3. CASE ~(r.seq > korb'.bis)
      <4>1. r.seq <= db.marke
        BY <1>4, <3>1, <3>3
      <4>2. QED BY <1>3, <1>5, <1>6, <2>1, <4>1
    <3>4. QED BY <3>2, <3>3
  <2>2. CASE Uebergang(an) /\ r.seq <= db.marke
    BY <1>3, <1>5, <1>6, <2>2 DEF Uebergang
  <2>3. CASE r.seq >= db.ab /\ r.seq \in db.vermerke
    BY <1>3, <1>5, <2>3 DEF Getan, GetanMit, GetanOhne
  <2>4. QED BY <1>7, <2>1, <2>2, <2>3 DEF OhneZeile
<1>8. CASE ~OhneZeile(r, an) /\ NeuAngewandt(r)
  <2>1. PICK p \in ToSet(schlange') : p.tx = r.tx /\ ~p.ohne
    BY <1>1, <1>8, NachgespielteSchlangeIst
  <2>2. p \in MitZeile'
    BY <2>1 DEF MitZeile, Offene
  <2>3. QED BY <2>1, <2>2 DEF HatWeg
<1>9. CASE ~OhneZeile(r, an) /\ ~NeuAngewandt(r)
  <2>1. CASE ZeileFehlt(r, an)
    <3>1. CASE r \in Nachzuholen(an)
      <4>1. PICK z \in NeueZeilen(Nachzuholen(an), db.id) : z.tx = r.tx
        BY <1>2, <3>1, NeueZeilenPaarig DEF Typ, DbTyp
      <4>2. z \in db'.zeilen
        BY <1>2, <4>1
      <4>3. Draussen(r.tx)'
        BY <4>1, <4>2 DEF Draussen
      <4>4. QED BY <4>3 DEF HatWeg
    <3>2. CASE r \notin Nachzuholen(an)
      <4>1. \E z \in db.zeilen : z.tx = r.tx
        BY <1>9, <2>1, <3>2 DEF Nachzuholen
      <4>2. QED BY <1>3, <4>1 DEF Draussen
    <3>3. QED BY <3>1, <3>2
  <2>2. CASE ~ZeileFehlt(r, an)
    <3>1. ~(r.seq >= db.ab) /\ ~Uebergang(an)
      BY <1>9, <2>2 DEF ZeileFehlt
    <3>2. ~korb.an
      BY <1>5, <1>9, <3>1 DEF Uebergang, OhneZeile
    <3>3. r.seq < db.ab
      BY <1>4, <3>1
    <3>4. QED BY <1>3, <3>2, <3>3 DEF Getan, GetanOhne
  <2>3. QED BY <2>1, <2>2
<1>10. QED BY <1>7, <1>8, <1>9

\* Every step.
LEMMA LogWegSchritt ==
  ASSUME ~ErsatzUnterbrochen, Typ, Nummern, VermerktOK, GetanOK, LaufOK, EinUmschalten, LogWeg, [Next]_vars
  PROVE  LogWeg'
<1>1. SUFFICES ASSUME Laeuft', NEW r \in Nachspielbar' PROVE HatWeg(r.tx)'
  BY DEF LogWeg
<1>2. lauf' # "aus"
  BY <1>1 DEF Laeuft
<1>3. ~(\E bis \in 0 .. Kopf : Absturz(bis))
  BY <1>2, AbsturzTut
<1>4. CASE lauf = "aus"
  <2>1. PICK an \in BOOLEAN : Einspielen(an)
    <3>1. ~(\E u \in BOOLEAN : Ersatz(u))
      BY <1>4, ErsatzTut
    <3>2. QED BY <1>2, <1>3, <1>4, <3>1, LaufTut DEF vars
  <2>2. StimmigMitDatei(PeekNachStart)
    BY <1>1, <2>1, VerweigertTut DEF Laeuft
  <2>3. Vermerkt /\ Getan
    <3>1. zaehler.abstuerze \in Nat /\ zaehler.abstuerze # 0
      BY <1>4 DEF LaufOK, Typ, ZaehlerTyp
    <3>2. ModusBleibt \/ zaehler.abstuerze = 1
      BY <3>1 DEF EinUmschalten
    <3>3. QED BY <1>4, <3>2 DEF VermerktOK, GetanOK
  <2>4. ~(\E t \in Auftraege : Anhaengen(t))
    BY <1>4, AnhaengenTut
  <2>5. r \in Nachspielbar
    BY <2>4, NachspielbarTut
  <2>6. QED BY <2>1, <2>2, <2>3, <2>5, WegEinspielen
<1>5. CASE lauf # "aus"
  <2>1. Laeuft
    <3>1. CASE \E u \in BOOLEAN : Ersatz(u)
      BY <3>1, ErsatzTut DEF Laeuft
    <3>2. CASE ~(\E u \in BOOLEAN : Ersatz(u))
      BY <1>1, <1>3, <1>5, <3>2, LaufTut DEF vars, Laeuft
    <3>3. QED BY <3>1, <3>2
  <2>2. CASE r \in Nachspielbar
    BY <1>2, <1>5, <2>1, <2>2, HatWegBleibt DEF LogWeg
  <2>3. CASE r \notin Nachspielbar
    <3>1. PICK t \in Auftraege : Anhaengen(t) /\ r = [seq |-> wal.naechste, tx |-> t]
      BY <2>3, NachspielbarTut
    <3>2. r \in schwebend'
      BY <3>1, AnhaengenTut
    <3>3. QED BY <3>2 DEF HatWeg
  <2>4. QED BY <2>2, <2>3
<1>6. QED BY <1>4, <1>5

-----------------------------------------------------------------------------
(***************************************************************************)
(* What is taken as done has been done.                                    *)
(***************************************************************************)
\* Above the floor a compaction takes only what other nodes see.
LEMMA KuerzenDraussen ==
  ASSUME Typ, Nummern, Einmal, KeinNachzuegler, LogWeg, Folge, KorbAus, NEW gross \in BOOLEAN, Kuerzen(gross),
         NEW r \in Nachspielbar, r.seq < KuerzenBis
  PROVE  Draussen(r.tx)
<1>1. Laeuft
  BY KuerzenTut DEF Laeuft
<1>2. r \in wal.saetze /\ r.seq > db.boden /\ r.seq \in Nat
  BY NachspielTyp DEF Nachspielbar
<1>3. KuerzenBis \in Nat /\ db.boden \in Nat /\ Kopf \in Nat /\ Abstand \in Nat /\ korb.bis \in Nat
  BY KuerzenBisIst, ZahlenTyp, GrenzenTyp
<1>4. r.seq + Abstand < Kopf /\ \A p \in Offene : r.seq < p.seq
  BY <1>2, <1>3, KuerzenBisIst
<1>5. HatWeg(r.tx)
  BY <1>1 DEF LogWeg
<1>6. ASSUME NEW x \in MitZeile \cup schwebend \cup korb.saetze, x.tx = r.tx PROVE FALSE
  <2>1. x \in Nummerierte /\ r \in Nummerierte
    BY <1>2 DEF Nummerierte, MitZeile
  <2>2. x.seq = r.seq
    BY <1>6, <2>1 DEF Einmal, NummerJeAuftrag
  <2>3. CASE x \in MitZeile
    BY <1>2, <1>4, <2>2, <2>3 DEF MitZeile
  <2>4. CASE x \in schwebend
    <3>1. Kopf - x.seq <= Abstand
      BY <2>4 DEF KeinNachzuegler
    <3>2. QED BY <1>2, <1>3, <1>4, <2>2, <3>1
  <2>5. CASE x \in korb.saetze
    <3>1. korb.an
      BY <2>5 DEF KorbAus
    <3>2. x.seq > korb.bis
      BY <1>1, <2>5, <3>1 DEF Folge, KorbFolge
    <3>3. KuerzenBis <= korb.bis + 1
      BY <3>1, KuerzenBisKorb
    <3>4. QED BY <1>2, <1>3, <2>2, <3>2, <3>3
  <2>6. QED BY <2>3, <2>4, <2>5
<1>7. QED BY <1>5, <1>6 DEF HatWeg

-----------------------------------------------------------------------------

\* A step that leaves marks and limits alone.
LEMMA GetanStill ==
  ASSUME Getan, Nachspielbar' \subseteq Nachspielbar, \A r \in Nachspielbar : Draussen(r.tx) => Draussen(r.tx)',
         db'.vermerke = db.vermerke, db'.ab = db.ab, db'.marke = db.marke,
         ToSet(db.bloecke) \subseteq ToSet(db'.bloecke),
         korb'.an = korb.an, Laeuft' => Laeuft /\ korb'.bis = korb.bis /\ Kopf' = Kopf
  PROVE  Getan'
<1>1. GetanOhne'
  BY DEF Getan, GetanOhne
<1>2. GetanMit'
  BY DEF Getan, GetanMit
<1>3. QED BY <1>1, <1>2 DEF Getan

LEMMA GetanSonst ==
  ASSUME Typ, Nummern, Vermerkt, Getan,
         \/ UNCHANGED vars
         \/ \E e \in schwebend : Einreihen(e)
         \/ \E bis : Sichern(bis)
         \/ \E t \in Auftraege : SeriellBeginnt(t)
         \/ \E t \in leert : SeriellBucht(t)
         \/ \E t \in leert : SeriellAbgelehnt(t)
         \/ FlushNimmt
         \/ \E b \in laufend : FlushScheitert(b)
         \/ \E bis : Absturz(bis)
         \/ Anschluss
         \/ \E an \in BOOLEAN : Einspielen(an) /\ ~StimmigMitDatei(PeekNachStart)
  PROVE  Getan'
<1>1. /\ wal'.saetze \subseteq wal.saetze /\ db'.boden = db.boden /\ db.zeilen \subseteq db'.zeilen
      /\ db'.bloecke = db.bloecke /\ db'.vermerke = db.vermerke /\ db'.ab = db.ab /\ db'.marke = db.marke
      /\ korb'.an = korb.an
      /\ Laeuft' => Laeuft /\ korb'.bis = korb.bis /\ wal'.naechste = wal.naechste
  <2>1. CASE UNCHANGED vars
    BY <2>1 DEF vars, Laeuft
  <2>2. CASE \E e \in schwebend : Einreihen(e)
    <3>1. PICK e \in schwebend : Einreihen(e)
      BY <2>2
    <3>2. korb'.an = korb.an /\ korb'.bis = korb.bis
      BY <3>1 DEF Einreihen, Typ, KorbTyp
    <3>3. UNCHANGED <<wal, db, lauf>>
      BY <3>1, EinreihenTut
    <3>4. QED BY <3>2, <3>3 DEF Laeuft
  <2>3. CASE (\E bis : Sichern(bis)) \/ (\E t \in Auftraege : SeriellBeginnt(t)) \/ (\E t \in leert : SeriellAbgelehnt(t))
    <3>1. /\ wal'.saetze = wal.saetze /\ wal'.naechste = wal.naechste /\ UNCHANGED <<db, korb, lauf>>
      <4>1. CASE \E bis : Sichern(bis)
        BY <4>1, SichernTut
      <4>2. CASE \E t \in Auftraege : SeriellBeginnt(t)
        BY <4>2, SeriellBeginntTut
      <4>3. CASE \E t \in leert : SeriellAbgelehnt(t)
        BY <4>3 DEF SeriellAbgelehnt
      <4>4. QED BY <2>3, <4>1, <4>2, <4>3
    <3>2. QED BY <3>1 DEF Laeuft
  <2>4. CASE \E t \in leert : SeriellBucht(t)
    <3>1. PICK t \in leert : SeriellBucht(t)
      BY <2>4
    <3>2. db'.vermerke = db.vermerke
      BY <3>1, VermerkeTun
    <3>3. /\ db'.ab = db.ab /\ db'.marke = db.marke /\ db'.boden = db.boden /\ db'.bloecke = db.bloecke
          /\ db.zeilen \subseteq db'.zeilen /\ UNCHANGED <<wal, korb, lauf>>
      BY <3>1, SeriellBuchtTut
    <3>4. QED BY <3>2, <3>3 DEF Laeuft
  <2>5. CASE FlushNimmt \/ \E b \in laufend : FlushScheitert(b)
    <3>1. UNCHANGED <<wal, db, korb, lauf>>
      BY <2>5, FlushNimmtTut, FlushScheitertTut
    <3>2. QED BY <3>1 DEF Laeuft
  <2>6. CASE \E bis : Absturz(bis)
    <3>1. PICK bis : Absturz(bis)
      BY <2>6
    <3>2. wal'.saetze \subseteq wal.saetze /\ db' = db /\ lauf' = "aus"
      BY <3>1, AbsturzTut
    <3>3. korb'.an = korb.an
      BY <3>1 DEF Absturz, AllesFluechtigeWeg, Typ, KorbTyp
    <3>4. QED BY <3>2, <3>3 DEF Laeuft
  <2>7. CASE Anschluss
    <3>1. lauf = "eingespielt" /\ wal' = wal
      BY <2>7, AnschlussTut
    <3>2. db.markeDa = korb.an
      BY DEF Vermerkt, MarkeGilt
    <3>3. db' = db /\ korb'.an = korb.an /\ korb'.bis = korb.bis
      BY <2>7, <3>2 DEF Anschluss, Uebergang, Typ, KorbTyp
    <3>4. QED BY <3>1, <3>3 DEF Laeuft
  <2>8. CASE \E an \in BOOLEAN : Einspielen(an) /\ ~StimmigMitDatei(PeekNachStart)
    <3>1. lauf' = "verweigert" /\ UNCHANGED <<wal, db, korb>>
      BY <2>8, VerweigertTut
    <3>2. QED BY <3>1 DEF Laeuft
  <2>9. QED BY <2>1, <2>2, <2>3, <2>4, <2>5, <2>6, <2>7, <2>8
<1>2. Nachspielbar' \subseteq Nachspielbar /\ \A t : Draussen(t) => Draussen(t)'
  BY <1>1 DEF Nachspielbar, Draussen
<1>3. Laeuft' => Laeuft /\ korb'.bis = korb.bis /\ Kopf' = Kopf
  BY <1>1 DEF Kopf
<1>4. QED BY <1>1, <1>2, <1>3, GetanStill

\* A new record comes after all marks.
LEMMA GetanAnhaengen ==
  ASSUME Typ, Nummern, Vermerkt, Folge, Getan, NEW t \in Auftraege, Anhaengen(t)
  PROVE  Getan'
<1> DEFINE e == [seq |-> wal.naechste, tx |-> t]
<1>1. /\ wal'.saetze = wal.saetze \cup {e} /\ wal'.naechste = wal.naechste + 1
      /\ lauf = "laeuft" /\ UNCHANGED <<db, korb, lauf>>
  BY AnhaengenTut
<1>2. e.seq = wal.naechste
  OBVIOUS
<1> HIDE DEF e
<1>3. /\ Kopf \in Nat /\ wal.naechste = Kopf + 1 /\ wal.haltbar \in Nat /\ wal.haltbar <= Kopf
      /\ db.marke \in Nat /\ db.ab \in Nat /\ korb.bis \in Nat
  BY ZahlenTyp
<1>4. db.vermerke \in SUBSET Nat
  BY DEF Typ, DbTyp
<1>5. Laeuft /\ Laeuft' /\ Kopf' = Kopf + 1
  BY <1>1, <1>3 DEF Laeuft, Kopf
<1>6. \A s \in db.vermerke : s <= Kopf
  BY <1>5 DEF Getan
<1>7. Nachspielbar' \subseteq Nachspielbar \cup {e}
  BY <1>1 DEF Nachspielbar
<1>8. \A u : Draussen(u)' <=> Draussen(u)
  BY <1>1 DEF Draussen
<1>9. e.seq \notin db.vermerke /\ (~korb.an => ~(e.seq < db.ab))
  <2>1. ~korb.an => db.ab <= wal.naechste
    BY <1>5 DEF Vermerkt, VermerkeGelten
  <2>2. e.seq \notin db.vermerke
    BY <1>2, <1>3, <1>4, <1>6
  <2>3. QED BY <1>2, <1>3, <2>1, <2>2
<1>10. korb.an => ~(e.seq <= db.marke) /\ ~(e.seq <= korb.bis)
  <2>1. db.marke <= wal.haltbar /\ (korb.an => korb.bis <= wal.haltbar)
    BY <1>5 DEF Folge, DateiOK, KorbFolge
  <2>2. QED BY <1>2, <1>3, <2>1
<1>11. GetanOhne'
  BY <1>1, <1>7, <1>8, <1>9 DEF Getan, GetanOhne
<1>12. GetanMit'
  BY <1>1, <1>5, <1>7, <1>10 DEF Getan, GetanMit
<1>13. \A s \in db'.vermerke : s <= Kopf'
  <2>1. ASSUME NEW s \in db.vermerke PROVE s <= Kopf + 1
    <3>1. s \in Nat /\ s <= Kopf
      BY <1>4, <1>6
    <3>2. QED BY <1>3, <3>1
  <2>2. QED BY <1>1, <1>5, <2>1
<1>14. QED BY <1>11, <1>12, <1>13 DEF Getan

\* A mark comes with its row.
LEMMA GetanSchreibt ==
  ASSUME Typ, Nummern, Vermerkt, SelbeNummer, Getan,
         NEW b \in laufend, NEW G \in SUBSET b.offen, FlushSchreibt(b, G)
  PROVE  Getan'
<1> DEFINE P == OhneZeilen(b)
           N == NeueZeilen(P, db.id)
<1>1. /\ IsFiniteSet(P) /\ P \subseteq Offene
      /\ \A x \in P : x.seq \in Nat /\ x.tx \in Auftraege
      /\ \A x, y \in P : x.seq = y.seq => x = y
      /\ db'.ab = db.ab /\ db'.marke = db.marke /\ db'.boden = db.boden
      /\ db'.bloecke = db.bloecke /\ db'.zeilen = db.zeilen \cup N
      /\ lauf = "laeuft" /\ UNCHANGED <<wal, korb, lauf>>
  BY FlushSchreibtTut
<1>2. db'.vermerke = db.vermerke \cup Seqs(P)
  BY VermerkeTun
<1>3. \A x \in P : \E z \in N : z.tx = x.tx
  BY <1>1, NeueZeilenPaarig DEF Typ, DbTyp
<1>4. \A x \in P : ~x.ohne
  BY DEF OhneZeilen
<1> HIDE DEF N, P
<1>5. Nachspielbar' = Nachspielbar /\ Nachspielbar \subseteq wal.saetze /\ Laeuft /\ Laeuft' = Laeuft /\ Kopf' = Kopf
  BY <1>1 DEF Nachspielbar, Laeuft, Kopf
<1>6. \A u : Draussen(u) => Draussen(u)'
  BY <1>1 DEF Draussen
<1>7. ASSUME NEW r \in Nachspielbar, NEW x \in P, x.seq = r.seq PROVE Draussen(r.tx)'
  <2>1. x.tx = r.tx
    BY <1>1, <1>5, <1>7 DEF SelbeNummer, Laufendes
  <2>2. PICK z \in N : z.tx = x.tx
    BY <1>3
  <2>3. QED BY <1>1, <2>1, <2>2 DEF Draussen
<1>8. GetanOhne'
  BY <1>1, <1>2, <1>5, <1>6, <1>7 DEF Getan, GetanOhne, Seqs
<1>9. korb.an => db'.vermerke = {}
  <2>1. korb.an => P = {}
    BY <1>1, <1>4 DEF Vermerkt, KorbGilt
  <2>2. QED BY <1>2, <2>1 DEF Seqs, Getan, GetanMit
<1>10. GetanMit'
  BY <1>1, <1>5, <1>9 DEF Getan, GetanMit
<1>11. \A s \in db'.vermerke : s <= Kopf
  <2>1. \A x \in P : x.seq <= Kopf
    BY <1>1 DEF Nummern, PostenNummern
  <2>2. QED BY <1>2, <1>5, <2>1 DEF Seqs, Getan
<1>12. QED BY <1>5, <1>8, <1>10, <1>11 DEF Getan

\* What a block leaves behind its mark is in a block.
LEMMA GetanBlock ==
  ASSUME Typ, Nummern, Einmal, Vermerkt, LogWeg, Folge, Getan, Block
  PROVE  Getan'
<1>1. /\ db'.ab = db.ab /\ db'.boden = db.boden /\ lauf = "laeuft" /\ UNCHANGED <<wal, schwebend, lauf>>
  BY BlockTut
<1>2. db'.vermerke = db.vermerke
  BY VermerkeTun
<1>3. /\ korb.an => /\ korb'.saetze = korb.saetze \ Bereit /\ korb'.bis = BlockBis /\ korb'.an = korb.an
                    /\ db'.marke = BlockBis
      /\ ~korb.an => korb' = korb /\ db'.marke = db.marke
  BY BlockWirkt
<1>4. ToSet(db.bloecke) \subseteq ToSet(db'.bloecke) /\ \A x \in Inhalt : x.tx \in ToSet(db'.bloecke)
  BY BlockInhalt
<1>5. Nachspielbar' = Nachspielbar /\ Nachspielbar \subseteq wal.saetze /\ Laeuft /\ Laeuft' = Laeuft /\ Kopf' = Kopf
  BY <1>1 DEF Nachspielbar, Laeuft, Kopf
<1>6. \A r \in Nachspielbar : Draussen(r.tx) => Draussen(r.tx)'
  BY DraussenBleibt DEF Next
<1>7. CASE ~korb.an
  BY <1>1, <1>2, <1>3, <1>4, <1>5, <1>6, <1>7, GetanStill
<1>8. CASE korb.an
  <2>1. ASSUME NEW r \in Nachspielbar, r.seq <= BlockBis PROVE r.tx \in ToSet(db'.bloecke)
    <3>1. HatWeg(r.tx)
      BY <1>5 DEF LogWeg
    <3>2. ~(\E z \in db.zeilen : z.tx = r.tx) /\ MitZeile = {}
      BY <1>5, <1>8 DEF Vermerkt, KorbGilt, MitZeile
    <3>3. r.seq \in Nat /\ BlockBis \in Nat
      BY NachspielTyp, InhaltTyp
    <3>4. Folge'
      BY FolgeBlock
    <3>5. \A e \in schwebend' \cup korb'.saetze : e.seq > BlockBis
      BY <1>3, <1>5, <1>8, <3>4 DEF Folge, KorbFolge
    <3>6. ASSUME NEW x \in schwebend \cup korb.saetze, x.tx = r.tx PROVE x \in korb.saetze /\ x \in Bereit
      <4>1. x \in Nummerierte /\ r \in Nummerierte
        BY <1>5 DEF Nummerierte
      <4>2. x.seq = r.seq
        BY <3>6, <4>1 DEF Einmal, NummerJeAuftrag
      <4>3. x \notin schwebend' \cup korb'.saetze
        BY <2>1, <3>3, <3>5, <4>2
      <4>4. QED BY <1>1, <1>3, <1>8, <4>3
    <3>7. CASE r.tx \in ToSet(db.bloecke)
      BY <1>4, <3>7
    <3>8. CASE \E x \in schwebend \cup korb.saetze : x.tx = r.tx
      <4>1. PICK x \in schwebend \cup korb.saetze : x.tx = r.tx
        BY <3>8
      <4>2. Eintrag(x) \in Inhalt /\ Eintrag(x).tx = r.tx
        BY <1>8, <3>6, <4>1 DEF Inhalt, Eintrag
      <4>3. QED BY <1>4, <4>2
    <3>9. QED BY <3>1, <3>2, <3>7, <3>8 DEF HatWeg, Draussen
  <2>2. GetanOhne' /\ GetanMit'
    BY <1>2, <1>3, <1>5, <1>8, <2>1 DEF Getan, GetanOhne, GetanMit
  <2>3. QED BY <1>2, <1>5, <2>2 DEF Getan
<1>9. QED BY <1>7, <1>8

\* Below a compaction other nodes see everything.
LEMMA GetanKuerzen ==
  ASSUME Typ, Nummern, Einmal, KeinNachzuegler, LogWeg, Folge, KorbAus, Getan, NEW gross \in BOOLEAN, Kuerzen(gross)
  PROVE  Getan'
<1>1. /\ db'.zeilen = db.zeilen /\ db'.bloecke = db.bloecke /\ db'.boden = db.boden
      /\ wal'.naechste = wal.naechste /\ wal'.saetze \subseteq wal.saetze
      /\ lauf = "laeuft" /\ UNCHANGED <<korb, lauf>>
  BY KuerzenTut
<1>2. /\ db'.vermerke = {s \in db.vermerke : s >= KuerzenBis}
      /\ db'.marke = db.marke /\ db'.ab \in {db.ab, KuerzenBis}
  BY VermerkeTun
<1>3. Nachspielbar' \subseteq Nachspielbar /\ Laeuft /\ Laeuft' = Laeuft /\ Kopf' = Kopf
  BY <1>1 DEF Nachspielbar, Laeuft, Kopf
<1>4. \A u : Draussen(u)' <=> Draussen(u)
  BY <1>1 DEF Draussen
<1>5. ASSUME NEW r \in Nachspielbar, r.seq < KuerzenBis PROVE Draussen(r.tx)
  BY <1>5, KuerzenDraussen
<1>6. GetanOhne'
  <2>1. SUFFICES ASSUME ~korb.an, NEW r \in Nachspielbar', r.seq \in db'.vermerke \/ r.seq < db'.ab
                 PROVE  Draussen(r.tx)'
    BY <1>1 DEF GetanOhne
  <2>2. r \in Nachspielbar
    BY <1>3
  <2>3. r.seq \in db.vermerke \/ r.seq < db.ab \/ r.seq < KuerzenBis
    BY <1>2, <2>1
  <2>4. Draussen(r.tx)
    BY <1>5, <2>1, <2>2, <2>3 DEF Getan, GetanOhne
  <2>5. QED BY <1>4, <2>4
<1>7. GetanMit'
  BY <1>1, <1>2, <1>3 DEF Getan, GetanMit
<1>8. QED BY <1>2, <1>3, <1>6, <1>7 DEF Getan

\* After a replacement there is nothing to replay.
LEMMA GetanErsatz ==
  ASSUME Typ, Nummern, Ersatz(FALSE)
  PROVE  Getan'
<1>1. wal' = wal /\ db'.boden = Kopf
  BY ErsatzTut
<1>2. db'.vermerke = {}
  BY VermerkeTun
<1>3. \A r \in wal.saetze : ~(r.seq > Kopf)
  BY SatzTyp, KopfTyp DEF Nummern, SatzNummern
<1>4. Nachspielbar' = {}
  BY <1>1, <1>3 DEF Nachspielbar
<1>5. QED BY <1>2, <1>4 DEF Getan, GetanOhne, GetanMit

\* The start notes what it writes, and what stands in a row.
LEMMA GetanEinspielen ==
  ASSUME Typ, Nummern, Vermerkt, IsFiniteSet(db.vermerke), Getan,
         NEW an \in BOOLEAN, Einspielen(an), StimmigMitDatei(PeekNachStart), an = korb.an
  PROVE  Getan'
<1> DEFINE S == Nachzuholen(an)
           N == NeueZeilen(S, db.id)
           peek == PeekNachStart
<1>1. /\ wal'.saetze = wal.saetze /\ Kopf' = peek - 1 /\ db' = Nachholen(an) /\ lauf' = "eingespielt"
  BY EinspielenTut
<1>2. /\ S \subseteq Nachspielbar /\ IsFiniteSet(S)
      /\ \A x \in S : x.seq \in Nat /\ x.tx \in Auftraege
      /\ \A x, y \in S : x.seq = y.seq => x = y
      /\ db'.ab = db.ab /\ db'.marke = db.marke /\ db'.boden = db.boden
      /\ db'.bloecke = db.bloecke /\ db'.zeilen = db.zeilen \cup N
  BY <1>1, NachholenTyp
<1>3. \A r \in S : ~OhneZeile(r, an)
  BY DEF Nachzuholen, ZeileFehlt
<1>4. \A x \in S : \E z \in N : z.tx = x.tx
  BY <1>2, NeueZeilenPaarig DEF Typ, DbTyp
<1>5. \A s \in db'.vermerke : \/ s \in db.vermerke
                              \/ \E r \in Nachspielbar : r.seq = s /\ (r \in S \/ \E z \in db.zeilen : z.tx = r.tx)
  BY <1>1, VermerkeNachStart
<1>6. /\ peek \in Nat \ {0} /\ \A r \in wal.saetze : r.seq < peek
  BY PeekIst
<1>7. Hoechste(db.vermerke) < peek
  BY DEF StimmigMitDatei
<1> HIDE DEF N, S, peek
<1>8. Nachspielbar' = Nachspielbar /\ Nachspielbar \subseteq wal.saetze /\ Laeuft'
  BY <1>1, <1>2 DEF Nachspielbar, Laeuft
<1>9. korb'.an = an /\ korb'.bis \in {db.marke, db.boden}
  BY KorbNachStart
<1>10. db.markeDa = an
  BY DEF Vermerkt, MarkeGilt
<1>11. \A s \in db.vermerke : s \in Nat /\ s < peek
  <2>1. db.vermerke \in SUBSET Nat
    BY DEF Typ, DbTyp
  <2>2. Hoechste(db.vermerke) \in Nat /\ \A x \in db.vermerke : x <= Hoechste(db.vermerke)
    BY <2>1, HoechsteIst
  <2>3. ASSUME NEW s \in db.vermerke PROVE s \in Nat /\ s < peek
    BY <1>6, <1>7, <2>1, <2>2
  <2>4. QED BY <2>3
<1>12. \A s \in db'.vermerke : s <= Kopf'
  <2>1. ASSUME NEW s \in db'.vermerke PROVE s <= peek - 1
    <3>1. s \in Nat /\ s < peek
      <4>1. CASE s \in db.vermerke
        BY <1>11, <4>1
      <4>2. CASE \E r \in Nachspielbar : r.seq = s
        BY <1>6, <1>8, <4>2, SatzTyp
      <4>3. QED BY <1>5, <4>1, <4>2
    <3>2. QED BY <1>6, <3>1
  <2>2. QED BY <1>1, <2>1
<1>13. CASE ~an
  <2>1. ASSUME NEW r \in Nachspielbar, r.seq \in db'.vermerke \/ r.seq < db.ab PROVE Draussen(r.tx)'
    <3>1. CASE r.seq \in db.vermerke \/ r.seq < db.ab
      <4>1. Draussen(r.tx)
        BY <1>13, <3>1 DEF Getan, GetanOhne
      <4>2. QED BY <1>2, <4>1 DEF Draussen
    <3>2. CASE \E q \in Nachspielbar : q.seq = r.seq /\ (q \in S \/ \E z \in db.zeilen : z.tx = q.tx)
      <4>1. PICK q \in Nachspielbar : q.seq = r.seq /\ (q \in S \/ \E z \in db.zeilen : z.tx = q.tx)
        BY <3>2
      <4>2. q = r
        BY <1>8, <4>1 DEF Nummern, SatzNummern
      <4>3. \E z \in db'.zeilen : z.tx = r.tx
        BY <1>2, <1>4, <4>1, <4>2
      <4>4. QED BY <4>3 DEF Draussen
    <3>3. QED BY <1>5, <2>1, <3>1, <3>2
  <2>2. GetanOhne' /\ GetanMit'
    BY <1>2, <1>8, <1>9, <1>13, <2>1 DEF GetanOhne, GetanMit
  <2>3. QED BY <1>12, <2>2 DEF Getan
<1>14. CASE an
  <2>1. S = {}
    BY <1>3, <1>10, <1>14 DEF OhneZeile
  <2>2. db'.vermerke = {}
    BY <1>5, <1>8, <1>14, <2>1 DEF Getan, GetanMit, Vermerkt, KorbGilt
  <2>3. ASSUME NEW r \in Nachspielbar, r.seq <= db.marke \/ r.seq <= korb'.bis PROVE r.tx \in ToSet(db.bloecke)
    <3>1. r.seq \in Nat /\ db.boden \in Nat /\ r.seq > db.boden
      BY NachspielTyp, ZahlenTyp DEF Nachspielbar
    <3>2. r.seq <= db.marke
      BY <1>9, <2>3, <3>1
    <3>3. QED BY <1>14, <3>2 DEF Getan, GetanMit
  <2>4. GetanOhne' /\ GetanMit'
    BY <1>2, <1>8, <1>9, <1>14, <2>2, <2>3 DEF GetanOhne, GetanMit
  <2>5. QED BY <1>12, <2>4 DEF Getan
<1>15. QED BY <1>13, <1>14

\* There are finitely many marks.
LEMMA VermerkeEndlich ==
  ASSUME ~ErsatzUnterbrochen, Typ, Nummern, IsFiniteSet(db.vermerke), [Next]_vars
  PROVE  IsFiniteSet(db'.vermerke)
<1>1. CASE \E b \in laufend : \E G \in SUBSET b.offen : FlushSchreibt(b, G)
  <2>1. PICK b \in laufend : \E G \in SUBSET b.offen : FlushSchreibt(b, G)
    BY <1>1
  <2>2. db'.vermerke = db.vermerke \cup Seqs(OhneZeilen(b))
    BY <2>1, VermerkeTun
  <2>3. IsFiniteSet(Seqs(OhneZeilen(b)))
    BY <2>1, FlushSchreibtTut, SeqsEndlich
  <2>4. QED BY <2>2, <2>3, FS_Union
<1>2. CASE \E an \in BOOLEAN : Einspielen(an) /\ StimmigMitDatei(PeekNachStart)
  <2>1. PICK an \in BOOLEAN : Einspielen(an) /\ StimmigMitDatei(PeekNachStart)
    BY <1>2
  <2>2. db' = Nachholen(an)
    BY <2>1, EinspielenTut
  <2>3. db'.vermerke \subseteq db.vermerke \cup Seqs(Nachspielbar)
    BY <2>2, VermerkeNachStart DEF Seqs
  <2>4. IsFiniteSet(Seqs(Nachspielbar))
    BY NachspielTyp, SeqsEndlich
  <2>5. IsFiniteSet(db.vermerke \cup Seqs(Nachspielbar))
    BY <2>4, FS_Union
  <2>6. QED BY <2>3, <2>5, FS_Subset
<1>3. CASE ~(\E b \in laufend : \E G \in SUBSET b.offen : FlushSchreibt(b, G))
           /\ ~(\E an \in BOOLEAN : Einspielen(an) /\ StimmigMitDatei(PeekNachStart))
  <2>1. db'.vermerke \subseteq db.vermerke
    <3>1. CASE UNCHANGED vars \/ \E t \in leert : SeriellAbgelehnt(t)
      BY <3>1 DEF vars, SeriellAbgelehnt
    <3>2. CASE \E t \in Auftraege : Anhaengen(t) \/ SeriellBeginnt(t)
      BY <3>2, AnhaengenTut, SeriellBeginntTut
    <3>3. CASE (\E e \in schwebend : Einreihen(e)) \/ \E bis \in 1 .. Kopf : Sichern(bis)
      BY <3>3, EinreihenTut, SichernTut
    <3>4. CASE FlushNimmt \/ \E b \in laufend : FlushScheitert(b)
      BY <3>4, FlushNimmtTut, FlushScheitertTut
    <3>5. CASE (\E t \in leert : SeriellBucht(t)) \/ Block \/ \E gross \in BOOLEAN : Kuerzen(gross)
      BY <3>5, VermerkeTun
    <3>6. CASE \E bis \in 0 .. Kopf : Absturz(bis)
      BY <3>6, AbsturzTut
    <3>7. CASE \E an \in BOOLEAN : Einspielen(an) /\ ~StimmigMitDatei(PeekNachStart)
      BY <3>7, VerweigertTut
    <3>8. CASE Anschluss
      BY <3>8 DEF Anschluss, Typ, DbTyp
    <3>9. CASE \E u \in BOOLEAN : Ersatz(u)
      <4>1. Ersatz(FALSE)
        BY <3>9, ErsatzTut
      <4>2. QED BY <4>1, VermerkeTun
    <3>10. QED BY <1>3, <3>1, <3>2, <3>3, <3>4, <3>5, <3>6, <3>7, <3>8, <3>9 DEF Next
  <2>2. QED BY <2>1, FS_Subset
<1>4. QED BY <1>1, <1>2, <1>3

\* Every step.
LEMMA GetanSchritt ==
  ASSUME ~ErsatzUnterbrochen, Typ, Nummern, KeinNachzuegler, Einmal, VermerktOK, LaufOK,
         SelbeNummer, Folge, KorbAus, LogWeg, GetanOK, [Next]_vars
  PROVE  GetanOK'
<1>1. IsFiniteSet(db'.vermerke) /\ IsFiniteSet(db.vermerke)
  BY VermerkeEndlich DEF GetanOK
<1>2. SUFFICES ASSUME ModusBleibt \/ zaehler'.abstuerze = 0 \/ (zaehler'.abstuerze = 1 /\ lauf' = "aus")
               PROVE  Getan'
  BY <1>1 DEF GetanOK, ModusBleibt
<1>3. Vermerkt /\ Getan
  <2>1. zaehler.abstuerze \in Nat
    BY DEF Typ, ZaehlerTyp
  <2>2. zaehler'.abstuerze = zaehler.abstuerze \/ zaehler'.abstuerze = zaehler.abstuerze + 1
    BY ZaehlerTut DEF vars
  <2>3. ModusBleibt \/ zaehler.abstuerze = 0 \/ (zaehler.abstuerze = 1 /\ zaehler'.abstuerze = 1 /\ lauf' = "aus")
    BY <1>2, <2>1, <2>2
  <2>4. QED BY <2>3, AusBleibt DEF VermerktOK, GetanOK
<1>4. CASE \E t \in Auftraege : Anhaengen(t)
  BY <1>3, <1>4, GetanAnhaengen
<1>5. CASE \E b \in laufend : \E G \in SUBSET b.offen : FlushSchreibt(b, G)
  BY <1>3, <1>5, GetanSchreibt
<1>6. CASE Block
  BY <1>3, <1>6, GetanBlock
<1>7. CASE \E gross \in BOOLEAN : Kuerzen(gross)
  BY <1>3, <1>7, GetanKuerzen
<1>8. CASE \E u \in BOOLEAN : Ersatz(u)
  <2>1. Ersatz(FALSE)
    BY <1>8, ErsatzTut
  <2>2. QED BY <2>1, GetanErsatz
<1>9. ASSUME NEW an \in BOOLEAN, Einspielen(an), StimmigMitDatei(PeekNachStart) PROVE Getan'
  <2>1. lauf = "aus" /\ lauf' = "eingespielt" /\ zaehler' = zaehler
    BY <1>9, EinspielenTut
  <2>2. zaehler'.abstuerze # 0
    BY <2>1 DEF LaufOK
  <2>3. ModusBleibt
    BY <1>2, <2>1, <2>2
  <2>4. <<korb.an, an>> \in Wechsel
    BY <1>9, KorbNachStart
  <2>5. an = korb.an
    BY <2>3, <2>4 DEF ModusBleibt
  <2>6. QED BY <1>1, <1>3, <1>9, <2>5, GetanEinspielen
<1>10. CASE \/ UNCHANGED vars
            \/ \E e \in schwebend : Einreihen(e)
            \/ \E bis \in 1 .. Kopf : Sichern(bis)
            \/ \E t \in Auftraege : SeriellBeginnt(t)
            \/ \E t \in leert : SeriellBucht(t)
            \/ \E t \in leert : SeriellAbgelehnt(t)
            \/ FlushNimmt
            \/ \E b \in laufend : FlushScheitert(b)
            \/ \E bis \in 0 .. Kopf : Absturz(bis)
            \/ Anschluss
            \/ \E an \in BOOLEAN : Einspielen(an) /\ ~StimmigMitDatei(PeekNachStart)
  BY <1>3, <1>10, GetanSonst
<1>11. QED BY <1>4, <1>5, <1>6, <1>7, <1>8, <1>9, <1>10 DEF Next

-----------------------------------------------------------------------------
(***************************************************************************)
(* What is stored can be seen, replayed, or was noted as lost.             *)
(***************************************************************************)
\* A step that stores nothing and takes nothing from the log.
LEMMA GespeichertRuhig ==
  ASSUME GespeichertOK, db'.konten = db.konten, Nachspielbar \subseteq Nachspielbar',
         \A t \in Auftraege : Draussen(t) => Draussen(t)', kunde.ersetzt \subseteq kunde'.ersetzt,
         Laeuft' => Laeuft, lauf' # "aus", Pruefbar' => Pruefbar
  PROVE  GespeichertOK'
<1>1. ASSUME NEW t \in Auftraege, ImLog(t) PROVE ImLog(t)'
  BY <1>1 DEF ImLog
<1>2. QED BY <1>1 DEF GespeichertOK

LEMMA GespeichertSonst ==
  ASSUME Typ, Nummern, GespeichertOK,
         \/ \E t \in Auftraege : Anhaengen(t)
         \/ \E e \in schwebend : Einreihen(e)
         \/ \E bis \in 1 .. Kopf : Sichern(bis)
         \/ FlushNimmt
         \/ \E b \in laufend : FlushScheitert(b)
         \/ \E t \in Auftraege : SeriellBeginnt(t)
         \/ \E t \in leert : SeriellAbgelehnt(t)
         \/ Block
         \/ Anschluss
  PROVE  GespeichertOK'
<1>1. /\ wal.saetze \subseteq wal'.saetze /\ db'.konten = db.konten /\ db'.boden = db.boden
      /\ Laeuft' => Laeuft
      /\ lauf' # "aus" /\ kunde'.ersetzt = kunde.ersetzt
      /\ zaehler'.frist = zaehler.frist /\ zaehler'.kuerzungen = zaehler.kuerzungen
  <2>1. CASE \E e \in schwebend : Einreihen(e)
    BY <2>1, EinreihenTut DEF Laeuft
  <2>2. CASE \E bis \in 1 .. Kopf : Sichern(bis)
    BY <2>2, SichernTut DEF Laeuft
  <2>3. CASE FlushNimmt
    BY <2>3, FlushNimmtTut DEF Laeuft
  <2>4. CASE \E b \in laufend : FlushScheitert(b)
    BY <2>4, FlushScheitertTut DEF Laeuft
  <2>5. CASE \E t \in Auftraege : SeriellBeginnt(t)
    BY <2>5, SeriellBeginntTut DEF Laeuft
  <2>6. CASE \E t \in leert : SeriellAbgelehnt(t)
    BY <2>6 DEF SeriellAbgelehnt, Laeuft
  <2>7. CASE Block
    BY <2>7, BlockTut DEF Laeuft
  <2>8. CASE Anschluss
    BY <2>8, AnschlussTut DEF Laeuft
  <2>9. CASE \E t \in Auftraege : Anhaengen(t)
    BY <2>9, AnhaengenTut DEF Laeuft
  <2>10. QED BY <2>1, <2>2, <2>3, <2>4, <2>5, <2>6, <2>7, <2>8, <2>9
<1>2. Nachspielbar \subseteq Nachspielbar' /\ (Pruefbar' => Pruefbar)
  BY <1>1 DEF Nachspielbar, Pruefbar
<1>3. \A t \in Auftraege : Draussen(t) => Draussen(t)'
  <2>1. Next
    BY DEF Next
  <2>2. QED BY <2>1, DraussenBleibt
<1>4. QED BY <1>1, <1>2, <1>3, GespeichertRuhig

\* What a flush stores is in the log or was stored.
LEMMA GespeichertSchreibt ==
  ASSUME Typ, Nummern, Paare, GespeichertOK, NEW b \in laufend, NEW G \in SUBSET b.offen, FlushSchreibt(b, G)
  PROVE  GespeichertOK'
<1>1. /\ db'.boden = db.boden /\ lauf = "laeuft" /\ UNCHANGED <<wal, konten, lauf, kunde>>
      /\ zaehler'.kuerzungen = zaehler.kuerzungen
      /\ zaehler'.frist = 0 => zaehler.frist = 0
  BY FlushSchreibtTut
<1>2. \A a \in Konten : db'.konten[a] = db.konten[a] \/ db'.konten[a].wirkt = konten[a].wirkt
  BY FlushWirkt
<1>3. Laeuft /\ (Pruefbar' => Pruefbar) /\ Nachspielbar' = Nachspielbar
  BY <1>1 DEF Laeuft, Pruefbar, Nachspielbar
<1>4. ASSUME NEW u \in Auftraege PROVE (ImLog(u)' <=> ImLog(u)) /\ (Draussen(u) => Draussen(u)')
  <2>1. Next
    BY DEF Next
  <2>2. QED BY <1>3, <2>1, DraussenBleibt DEF ImLog
<1>5. ASSUME NEW a \in Konten, NEW u \in Auftraege, ~ImLog(u)
      PROVE  db'.konten[a].wirkt[u] = db.konten[a].wirkt[u]
  <2>1. konten[a].wirkt[u] = db.konten[a].wirkt[u]
    BY <1>3, <1>5 DEF Paare, LebendOK
  <2>2. QED BY <1>2, <2>1
<1>6. SUFFICES ASSUME Pruefbar', NEW u \in Auftraege, db'.konten[Von[u]].wirkt[u] = 1, ~ImLog(u)
               PROVE  Draussen(u)' \/ u \in kunde.ersetzt
  BY <1>1, <1>4 DEF GespeichertOK
<1>7. db.konten[Von[u]].wirkt[u] = 1
  BY <1>5, <1>6, BeideKonten
<1>8. Draussen(u) \/ u \in kunde.ersetzt
  BY <1>3, <1>6, <1>7 DEF GespeichertOK
<1>9. QED BY <1>4, <1>8

\* A serial order has its row.
LEMMA GespeichertSeriell ==
  ASSUME Typ, Nummern, Paare, GespeichertOK, NEW t \in leert, SeriellBucht(t)
  PROVE  GespeichertOK'
<1>1. /\ db'.boden = db.boden /\ lauf = "laeuft" /\ UNCHANGED <<wal, lauf>> /\ t \in Auftraege
      /\ db'.zeilen = db.zeilen \cup {[seq |-> wal.naechste, id |-> db.id + 1, tx |-> t]}
      /\ zaehler'.kuerzungen = zaehler.kuerzungen /\ kunde'.ersetzt = kunde.ersetzt
      /\ zaehler'.frist = 0 => zaehler.frist = 0
  BY SeriellBuchtTut
<1>2. /\ \A a \in Konten \ Beide(t) : konten'[a] = konten[a] /\ db'.konten[a] = db.konten[a]
      /\ \A a \in Beide(t) :
           /\ \A u \in Auftraege \ {t} : konten'[a].wirkt[u] = konten[a].wirkt[u]
           /\ db'.konten[a].wirkt = konten'[a].wirkt
  BY SeriellWirkt
<1>3. Laeuft /\ (Pruefbar' => Pruefbar) /\ Nachspielbar' = Nachspielbar
  BY <1>1 DEF Laeuft, Pruefbar, Nachspielbar
<1>4. ASSUME NEW u \in Auftraege PROVE (ImLog(u)' <=> ImLog(u)) /\ (Draussen(u) => Draussen(u)')
  <2>1. Next
    BY DEF Next
  <2>2. QED BY <1>3, <2>1, DraussenBleibt DEF ImLog
<1>5. Draussen(t)'
  <2> DEFINE z == [seq |-> wal.naechste, id |-> db.id + 1, tx |-> t]
  <2>1. z \in db'.zeilen /\ z.tx = t
    BY <1>1
  <2> HIDE DEF z
  <2>2. QED BY <2>1 DEF Draussen
<1>6. ASSUME NEW a \in Konten, NEW u \in Auftraege, ~ImLog(u), u # t
      PROVE  db'.konten[a].wirkt[u] = db.konten[a].wirkt[u]
  <2>1. konten[a].wirkt[u] = db.konten[a].wirkt[u]
    BY <1>3, <1>6 DEF Paare, LebendOK
  <2>2. QED BY <1>2, <1>6, <2>1
<1>7. SUFFICES ASSUME Pruefbar', NEW u \in Auftraege, db'.konten[Von[u]].wirkt[u] = 1, ~ImLog(u), u # t
               PROVE  Draussen(u)' \/ u \in kunde.ersetzt
  BY <1>1, <1>4, <1>5 DEF GespeichertOK
<1>8. db.konten[Von[u]].wirkt[u] = 1
  BY <1>6, <1>7, BeideKonten
<1>9. Draussen(u) \/ u \in kunde.ersetzt
  BY <1>3, <1>7, <1>8 DEF GespeichertOK
<1>10. QED BY <1>4, <1>9

\* What a compaction takes from the log other nodes see.
LEMMA GespeichertKuerzen ==
  ASSUME Typ, Nummern, Einmal, KeinNachzuegler, LogWeg, Folge, KorbAus, GespeichertOK,
         NEW gross \in BOOLEAN, Kuerzen(gross)
  PROVE  GespeichertOK'
<1>1. /\ db'.konten = db.konten /\ db'.zeilen = db.zeilen /\ db'.bloecke = db.bloecke /\ db'.boden = db.boden
      /\ wal'.saetze = IF gross THEN {r \in wal.saetze : r.seq >= KuerzenBis} ELSE wal.saetze
      /\ lauf = "laeuft" /\ UNCHANGED <<lauf, kunde>>
      /\ zaehler'.frist = zaehler.frist /\ zaehler'.kuerzungen # 0
  BY KuerzenTut
<1>2. Laeuft /\ (Pruefbar' => Pruefbar)
  BY <1>1 DEF Laeuft, Pruefbar
<1>3. \A u : Draussen(u)' <=> Draussen(u)
  BY <1>1 DEF Draussen
<1>4. ASSUME NEW t \in Auftraege, ImLog(t), ~ImLog(t)' PROVE Draussen(t)
  <2>1. PICK r \in Nachspielbar : r.tx = t /\ r \notin Nachspielbar'
    BY <1>4 DEF ImLog
  <2>2. r \notin wal'.saetze /\ r \in wal.saetze
    BY <1>1, <2>1 DEF Nachspielbar
  <2>3. r.seq < KuerzenBis
    <3>1. ~(r.seq >= KuerzenBis)
      BY <1>1, <2>2
    <3>2. r.seq \in Nat /\ KuerzenBis \in Nat
      BY <2>2, SatzTyp, KuerzenBisIst
    <3>3. QED BY <3>1, <3>2
  <2>4. QED BY <2>1, <2>3, KuerzenDraussen
<1>5. SUFFICES ASSUME Pruefbar', NEW t \in Auftraege, db.konten[Von[t]].wirkt[t] = 1, ~ImLog(t)'
               PROVE  Draussen(t) \/ t \in kunde.ersetzt
  BY <1>1, <1>3 DEF GespeichertOK
<1>6. Draussen(t) \/ ImLog(t) \/ t \in kunde.ersetzt
  BY <1>2, <1>5 DEF GespeichertOK
<1>7. QED BY <1>4, <1>5, <1>6

\* What a crash takes from the log is not stored.
LEMMA GespeichertAbsturz ==
  ASSUME Typ, Salden, HaltbarOK, GespeichertOK, NEW bis, Absturz(bis)
  PROVE  GespeichertOK'
<1>1. /\ lauf' = "aus" /\ lauf \in {"laeuft", "eingespielt"} /\ UNCHANGED <<db, kunde>>
      /\ zaehler'.frist = zaehler.frist /\ zaehler'.kuerzungen = zaehler.kuerzungen
  BY AbsturzTut
<1>2. ~Laeuft' /\ Laeuft /\ Pruefbar' = Pruefbar
  BY <1>1 DEF Laeuft, Pruefbar
<1>3. \A u : Draussen(u)' <=> Draussen(u)
  BY <1>1 DEF Draussen
<1>4. SUFFICES ASSUME Pruefbar, StimmigMitDatei(PeekNachStart)', NEW t \in Auftraege,
                      db.konten[Von[t]].wirkt[t] = 1, ~ImLog(t)'
               PROVE  Draussen(t) \/ t \in kunde.ersetzt
  BY <1>1, <1>2, <1>3 DEF GespeichertOK
<1>5. Draussen(t) \/ ImLog(t) \/ t \in kunde.ersetzt
  BY <1>2, <1>4 DEF GespeichertOK
<1>6. CASE ImLog(t)
  <2>1. \A a \in Beide(t) : db.konten[a].wirkt[t] = 0
    BY <1>4, <1>6, AbsturzVergisst
  <2>2. QED BY <1>4, <2>1, BeideKonten
<1>7. QED BY <1>5, <1>6

\* The start leaves the stored accounts and the log.
LEMMA GespeichertEinspielen ==
  ASSUME Typ, Nummern, GespeichertOK, NEW an \in BOOLEAN, Einspielen(an)
  PROVE  GespeichertOK'
<1>1. CASE ~StimmigMitDatei(PeekNachStart)
  BY <1>1, VerweigertTut DEF GespeichertOK, Laeuft
<1>2. CASE StimmigMitDatei(PeekNachStart)
  <2> DEFINE d == Nachholen(an)
  <2>1. /\ lauf = "aus" /\ lauf' = "eingespielt" /\ wal'.saetze = wal.saetze
        /\ db' = d /\ zaehler' = zaehler /\ kunde' = kunde
    BY <1>2, EinspielenTut
  <2>2. d.konten = db.konten /\ d.boden = db.boden
    BY NachholenTyp
  <2> HIDE DEF d
  <2>3. Nachspielbar' = Nachspielbar /\ Pruefbar' = Pruefbar
    BY <2>1, <2>2 DEF Nachspielbar, Pruefbar
  <2>4. ASSUME NEW t \in Auftraege PROVE (ImLog(t)' <=> ImLog(t)) /\ (Draussen(t) => Draussen(t)')
    <3>1. Next
      BY DEF Next
    <3>2. QED BY <2>3, <3>1, DraussenBleibt DEF ImLog
  <2>5. SUFFICES ASSUME Pruefbar, NEW t \in Auftraege, db.konten[Von[t]].wirkt[t] = 1
                 PROVE  Draussen(t)' \/ ImLog(t)' \/ t \in kunde.ersetzt
    BY <2>1, <2>2, <2>3 DEF GespeichertOK
  <2>6. Draussen(t) \/ ImLog(t) \/ t \in kunde.ersetzt
    BY <1>2, <2>1, <2>5 DEF GespeichertOK
  <2>7. QED BY <2>4, <2>6
<1>3. QED BY <1>1, <1>2

\* The accounts of the blocks have the orders of the blocks.
LEMMA GespeichertErsatz ==
  ASSUME Typ, Ersatz(FALSE)
  PROVE  GespeichertOK'
<1>1. /\ db'.konten = konten' /\ \A a \in Konten : konten'[a] = AusBloecken(a)
      /\ db'.bloecke = db.bloecke
  BY ErsatzTut
<1>2. ASSUME NEW t \in Auftraege, db'.konten[Von[t]].wirkt[t] = 1 PROVE Draussen(t)'
  <2>1. Von[t] \in Konten
    BY BeideKonten
  <2>2. AusBloecken(Von[t]).wirkt[t] = IF t \in ToSet(db.bloecke) /\ Von[t] \in Beide(t) THEN 1 ELSE 0
    BY <2>1, AusBloeckenTyp
  <2>3. t \in ToSet(db.bloecke)
    BY <1>1, <1>2, <2>1, <2>2
  <2>4. QED BY <1>1, <2>3 DEF Draussen
<1>3. QED BY <1>2 DEF GespeichertOK

\* Every step.
LEMMA GespeichertSchritt ==
  ASSUME ~ErsatzUnterbrochen, Typ, Nummern, Salden, HaltbarOK, Paare, Einmal, KeinNachzuegler,
         Folge, KorbAus, LogWeg, GespeichertOK, [Next]_vars
  PROVE  GespeichertOK'
<1>1. CASE UNCHANGED vars
  <2>1. Nachspielbar' = Nachspielbar /\ PeekNachStart' = PeekNachStart /\ Laeuft' = Laeuft /\ Pruefbar' = Pruefbar
    BY <1>1 DEF vars, Nachspielbar, PeekNachStart, Seqs, Laeuft, Pruefbar
  <2>2. StimmigMitDatei(PeekNachStart)' = StimmigMitDatei(PeekNachStart)
    BY <1>1, <2>1 DEF vars, StimmigMitDatei
  <2>3. ASSUME NEW t \in Auftraege PROVE ImLog(t)' = ImLog(t) /\ Draussen(t)' = Draussen(t)
    BY <1>1, <2>1 DEF ImLog, Draussen, vars
  <2>4. QED BY <1>1, <2>1, <2>2, <2>3 DEF vars, GespeichertOK
<1>2. CASE \E b \in laufend : \E G \in SUBSET b.offen : FlushSchreibt(b, G)
  BY <1>2, GespeichertSchreibt
<1>3. CASE \E t \in leert : SeriellBucht(t)
  BY <1>3, GespeichertSeriell
<1>4. CASE \E gross \in BOOLEAN : Kuerzen(gross)
  BY <1>4, GespeichertKuerzen
<1>5. CASE \E bis \in 0 .. Kopf : Absturz(bis)
  BY <1>5, GespeichertAbsturz
<1>6. CASE \E an \in BOOLEAN : Einspielen(an)
  BY <1>6, GespeichertEinspielen
<1>7. CASE \E u \in BOOLEAN : Ersatz(u)
  <2>1. Ersatz(FALSE)
    BY <1>7, ErsatzTut
  <2>2. QED BY <2>1, GespeichertErsatz
<1>8. CASE \/ \E t \in Auftraege : Anhaengen(t)
           \/ \E e \in schwebend : Einreihen(e)
           \/ \E bis \in 1 .. Kopf : Sichern(bis)
           \/ FlushNimmt
           \/ \E b \in laufend : FlushScheitert(b)
           \/ \E t \in Auftraege : SeriellBeginnt(t)
           \/ \E t \in leert : SeriellAbgelehnt(t)
           \/ Block
           \/ Anschluss
  BY <1>8, GespeichertSonst
<1>9. QED BY <1>1, <1>2, <1>3, <1>4, <1>5, <1>6, <1>7, <1>8 DEF Next

-----------------------------------------------------------------------------
(***************************************************************************)
(* One way exactly.                                                        *)
(***************************************************************************)
\* At the beginning: no record, no order stored.
LEMMA AusgangAnfang == Init => SelbeNummer /\ Folge /\ KorbAus /\ LogWeg /\ GetanOK /\ GespeichertOK
<1> SUFFICES ASSUME Init PROVE SelbeNummer /\ Folge /\ KorbAus /\ LogWeg /\ GetanOK /\ GespeichertOK
  OBVIOUS
<1>1. /\ wal.saetze = {} /\ wal.naechste = 1 /\ wal.haltbar = 0 /\ wal.hwm = 0 /\ lauf = "laeuft"
      /\ schlange = <<>> /\ laufend = {} /\ schwebend = {} /\ Kopf = 0
      /\ \A a \in Konten : konten[a] = LeeresKonto
  BY DEF Init, Kopf
<1>2. /\ db.konten = konten /\ db.vermerke = {} /\ db.marke = 0
      /\ korb.ab = 1 /\ korb.bis = 0 /\ korb.fehlt = {} /\ korb.saetze = {}
  <2>1. PICK an \in {w[1] : w \in Wechsel} :
          /\ korb = [an |-> an, ab |-> 1, bis |-> 0, fehlt |-> {}, saetze |-> {}]
          /\ db = [konten |-> konten, zeilen |-> {}, id |-> 0, vermerke |-> {}, ab |-> 1,
                   markeDa |-> an, marke |-> 0, boden |-> 0, bloecke |-> <<>>]
    BY DEF Init
  <2>2. QED BY <2>1
<1>3. \A t \in Auftraege : LeeresKonto.wirkt[t] = 0
  BY DEF LeeresKonto
<1> HIDE DEF LeeresKonto
<1>4. Nachspielbar = {}
  BY <1>1 DEF Nachspielbar
<1>5. SelbeNummer /\ KorbAus /\ LogWeg
  BY <1>1, <1>2, <1>4 DEF SelbeNummer, KorbAus, LogWeg
<1>6. Folge
  BY <1>1, <1>2 DEF Folge, DateiOK, KorbFolge
<1>7. GetanOK
  <2>1. IsFiniteSet(db.vermerke)
    BY <1>2, FS_EmptySet
  <2>2. QED BY <1>2, <1>4, <2>1 DEF GetanOK, Getan, GetanOhne, GetanMit
<1>8. GespeichertOK
  <2>1. \A t \in Auftraege : db.konten[Von[t]].wirkt[t] = 0
    BY <1>1, <1>2, <1>3, BeideKonten
  <2>2. QED BY <2>1 DEF GespeichertOK
<1>9. QED BY <1>5, <1>6, <1>7, <1>8

\* A set with at most one element.
LEMMA HoechstensEins ==
  ASSUME NEW S, \A x, y \in S : x = y
  PROVE  Cardinality(S) = IF S = {} THEN 0 ELSE 1
<1>1. CASE S = {}
  BY <1>1, FS_EmptySet
<1>2. CASE S # {}
  <2>1. PICK x \in S : S = {x}
    BY <1>2
  <2>2. Cardinality({x}) = 1
    BY FS_Singleton
  <2>3. QED BY <1>2, <2>1, <2>2
<1>3. QED BY <1>1, <1>2

\* Does the sequence hold an item of t that writes a row?
Haelt(q, t) == \E p \in ToSet(q) : p.tx = t /\ ~p.ohne

\* A queue or batch in which no number comes twice holds an order once.
LEMMA StellenEins ==
  ASSUME Typ, NummerJeAuftrag, NEW q \in Seq(Posten), EinmalReihe(q), ToSet(q) \subseteq Offene,
         NEW t \in Auftraege
  PROVE  Stellen(q, t) = IF Haelt(q, t) THEN 1 ELSE 0
<1> DEFINE S == {i \in DOMAIN q : q[i].tx = t /\ ~q[i].ohne}
<1>1. \A i \in DOMAIN q : q[i] \in ToSet(q)
  BY DEF ToSet
<1>2. ASSUME NEW i \in S, NEW j \in S PROVE i = j
  <2>1. q[i] \in Nummerierte /\ q[j] \in Nummerierte /\ q[i].tx = q[j].tx
    BY <1>1 DEF Nummerierte
  <2>2. q[i].seq = q[j].seq
    BY <2>1 DEF NummerJeAuftrag
  <2>3. QED BY <2>2 DEF EinmalReihe
<1>3. S = {} <=> ~Haelt(q, t)
  <2>1. ASSUME NEW i \in S PROVE Haelt(q, t)
    BY <1>1 DEF Haelt
  <2>2. ASSUME Haelt(q, t) PROVE S # {}
    <3>1. PICK p \in ToSet(q) : p.tx = t /\ ~p.ohne
      BY <2>2 DEF Haelt
    <3>2. PICK i \in DOMAIN q : p = q[i]
      BY <3>1 DEF ToSet
    <3>3. i \in S
      BY <3>1, <3>2
    <3>4. QED BY <3>3
  <2>3. QED BY <2>1, <2>2
<1>4. Stellen(q, t) = Cardinality(S)
  BY DEF Stellen
<1> HIDE DEF S
<1>5. Cardinality(S) = IF S = {} THEN 0 ELSE 1
  BY <1>2, HoechstensEins
<1>6. QED BY <1>3, <1>4, <1>5

\* The ways of an order exclude each other.
LEMMA EinWeg ==
  ASSUME Typ, Nummern, Einmal, NEW t \in Auftraege
  PROVE  /\ t \in ToSet(db.bloecke) =>
              /\ \A d \in db.zeilen \cup korb.saetze : d.tx # t
              /\ ~Haelt(schlange, t) /\ \A b \in laufend : ~Haelt(b.posten, t)
         /\ \A z \in db.zeilen : z.tx = t =>
              /\ \A e \in korb.saetze : e.tx # t
              /\ ~Haelt(schlange, t) /\ \A b \in laufend : ~Haelt(b.posten, t)
         /\ \A e \in korb.saetze : e.tx = t =>
              ~Haelt(schlange, t) /\ \A b \in laufend : ~Haelt(b.posten, t)
         /\ Haelt(schlange, t) => \A b \in laufend : ~Haelt(b.posten, t)
         /\ \A b, c \in laufend : Haelt(b.posten, t) /\ Haelt(c.posten, t) => b = c
<1>1. ToSet(schlange) \subseteq Offene /\ \A b \in laufend : ToSet(b.posten) \subseteq Offene
  BY DEF Offene
<1>2. ASSUME NEW e \in korb.saetze \cup MitZeile
      PROVE  Eintrag(e) \in Dinge /\ Eintrag(e).tx = e.tx /\ Eintrag(e).id = 0
  BY DEF Dinge, Wartend, Eintrag
<1>3. ASSUME NEW q, ToSet(q) \subseteq Offene, Haelt(q, t)
      PROVE  \E p \in ToSet(q) : p \in MitZeile /\ p.tx = t
  BY <1>3 DEF Haelt, MitZeile
<1>4. ASSUME t \in ToSet(db.bloecke)
      PROVE  \A d \in Dinge : d.tx # t
  <2>1. PICK i \in DOMAIN db.bloecke : db.bloecke[i] = t
    BY <1>4 DEF ToSet
  <2>2. QED BY <2>1 DEF Einmal, WegEinmal
<1>5. ASSUME NEW z \in db.zeilen, z.tx = t
      PROVE  \A e \in korb.saetze \cup MitZeile : e.tx # t
  <2>1. SUFFICES ASSUME NEW e \in korb.saetze \cup MitZeile, e.tx = t PROVE FALSE
    OBVIOUS
  <2>2. z \in Dinge
    BY DEF Dinge
  <2>3. z = Eintrag(e)
    BY <1>2, <1>5, <2>1, <2>2 DEF Einmal, WegEinmal
  <2>4. z.id = 0
    BY <1>2, <2>3
  <2>5. z.id \in 1 .. db.id
    BY DEF Nummern, ZeilenNummern
  <2>6. db.id \in Nat
    BY DEF Typ, DbTyp
  <2>7. QED BY <2>4, <2>5, <2>6
<1>6. ASSUME NEW e \in korb.saetze, e.tx = t
      PROVE  \A p \in MitZeile : p.tx # t
  <2>1. SUFFICES ASSUME NEW p \in MitZeile, p.tx = t PROVE FALSE
    OBVIOUS
  <2>2. p.seq = e.seq
    BY <1>6, <2>1 DEF Einmal, NummerJeAuftrag, Nummerierte, MitZeile
  <2>3. QED BY <2>2 DEF Einmal, WegEinmal
<1>7. ASSUME NEW p \in Offene, NEW o \in Offene, p.tx = t, o.tx = t PROVE p.seq = o.seq
  BY <1>7 DEF Einmal, NummerJeAuftrag, Nummerierte
<1>8. ASSUME NEW b \in laufend, Haelt(schlange, t), Haelt(b.posten, t) PROVE FALSE
  <2>1. PICK p \in ToSet(b.posten) : p \in MitZeile /\ p.tx = t
    BY <1>1, <1>3, <1>8
  <2>2. PICK o \in ToSet(schlange) : o \in MitZeile /\ o.tx = t
    BY <1>1, <1>3, <1>8
  <2>3. p.seq = o.seq
    BY <1>1, <1>7, <2>1, <2>2
  <2>4. QED BY <2>3 DEF Einmal, PostenEinmal
<1>9. ASSUME NEW b \in laufend, NEW c \in laufend, Haelt(b.posten, t), Haelt(c.posten, t) PROVE b = c
  <2>1. PICK p \in ToSet(b.posten) : p \in MitZeile /\ p.tx = t
    BY <1>1, <1>3, <1>9
  <2>2. PICK o \in ToSet(c.posten) : o \in MitZeile /\ o.tx = t
    BY <1>1, <1>3, <1>9
  <2>3. p.seq = o.seq
    BY <1>1, <1>7, <2>1, <2>2
  <2>4. QED BY <2>3 DEF Einmal, PostenEinmal
<1>10. ASSUME t \in ToSet(db.bloecke) \/ \E z \in db.zeilen : z.tx = t
       PROVE  /\ \A e \in korb.saetze : e.tx # t
              /\ \A p \in MitZeile : p.tx # t
  BY <1>2, <1>4, <1>5, <1>10
<1>11. ASSUME \A p \in MitZeile : p.tx # t
       PROVE  ~Haelt(schlange, t) /\ \A b \in laufend : ~Haelt(b.posten, t)
  BY <1>1, <1>3, <1>11
<1>12. t \in ToSet(db.bloecke) => \A d \in db.zeilen \cup korb.saetze : d.tx # t
  <2>1. SUFFICES ASSUME t \in ToSet(db.bloecke) PROVE \A d \in db.zeilen \cup korb.saetze : d.tx # t
    OBVIOUS
  <2>2. \A d \in db.zeilen : d.tx # t
    BY <1>4, <2>1 DEF Dinge
  <2>3. QED BY <1>10, <2>1, <2>2
<1>13. QED BY <1>6, <1>8, <1>9, <1>10, <1>11, <1>12

\* With a way that is not still floating an order has exactly one.
LEMMA WegZaehlt ==
  ASSUME Typ, Nummern, Einmal, NEW t \in Auftraege, \A e \in schwebend : e.tx # t, HatWeg(t)
  PROVE  Ausgaenge(t) = 1
<1> DEFINE Bl == {i \in DOMAIN db.bloecke : db.bloecke[i] = t}
           Ze == {z \in db.zeilen : z.tx = t}
           Ko == {e \in korb.saetze : e.tx = t}
           La == {b \in laufend : Stellen(b.posten, t) > 0}
           Gl == {b \in laufend : Haelt(b.posten, t)}
<1>1. ToSet(schlange) \subseteq Offene /\ \A b \in laufend : ToSet(b.posten) \subseteq Offene
  BY DEF Offene
<1>2. schlange \in Seq(Posten) /\ \A b \in laufend : b.posten \in Seq(Posten)
  BY DEF Typ, BuendelTyp
<1>3. Stellen(schlange, t) = IF Haelt(schlange, t) THEN 1 ELSE 0
  BY <1>1, <1>2, StellenEins DEF Einmal, PostenEinmal
<1>4. \A b \in laufend : Stellen(b.posten, t) = IF Haelt(b.posten, t) THEN 1 ELSE 0
  BY <1>1, <1>2, StellenEins DEF Einmal, PostenEinmal
<1>5. La = Gl
  BY <1>4
<1>6. Cardinality(Bl) = IF Bl = {} THEN 0 ELSE 1
  <2>1. \A x, y \in Bl : x = y
    BY DEF Einmal, WegEinmal
  <2> HIDE DEF Bl
  <2>2. QED BY <2>1, HoechstensEins
<1>7. Cardinality(Ze) = IF Ze = {} THEN 0 ELSE 1
  <2>1. \A x, y \in Ze : x = y
    BY DEF Einmal, WegEinmal, Dinge
  <2> HIDE DEF Ze
  <2>2. QED BY <2>1, HoechstensEins
<1>8. Cardinality(Ko) = IF Ko = {} THEN 0 ELSE 1
  <2>1. ASSUME NEW x \in Ko, NEW y \in Ko PROVE x = y
    <3>1. x.seq = y.seq
      BY DEF Einmal, NummerJeAuftrag, Nummerierte
    <3>2. QED BY <3>1 DEF Nummern, KorbNummern
  <2> HIDE DEF Ko
  <2>2. QED BY <2>1, HoechstensEins
<1>9. Cardinality(Gl) = IF Gl = {} THEN 0 ELSE 1
  <2>1. \A x, y \in Gl : x = y
    BY EinWeg
  <2> HIDE DEF Gl
  <2>2. QED BY <2>1, HoechstensEins
<1>10. Ausgaenge(t) = Cardinality(Bl) + Cardinality(Ze) + Cardinality(Ko)
                      + Stellen(schlange, t) + Cardinality(Gl)
  BY <1>5 DEF Ausgaenge
<1>11. Bl # {} <=> t \in ToSet(db.bloecke)
  BY DEF ToSet
<1>12. Ze # {} <=> \E z \in db.zeilen : z.tx = t
  OBVIOUS
<1>13. Ko # {} <=> \E e \in korb.saetze : e.tx = t
  OBVIOUS
<1>14. Gl # {} <=> \E b \in laufend : Haelt(b.posten, t)
  OBVIOUS
<1>15. t \in ToSet(db.bloecke) \/ (\E z \in db.zeilen : z.tx = t) \/ (\E e \in korb.saetze : e.tx = t)
       \/ Haelt(schlange, t) \/ \E b \in laufend : Haelt(b.posten, t)
  <2>1. ASSUME NEW p \in MitZeile, p.tx = t
        PROVE  Haelt(schlange, t) \/ \E b \in laufend : Haelt(b.posten, t)
    BY <2>1 DEF MitZeile, Offene, Haelt
  <2>2. Draussen(t) \/ (\E p \in MitZeile : p.tx = t) \/ \E e \in korb.saetze : e.tx = t
    BY DEF HatWeg
  <2>3. QED BY <2>1, <2>2 DEF Draussen
<1> HIDE DEF Bl, Ze, Ko, La, Gl
<1>16. /\ Bl # {} => Ze = {} /\ Ko = {} /\ ~Haelt(schlange, t) /\ Gl = {}
       /\ Ze # {} => Ko = {} /\ ~Haelt(schlange, t) /\ Gl = {}
       /\ Ko # {} => ~Haelt(schlange, t) /\ Gl = {}
       /\ Haelt(schlange, t) => Gl = {}
  BY <1>11, <1>12, <1>13, <1>14, EinWeg
<1>17. Bl # {} \/ Ze # {} \/ Ko # {} \/ Haelt(schlange, t) \/ Gl # {}
  BY <1>11, <1>12, <1>13, <1>14, <1>15
<1>18. QED BY <1>3, <1>6, <1>7, <1>8, <1>9, <1>10, <1>16, <1>17

\* The invariant says more than the property.
LEMMA AusgangGilt ==
  ASSUME Typ, Nummern, Salden, Paare, Einmal, LogWeg, GespeichertOK
  PROVE  GenauEinAusgang
<1>1. SUFFICES ASSUME lauf = "laeuft", Pruefbar, NEW t \in Auftraege, t \notin kunde.ersetzt,
                      \A e \in schwebend : e.tx # t, Wirksam(t)
               PROVE  Ausgaenge(t) = 1
  BY DEF GenauEinAusgang
<1>2. Laeuft
  BY <1>1 DEF Laeuft
<1>3. konten[Von[t]].wirkt[t] = 1
  <2>1. Von[t] \in Konten
    BY BeideKonten
  <2>2. konten[Von[t]].wirkt[t] \in Nat /\ konten[Von[t]].wirkt[t] <= 1 /\ konten[Von[t]].wirkt[t] > 0
    BY <1>1, <2>1, KontoTyp DEF Salden, KontenOK, Wirksam
  <2>3. QED BY <2>2
<1>4. Draussen(t) \/ ImLog(t)
  <2>1. db.konten[Von[t]].wirkt[t] = 1 \/ ImLog(t)
    BY <1>2, <1>3, BeideKonten DEF Paare, LebendOK
  <2>2. QED BY <1>1, <1>2, <2>1 DEF GespeichertOK
<1>5. HatWeg(t)
  BY <1>2, <1>4 DEF HatWeg, LogWeg, ImLog
<1>6. QED BY <1>1, <1>5, WegZaehlt

\* Every order in force has exactly one way out (wal_ausgang, recoverFromWAL, Korb):
\* as long as no record floats beyond the distance of the compaction, and unless the
\* Korb is switched and there is a second restart.
THEOREM GenauEinAusgangGilt ==
  ASSUME ~ErsatzUnterbrochen
  PROVE  Spec /\ []KeinNachzuegler /\ []EinUmschalten => []GenauEinAusgang
<1> DEFINE I == /\ Typ /\ Nummern /\ Salden /\ Unterwegs /\ HaltbarOK /\ Paare
                /\ Einmal /\ VermerktOK /\ LaufOK
                /\ SelbeNummer /\ Folge /\ KorbAus /\ LogWeg /\ GetanOK /\ GespeichertOK
<1>1. I /\ KeinNachzuegler /\ EinUmschalten /\ [Next]_vars => I'
  <2>1. SUFFICES ASSUME I, KeinNachzuegler, EinUmschalten, [Next]_vars PROVE I'
    OBVIOUS
  <2>2. Typ' /\ Nummern' /\ Salden' /\ Unterwegs' /\ HaltbarOK' /\ Paare'
    BY <2>1, TypSchritt, SaldenSchritt, UnterwegsSchritt, HaltbarSchritt, PaareSchritt
  <2>3. Einmal' /\ VermerktOK' /\ LaufOK'
    BY <2>1, EinmalSchritt, VermerktSchritt, LaufSchritt
  <2>4. SelbeNummer' /\ Folge' /\ KorbAus' /\ LogWeg'
    BY <2>1, SelbeNummerSchritt, FolgeSchritt, KorbAusSchritt, LogWegSchritt
  <2>5. GetanOK' /\ GespeichertOK'
    BY <2>1, GetanSchritt, GespeichertSchritt
  <2>6. QED BY <2>2, <2>3, <2>4, <2>5
<1>2. Init => I
  BY TypAnfang, SaldenAnfang, UnterwegsAnfang, GanzAnfang, EinmalAnfang, AusgangAnfang
<1>3. I => GenauEinAusgang
  BY AusgangGilt
<1> HIDE DEF I
<1>4. QED BY <1>1, <1>2, <1>3, PTL DEF Spec
=============================================================================
