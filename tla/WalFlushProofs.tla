--------------------------- MODULE WalFlushProofs ---------------------------
(***************************************************************************)
(* Safety of WalFlush.  First type correctness: what its operators yield,  *)
(* what each operation does to the variables, and that the numbers of      *)
(* records, items, entries and rows are their own.  Then: the stored       *)
(* wal_seq says what the stored balance contains, no order counts twice,   *)
(* no nonce is freed, no half transfer comes back and nothing that was     *)
(* acknowledged is lost, and the first start after a crash is not refused  *)
(* in vain.  The invariants: Salden (what the balances contain), Unterwegs *)
(* (who still carries what the database lacks), with them Paare and        *)
(* Quittungen, and for the start ErstesLeben and ErsterStart.              *)
(***************************************************************************)
EXTENDS WalFlush, MengenLemmas

-----------------------------------------------------------------------------
(***************************************************************************)
(* The operators.                                                          *)
(***************************************************************************)
\* Seqs of a finite set of records is a finite set of numbers.
LEMMA SeqsEndlich ==
  ASSUME NEW E, IsFiniteSet(E), \A e \in E : e.seq \in Nat
  PROVE  IsFiniteSet(Seqs(E)) /\ Seqs(E) \in SUBSET Nat
<1> DEFINE f == [e \in E |-> e.seq]
<1>1. IsFiniteSet({f[e] : e \in E})
  BY BildEndlich
<1>2. {f[e] : e \in E} = Seqs(E)
  BY DEF Seqs
<1>3. QED BY <1>1, <1>2 DEF Seqs

\* Sortiert for records with different numbers.
LEMMA SortiertSaetze ==
  ASSUME NEW S, IsFiniteSet(S), \A x \in S : x.seq \in Nat,
         \A x, y \in S : x.seq = y.seq => x = y
  PROVE  LET s == Sortiert(S, NachSeq)
             n == Cardinality(S)
         IN  /\ n \in Nat /\ s \in [1 .. n -> S]
             /\ \A x \in S : \E i \in 1 .. n : s[i] = x
             /\ \A i, j \in 1 .. n : i < j => s[i].seq < s[j].seq
<1> DEFINE vor == {p \in S \X S : p[1].seq < p[2].seq}
           n == Cardinality(S)
           s == Sortiert(S, NachSeq)
<1>1. \A x, y \in S : <<x, y>> \in vor <=> x.seq < y.seq
  OBVIOUS
<1> HIDE DEF vor
<1>2. Ordnet(vor, S)
  BY <1>1 DEF Ordnet
<1>3. \E q \in [1 .. n -> S] : \A i, j \in 1 .. n : i < j => q[i].seq < q[j].seq
  <2>1. PICK q \in [1 .. n -> S] : Steigend(q, n, vor)
    BY <1>2, ReiheGibtEs
  <2>2. QED BY <1>1, <2>1 DEF Steigend
<1>4. s \in [1 .. n -> S] /\ \A i, j \in 1 .. n : i < j => s[i].seq < s[j].seq
  BY <1>3 DEF Sortiert, NachSeq
<1> HIDE DEF s
<1>5. Steigend(s, n, vor)
  BY <1>1, <1>4 DEF Steigend
<1>6. n \in Nat /\ \A x \in S : \E i \in 1 .. n : s[i] = x
  BY <1>2, <1>4, <1>5, ReiheTrifft
<1>7. QED BY <1>4, <1>6 DEF s

\* BlockFolge goes through the entries of a block.
LEMMA BlockFolgeIst ==
  ASSUME NEW E \in SUBSET Zeilen, IsFiniteSet(E),
         \A x, y \in E : x.seq = y.seq /\ x.id = y.id => x = y
  PROVE  Cardinality(E) \in Nat /\ \A i \in 1 .. Cardinality(E) : BlockFolge(E)[i] \in E
<1> DEFINE vor == {p \in E \X E : ImBlockVor(p[1], p[2])}
           n == Cardinality(E)
           s == BlockFolge(E)
<1>1. \A x, y \in E : <<x, y>> \in vor <=> ImBlockVor(x, y)
  OBVIOUS
<1> HIDE DEF vor
<1>2. Ordnet(vor, E)
  <2>1. \A x \in E : x.seq \in Nat /\ x.id \in Nat
    BY DEF Zeilen
  <2>2. \A x, y \in E : x # y => ImBlockVor(x, y) \/ ImBlockVor(y, x)
    BY <2>1 DEF ImBlockVor
  <2>3. \A x, y, z \in E : ImBlockVor(x, y) /\ ImBlockVor(y, z) => ImBlockVor(x, z)
    BY <2>1 DEF ImBlockVor
  <2>4. \A x \in E : ~ImBlockVor(x, x)
    BY <2>1 DEF ImBlockVor
  <2>5. QED BY <1>1, <2>2, <2>3, <2>4 DEF Ordnet
<1>3. \E q \in [1 .. n -> E] : \A i, j \in 1 .. n : i < j => ImBlockVor(q[i], q[j])
  <2>1. PICK q \in [1 .. n -> E] : Steigend(q, n, vor)
    BY <1>2, ReiheGibtEs
  <2>2. QED BY <1>1, <2>1 DEF Steigend
<1>4. s \in [1 .. n -> E]
  BY <1>3 DEF BlockFolge, Sortiert
<1> HIDE DEF s
<1>5. n \in Nat
  BY FS_CardinalityType
<1>6. QED BY <1>4, <1>5 DEF s

\* NeueZeilen numbers one row per record.
LEMMA NeueZeilenIst ==
  ASSUME NEW S, IsFiniteSet(S), \A x \in S : x.seq \in Nat /\ x.tx \in Auftraege,
         \A x, y \in S : x.seq = y.seq => x = y, NEW id \in Nat
  PROVE  /\ NeueZeilen(S, id) \in SUBSET Zeilen /\ IsFiniteSet(NeueZeilen(S, id))
         /\ Cardinality(S) \in Nat
         /\ \A z \in NeueZeilen(S, id) : z.id \in (id + 1) .. (id + Cardinality(S)) /\ \E x \in S : z.tx = x.tx
         /\ \A y, z \in NeueZeilen(S, id) : y.id = z.id => y = z
<1> DEFINE n == Cardinality(S)
           R == Sortiert(S, NachSeq)
           f == [i \in 1 .. n |-> [seq |-> R[i].seq, id |-> id + i, tx |-> R[i].tx]]
<1>1. n \in Nat /\ R \in [1 .. n -> S]
  BY SortiertSaetze
<1>2. NeueZeilen(S, id) = {[seq |-> R[i].seq, id |-> id + i, tx |-> R[i].tx] : i \in 1 .. n}
  BY <1>1 DEF NeueZeilen
<1> HIDE DEF n, R
<1>3. NeueZeilen(S, id) = {f[i] : i \in 1 .. n}
  BY <1>2
<1>4. \A i \in 1 .. n : f[i] \in Zeilen /\ f[i].id = id + i /\ f[i].tx = R[i].tx /\ R[i] \in S
  BY <1>1 DEF Zeilen
<1>5. IsFiniteSet(NeueZeilen(S, id))
  <2>1. IsFiniteSet(1 .. n)
    BY <1>1, FS_Interval
  <2> HIDE DEF f
  <2>2. IsFiniteSet({f[i] : i \in 1 .. n})
    BY <2>1, BildEndlich
  <2>3. QED BY <1>3, <2>2
<1> HIDE DEF f
<1>6. \A z \in NeueZeilen(S, id) : \E i \in 1 .. n : z = f[i]
  BY <1>3
<1>7. ASSUME NEW z \in NeueZeilen(S, id)
      PROVE  z \in Zeilen /\ z.id \in (id + 1) .. (id + n) /\ \E x \in S : z.tx = x.tx
  <2>1. PICK i \in 1 .. n : z = f[i]
    BY <1>6
  <2>2. z \in Zeilen /\ z.id = id + i /\ z.tx = R[i].tx /\ R[i] \in S
    BY <1>4, <2>1
  <2>3. id + i \in (id + 1) .. (id + n)
    BY <1>1
  <2>4. QED BY <2>2, <2>3
<1>8. ASSUME NEW y \in NeueZeilen(S, id), NEW z \in NeueZeilen(S, id), y.id = z.id
      PROVE  y = z
  <2>1. PICK i \in 1 .. n : y = f[i]
    BY <1>6
  <2>2. PICK j \in 1 .. n : z = f[j]
    BY <1>6
  <2>3. id + i = id + j
    BY <1>4, <1>8, <2>1, <2>2
  <2>4. i = j
    BY <2>3
  <2>5. QED BY <2>1, <2>2, <2>4
<1>9. QED BY <1>1, <1>5, <1>7, <1>8 DEF n

-----------------------------------------------------------------------------
(***************************************************************************)
(* Types and numbers.                                                      *)
(***************************************************************************)
WalTyp     == [saetze : SUBSET Saetze, naechste : Nat \ {0}, haltbar : Nat, hwm : Nat]
DbTyp      == [konten : [Konten -> Konto], zeilen : SUBSET Zeilen, id : Nat, vermerke : SUBSET Nat,
               ab : Nat, markeDa : BOOLEAN, marke : Nat, boden : Nat, bloecke : Seq(Auftraege)]
BuendelTyp == [posten : Seq(Posten), offen : SUBSET Konten]
KorbTyp    == [an : BOOLEAN, ab : Nat, bis : Nat, fehlt : SUBSET Nat, saetze : SUBSET Saetze]
KundeTyp   == [gestellt : SUBSET Auftraege, quittiert : SUBSET Auftraege, ersetzt : SUBSET Auftraege]
ZaehlerTyp == [abstuerze : Nat, fehler : Nat, frist : Nat, ersatz : Nat, kuerzungen : Nat]

\* The types, with what TypeOK leaves open.
Typ ==
  /\ wal \in WalTyp /\ IsFiniteSet(wal.saetze) /\ wal.haltbar <= Kopf /\ wal.hwm <= Kopf
  /\ konten \in [Konten -> Konto]
  /\ db \in DbTyp /\ IsFiniteSet(db.zeilen)
  /\ schlange \in Seq(Posten) /\ laufend \in SUBSET BuendelTyp
  /\ korb \in KorbTyp /\ IsFiniteSet(korb.saetze)
  /\ schwebend \in SUBSET Saetze /\ leert \in SUBSET Seriell
  /\ lauf \in {"laeuft", "aus", "eingespielt", "verweigert"}
  /\ kunde \in KundeTyp /\ zaehler \in ZaehlerTyp

\* Within a life of the process a number names one record, and so one item, one
\* entry of the Korb; the rows have ids of their own.
SatzNummern    == \A r \in wal.saetze : r.seq <= Kopf /\ \A s \in wal.saetze : r.seq = s.seq => r = s
PostenNummern  == \A p \in Offene : p.seq <= Kopf /\ \A q \in Offene : p.seq = q.seq => p = q
KorbNummern    == \A e \in korb.saetze : e.seq <= Kopf /\ \A f \in korb.saetze : e.seq = f.seq => e = f
ZeilenNummern  == \A z \in db.zeilen : z.id \in 1 .. db.id /\ \A y \in db.zeilen : y.id = z.id => y = z
SchwebNummern  ==
  \A e \in schwebend :
    /\ e.seq <= Kopf
    /\ \A f \in schwebend : f.seq = e.seq => f = e
    /\ \A p \in Offene : p.seq # e.seq
    /\ \A k \in korb.saetze : k.seq # e.seq
\* Nothing is under way unless the node runs.
Ruhe == lauf # "laeuft" => schwebend = {} /\ laufend = {}

\* All of it.
Nummern == SatzNummern /\ PostenNummern /\ KorbNummern /\ ZeilenNummern /\ SchwebNummern /\ Ruhe

\* TypeOK is a part of it.
LEMMA TypReicht == Typ /\ Nummern => TypeOK
<1> SUFFICES ASSUME Typ, Nummern PROVE TypeOK
  OBVIOUS
<1>1. wal.saetze \subseteq Saetze /\ wal.naechste \in Nat /\ Kopf \in Nat
      /\ wal.haltbar \in 0 .. Kopf /\ wal.hwm \in 0 .. Kopf
  BY DEF Typ, WalTyp, Kopf
<1>2. Seqs(wal.saetze) \subseteq 0 .. Kopf
  BY <1>1 DEF Seqs, Saetze, Nummern, SatzNummern
<1>3. /\ db.konten \in [Konten -> Konto]
      /\ db.zeilen \subseteq Zeilen /\ db.id \in Nat /\ db.ab \in Nat /\ db.marke \in Nat /\ db.boden \in Nat
      /\ db.vermerke \subseteq Nat /\ db.markeDa \in BOOLEAN /\ db.bloecke \in Seq(Auftraege)
  BY DEF Typ, DbTyp
<1>4. \A b \in laufend : b.posten \in Seq(Posten) /\ b.offen \subseteq Konten
  BY DEF Typ, BuendelTyp
<1>5. /\ korb.an \in BOOLEAN /\ korb.ab \in Nat /\ korb.bis \in Nat /\ korb.fehlt \subseteq Nat
      /\ korb.saetze \subseteq Saetze
  BY DEF Typ, KorbTyp
<1>6. kunde.gestellt \cup kunde.quittiert \cup kunde.ersetzt \subseteq Auftraege
  BY DEF Typ, KundeTyp
<1>7. DOMAIN zaehler = {"abstuerze", "fehler", "frist", "ersatz", "kuerzungen"}
  BY DEF Typ, ZaehlerTyp
<1>8. QED BY <1>1, <1>2, <1>3, <1>4, <1>5, <1>6, <1>7 DEF Typ, TypeOK

\* The last number given out.
LEMMA KopfTyp == Typ => Kopf \in Nat /\ wal.naechste = Kopf + 1
  BY DEF Typ, WalTyp, Kopf

\* The waiting items.
LEMMA OffeneTyp == Typ => Offene \in SUBSET Posten
<1> SUFFICES ASSUME Typ PROVE Offene \in SUBSET Posten
  OBVIOUS
<1>1. ToSet(schlange) \subseteq Posten
  BY DEF Typ, ToSet
<1>2. \A b \in laufend : b.posten \in Seq(Posten)
  BY DEF Typ, BuendelTyp
<1>3. \A b \in laufend : ToSet(b.posten) \subseteq Posten
  BY <1>2 DEF ToSet
<1>4. QED BY <1>1, <1>3 DEF Offene

\* The accounts after an order.
LEMMA BuchungTyp ==
  ASSUME NEW k \in [Konten -> Konto], NEW t \in Auftraege, NEW s \in Nat
  PROVE  LET n == NachBuchung(k, t, s)
         IN  /\ n \in [Konten -> Konto]
             /\ \A a \in Konten \ Beide(t) : n[a] = k[a]
             /\ \A a \in Beide(t) :
                  /\ n[a].wirkt[t] = k[a].wirkt[t] + 1
                  /\ \A u \in Auftraege \ {t} : n[a].wirkt[u] = k[a].wirkt[u]
                  /\ s = 0 => n[a].wal = k[a].wal
                  /\ s # 0 => n[a].wal = s
                  /\ n[a].nonce >= k[a].nonce
                  /\ a = Von[t] /\ Nonce[t] > 0 => n[a].nonce > Nonce[t]
<1>1. \A a \in Konten : k[a] \in Konto /\ k[a].wirkt \in [Auftraege -> Nat] /\ k[a].wal \in Nat /\ k[a].nonce \in Nat
  BY DEF Konto
<1>2. Nonce[t] \in Nat
  BY NonceTyp
<1>3. Beide(t) \subseteq Konten
  BY RichtungTyp DEF Beide
<1>4. ASSUME NEW a \in Konten PROVE Gebucht(k[a], a, t, s) \in Konto
  <2>1. [k[a].wirkt EXCEPT ![t] = @ + 1] \in [Auftraege -> Nat]
    BY <1>1
  <2>2. (IF s = 0 THEN k[a].wal ELSE s) \in Nat
    BY <1>1
  <2>3. (IF a = Von[t] /\ Nonce[t] >= k[a].nonce /\ Nonce[t] > 0 THEN Nonce[t] + 1 ELSE k[a].nonce) \in Nat
    BY <1>1, <1>2
  <2>4. QED BY <2>1, <2>2, <2>3 DEF Gebucht, Konto
<1>5. ASSUME NEW a \in Beide(t)
      PROVE  LET g == Gebucht(k[a], a, t, s)
             IN  /\ g.wirkt[t] = k[a].wirkt[t] + 1
                 /\ \A u \in Auftraege \ {t} : g.wirkt[u] = k[a].wirkt[u]
                 /\ s = 0 => g.wal = k[a].wal
                 /\ s # 0 => g.wal = s
                 /\ g.nonce >= k[a].nonce
                 /\ a = Von[t] /\ Nonce[t] > 0 => g.nonce > Nonce[t]
  BY <1>1, <1>2, <1>3 DEF Gebucht
<1>6. QED BY <1>3, <1>4, <1>5 DEF NachBuchung

\* What a caller learns.
LEMMA BeantwortetTyp ==
  ASSUME Typ, NEW bis, NEW U, NEW k, k = Beantwortet(bis, U)
  PROVE  /\ k \in KundeTyp /\ k.gestellt = kunde.gestellt /\ k.ersetzt = kunde.ersetzt
         /\ k.quittiert = kunde.quittiert \cup {r.tx : r \in {s \in wal.saetze \ U : s.seq <= bis}}
<1>1. wal.saetze \subseteq Saetze
  BY DEF Typ, WalTyp
<1>2. {r.tx : r \in {s \in wal.saetze \ U : s.seq <= bis}} \subseteq Auftraege
  BY <1>1 DEF Saetze
<1>3. QED BY <1>2 DEF Beantwortet, Typ, KundeTyp

-----------------------------------------------------------------------------
(* What each operation does.                                               *)
\* A new record: number, float, both accounts.
LEMMA AnhaengenTut ==
  ASSUME Typ, NEW t \in Auftraege, Anhaengen(t)
  PROVE  /\ wal' \in WalTyp /\ wal'.naechste = wal.naechste + 1 /\ wal'.haltbar = wal.haltbar /\ wal'.hwm = wal.hwm
         /\ wal'.saetze = wal.saetze \cup {[seq |-> wal.naechste, tx |-> t]}
         /\ [seq |-> wal.naechste, tx |-> t] \in Saetze
         /\ schwebend' = schwebend \cup {[seq |-> wal.naechste, tx |-> t]}
         /\ konten' = NachBuchung(konten, t, wal.naechste)
         /\ kunde' \in KundeTyp /\ kunde'.gestellt = kunde.gestellt \cup {t}
         /\ kunde'.quittiert = kunde.quittiert /\ kunde'.ersetzt = kunde.ersetzt
         /\ lauf = "laeuft" /\ t \notin kunde.gestellt /\ Beide(t) \cap Gesperrt = {}
         /\ UNCHANGED <<db, schlange, laufend, korb, leert, lauf, zaehler>>
<1> DEFINE e == [seq |-> wal.naechste, tx |-> t]
<1>1. wal \in WalTyp /\ wal.naechste \in Nat \ {0}
  BY DEF Typ, WalTyp
<1>2. e \in Saetze
  BY <1>1 DEF Saetze
<1>3. wal' = [wal EXCEPT !.saetze = @ \cup {e}, !.naechste = @ + 1]
  BY DEF Anhaengen
<1> HIDE DEF e
<1>4. wal' \in WalTyp /\ wal'.naechste = wal.naechste + 1 /\ wal'.haltbar = wal.haltbar /\ wal'.hwm = wal.hwm
      /\ wal'.saetze = wal.saetze \cup {e}
  <2>1. wal.saetze \cup {e} \in SUBSET Saetze /\ wal.naechste + 1 \in Nat \ {0}
    BY <1>1, <1>2 DEF WalTyp
  <2>2. QED BY <1>1, <1>3, <2>1 DEF WalTyp
<1>5. /\ kunde' \in KundeTyp /\ kunde'.gestellt = kunde.gestellt \cup {t}
      /\ kunde'.quittiert = kunde.quittiert /\ kunde'.ersetzt = kunde.ersetzt
  BY DEF Anhaengen, Typ, KundeTyp
<1>6. QED BY <1>2, <1>4, <1>5 DEF Anhaengen, Gestellt, e

\* The item enters the queue, or a waiting one already covers it.
LEMMA EinreihenTut ==
  ASSUME Typ, NEW e \in schwebend, Einreihen(e)
  PROVE  LET p == [seq |-> e.seq, tx |-> e.tx, ohne |-> korb.an]
         IN  /\ p \in Posten /\ e \in Saetze /\ schlange' \in Seq(Posten)
             /\ \/ ToSet(schlange') = ToSet(schlange) \cup {p}
                \/ ToSet(schlange') = ToSet(schlange) /\ Beide(e.tx) \subseteq KontenVon(ToSet(schlange))
             /\ korb' \in KorbTyp /\ IsFiniteSet(korb'.saetze)
             /\ korb'.saetze = korb.saetze \cup IF korb.an THEN {e} ELSE {}
             /\ schwebend' = schwebend \ {e}
             /\ kunde' \in KundeTyp /\ kunde'.gestellt = kunde.gestellt /\ kunde'.ersetzt = kunde.ersetzt
             /\ kunde'.quittiert = kunde.quittiert
                   \cup {r.tx : r \in {s \in wal.saetze \ schwebend' : s.seq <= wal.haltbar}}
             /\ lauf = "laeuft"
             /\ UNCHANGED <<wal, konten, db, laufend, leert, lauf, zaehler>>
<1> DEFINE p == [seq |-> e.seq, tx |-> e.tx, ohne |-> korb.an]
<1>1. e \in Saetze /\ korb.an \in BOOLEAN
  BY DEF Typ, KorbTyp
<1>2. p \in Posten /\ p.tx = e.tx
  BY <1>1 DEF Posten, Saetze
<1>3. schlange' = IF Gedeckt(schlange, p) THEN schlange ELSE Append(schlange, p)
  BY DEF Einreihen
<1> HIDE DEF p
<1>4. schlange \in Seq(Posten)
  BY DEF Typ
<1>5. schlange' \in Seq(Posten)
  BY <1>2, <1>3, <1>4
<1>6. \/ ToSet(schlange') = ToSet(schlange) \cup {p}
      \/ ToSet(schlange') = ToSet(schlange) /\ Beide(e.tx) \subseteq KontenVon(ToSet(schlange))
  <2>1. CASE Gedeckt(schlange, p)
    BY <1>2, <1>3, <2>1 DEF Gedeckt
  <2>2. CASE ~Gedeckt(schlange, p)
    BY <1>3, <1>4, <2>2 DEF ToSet
  <2>3. QED BY <2>1, <2>2
<1>7. /\ korb' \in KorbTyp /\ IsFiniteSet(korb'.saetze)
      /\ korb'.saetze = korb.saetze \cup IF korb.an THEN {e} ELSE {}
  <2>1. korb \in KorbTyp /\ IsFiniteSet(korb.saetze) /\ korb.saetze \cup {e} \in SUBSET Saetze
    BY <1>1 DEF Typ, KorbTyp
  <2>2. IsFiniteSet(korb.saetze \cup {e})
    BY <2>1, FS_AddElement
  <2>3. korb' = IF korb.an THEN [korb EXCEPT !.saetze = @ \cup {e}] ELSE korb
    BY DEF Einreihen
  <2>4. QED BY <2>1, <2>2, <2>3 DEF KorbTyp
<1>8. schwebend' = schwebend \ {e} /\ kunde' = Beantwortet(wal.haltbar, schwebend')
  BY DEF Einreihen
<1>9. QED BY <1>1, <1>2, <1>5, <1>6, <1>7, <1>8, BeantwortetTyp DEF Einreihen, p

\* A group commit moves the durable number and answers.
LEMMA SichernTut ==
  ASSUME Typ, NEW bis, Sichern(bis)
  PROVE  /\ wal' \in WalTyp /\ wal'.saetze = wal.saetze /\ wal'.naechste = wal.naechste /\ wal'.hwm = wal.hwm
         /\ wal'.haltbar = bis /\ bis \in wal.haltbar .. Kopf
         /\ kunde' \in KundeTyp /\ kunde'.gestellt = kunde.gestellt /\ kunde'.ersetzt = kunde.ersetzt
         /\ kunde'.quittiert = kunde.quittiert
               \cup {r.tx : r \in {s \in wal.saetze \ schwebend : s.seq <= bis}}
         /\ lauf = "laeuft"
         /\ UNCHANGED <<konten, db, schlange, laufend, korb, schwebend, leert, lauf, zaehler>>
<1>1. wal \in WalTyp /\ wal.haltbar \in Nat /\ Kopf \in Nat
  BY KopfTyp DEF Typ, WalTyp
<1>2. bis \in (wal.haltbar + 1) .. Kopf /\ wal' = [wal EXCEPT !.haltbar = bis] /\ kunde' = Beantwortet(bis, schwebend)
  BY DEF Sichern
<1>3. bis \in Nat /\ bis \in wal.haltbar .. Kopf
  BY <1>1, <1>2
<1>4. /\ wal' \in WalTyp /\ wal'.saetze = wal.saetze /\ wal'.naechste = wal.naechste /\ wal'.hwm = wal.hwm
      /\ wal'.haltbar = bis
  BY <1>1, <1>2, <1>3 DEF WalTyp
<1>5. QED BY <1>2, <1>3, <1>4, BeantwortetTyp DEF Sichern

\* Items move from the queue to one new batch that owes all their accounts.
LEMMA FlushNimmtTut ==
  ASSUME Typ, FlushNimmt
  PROVE  /\ schlange' \in Seq(Posten)
         /\ \E b \in BuendelTyp :
              /\ laufend' = laufend \cup {b} /\ b.offen = KontenVon(ToSet(b.posten))
              /\ ToSet(schlange) = ToSet(schlange') \cup ToSet(b.posten)
         /\ lauf = "laeuft"
         /\ UNCHANGED <<wal, konten, db, korb, schwebend, leert, lauf, kunde, zaehler>>
<1> DEFINE I == Auswahl(schlange)
           packen == Ausgewaehlt(schlange, I)
           b == [posten |-> packen, offen |-> KontenVon(ToSet(packen))]
<1>1. schlange \in Seq(Posten)
  BY DEF Typ
<1>2. I \in SUBSET DOMAIN schlange
  BY DEF Auswahl
<1>3. laufend' = laufend \cup {b} /\ schlange' = Ausgewaehlt(schlange, DOMAIN schlange \ I)
  BY DEF FlushNimmt
<1> HIDE DEF I
<1>4. packen \in Seq(Posten) /\ ToSet(packen) = {schlange[i] : i \in I}
  BY <1>1, <1>2, AusgewaehltIst
<1>5. schlange' \in Seq(Posten) /\ ToSet(schlange') = {schlange[i] : i \in DOMAIN schlange \ I}
  BY <1>1, <1>3, AusgewaehltIst
<1> HIDE DEF packen
<1>6. KontenVon(ToSet(packen)) \subseteq Konten
  <2>1. \A p \in ToSet(packen) : p \in Posten
    BY <1>4 DEF ToSet
  <2>2. \A p \in ToSet(packen) : Beide(p.tx) \subseteq Konten
    BY <2>1, RichtungTyp DEF Posten, Beide
  <2>3. QED BY <2>2 DEF KontenVon
<1>7. b \in BuendelTyp /\ b.offen = KontenVon(ToSet(b.posten)) /\ b.posten = packen
  BY <1>4, <1>6 DEF BuendelTyp
<1> HIDE DEF b
<1>8. ToSet(schlange) = ToSet(schlange') \cup ToSet(b.posten)
  <2>1. ToSet(schlange) = {schlange[i] : i \in DOMAIN schlange}
    BY DEF ToSet
  <2>2. {schlange[i] : i \in DOMAIN schlange} = {schlange[i] : i \in DOMAIN schlange \ I} \cup {schlange[i] : i \in I}
    BY <1>2
  <2>3. QED BY <1>4, <1>5, <1>7, <2>1, <2>2
<1>9. QED BY <1>3, <1>5, <1>7, <1>8 DEF FlushNimmt

\* The stored account after a write: never less of a record than before.
LEMMA UpsertTyp ==
  ASSUME NEW alt \in Konto, NEW neu \in Konto
  PROVE  LET u == Upsert(alt, neu)
         IN  /\ u \in Konto
             /\ alt.wal < neu.wal => /\ u.wirkt = neu.wirkt /\ u.wal = neu.wal
                                     /\ u.nonce >= alt.nonce /\ u.nonce >= neu.nonce
             /\ neu.wal <= alt.wal => u = alt
<1>1. alt.wal \in Nat /\ neu.wal \in Nat /\ alt.nonce \in Nat /\ neu.nonce \in Nat
  BY DEF Konto
<1> DEFINE n == Max({alt.nonce, neu.nonce})
<1>2. n \in Nat /\ n >= alt.nonce /\ n >= neu.nonce
  BY <1>1, GroesseresNat
<1>3. Upsert(alt, neu) = IF alt.wal < neu.wal THEN [neu EXCEPT !.nonce = n] ELSE alt
  BY DEF Upsert
<1> HIDE DEF n
<1>4. QED BY <1>1, <1>2, <1>3 DEF Konto

\* What the serial path stores.
LEMMA GespeichertTyp ==
  ASSUME NEW alt \in Konto, NEW neu \in Konto
  PROVE  LET u == Gespeichert(alt, neu)
         IN  /\ u \in Konto /\ u.wirkt = neu.wirkt
             /\ u.wal \in {alt.wal, neu.wal} /\ u.wal >= alt.wal /\ u.wal >= neu.wal
             /\ u.nonce >= alt.nonce /\ u.nonce >= neu.nonce
<1>1. alt.wal \in Nat /\ neu.wal \in Nat /\ alt.nonce \in Nat /\ neu.nonce \in Nat
  BY DEF Konto
<1> DEFINE n == Max({alt.nonce, neu.nonce})
<1>2. n \in Nat /\ n >= alt.nonce /\ n >= neu.nonce
  BY <1>1, GroesseresNat
<1> DEFINE w == Max({alt.wal, neu.wal})
<1>3. w \in {alt.wal, neu.wal} /\ w \in Nat /\ w >= alt.wal /\ w >= neu.wal
  BY <1>1, GroesseresNat
<1>4. Gespeichert(alt, neu) = [neu EXCEPT !.wal = w, !.nonce = n]
  BY DEF Gespeichert
<1> HIDE DEF n, w
<1>5. QED BY <1>1, <1>2, <1>3, <1>4 DEF Konto

\* The rows of a batch.
OhneZeilen(b) == {p \in ToSet(b.posten) : ~p.ohne}

\* The items of a batch.
LEMMA BuendelPosten ==
  ASSUME Typ, NEW b \in laufend
  PROVE  /\ b \in BuendelTyp /\ b.posten \in Seq(Posten) /\ b.offen \in SUBSET Konten
         /\ ToSet(b.posten) \subseteq Offene /\ ToSet(b.posten) \subseteq Posten
         /\ IsFiniteSet(ToSet(b.posten))
<1>1. b \in BuendelTyp
  BY DEF Typ
<1>2. b.posten \in Seq(Posten) /\ b.offen \in SUBSET Konten
  BY <1>1 DEF BuendelTyp
<1>3. ToSet(b.posten) \subseteq Posten
  BY <1>2 DEF ToSet
<1>4. ToSet(b.posten) \subseteq Offene
  BY DEF Offene
<1>5. IsFiniteSet(ToSet(b.posten))
  <2> DEFINE q == b.posten
             f == [i \in DOMAIN q |-> q[i]]
  <2>1. Len(q) \in Nat /\ DOMAIN q = 1 .. Len(q)
    BY <1>2
  <2>2. IsFiniteSet(DOMAIN q)
    BY <2>1, FS_Interval
  <2>3. IsFiniteSet({f[i] : i \in DOMAIN q})
    BY <2>2, BildEndlich
  <2>4. {f[i] : i \in DOMAIN q} = ToSet(q)
    BY DEF ToSet
  <2>5. QED BY <2>3, <2>4
<1>6. QED BY <1>1, <1>2, <1>3, <1>4, <1>5

\* Rows and marks written in one transaction.
LEMMA MitVermerkTyp ==
  ASSUME Typ, NEW S, IsFiniteSet(S), \A x \in S : x.seq \in Nat /\ x.tx \in Auftraege,
         \A x, y \in S : x.seq = y.seq => x = y
  PROVE  LET d == MitVermerk(db, S)
         IN  /\ d \in DbTyp /\ d.konten = db.konten
             /\ d.ab = db.ab /\ d.markeDa = db.markeDa /\ d.marke = db.marke /\ d.boden = db.boden
             /\ d.bloecke = db.bloecke
             /\ d.zeilen = db.zeilen \cup NeueZeilen(S, db.id) /\ IsFiniteSet(d.zeilen)
             /\ d.id = db.id + Cardinality(S)
<1>1. db \in DbTyp /\ db.id \in Nat /\ IsFiniteSet(db.zeilen) /\ db.zeilen \in SUBSET Zeilen
      /\ db.vermerke \in SUBSET Nat
  BY DEF Typ, DbTyp
<1>2. NeueZeilen(S, db.id) \in SUBSET Zeilen /\ IsFiniteSet(NeueZeilen(S, db.id)) /\ Cardinality(S) \in Nat
  BY <1>1, NeueZeilenIst
<1>3. IsFiniteSet(db.zeilen \cup NeueZeilen(S, db.id))
  BY <1>1, <1>2, FS_Union
<1>4. db.zeilen \cup NeueZeilen(S, db.id) \in SUBSET Zeilen /\ db.id + Cardinality(S) \in Nat
  BY <1>1, <1>2
<1>5. db.vermerke \cup Seqs(S) \in SUBSET Nat
  BY <1>1 DEF Seqs
<1> DEFINE z == db.zeilen \cup NeueZeilen(S, db.id)
           i == db.id + Cardinality(S)
           v == db.vermerke \cup Seqs(S)
<1>6. MitVermerk(db, S) = [db EXCEPT !.zeilen = z, !.id = i, !.vermerke = v]
  BY DEF MitVermerk
<1>7. z \in SUBSET Zeilen /\ IsFiniteSet(z) /\ i \in Nat /\ v \in SUBSET Nat
  BY <1>3, <1>4, <1>5
<1>8. z = db.zeilen \cup NeueZeilen(S, db.id) /\ i = db.id + Cardinality(S)
  OBVIOUS
<1> HIDE DEF z, i, v
<1>9. QED BY <1>1, <1>6, <1>7, <1>8 DEF DbTyp

\* A flush: rows for the items that owe one, the accounts G, what the batch still owes.
LEMMA FlushSchreibtTut ==
  ASSUME Typ, Nummern, NEW b \in laufend, NEW G \in SUBSET b.offen, FlushSchreibt(b, G)
  PROVE  LET P == OhneZeilen(b)
         IN  /\ IsFiniteSet(P) /\ P \subseteq Offene
             /\ \A x \in P : x.seq \in Nat /\ x.tx \in Auftraege
             /\ \A x, y \in P : x.seq = y.seq => x = y
             /\ db' \in DbTyp /\ IsFiniteSet(db'.zeilen)
             /\ \A a \in Konten : db'.konten[a] = IF a \in G THEN Upsert(db.konten[a], konten[a]) ELSE db.konten[a]
             /\ db'.ab = db.ab /\ db'.markeDa = db.markeDa /\ db'.marke = db.marke /\ db'.boden = db.boden
             /\ db'.bloecke = db.bloecke /\ db'.zeilen = db.zeilen \cup NeueZeilen(P, db.id)
             /\ db'.id = db.id + Cardinality(P)
             /\ zaehler' \in ZaehlerTyp /\ zaehler'.kuerzungen = zaehler.kuerzungen
             /\ zaehler'.frist = 0 => zaehler.frist = 0 /\ \A a \in G : konten[a].wal <= wal.haltbar
             /\ laufend' \in SUBSET BuendelTyp
             /\ laufend' = (laufend \ {b})
                   \cup IF G = b.offen THEN {} ELSE {[posten |-> b.posten, offen |-> b.offen \ G]}
             /\ lauf = "laeuft"
             /\ UNCHANGED <<wal, konten, schlange, korb, schwebend, leert, lauf, kunde>>
<1> DEFINE P == OhneZeilen(b)
           k == [a \in Konten |-> IF a \in G THEN Upsert(db.konten[a], konten[a]) ELSE db.konten[a]]
           d == MitVermerk(db, P)
           c == [posten |-> b.posten, offen |-> b.offen \ G]
<1>1. b \in BuendelTyp /\ b.posten \in Seq(Posten) /\ b.offen \in SUBSET Konten
      /\ ToSet(b.posten) \subseteq Offene /\ ToSet(b.posten) \subseteq Posten /\ IsFiniteSet(ToSet(b.posten))
  BY BuendelPosten
<1>2. /\ IsFiniteSet(P) /\ P \subseteq Offene
      /\ \A x \in P : x.seq \in Nat /\ x.tx \in Auftraege
      /\ \A x, y \in P : x.seq = y.seq => x = y
  <2>1. P \subseteq Offene /\ P \subseteq Posten /\ IsFiniteSet(P)
    BY <1>1, FS_Subset DEF OhneZeilen
  <2>2. \A x \in P : x.seq \in Nat /\ x.tx \in Auftraege
    BY <2>1 DEF Posten
  <2>3. QED BY <2>1, <2>2 DEF Nummern, PostenNummern
<1>3. db' = [d EXCEPT !.konten = [a \in Konten |-> IF a \in G THEN Upsert(@[a], konten[a]) ELSE @[a]]]
  BY DEF FlushSchreibt, OhneZeilen
<1>4. \E frist \in BOOLEAN : /\ Schreibbar(G, frist)
                             /\ zaehler' = [zaehler EXCEPT !.frist = @ + IF frist THEN 1 ELSE 0]
  BY DEF FlushSchreibt
<1>5. laufend' = (laufend \ {b}) \cup IF G = b.offen THEN {} ELSE {[b EXCEPT !.offen = @ \ G]}
  BY DEF FlushSchreibt
<1>6. lauf = "laeuft" /\ UNCHANGED <<wal, konten, schlange, korb, schwebend, leert, lauf, kunde>>
  BY DEF FlushSchreibt
<1> HIDE DEF P, d
<1>7. /\ d \in DbTyp /\ d.konten = db.konten
      /\ d.ab = db.ab /\ d.markeDa = db.markeDa /\ d.marke = db.marke /\ d.boden = db.boden
      /\ d.bloecke = db.bloecke
      /\ d.zeilen = db.zeilen \cup NeueZeilen(P, db.id) /\ IsFiniteSet(d.zeilen)
      /\ d.id = db.id + Cardinality(P)
  BY <1>2, MitVermerkTyp DEF d
<1>8. k \in [Konten -> Konto]
  <2>1. \A a \in Konten : db.konten[a] \in Konto /\ konten[a] \in Konto
    BY DEF Typ, DbTyp
  <2>2. \A a \in Konten : Upsert(db.konten[a], konten[a]) \in Konto
    BY <2>1, UpsertTyp
  <2>3. QED BY <2>1, <2>2
<1>9. db' = [d EXCEPT !.konten = k]
  BY <1>3, <1>7
<1>10. /\ db' \in DbTyp /\ db'.konten = k
       /\ db'.ab = d.ab /\ db'.markeDa = d.markeDa /\ db'.marke = d.marke /\ db'.boden = d.boden
       /\ db'.bloecke = d.bloecke /\ db'.zeilen = d.zeilen /\ db'.id = d.id
  <2> HIDE DEF k
  <2>1. QED BY <1>7, <1>8, <1>9 DEF DbTyp
<1>11. /\ zaehler' \in ZaehlerTyp /\ zaehler'.kuerzungen = zaehler.kuerzungen
       /\ zaehler'.frist = 0 => zaehler.frist = 0 /\ \A a \in G : konten[a].wal <= wal.haltbar
  <2>1. PICK frist \in BOOLEAN : /\ Schreibbar(G, frist)
                                 /\ zaehler' = [zaehler EXCEPT !.frist = @ + IF frist THEN 1 ELSE 0]
    BY <1>4
  <2>2. zaehler \in ZaehlerTyp /\ zaehler.frist \in Nat
    BY DEF Typ, ZaehlerTyp
  <2>3. /\ zaehler' \in ZaehlerTyp /\ zaehler'.kuerzungen = zaehler.kuerzungen
        /\ zaehler'.frist = 0 => zaehler.frist = 0 /\ ~frist
    BY <2>1, <2>2 DEF ZaehlerTyp
  <2>4. \A a \in G : konten[a].wal \in Nat /\ wal.haltbar \in Nat
    BY <1>1 DEF Typ, Konto, WalTyp
  <2>5. ~frist => \A a \in G : konten[a].wal <= wal.haltbar
    BY <2>1, <2>4 DEF Schreibbar
  <2>6. QED BY <2>3, <2>5
<1>12. /\ laufend' \in SUBSET BuendelTyp
       /\ laufend' = (laufend \ {b}) \cup IF G = b.offen THEN {} ELSE {c}
  <2>1. [b EXCEPT !.offen = @ \ G] = c /\ c \in BuendelTyp
    <3>1. b.offen \ G \in SUBSET Konten
      BY <1>1
    <3>2. c \in BuendelTyp
      BY <1>1, <3>1 DEF BuendelTyp
    <3>3. [b EXCEPT !.offen = @ \ G] = c
      <4>1. b = [posten |-> b.posten, offen |-> b.offen]
        BY <1>1 DEF BuendelTyp
      <4>2. ASSUME NEW p, NEW o, NEW n PROVE [[posten |-> p, offen |-> o] EXCEPT !.offen = n] = [posten |-> p, offen |-> n]
        OBVIOUS
      <4>3. [[posten |-> b.posten, offen |-> b.offen] EXCEPT !.offen = b.offen \ G] = c
        BY <4>2
      <4>4. QED BY <4>1, <4>3
    <3>4. QED BY <3>2, <3>3
  <2>2. laufend \in SUBSET BuendelTyp
    BY DEF Typ
  <2> HIDE DEF c
  <2>3. QED BY <1>5, <2>1, <2>2
<1>13. QED BY <1>2, <1>6, <1>7, <1>10, <1>11, <1>12 DEF P

\* A failed batch is waiting again, all of it.
LEMMA FlushScheitertTut ==
  ASSUME Typ, NEW b \in laufend, FlushScheitert(b)
  PROVE  /\ schlange' \in Seq(Posten) /\ ToSet(schlange') = ToSet(schlange) \cup ToSet(b.posten)
         /\ laufend' = laufend \ {b}
         /\ zaehler' \in ZaehlerTyp /\ zaehler'.kuerzungen = zaehler.kuerzungen /\ zaehler'.frist = zaehler.frist
         /\ lauf = "laeuft"
         /\ UNCHANGED <<wal, konten, db, korb, schwebend, leert, lauf, kunde>>
<1>1. b.posten \in Seq(Posten) /\ schlange \in Seq(Posten)
  BY BuendelPosten DEF Typ
<1>2. schlange' = b.posten \o schlange
  BY DEF FlushScheitert, Zurueck
<1>3. schlange' \in Seq(Posten)
  BY <1>1, <1>2
<1>4. ToSet(schlange') = ToSet(schlange) \cup ToSet(b.posten)
  <2>1. \A i \in DOMAIN b.posten : i \in DOMAIN schlange' /\ schlange'[i] = b.posten[i]
    BY <1>1, <1>2
  <2>2. \A i \in DOMAIN schlange : Len(b.posten) + i \in DOMAIN schlange' /\ schlange'[Len(b.posten) + i] = schlange[i]
    BY <1>1, <1>2
  <2>3. \A i \in DOMAIN schlange' : schlange'[i] \in ToSet(schlange) \cup ToSet(b.posten)
    BY <1>1, <1>2 DEF ToSet
  <2>4. ToSet(schlange) \cup ToSet(b.posten) \subseteq ToSet(schlange')
    BY <2>1, <2>2 DEF ToSet
  <2>5. ToSet(schlange') \subseteq ToSet(schlange) \cup ToSet(b.posten)
    BY <2>3 DEF ToSet
  <2>6. QED BY <2>4, <2>5
<1>5. zaehler' \in ZaehlerTyp /\ zaehler'.kuerzungen = zaehler.kuerzungen /\ zaehler'.frist = zaehler.frist
  BY DEF FlushScheitert, Typ, ZaehlerTyp
<1>6. QED BY <1>3, <1>4, <1>5 DEF FlushScheitert

\* A serial order is past walVorSeriellLeeren.
LEMMA SeriellBeginntTut ==
  ASSUME Typ, NEW t \in Auftraege, SeriellBeginnt(t)
  PROVE  /\ leert' = leert \cup {t} /\ leert' \in SUBSET Seriell
         /\ kunde' \in KundeTyp /\ kunde'.gestellt = kunde.gestellt \cup {t}
         /\ kunde'.quittiert = kunde.quittiert /\ kunde'.ersetzt = kunde.ersetzt
         /\ t \notin kunde.gestellt /\ lauf = "laeuft"
         /\ UNCHANGED <<wal, konten, db, schlange, laufend, korb, schwebend, lauf, zaehler>>
<1>1. /\ kunde' \in KundeTyp /\ kunde'.gestellt = kunde.gestellt \cup {t}
      /\ kunde'.quittiert = kunde.quittiert /\ kunde'.ersetzt = kunde.ersetzt
  BY DEF SeriellBeginnt, Typ, KundeTyp
<1>2. leert' = leert \cup {t} /\ leert' \in SUBSET Seriell
  BY DEF SeriellBeginnt, Typ
<1>3. QED BY <1>1, <1>2 DEF SeriellBeginnt, Gestellt

\* A serial order: live and stored accounts and its row in one step.
LEMMA SeriellBuchtTut ==
  ASSUME Typ, NEW t \in leert, SeriellBucht(t)
  PROVE  /\ konten' = NachBuchung(konten, t, 0) /\ konten' \in [Konten -> Konto]
         /\ db' \in DbTyp /\ IsFiniteSet(db'.zeilen)
         /\ db'.konten = [a \in Konten |-> IF a \in Beide(t) THEN Gespeichert(db.konten[a], konten'[a]) ELSE db.konten[a]]
         /\ db'.ab = db.ab /\ db'.markeDa = db.markeDa /\ db'.marke = db.marke /\ db'.boden = db.boden
         /\ db'.bloecke = db.bloecke
         /\ db'.zeilen = db.zeilen \cup {[seq |-> wal.naechste, id |-> db.id + 1, tx |-> t]}
         /\ db'.id = db.id + 1
         /\ leert' = leert \ {t}
         /\ kunde' \in KundeTyp /\ kunde'.gestellt = kunde.gestellt /\ kunde'.ersetzt = kunde.ersetzt
         /\ kunde'.quittiert = kunde.quittiert \cup {t}
         /\ zaehler' \in ZaehlerTyp /\ zaehler'.kuerzungen = zaehler.kuerzungen
         /\ zaehler'.frist = 0 => zaehler.frist = 0 /\ \A a \in Beide(t) : konten[a].wal <= wal.haltbar
         /\ lauf = "laeuft" /\ t \in Auftraege
         /\ UNCHANGED <<wal, schlange, laufend, korb, schwebend, lauf>>
<1> DEFINE k == [a \in Konten |-> IF a \in Beide(t) THEN Gespeichert(db.konten[a], konten'[a]) ELSE db.konten[a]]
           r == [seq |-> wal.naechste, id |-> db.id + 1, tx |-> t]
           z == db.zeilen \cup {r}
<1>1. t \in Auftraege /\ Beide(t) \subseteq Konten
  BY RichtungTyp DEF Typ, Auftraege, Beide
<1>2. konten' = NachBuchung(konten, t, 0) /\ konten' \in [Konten -> Konto]
  <2>1. konten' = NachBuchung(konten, t, 0) /\ konten \in [Konten -> Konto]
    BY DEF SeriellBucht, Typ
  <2>2. QED BY <1>1, <2>1, BuchungTyp
<1>3. db \in DbTyp /\ db.konten \in [Konten -> Konto] /\ db.id \in Nat /\ db.zeilen \in SUBSET Zeilen
      /\ IsFiniteSet(db.zeilen)
  BY DEF Typ, DbTyp
<1>4. k \in [Konten -> Konto]
  <2>1. \A a \in Konten : Gespeichert(db.konten[a], konten'[a]) \in Konto
    BY <1>2, <1>3, GespeichertTyp
  <2>2. QED BY <1>3, <2>1
<1>5. z \in SUBSET Zeilen /\ IsFiniteSet(z)
  <2>1. r \in Zeilen
    BY <1>1, <1>3 DEF Typ, WalTyp, Zeilen
  <2> HIDE DEF r
  <2>2. QED BY <1>3, <2>1, FS_AddElement
<1>6. db' = [db EXCEPT !.konten = k, !.zeilen = z, !.id = @ + 1]
  BY DEF SeriellBucht
<1>7. /\ db' \in DbTyp /\ db'.konten = k /\ db'.zeilen = z /\ db'.id = db.id + 1
      /\ db'.ab = db.ab /\ db'.markeDa = db.markeDa /\ db'.marke = db.marke /\ db'.boden = db.boden
      /\ db'.bloecke = db.bloecke
  <2> HIDE DEF k, z
  <2>1. db.id + 1 \in Nat
    BY <1>3
  <2>2. QED BY <1>3, <1>4, <1>5, <1>6, <2>1 DEF DbTyp
<1>8. /\ kunde' \in KundeTyp /\ kunde'.gestellt = kunde.gestellt /\ kunde'.ersetzt = kunde.ersetzt
      /\ kunde'.quittiert = kunde.quittiert \cup {t}
  BY <1>1 DEF SeriellBucht, Typ, KundeTyp
<1>9. /\ zaehler' \in ZaehlerTyp /\ zaehler'.kuerzungen = zaehler.kuerzungen
      /\ zaehler'.frist = 0 => zaehler.frist = 0 /\ \A a \in Beide(t) : konten[a].wal <= wal.haltbar
  <2>1. PICK frist \in BOOLEAN : /\ Schreibbar(Beide(t), frist)
                                 /\ zaehler' = [zaehler EXCEPT !.frist = @ + IF frist THEN 1 ELSE 0]
    BY DEF SeriellBucht
  <2>2. zaehler \in ZaehlerTyp /\ zaehler.frist \in Nat
    BY DEF Typ, ZaehlerTyp
  <2>3. /\ zaehler' \in ZaehlerTyp /\ zaehler'.kuerzungen = zaehler.kuerzungen
        /\ zaehler'.frist = 0 => zaehler.frist = 0 /\ ~frist
    BY <2>1, <2>2 DEF ZaehlerTyp
  <2>4. \A a \in Beide(t) : konten[a].wal \in Nat /\ wal.haltbar \in Nat
    BY <1>1 DEF Typ, Konto, WalTyp
  <2>5. ~frist => \A a \in Beide(t) : konten[a].wal <= wal.haltbar
    BY <2>1, <2>4 DEF Schreibbar
  <2>6. QED BY <2>3, <2>5
<1>10. leert' = leert \ {t} /\ lauf = "laeuft" /\ UNCHANGED <<wal, schlange, laufend, korb, schwebend, lauf>>
  BY DEF SeriellBucht
<1>11. QED BY <1>1, <1>2, <1>5, <1>7, <1>8, <1>9, <1>10

\* What a block takes from the Korb.
LEMMA BereitTyp ==
  ASSUME Typ
  PROVE  /\ Bereit \subseteq korb.saetze /\ IsFiniteSet(Bereit) /\ \A e \in Bereit : e.seq \in Nat /\ e.tx \in Auftraege
         /\ Max({korb.bis} \cup Seqs(Bereit)) \in Nat
<1>1. Bereit \subseteq korb.saetze /\ IsFiniteSet(korb.saetze) /\ korb.saetze \subseteq Saetze /\ korb.bis \in Nat
  BY DEF Bereit, Typ, KorbTyp
<1>2. IsFiniteSet(Bereit) /\ \A e \in Bereit : e.seq \in Nat /\ e.tx \in Auftraege
  <2>1. \A e \in Bereit : e \in Saetze
    BY <1>1
  <2> HIDE DEF Bereit
  <2>2. QED BY <1>1, <2>1, FS_Subset DEF Saetze
<1>3. IsFiniteSet(Seqs(Bereit)) /\ Seqs(Bereit) \in SUBSET Nat
  BY <1>2, SeqsEndlich
<1>4. QED BY <1>1, <1>2, <1>3, MaxMit

\* A block takes rows and entries of the Korb, and nothing else changes hands.
LEMMA BlockTut ==
  ASSUME Typ, Nummern, Block
  PROVE  /\ db' \in DbTyp /\ IsFiniteSet(db'.zeilen) /\ db'.zeilen \subseteq db.zeilen
         /\ db'.konten = db.konten /\ db'.ab = db.ab /\ db'.markeDa = db.markeDa /\ db'.boden = db.boden
         /\ db'.id = db.id
         /\ ToSet(db'.bloecke) \subseteq ToSet(db.bloecke) \cup {e.tx : e \in korb.saetze} \cup {z.tx : z \in db.zeilen}
         /\ korb' \in KorbTyp /\ korb'.saetze \subseteq korb.saetze /\ IsFiniteSet(korb'.saetze)
         /\ lauf = "laeuft"
         /\ UNCHANGED <<wal, konten, schlange, laufend, schwebend, leert, lauf, kunde, zaehler>>
<1> DEFINE bis == Max({korb.bis} \cup Seqs(Bereit))
           E   == IF korb.an
                  THEN {Eintrag(e) : e \in Bereit} \cup {z \in db.zeilen : z.seq <= bis + 1}
                  ELSE db.zeilen
           txs == [i \in 1..Cardinality(E) |-> BlockFolge(E)[i].tx]
<1>1. /\ db' = [db EXCEPT !.bloecke = @ \o txs, !.zeilen = @ \ E,
                          !.marke = IF korb.an THEN bis ELSE @]
      /\ korb' = IF korb.an
                 THEN [korb EXCEPT !.bis = bis, !.ab = Max({@, bis + 1}), !.saetze = @ \ Bereit]
                 ELSE korb
  BY DEF Block
<1>2. Bereit \subseteq korb.saetze /\ IsFiniteSet(Bereit) /\ (\A e \in Bereit : e.seq \in Nat /\ e.tx \in Auftraege)
      /\ bis \in Nat
  BY BereitTyp
<1> HIDE DEF bis
<1>3. db \in DbTyp /\ db.zeilen \in SUBSET Zeilen /\ IsFiniteSet(db.zeilen) /\ db.bloecke \in Seq(Auftraege)
      /\ db.marke \in Nat
  BY DEF Typ, DbTyp
<1>4. korb \in KorbTyp /\ korb.ab \in Nat /\ korb.saetze \in SUBSET Saetze /\ IsFiniteSet(korb.saetze)
  BY DEF Typ, KorbTyp
<1> DEFINE f == [e \in Bereit |-> Eintrag(e)]
<1>5. {Eintrag(e) : e \in Bereit} \in SUBSET Zeilen /\ IsFiniteSet({Eintrag(e) : e \in Bereit})
  <2>1. IsFiniteSet({f[e] : e \in Bereit})
    BY <1>2, BildEndlich
  <2>2. {f[e] : e \in Bereit} = {Eintrag(e) : e \in Bereit}
    OBVIOUS
  <2>3. \A e \in Bereit : Eintrag(e) \in Zeilen
    BY <1>2 DEF Eintrag, Zeilen
  <2>4. QED BY <2>1, <2>2, <2>3
<1>6. E \in SUBSET Zeilen /\ IsFiniteSet(E)
  <2>1. IsFiniteSet({z \in db.zeilen : z.seq <= bis + 1})
    BY <1>3, FS_Subset
  <2>2. IsFiniteSet({Eintrag(e) : e \in Bereit} \cup {z \in db.zeilen : z.seq <= bis + 1})
    BY <1>5, <2>1, FS_Union
  <2>3. QED BY <1>3, <1>5, <2>2
<1>7. \A x \in E : (\E e \in Bereit : x = Eintrag(e)) \/ x \in db.zeilen
  OBVIOUS
<1> HIDE DEF E
<1>8. \A x, y \in E : x.seq = y.seq /\ x.id = y.id => x = y
  <2>1. \A x \in E : (\E e \in korb.saetze : x = Eintrag(e)) \/ x \in db.zeilen
    BY <1>2, <1>7
  <2>2. \A e, g \in korb.saetze : e.seq = g.seq => Eintrag(e) = Eintrag(g)
    BY DEF Nummern, KorbNummern
  <2>3. \A z \in db.zeilen : z.id # 0
    BY DEF Nummern, ZeilenNummern
  <2>4. \A e \in korb.saetze : Eintrag(e).id = 0 /\ Eintrag(e).seq = e.seq
    BY DEF Eintrag
  <2>5. \A y, z \in db.zeilen : y.id = z.id => y = z
    BY DEF Nummern, ZeilenNummern
  <2>6. QED BY <2>1, <2>2, <2>3, <2>4, <2>5
<1>9. Cardinality(E) \in Nat /\ \A i \in 1 .. Cardinality(E) : BlockFolge(E)[i] \in E
  BY <1>6, <1>8, BlockFolgeIst
<1>10. txs \in Seq(Auftraege) /\ \A i \in DOMAIN txs : \E x \in E : txs[i] = x.tx
  <2>1. \A x \in E : x.tx \in Auftraege
    BY <1>6 DEF Zeilen
  <2>2. QED BY <1>9, <2>1
<1> HIDE DEF txs
<1>11. db.bloecke \o txs \in Seq(Auftraege)
       /\ ToSet(db.bloecke \o txs) \subseteq ToSet(db.bloecke) \cup {e.tx : e \in korb.saetze} \cup {z.tx : z \in db.zeilen}
  <2> DEFINE q == db.bloecke \o txs
  <2>1. q \in Seq(Auftraege)
    BY <1>3, <1>10
  <2>2. ASSUME NEW i \in DOMAIN q
        PROVE  q[i] \in ToSet(db.bloecke) \cup {e.tx : e \in korb.saetze} \cup {z.tx : z \in db.zeilen}
    <3>1. (\E j \in DOMAIN db.bloecke : q[i] = db.bloecke[j]) \/ (\E j \in DOMAIN txs : q[i] = txs[j])
      BY <1>3, <1>10
    <3>2. CASE \E j \in DOMAIN db.bloecke : q[i] = db.bloecke[j]
      BY <3>2 DEF ToSet
    <3>3. CASE \E j \in DOMAIN txs : q[i] = txs[j]
      <4>1. PICK x \in E : q[i] = x.tx
        BY <1>10, <3>3
      <4>2. CASE x \in db.zeilen
        BY <4>1, <4>2
      <4>3. CASE \E e \in Bereit : x = Eintrag(e)
        BY <1>2, <4>1, <4>3 DEF Eintrag
      <4>4. QED BY <1>7, <4>2, <4>3
    <3>4. QED BY <3>1, <3>2, <3>3
  <2> HIDE DEF q
  <2>3. ToSet(q) \subseteq ToSet(db.bloecke) \cup {e.tx : e \in korb.saetze} \cup {z.tx : z \in db.zeilen}
    BY <2>2 DEF ToSet
  <2>4. QED BY <2>1, <2>3 DEF q
<1> DEFINE q == db.bloecke \o txs
           m == IF korb.an THEN bis ELSE db.marke
           z == db.zeilen \ E
<1>12. /\ db' \in DbTyp /\ db'.zeilen = z /\ db'.bloecke = q
       /\ db'.konten = db.konten /\ db'.ab = db.ab /\ db'.markeDa = db.markeDa /\ db'.boden = db.boden
       /\ db'.id = db.id
  <2>1. db' = [db EXCEPT !.bloecke = q, !.zeilen = z, !.marke = m]
    BY <1>1
  <2>2. m \in Nat /\ z \in SUBSET Zeilen /\ q \in Seq(Auftraege)
    BY <1>2, <1>3, <1>11
  <2> HIDE DEF q, m, z
  <2>3. QED BY <1>3, <2>1, <2>2 DEF DbTyp
<1>13. IsFiniteSet(z) /\ z \subseteq db.zeilen
  BY <1>3, FS_Subset
<1>14. korb' \in KorbTyp /\ korb'.saetze \subseteq korb.saetze
  <2> DEFINE b == Max({korb.ab, bis + 1})
             s == korb.saetze \ Bereit
  <2>1. b \in Nat
    BY <1>2, <1>4, GroesseresNat
  <2>2. s \in SUBSET Saetze /\ s \subseteq korb.saetze
    BY <1>4
  <2>3. korb' = IF korb.an THEN [korb EXCEPT !.bis = bis, !.ab = b, !.saetze = s] ELSE korb
    BY <1>1
  <2> HIDE DEF b, s
  <2>4. QED BY <1>2, <1>4, <2>1, <2>2, <2>3 DEF KorbTyp
<1>15. IsFiniteSet(korb'.saetze)
  BY <1>4, <1>14, FS_Subset
<1>16. QED BY <1>11, <1>12, <1>13, <1>14, <1>15 DEF Block

\* What a compaction may cut off: above the floor only what lies a distance below
\* the head and below every waiting item.
LEMMA KuerzenBisIst ==
  ASSUME Typ
  PROVE  /\ KuerzenBis \in Nat
         /\ \A n \in Nat : n < KuerzenBis /\ n >= db.boden =>
               n + Abstand < Kopf /\ \A p \in Offene : n < p.seq
<1> DEFINE rechnung == Max({0, Kopf - Len(schlange) - Abstand})
           unten    == Max({0, Min(Seqs(Offene)) - Abstand})
           mitOffen == IF Offene = {} THEN rechnung ELSE Min({rechnung, unten})
           mitBoden == Max({mitOffen, db.boden})
<1>1. Kopf \in Nat /\ Len(schlange) \in Nat /\ Abstand \in Nat /\ db.boden \in Nat /\ korb.bis + 1 \in Nat
  <2>1. Abstand \in Nat
    BY GrenzenTyp
  <2>2. schlange \in Seq(Posten) /\ db \in DbTyp /\ korb \in KorbTyp /\ Kopf \in Nat
    BY KopfTyp DEF Typ
  <2>3. db.boden \in Nat /\ korb.bis \in Nat
    BY <2>2 DEF DbTyp, KorbTyp
  <2>4. QED BY <2>1, <2>2, <2>3
<1>2. rechnung \in Nat /\ (rechnung = 0 \/ rechnung = Kopf - Len(schlange) - Abstand)
  <2>1. 0 \in Int /\ Kopf - Len(schlange) - Abstand \in Int
    BY <1>1
  <2>2. rechnung \in {0, Kopf - Len(schlange) - Abstand} /\ 0 <= rechnung
    BY <2>1, Groesseres
  <2>3. QED BY <2>1, <2>2
<1>3. Offene # {} => /\ unten \in Nat
                     /\ \A n \in Nat : n < unten => \A p \in Offene : n < p.seq
  <2>1. SUFFICES ASSUME Offene # {}
                 PROVE  /\ unten \in Nat
                        /\ \A n \in Nat : n < unten => \A p \in Offene : n < p.seq
    OBVIOUS
  <2> DEFINE m == Min(Seqs(Offene))
  <2>2. \A p \in Offene : p.seq \in Nat
    BY OffeneTyp DEF Posten
  <2>3. Seqs(Offene) \subseteq Nat /\ Seqs(Offene) # {} /\ \A p \in Offene : p.seq \in Seqs(Offene)
    BY <2>1, <2>2 DEF Seqs
  <2>4. m \in Nat /\ \A p \in Offene : m <= p.seq
    BY <2>3, MinMenge
  <2> HIDE DEF m
  <2>5. 0 \in Int /\ m - Abstand \in Int
    BY <1>1, <2>4
  <2>6. Max({0, m - Abstand}) \in {0, m - Abstand} /\ 0 <= Max({0, m - Abstand})
    BY <2>5, Groesseres
  <2>7. unten = Max({0, m - Abstand})
    BY DEF m
  <2> HIDE DEF unten
  <2>8. unten \in Nat /\ (unten = 0 \/ unten = m - Abstand)
    BY <1>1, <2>4, <2>6, <2>7
  <2>9. \A n \in Nat : n < unten => n < m
    BY <1>1, <2>4, <2>8
  <2>10. QED BY <2>2, <2>4, <2>8, <2>9
<1> HIDE DEF rechnung, unten
<1>4. /\ mitOffen \in Nat
      /\ \A n \in Nat : n < mitOffen => n + Abstand < Kopf /\ \A p \in Offene : n < p.seq
  <2>1. CASE Offene = {}
    BY <1>1, <1>2, <2>1
  <2>2. CASE Offene # {}
    <3>1. unten \in Nat
      BY <1>3, <2>2
    <3>2. Min({rechnung, unten}) \in {rechnung, unten} /\ Min({rechnung, unten}) <= rechnung
          /\ Min({rechnung, unten}) <= unten
      BY <1>2, <3>1, Kleineres
    <3>3. mitOffen \in Nat /\ mitOffen <= rechnung /\ mitOffen <= unten
      BY <1>2, <2>2, <3>1, <3>2
    <3> HIDE DEF mitOffen
    <3>4. \A n \in Nat : n < mitOffen => n < rechnung /\ n < unten
      BY <1>2, <3>1, <3>3
    <3>5. \A n \in Nat : n < rechnung => n + Abstand < Kopf
      BY <1>1, <1>2
    <3>6. QED BY <1>3, <2>2, <3>3, <3>4, <3>5
  <2>3. QED BY <2>1, <2>2
<1> HIDE DEF mitOffen
<1>5. mitBoden \in Nat /\ mitBoden \in {mitOffen, db.boden}
  BY <1>1, <1>4, GroesseresNat
<1>6. KuerzenBis = IF korb.an THEN Min({mitBoden, korb.bis + 1}) ELSE mitBoden
  BY DEF KuerzenBis, mitOffen, rechnung, unten
<1> HIDE DEF mitBoden
<1>7. KuerzenBis \in Nat /\ KuerzenBis <= mitBoden
  <2>1. Min({mitBoden, korb.bis + 1}) \in {mitBoden, korb.bis + 1} /\ Min({mitBoden, korb.bis + 1}) <= mitBoden
    BY <1>1, <1>5, Kleineres
  <2>2. QED BY <1>1, <1>5, <1>6, <2>1
<1>8. \A n \in Nat : n < KuerzenBis /\ n >= db.boden => n < mitOffen
  BY <1>1, <1>4, <1>5, <1>7
<1>9. QED BY <1>4, <1>7, <1>8

\* A compaction takes the records below the limit, if the file is large enough.
LEMMA KuerzenTut ==
  ASSUME Typ, NEW gross \in BOOLEAN, Kuerzen(gross)
  PROVE  /\ db' \in DbTyp /\ db'.konten = db.konten /\ db'.zeilen = db.zeilen /\ db'.id = db.id
         /\ db'.boden = db.boden /\ db'.bloecke = db.bloecke /\ db'.ab >= db.ab
         /\ wal' \in WalTyp /\ wal'.naechste = wal.naechste /\ wal'.haltbar = wal.haltbar
         /\ wal'.saetze = IF gross THEN {r \in wal.saetze : r.seq >= KuerzenBis} ELSE wal.saetze
         /\ wal'.hwm = (IF gross THEN Kopf ELSE wal.hwm) /\ IsFiniteSet(wal'.saetze)
         /\ zaehler' \in ZaehlerTyp /\ zaehler'.frist = zaehler.frist /\ zaehler'.kuerzungen # 0
         /\ lauf = "laeuft"
         /\ UNCHANGED <<konten, schlange, laufend, korb, schwebend, leert, lauf, kunde>>
<1> DEFINE x == Max({db.ab, KuerzenBis})
           v == {s \in db.vermerke : s >= KuerzenBis}
           z == {r \in wal.saetze : r.seq >= KuerzenBis}
<1>1. db \in DbTyp /\ db.ab \in Nat /\ db.vermerke \in SUBSET Nat
  BY DEF Typ, DbTyp
<1>2. x \in Nat /\ x >= db.ab /\ v \in SUBSET Nat
  BY <1>1, KuerzenBisIst, GroesseresNat
<1>3. db' = [db EXCEPT !.ab = x, !.vermerke = v]
  BY DEF Kuerzen
<1>4. /\ db' \in DbTyp /\ db'.konten = db.konten /\ db'.zeilen = db.zeilen /\ db'.id = db.id
      /\ db'.boden = db.boden /\ db'.bloecke = db.bloecke /\ db'.ab >= db.ab
  <2> HIDE DEF x, v
  <2>1. QED BY <1>1, <1>2, <1>3 DEF DbTyp
<1>5. wal \in WalTyp /\ z \in SUBSET Saetze /\ IsFiniteSet(z) /\ Kopf \in Nat /\ IsFiniteSet(wal.saetze)
  <2>1. wal \in WalTyp /\ wal.saetze \in SUBSET Saetze /\ IsFiniteSet(wal.saetze) /\ Kopf \in Nat
    BY KopfTyp DEF Typ, WalTyp
  <2>2. z \in SUBSET wal.saetze
    OBVIOUS
  <2> HIDE DEF z
  <2>3. QED BY <2>1, <2>2, FS_Subset
<1>6. wal' = IF gross THEN [wal EXCEPT !.saetze = z, !.hwm = Kopf] ELSE wal
  BY DEF Kuerzen
<1>7. /\ wal' \in WalTyp /\ wal'.naechste = wal.naechste /\ wal'.haltbar = wal.haltbar
      /\ wal'.saetze = (IF gross THEN z ELSE wal.saetze)
      /\ wal'.hwm = (IF gross THEN Kopf ELSE wal.hwm) /\ IsFiniteSet(wal'.saetze)
  <2> HIDE DEF z
  <2>1. QED BY <1>5, <1>6 DEF WalTyp
<1>8. zaehler' \in ZaehlerTyp /\ zaehler'.frist = zaehler.frist /\ zaehler'.kuerzungen # 0
  BY DEF Kuerzen, Typ, ZaehlerTyp
<1>9. QED BY <1>4, <1>7, <1>8 DEF Kuerzen

\* What memory alone held.
LEMMA FluechtigesWeg ==
  ASSUME Typ, AllesFluechtigeWeg
  PROVE  /\ schlange' = <<>> /\ laufend' = {} /\ schwebend' = {} /\ leert' = {} /\ lauf' = "aus"
         /\ korb' \in KorbTyp /\ korb'.saetze = {} /\ IsFiniteSet(korb'.saetze)
         /\ ToSet(schlange') = {}
<1>1. korb \in KorbTyp /\ {} \in SUBSET Nat /\ {} \in SUBSET Saetze /\ 0 \in Nat
  BY DEF Typ
<1>2. korb' = [korb EXCEPT !.ab = 0, !.bis = 0, !.fehlt = {}, !.saetze = {}]
  BY DEF AllesFluechtigeWeg
<1>3. korb' \in KorbTyp /\ korb'.saetze = {}
  BY <1>1, <1>2 DEF KorbTyp
<1>4. QED BY <1>3, FS_EmptySet DEF AllesFluechtigeWeg, ToSet

\* A crash: the accounts fall back to the stored ones, the file to some length.
LEMMA AbsturzTut ==
  ASSUME Typ, NEW bis, Absturz(bis)
  PROVE  /\ wal' \in WalTyp /\ wal'.saetze = {r \in wal.saetze : r.seq <= bis} /\ IsFiniteSet(wal'.saetze)
         /\ wal'.naechste = wal.naechste /\ wal'.haltbar = wal.haltbar /\ wal'.hwm = wal.hwm
         /\ bis \in wal.haltbar .. Kopf
         /\ konten' = db.konten /\ konten' \in [Konten -> Konto]
         /\ schlange' = <<>> /\ laufend' = {} /\ schwebend' = {} /\ leert' = {} /\ lauf' = "aus"
         /\ korb' \in KorbTyp /\ korb'.saetze = {} /\ IsFiniteSet(korb'.saetze) /\ ToSet(schlange') = {}
         /\ zaehler' \in ZaehlerTyp /\ zaehler'.frist = zaehler.frist /\ zaehler'.kuerzungen = zaehler.kuerzungen
         /\ lauf \in {"laeuft", "eingespielt"}
         /\ UNCHANGED <<db, kunde>>
<1> DEFINE z == {r \in wal.saetze : r.seq <= bis}
<1>1. wal \in WalTyp /\ z \in SUBSET Saetze /\ IsFiniteSet(z)
  <2>1. wal \in WalTyp /\ wal.saetze \in SUBSET Saetze /\ IsFiniteSet(wal.saetze)
    BY DEF Typ, WalTyp
  <2>2. z \in SUBSET wal.saetze
    OBVIOUS
  <2> HIDE DEF z
  <2>3. QED BY <2>1, <2>2, FS_Subset
<1>2. wal' = [wal EXCEPT !.saetze = z]
  BY DEF Absturz
<1>3. /\ wal' \in WalTyp /\ wal'.saetze = z /\ IsFiniteSet(wal'.saetze)
      /\ wal'.naechste = wal.naechste /\ wal'.haltbar = wal.haltbar /\ wal'.hwm = wal.hwm
  <2> HIDE DEF z
  <2>1. QED BY <1>1, <1>2 DEF WalTyp
<1>4. konten' = db.konten /\ konten' \in [Konten -> Konto]
  BY DEF Absturz, Typ, DbTyp
<1>5. zaehler' \in ZaehlerTyp /\ zaehler'.frist = zaehler.frist /\ zaehler'.kuerzungen = zaehler.kuerzungen
  BY DEF Absturz, Typ, ZaehlerTyp
<1>6. AllesFluechtigeWeg /\ bis \in wal.haltbar .. Kopf /\ lauf \in {"laeuft", "eingespielt"} /\ UNCHANGED <<db, kunde>>
  BY DEF Absturz
<1>7. QED BY <1>3, <1>4, <1>5, <1>6, FluechtigesWeg

\* Hoechste is the greatest number of a finite set, or 0.
LEMMA HoechsteIst ==
  ASSUME NEW S \in SUBSET Nat, IsFiniteSet(S)
  PROVE  Hoechste(S) \in Nat /\ Hoechste(S) \in {0} \cup S /\ \A x \in S : x <= Hoechste(S)
  BY MaxMit DEF Hoechste

\* The next number after a start lies above all that was found.
LEMMA PeekIst ==
  ASSUME Typ, NEW peek, peek = PeekNachStart
  PROVE  /\ peek \in Nat \ {0} /\ wal.hwm < peek /\ \A r \in wal.saetze : r.seq < peek
         /\ peek - 1 \in {0, wal.hwm} \cup Seqs(wal.saetze)
<1> DEFINE S == {wal.hwm} \cup Seqs(wal.saetze)
<1>1. wal.hwm \in Nat /\ IsFiniteSet(wal.saetze) /\ \A r \in wal.saetze : r.seq \in Nat
  BY DEF Typ, WalTyp, Saetze
<1>2. IsFiniteSet(Seqs(wal.saetze)) /\ Seqs(wal.saetze) \in SUBSET Nat
  BY <1>1, SeqsEndlich
<1>3. IsFiniteSet(S) /\ S \in SUBSET Nat
  BY <1>1, <1>2, FS_AddElement
<1>4. Hoechste(S) \in Nat /\ Hoechste(S) \in {0} \cup S /\ \A x \in S : x <= Hoechste(S)
  BY <1>3, HoechsteIst
<1>5. peek = Hoechste(S) + 1
  BY DEF PeekNachStart
<1>6. wal.hwm \in S /\ \A r \in wal.saetze : r.seq \in S
  BY DEF Seqs
<1> DEFINE h == Hoechste(S)
<1> HIDE DEF h
<1>7. h \in Nat /\ h \in {0, wal.hwm} \cup Seqs(wal.saetze) /\ \A x \in S : x <= h
  BY <1>4 DEF h
<1>8. peek = h + 1
  BY <1>5 DEF h
<1>9. peek \in Nat \ {0} /\ peek - 1 = h /\ \A x \in S : x < peek
  <2>1. \A x \in S : x \in Nat
    BY <1>3
  <2> HIDE DEF S
  <2>2. QED BY <1>7, <1>8, <2>1
<1>10. QED BY <1>6, <1>7, <1>9

\* Records of the replay.
LEMMA NachspielTyp ==
  ASSUME Typ
  PROVE  /\ Nachspielbar \subseteq wal.saetze /\ Nachspielbar \subseteq Saetze
         /\ \A a : Fehlende(a) \subseteq Nachspielbar /\ IsFiniteSet(Fehlende(a))
         /\ IsFiniteSet(Nachspielbar)
         /\ \A r \in Nachspielbar : r.seq \in Nat \ {0} /\ r.tx \in Auftraege /\ Beide(r.tx) \subseteq Konten
<1>1. wal.saetze \subseteq Saetze /\ IsFiniteSet(wal.saetze)
  BY DEF Typ, WalTyp
<1>2. Nachspielbar \subseteq wal.saetze /\ \A a : Fehlende(a) \subseteq Nachspielbar
  BY DEF Nachspielbar, Fehlende
<1>3. \A r \in Saetze : r.seq \in Nat \ {0} /\ r.tx \in Auftraege /\ Beide(r.tx) \subseteq Konten
  BY RichtungTyp DEF Saetze, Beide
<1>4. QED BY <1>1, <1>2, <1>3, FS_Subset

\* An account after the replay.
LEMMA NachgespieltTyp ==
  ASSUME Typ, Nummern, NEW a \in Konten
  PROVE  LET n == Nachgespielt(a)
         IN  /\ n \in Konto
             /\ \A t \in Auftraege : n.wirkt[t] = db.konten[a].wirkt[t] + Cardinality({r \in Fehlende(a) : r.tx = t})
             /\ n.wal \in {db.konten[a].wal} \cup Seqs(Fehlende(a)) /\ n.wal >= db.konten[a].wal
             /\ \A r \in Fehlende(a) : r.seq <= n.wal
             /\ n.nonce >= db.konten[a].nonce
             /\ \A r \in Nachspielbar : Von[r.tx] = a /\ Nonce[r.tx] > 0 => n.nonce > Nonce[r.tx]
<1> DEFINE F == Fehlende(a)
           X == {x \in Nachspielbar : Von[x.tx] = a /\ Nonce[x.tx] > 0}
           w == [t \in Auftraege |-> db.konten[a].wirkt[t] + Cardinality({r \in F : r.tx = t})]
           s == Max({db.konten[a].wal} \cup Seqs(F))
           f == [x \in X |-> Nonce[x.tx] + 1]
           N == {Nonce[r.tx] + 1 : r \in X}
           o == Max({db.konten[a].nonce} \cup N)
<1>1. db.konten[a].wirkt \in [Auftraege -> Nat] /\ db.konten[a].wal \in Nat /\ db.konten[a].nonce \in Nat
  BY DEF Typ, DbTyp, Konto
<1>2. /\ F \subseteq Nachspielbar /\ IsFiniteSet(F) /\ IsFiniteSet(Nachspielbar)
      /\ \A r \in Nachspielbar : r.seq \in Nat /\ r.tx \in Auftraege
  BY NachspielTyp
<1>3. w \in [Auftraege -> Nat]
  <2>1. ASSUME NEW t \in Auftraege PROVE Cardinality({r \in F : r.tx = t}) \in Nat
    <3>1. {r \in F : r.tx = t} \in SUBSET F
      OBVIOUS
    <3>2. IsFiniteSet({r \in F : r.tx = t})
      BY <1>2, <3>1, FS_Subset
    <3>3. QED BY <3>2, FS_CardinalityType
  <2>2. QED BY <1>1, <2>1
<1>4. IsFiniteSet(Seqs(F)) /\ Seqs(F) \in SUBSET Nat /\ \A r \in F : r.seq \in Seqs(F)
  <2>1. \A r \in F : r.seq \in Nat
    BY <1>2
  <2> HIDE DEF F
  <2>2. QED BY <1>2, <2>1, SeqsEndlich DEF Seqs
<1>5. s \in Nat /\ s \in {db.konten[a].wal} \cup Seqs(F) /\ s >= db.konten[a].wal /\ \A r \in F : r.seq <= s
  <2> HIDE DEF F
  <2>1. QED BY <1>1, <1>4, MaxMit
<1>6. IsFiniteSet(N) /\ N \in SUBSET Nat /\ \A r \in X : Nonce[r.tx] + 1 \in N
  <2>1. X \in SUBSET Nachspielbar
    OBVIOUS
  <2>2. IsFiniteSet(X)
    BY <1>2, <2>1, FS_Subset
  <2>3. \A r \in X : r.tx \in Auftraege /\ Nonce[r.tx] + 1 \in Nat
    BY <1>2, <2>1, NonceTyp
  <2> HIDE DEF X
  <2>4. IsFiniteSet({f[x] : x \in X})
    BY <2>2, BildEndlich
  <2>5. {f[x] : x \in X} = N
    OBVIOUS
  <2>6. QED BY <2>3, <2>4, <2>5
<1>7. o \in Nat /\ o >= db.konten[a].nonce /\ \A r \in X : o > Nonce[r.tx]
  <2> HIDE DEF N
  <2>1. o \in Nat /\ o >= db.konten[a].nonce /\ \A x \in N : x <= o
    BY <1>1, <1>6, MaxMit
  <2>2. \A r \in X : Nonce[r.tx] \in Nat
    BY <1>2, NonceTyp
  <2> HIDE DEF o, X
  <2>3. QED BY <1>6, <2>1, <2>2
<1>8. Nachgespielt(a) = [wirkt |-> w, wal |-> s, nonce |-> o]
  BY DEF Nachgespielt
<1>9. \A t \in Auftraege : w[t] = db.konten[a].wirkt[t] + Cardinality({r \in Fehlende(a) : r.tx = t})
  OBVIOUS
<1>10. \A r \in Nachspielbar : Von[r.tx] = a /\ Nonce[r.tx] > 0 => o > Nonce[r.tx]
  BY <1>7
<1>11. \A r \in Fehlende(a) : r.seq <= s
  BY <1>5
<1>12. s \in {db.konten[a].wal} \cup Seqs(Fehlende(a)) /\ s >= db.konten[a].wal
  BY <1>5
<1> HIDE DEF w, s, o
<1>13. Nachgespielt(a) \in Konto
  BY <1>3, <1>5, <1>7, <1>8 DEF Konto
<1>14. QED BY <1>7, <1>8, <1>9, <1>10, <1>11, <1>12, <1>13

\* The queue of the replay: one item for a record that an account lacks, of those that
\* owe a row none left out, and for every such account an item that is not younger.
LEMMA NachgespielteSchlangeIst ==
  ASSUME Typ, Nummern, NEW an \in BOOLEAN
  PROVE  LET q == NachgespielteSchlange(an)
         IN  /\ q \in Seq(Posten)
             /\ \A p \in ToSet(q) : \E r \in Nachspielbar :
                   p.seq = r.seq /\ p.tx = r.tx /\ p.ohne = OhneZeile(r, an) /\ NeuAngewandt(r)
             /\ \A a \in Konten : \A r \in Fehlende(a) :
                   \E p \in ToSet(q) : a \in Beide(p.tx) /\ p.seq <= r.seq
             /\ \A r \in Nachspielbar : NeuAngewandt(r) /\ ~OhneZeile(r, an) =>
                   \E p \in ToSet(q) : p.seq = r.seq /\ p.tx = r.tx /\ ~p.ohne
             /\ \A i, j \in DOMAIN q : q[i].seq = q[j].seq => i = j
<1> DEFINE T == {r \in Nachspielbar : NeuAngewandt(r)}
           n == Cardinality(T)
           R == Sortiert(T, NachSeq)
           Q == [i \in 1 .. n |-> [seq |-> R[i].seq, tx |-> R[i].tx, ohne |-> OhneZeile(R[i], an)]]
           I == {i \in DOMAIN Q : ~Gedeckt(SubSeq(Q, 1, i - 1), Q[i])}
           q == NachgespielteSchlange(an)
<1>1. /\ Nachspielbar \subseteq wal.saetze /\ IsFiniteSet(Nachspielbar)
      /\ \A r \in Nachspielbar : r.seq \in Nat \ {0} /\ r.tx \in Auftraege /\ Beide(r.tx) \subseteq Konten
      /\ \A a : Fehlende(a) \subseteq Nachspielbar
  BY NachspielTyp
<1>2. T \subseteq Nachspielbar /\ IsFiniteSet(T)
  <2>1. T \in SUBSET Nachspielbar
    OBVIOUS
  <2> HIDE DEF T
  <2>2. QED BY <1>1, <2>1, FS_Subset
<1>3. /\ \A a \in Konten : \A r \in Fehlende(a) : r \in T
      /\ \A r \in Nachspielbar : NeuAngewandt(r) => r \in T
      /\ \A r \in T : NeuAngewandt(r)
  BY <1>1 DEF NeuAngewandt, Fehlende
<1> HIDE DEF T
<1>4. \A x, y \in T : x.seq = y.seq => x = y
  BY <1>1, <1>2 DEF Nummern, SatzNummern
<1>5. /\ n \in Nat /\ R \in [1 .. n -> T]
      /\ \A x \in T : \E i \in 1 .. n : R[i] = x
      /\ \A i, j \in 1 .. n : i < j => R[i].seq < R[j].seq
  <2>1. \A x \in T : x.seq \in Nat
    BY <1>1, <1>2
  <2>2. QED BY <1>2, <1>4, <2>1, SortiertSaetze
<1>6. q = Ausgewaehlt(Q, I)
  <2>1. T = {r \in Nachspielbar : NeuAngewandt(r)}
    BY DEF T
  <2>2. DOMAIN R = 1 .. n
    BY <1>5
  <2>3. Q = [i \in DOMAIN R |-> [seq |-> R[i].seq, tx |-> R[i].tx, ohne |-> OhneZeile(R[i], an)]]
    BY <2>2
  <2> HIDE DEF Q, R
  <2>4. QED BY <2>1, <2>3 DEF NachgespielteSchlange, R
<1> HIDE DEF R, n
<1>7. \A r : OhneZeile(r, an) \in BOOLEAN
  BY DEF OhneZeile
<1> HIDE DEF q
<1>8. \A i \in 1 .. n : /\ Q[i] \in Posten /\ R[i] \in T
                        /\ Q[i].seq = R[i].seq /\ Q[i].tx = R[i].tx /\ Q[i].ohne = OhneZeile(R[i], an)
  <2> SUFFICES ASSUME NEW i \in 1 .. n
               PROVE  /\ Q[i] \in Posten /\ R[i] \in T
                      /\ Q[i].seq = R[i].seq /\ Q[i].tx = R[i].tx /\ Q[i].ohne = OhneZeile(R[i], an)
    OBVIOUS
  <2>1. R[i] \in T /\ R[i].seq \in Nat \ {0} /\ R[i].tx \in Auftraege /\ OhneZeile(R[i], an) \in BOOLEAN
    BY <1>1, <1>2, <1>5, <1>7
  <2>2. Q[i] = [seq |-> R[i].seq, tx |-> R[i].tx, ohne |-> OhneZeile(R[i], an)]
    OBVIOUS
  <2> HIDE DEF Q
  <2>3. QED BY <2>1, <2>2 DEF Posten
<1>9. Q \in Seq(Posten) /\ DOMAIN Q = 1 .. n /\ Len(Q) = n
  BY <1>5, <1>8
<1> HIDE DEF Q
<1>10. I \in SUBSET DOMAIN Q
  OBVIOUS
<1>11. \A i \in 1 .. n : i \notin I => Gedeckt(SubSeq(Q, 1, i - 1), Q[i])
  BY <1>9
<1> HIDE DEF I
<1>12. q \in Seq(Posten) /\ ToSet(q) = {Q[i] : i \in I}
  BY <1>6, <1>9, <1>10, AusgewaehltIst
<1>13. ASSUME NEW p \in ToSet(q)
       PROVE  \E r \in Nachspielbar :
                 p.seq = r.seq /\ p.tx = r.tx /\ p.ohne = OhneZeile(r, an) /\ NeuAngewandt(r)
  <2>1. PICK i \in 1 .. n : p = Q[i]
    BY <1>9, <1>10, <1>12
  <2>2. /\ R[i] \in Nachspielbar /\ NeuAngewandt(R[i])
        /\ Q[i].seq = R[i].seq /\ Q[i].tx = R[i].tx /\ Q[i].ohne = OhneZeile(R[i], an)
    BY <1>2, <1>3, <1>8
  <2>3. QED BY <2>1, <2>2
<1>14. ASSUME NEW a \in Konten, NEW r \in Fehlende(a)
       PROVE  \E p \in ToSet(q) : a \in Beide(p.tx) /\ p.seq <= r.seq
  <2>1. PICK j \in 1 .. n : R[j] = r
    BY <1>3, <1>5
  <2> DEFINE J == {i \in 1 .. n : a \in Beide(Q[i].tx)}
             m == Min(J)
  <2>2. j \in J
    BY <1>8, <2>1 DEF Fehlende
  <2>3. m \in J /\ \A i \in J : m <= i
    <3>1. J \subseteq Nat /\ J # {}
      BY <2>2
    <3>2. QED BY <3>1, MinMenge
  <2>4. m \in 1 .. n /\ a \in Beide(Q[m].tx) /\ m <= j
    BY <2>2, <2>3
  <2>5. \A i \in 1 .. n : i < m => a \notin Beide(Q[i].tx)
    BY <2>3
  <2> HIDE DEF J, m
  <2>6. m \in I
    <3> SUFFICES ASSUME Gedeckt(SubSeq(Q, 1, m - 1), Q[m]) PROVE FALSE
      BY <1>11, <2>4
    <3>1. a \in KontenVon(ToSet(SubSeq(Q, 1, m - 1)))
      BY <2>4 DEF Gedeckt
    <3>2. PICK p \in ToSet(SubSeq(Q, 1, m - 1)) : a \in Beide(p.tx)
      BY <3>1 DEF KontenVon
    <3>3. \E i \in 1 .. n : i < m /\ p = Q[i]
      <4>1. m - 1 \in 0 .. Len(Q)
        BY <1>5, <1>9, <2>4
      <4>2. DOMAIN SubSeq(Q, 1, m - 1) = 1 .. (m - 1) /\ \A i \in 1 .. (m - 1) : SubSeq(Q, 1, m - 1)[i] = Q[i]
        BY <1>9, <4>1
      <4>3. QED BY <1>5, <2>4, <4>2 DEF ToSet
    <3>4. QED BY <2>5, <3>2, <3>3
  <2>7. Q[m] \in ToSet(q)
    BY <1>12, <2>6
  <2>8. Q[m].seq <= r.seq
    <3>1. Q[m].seq = R[m].seq /\ R[m].seq \in Nat /\ R[j].seq \in Nat
      BY <1>1, <1>2, <1>8, <2>4
    <3>2. CASE m = j
      BY <2>1, <3>1, <3>2
    <3>3. CASE m < j
      BY <1>5, <2>1, <2>4, <3>1, <3>3
    <3>4. QED BY <1>5, <2>4, <3>2, <3>3
  <2>9. QED BY <2>4, <2>7, <2>8
<1>15. ASSUME NEW r \in Nachspielbar, NeuAngewandt(r), ~OhneZeile(r, an)
       PROVE  \E p \in ToSet(q) : p.seq = r.seq /\ p.tx = r.tx /\ ~p.ohne
  <2>1. PICK i \in 1 .. n : R[i] = r
    BY <1>3, <1>5, <1>15
  <2>2. Q[i].seq = r.seq /\ Q[i].tx = r.tx /\ ~Q[i].ohne
    BY <1>8, <1>15, <2>1
  <2>3. i \in I
    BY <1>11, <2>1, <2>2 DEF Gedeckt
  <2>4. Q[i] \in ToSet(q)
    BY <1>12, <2>3
  <2>5. QED BY <2>2, <2>4
<1>16. \A i, j \in DOMAIN q : q[i].seq = q[j].seq => i = j
  <2>0. PICK m \in Nat : \E p : Waehlt(m, p, Q, I)
    BY <1>9, <1>10, AusgewaehltReihe
  <2>1. PICK p : Waehlt(m, p, Q, I)
    BY <2>0
  <2>2. /\ p \in [1 .. m -> I] /\ DOMAIN q = 1 .. m /\ \A i \in 1 .. m : q[i] = Q[p[i]]
        /\ \A i, j \in 1 .. m : i < j => p[i] < p[j]
    BY <1>6, <2>1 DEF Waehlt
  <2>3. \A i, j \in 1 .. n : i < j => Q[i].seq < Q[j].seq
    BY <1>5, <1>8
  <2>4. \A i \in 1 .. n : Q[i].seq \in Nat
    BY <1>8 DEF Posten
  <2>5. \A i \in 1 .. m : p[i] \in 1 .. n
    BY <1>9, <1>10, <2>2
  <2>6. \A i, j \in 1 .. m : i < j => q[i].seq < q[j].seq /\ q[i].seq \in Nat /\ q[j].seq \in Nat
    BY <2>2, <2>3, <2>4, <2>5
  <2>7. QED BY <2>2, <2>6
<1>17. QED BY <1>12, <1>13, <1>14, <1>15, <1>16 DEF q

\* The rows that the replay catches up with.
Nachzuholen(an) ==
  LET S  == {r \in Nachspielbar : ZeileFehlt(r, an) /\ ~NeuAngewandt(r)}
      da == {r \in S : \E z \in db.zeilen : z.seq = r.seq /\ z.tx = r.tx}
  IN  S \ da

\* The rows written at once during the replay.
LEMMA NachholenTyp ==
  ASSUME Typ, Nummern, NEW an \in BOOLEAN
  PROVE  LET d == Nachholen(an)
             S == Nachzuholen(an)
         IN  /\ S \subseteq Nachspielbar /\ IsFiniteSet(S)
             /\ \A x \in S : x.seq \in Nat /\ x.tx \in Auftraege
             /\ \A x, y \in S : x.seq = y.seq => x = y
             /\ d \in DbTyp /\ d.konten = db.konten
             /\ d.ab = db.ab /\ d.markeDa = db.markeDa /\ d.marke = db.marke /\ d.boden = db.boden
             /\ d.bloecke = db.bloecke
             /\ d.zeilen = db.zeilen \cup NeueZeilen(S, db.id) /\ IsFiniteSet(d.zeilen)
             /\ d.id = db.id + Cardinality(S)
<1> DEFINE S == {r \in Nachspielbar : ZeileFehlt(r, an) /\ ~NeuAngewandt(r)}
           da == {r \in S : \E z \in db.zeilen : z.seq = r.seq /\ z.tx = r.tx}
           T == S \ da
           m == MitVermerk(db, T)
           d == Nachholen(an)
<1>1. T \in SUBSET Nachspielbar /\ da \subseteq Nachspielbar
  OBVIOUS
<1>2. d = [m EXCEPT !.vermerke = @ \cup Seqs(da)]
  BY DEF Nachholen
<1>3. Nachzuholen(an) = T
  BY DEF Nachzuholen
<1> HIDE DEF T, da, d
<1>4. /\ Nachspielbar \subseteq wal.saetze /\ IsFiniteSet(Nachspielbar)
      /\ \A r \in Nachspielbar : r.seq \in Nat /\ r.tx \in Auftraege
  BY NachspielTyp
<1>5. /\ IsFiniteSet(T) /\ \A x \in T : x.seq \in Nat /\ x.tx \in Auftraege
      /\ \A x, y \in T : x.seq = y.seq => x = y
  BY <1>1, <1>4, FS_Subset DEF Nummern, SatzNummern
<1> HIDE DEF m
<1>6. /\ m \in DbTyp /\ m.konten = db.konten
      /\ m.ab = db.ab /\ m.markeDa = db.markeDa /\ m.marke = db.marke /\ m.boden = db.boden
      /\ m.bloecke = db.bloecke
      /\ m.zeilen = db.zeilen \cup NeueZeilen(T, db.id) /\ IsFiniteSet(m.zeilen)
      /\ m.id = db.id + Cardinality(T)
  BY <1>5, MitVermerkTyp DEF m
<1>7. /\ d \in DbTyp /\ d.konten = m.konten /\ d.ab = m.ab /\ d.markeDa = m.markeDa /\ d.marke = m.marke
      /\ d.boden = m.boden /\ d.bloecke = m.bloecke /\ d.zeilen = m.zeilen /\ d.id = m.id
  <2> DEFINE v == m.vermerke \cup Seqs(da)
  <2>1. v \in SUBSET Nat
    BY <1>1, <1>4, <1>6 DEF Seqs, DbTyp
  <2>2. d = [m EXCEPT !.vermerke = v]
    BY <1>2
  <2> HIDE DEF v
  <2>3. QED BY <1>6, <2>1, <2>2 DEF DbTyp
<1>8. QED BY <1>1, <1>3, <1>5, <1>6, <1>7 DEF d

\* A refused start changes nothing else.
LEMMA VerweigertTut ==
  ASSUME Typ, NEW an \in BOOLEAN, Einspielen(an), ~StimmigMitDatei(PeekNachStart)
  PROVE  lauf' = "verweigert" /\ lauf = "aus"
         /\ UNCHANGED <<wal, konten, db, schlange, laufend, korb, schwebend, leert, kunde, zaehler>>
  BY DEF Einspielen

\* The replay.
LEMMA EinspielenTut ==
  ASSUME Typ, Nummern, NEW an \in BOOLEAN, Einspielen(an), StimmigMitDatei(PeekNachStart)
  PROVE  LET peek == PeekNachStart
         IN  /\ lauf = "aus" /\ lauf' = "eingespielt"
             /\ wal' \in WalTyp /\ wal'.saetze = wal.saetze /\ wal'.hwm = wal.hwm
             /\ wal'.naechste = peek /\ wal'.haltbar = peek - 1 /\ Kopf' = peek - 1
             /\ konten' = [a \in Konten |-> Nachgespielt(a)]
             /\ schlange' = NachgespielteSchlange(an)
             /\ db' = Nachholen(an)
             /\ korb' \in KorbTyp /\ korb'.saetze \subseteq wal.saetze /\ IsFiniteSet(korb'.saetze)
             /\ UNCHANGED <<laufend, schwebend, leert, kunde, zaehler>>
<1> DEFINE peek == PeekNachStart
           bis  == Max({db.marke, db.boden})
           S == IF an /\ db.markeDa THEN {r \in Nachspielbar : r.seq > bis} ELSE {}
<1>1. /\ lauf = "aus" /\ lauf' = "eingespielt"
      /\ wal' = [wal EXCEPT !.naechste = peek, !.haltbar = peek - 1]
      /\ konten' = [a \in Konten |-> Nachgespielt(a)]
      /\ schlange' = NachgespielteSchlange(an)
      /\ db' = Nachholen(an)
      /\ korb' = [an |-> an, ab |-> bis + 1, bis |-> bis, fehlt |-> {}, saetze |-> S]
      /\ UNCHANGED <<laufend, schwebend, leert, kunde, zaehler>>
  BY DEF Einspielen
<1>2. peek \in Nat \ {0}
  BY PeekIst
<1>3. peek - 1 \in Nat
  BY <1>2
<1>4. bis \in Nat
  BY GroesseresNat DEF Typ, DbTyp
<1>5. S \in SUBSET Nachspielbar
  OBVIOUS
<1> HIDE DEF S, bis, peek
<1>6. wal' \in WalTyp /\ wal'.saetze = wal.saetze /\ wal'.hwm = wal.hwm
      /\ wal'.naechste = peek /\ wal'.haltbar = peek - 1
  <2>1. wal \in WalTyp
    BY DEF Typ
  <2>2. QED BY <1>1, <1>2, <1>3, <2>1 DEF WalTyp
<1>7. S \in SUBSET Saetze /\ S \subseteq wal.saetze /\ IsFiniteSet(S)
  <2>1. Nachspielbar \subseteq wal.saetze /\ Nachspielbar \subseteq Saetze /\ IsFiniteSet(Nachspielbar)
    BY NachspielTyp
  <2>2. QED BY <1>5, <2>1, FS_Subset
<1>8. korb' \in KorbTyp /\ korb'.saetze = S
  <2>1. {} \in SUBSET Nat /\ bis + 1 \in Nat
    BY <1>4
  <2>2. QED BY <1>1, <1>4, <1>7, <2>1 DEF KorbTyp
<1>9. QED BY <1>1, <1>6, <1>7, <1>8 DEF Kopf, peek

\* The end of the start.
LEMMA AnschlussTut ==
  ASSUME Typ, Anschluss
  PROVE  /\ lauf = "eingespielt" /\ lauf' \in {"laeuft", "verweigert"}
         /\ db' \in DbTyp /\ db'.konten = db.konten /\ db'.zeilen = db.zeilen /\ db'.id = db.id
         /\ db'.boden = db.boden /\ db'.bloecke = db.bloecke /\ db'.ab >= db.ab
         /\ korb' \in KorbTyp /\ korb'.saetze = korb.saetze
         /\ UNCHANGED <<wal, konten, schlange, laufend, schwebend, leert, kunde, zaehler>>
<1>1. db \in DbTyp /\ db.ab \in Nat /\ db.marke \in Nat /\ db.vermerke \in SUBSET Nat
  BY DEF Typ, DbTyp
<1>2. korb \in KorbTyp /\ korb.bis \in Nat /\ Kopf \in Nat
  BY KopfTyp DEF Typ, KorbTyp
<1>3. CASE Uebergang(korb.an) /\ db' = [db EXCEPT !.markeDa = FALSE, !.marke = 0, !.ab = AbNachUebergang,
                                        !.vermerke = {s \in @ : s > db.marke}] /\ lauf' = "laeuft" /\ UNCHANGED korb
  <2> DEFINE x == AbNachUebergang
             v == {s \in db.vermerke : s > db.marke}
  <2>1. x \in Nat /\ x >= db.ab
    BY <1>1, GroesseresNat DEF AbNachUebergang
  <2>2. v \in SUBSET Nat
    BY <1>1
  <2>3. db' = [db EXCEPT !.markeDa = FALSE, !.marke = 0, !.ab = x, !.vermerke = v]
    BY <1>3
  <2> HIDE DEF x, v
  <2>4. /\ db' \in DbTyp /\ db'.konten = db.konten /\ db'.zeilen = db.zeilen /\ db'.id = db.id
        /\ db'.boden = db.boden /\ db'.bloecke = db.bloecke /\ db'.ab >= db.ab
    BY <1>1, <2>1, <2>2, <2>3 DEF DbTyp
  <2>5. QED BY <1>2, <1>3, <2>4 DEF Anschluss
<1>4. CASE ~korb.an /\ ~db.markeDa /\ lauf' = "laeuft" /\ UNCHANGED <<db, korb>>
  <2>1. db.ab >= db.ab
    BY <1>1
  <2>2. QED BY <1>1, <1>2, <1>4, <2>1 DEF Anschluss
<1>5. CASE /\ korb.an /\ ~db.markeDa
           /\ db' = [db EXCEPT !.markeDa = TRUE, !.marke = Kopf]
           /\ korb' = [korb EXCEPT !.ab = Kopf + 1, !.bis = Kopf]
           /\ lauf' = "laeuft"
  <2>1. /\ db' \in DbTyp /\ db'.konten = db.konten /\ db'.zeilen = db.zeilen /\ db'.id = db.id
        /\ db'.boden = db.boden /\ db'.bloecke = db.bloecke /\ db'.ab >= db.ab
    <3>1. TRUE \in BOOLEAN /\ db.ab >= db.ab
      BY <1>1
    <3>2. db' = [db EXCEPT !.markeDa = TRUE, !.marke = Kopf]
      BY <1>5
    <3>3. /\ db' \in DbTyp /\ db'.konten = db.konten /\ db'.zeilen = db.zeilen /\ db'.id = db.id
          /\ db'.boden = db.boden /\ db'.bloecke = db.bloecke /\ db'.ab = db.ab
      BY <1>1, <1>2, <3>1, <3>2 DEF DbTyp
    <3>4. QED BY <3>1, <3>3
  <2>2. korb' \in KorbTyp /\ korb'.saetze = korb.saetze
    <3>1. Kopf + 1 \in Nat
      BY <1>2
    <3>2. QED BY <1>2, <1>5, <3>1 DEF KorbTyp
  <2>3. QED BY <1>5, <2>1, <2>2 DEF Anschluss
<1>6. CASE /\ korb.an /\ db.markeDa
           /\ LET ende == korb.bis + Cardinality(korb.saetze)
              IN  IF Seqs(korb.saetze) = (korb.bis + 1)..ende
                  THEN lauf' = "laeuft" /\ korb' = [korb EXCEPT !.fehlt = (ende + 1)..Kopf]
                  ELSE lauf' = "verweigert" /\ UNCHANGED korb
           /\ UNCHANGED db
  <2> DEFINE ende == korb.bis + Cardinality(korb.saetze)
             f == (ende + 1) .. Kopf
  <2>1. Cardinality(korb.saetze) \in Nat
    BY FS_CardinalityType DEF Typ
  <2>2. f \in SUBSET Nat
    BY <1>2, <2>1
  <2>3. lauf' \in {"laeuft", "verweigert"} /\ (korb' = [korb EXCEPT !.fehlt = f] \/ korb' = korb)
    BY <1>6
  <2> HIDE DEF f
  <2>4. korb' \in KorbTyp /\ korb'.saetze = korb.saetze
    BY <1>2, <2>2, <2>3 DEF KorbTyp
  <2>5. db.ab >= db.ab
    BY <1>1
  <2>6. QED BY <1>1, <1>6, <2>3, <2>4, <2>5 DEF Anschluss
<1>7. QED BY <1>3, <1>4, <1>5, <1>6 DEF Anschluss

\* The accounts of the chain.
LEMMA AusBloeckenTyp ==
  ASSUME Typ, NEW a \in Konten
  PROVE  LET n == AusBloecken(a)
         IN  /\ n \in Konto /\ n.wal = 0
             /\ \A t \in Auftraege : n.wirkt[t] = IF t \in ToSet(db.bloecke) /\ a \in Beide(t) THEN 1 ELSE 0
             /\ \A t \in ToSet(db.bloecke) : Von[t] = a /\ Nonce[t] > 0 => n.nonce > Nonce[t]
<1> DEFINE q == db.bloecke
           drin == {t \in ToSet(db.bloecke) : a \in Beide(t)}
           U == {u \in drin : Von[u] = a /\ Nonce[u] > 0}
           N == {Nonce[t] + 1 : t \in U}
           f == [i \in DOMAIN q |-> q[i]]
           g == [t \in U |-> Nonce[t] + 1]
           w == [t \in Auftraege |-> IF t \in drin THEN 1 ELSE 0]
<1>1. q \in Seq(Auftraege)
  BY DEF Typ, DbTyp
<1>2. IsFiniteSet(ToSet(q)) /\ ToSet(q) \subseteq Auftraege
  <2>1. Len(q) \in Nat /\ DOMAIN q = 1 .. Len(q) /\ \A i \in DOMAIN q : q[i] \in Auftraege
    BY <1>1
  <2>2. IsFiniteSet(DOMAIN q)
    BY <2>1, FS_Interval
  <2> HIDE DEF q
  <2>3. IsFiniteSet({f[i] : i \in DOMAIN q})
    BY <2>2, BildEndlich
  <2>4. {f[i] : i \in DOMAIN q} = ToSet(q)
    BY DEF ToSet
  <2>5. QED BY <2>1, <2>3, <2>4 DEF ToSet
<1>3. U \in SUBSET ToSet(q)
  OBVIOUS
<1>4. \A t \in ToSet(q) : Von[t] = a /\ Nonce[t] > 0 => t \in U
  BY DEF Beide
<1> HIDE DEF U
<1>5. IsFiniteSet(N) /\ N \in SUBSET Nat /\ \A t \in U : Nonce[t] + 1 \in N /\ Nonce[t] \in Nat
  <2>1. IsFiniteSet(U)
    BY <1>2, <1>3, FS_Subset
  <2>2. \A t \in U : Nonce[t] \in Nat /\ Nonce[t] + 1 \in Nat
    BY <1>2, <1>3, NonceTyp
  <2>3. IsFiniteSet({g[t] : t \in U})
    BY <2>1, BildEndlich
  <2>4. {g[t] : t \in U} = N
    OBVIOUS
  <2>5. QED BY <2>2, <2>3, <2>4
<1> DEFINE h == Hoechste(N)
<1>6. h \in Nat /\ \A t \in U : h > Nonce[t]
  <2> HIDE DEF N
  <2>1. h \in Nat /\ \A x \in N : x <= h
    BY <1>5, HoechsteIst
  <2> HIDE DEF h
  <2>2. QED BY <1>5, <2>1
<1>7. AusBloecken(a) = [wirkt |-> w, wal |-> 0, nonce |-> h]
  BY DEF AusBloecken, U
<1>8. w \in [Auftraege -> Nat] /\ \A t \in Auftraege : w[t] = IF t \in ToSet(q) /\ a \in Beide(t) THEN 1 ELSE 0
  OBVIOUS
<1> HIDE DEF w, h
<1>9. AusBloecken(a) \in Konto
  BY <1>6, <1>7, <1>8 DEF Konto
<1>10. QED BY <1>4, <1>6, <1>7, <1>8, <1>9

\* The replacement of the state.
LEMMA ErsatzTut ==
  ASSUME Typ, NEW u \in BOOLEAN, Ersatz(u)
  PROVE  /\ konten' = [a \in Konten |-> AusBloecken(a)] /\ konten' \in [Konten -> Konto]
         /\ db' \in DbTyp /\ db'.konten = konten' /\ db'.zeilen = db.zeilen /\ db'.id = db.id
         /\ db'.bloecke = db.bloecke
         /\ ~u => db'.boden = Kopf /\ db'.ab = Kopf + 1
         /\ kunde' \in KundeTyp /\ kunde'.gestellt = kunde.gestellt /\ kunde'.quittiert = kunde.quittiert
         /\ kunde'.ersetzt = kunde.ersetzt \cup
                {t \in Auftraege \ ToSet(db.bloecke) : konten[Von[t]].wirkt[t] > 0}
         /\ zaehler' \in ZaehlerTyp /\ zaehler'.frist = zaehler.frist /\ zaehler'.kuerzungen = zaehler.kuerzungen
         /\ u => ErsatzUnterbrochen /\ AllesFluechtigeWeg
         /\ ~u => UNCHANGED <<schlange, laufend, schwebend, leert, korb, lauf>>
         /\ lauf = "laeuft" /\ schwebend = {}
         /\ UNCHANGED wal
<1> DEFINE neu == [a \in Konten |-> AusBloecken(a)]
<1>1. neu \in [Konten -> Konto]
  BY AusBloeckenTyp
<1>2. konten' = neu /\ db' = IF u THEN [db EXCEPT !.konten = neu] ELSE MitBoden([db EXCEPT !.konten = neu])
  BY DEF Ersatz
<1>3. db \in DbTyp /\ Kopf \in Nat
  BY KopfTyp DEF Typ
<1>4. /\ db' \in DbTyp /\ db'.konten = konten' /\ db'.zeilen = db.zeilen /\ db'.id = db.id
      /\ db'.bloecke = db.bloecke
      /\ ~u => db'.boden = Kopf /\ db'.ab = Kopf + 1
  <2> DEFINE d == [db EXCEPT !.konten = neu]
  <2> HIDE DEF neu
  <2>1. d \in DbTyp /\ d.konten = neu /\ d.zeilen = db.zeilen /\ d.id = db.id /\ d.bloecke = db.bloecke
    BY <1>1, <1>3 DEF DbTyp
  <2>2. db' = IF u THEN d ELSE [d EXCEPT !.boden = Kopf, !.vermerke = {}, !.ab = Kopf + 1]
    BY <1>2 DEF MitBoden
  <2> HIDE DEF d
  <2>3. {} \in SUBSET Nat /\ Kopf + 1 \in Nat
    BY <1>3
  <2>4. QED BY <1>2, <1>3, <2>1, <2>2, <2>3 DEF DbTyp
<1>5. /\ kunde' \in KundeTyp /\ kunde'.gestellt = kunde.gestellt /\ kunde'.quittiert = kunde.quittiert
      /\ kunde'.ersetzt = kunde.ersetzt \cup
                {t \in Auftraege \ ToSet(db.bloecke) : konten[Von[t]].wirkt[t] > 0}
  <2> DEFINE E == {t \in Auftraege \ ToSet(db.bloecke) : konten[Von[t]].wirkt[t] > 0}
  <2>1. kunde' = [kunde EXCEPT !.ersetzt = @ \cup E] /\ E \in SUBSET Auftraege
    BY DEF Ersatz
  <2> HIDE DEF E
  <2>2. kunde \in KundeTyp
    BY DEF Typ
  <2>3. /\ kunde' \in KundeTyp /\ kunde'.gestellt = kunde.gestellt /\ kunde'.quittiert = kunde.quittiert
        /\ kunde'.ersetzt = kunde.ersetzt \cup E
    BY <2>1, <2>2 DEF KundeTyp
  <2>4. QED BY <2>3 DEF E
<1>6. zaehler' \in ZaehlerTyp /\ zaehler'.frist = zaehler.frist /\ zaehler'.kuerzungen = zaehler.kuerzungen
  BY DEF Ersatz, Typ, ZaehlerTyp
<1>7. /\ u => ErsatzUnterbrochen /\ AllesFluechtigeWeg
      /\ ~u => UNCHANGED <<schlange, laufend, schwebend, leert, korb, lauf>>
      /\ lauf = "laeuft" /\ schwebend = {} /\ UNCHANGED wal
  BY DEF Ersatz
<1>8. QED BY <1>1, <1>2, <1>4, <1>5, <1>6, <1>7

-----------------------------------------------------------------------------
(* The waiting items after a step.                                         *)
\* Enqueuing adds at most the one item.
LEMMA OffeneEinreihen ==
  ASSUME Typ, NEW e \in schwebend, Einreihen(e)
  PROVE  Offene' \subseteq Offene \cup {[seq |-> e.seq, tx |-> e.tx, ohne |-> korb.an]}
<1> DEFINE p == [seq |-> e.seq, tx |-> e.tx, ohne |-> korb.an]
<1>1. ToSet(schlange') \subseteq ToSet(schlange) \cup {p} /\ laufend' = laufend
  BY EinreihenTut
<1> HIDE DEF p
<1>2. Offene' \subseteq Offene \cup {p}
  BY <1>1 DEF Offene
<1>3. QED BY <1>2 DEF p

\* A worker that takes a batch adds none.
LEMMA OffeneNimmt ==
  ASSUME Typ, FlushNimmt
  PROVE  Offene' \subseteq Offene
<1>1. PICK b \in BuendelTyp : /\ laufend' = laufend \cup {b}
                              /\ ToSet(schlange) = ToSet(schlange') \cup ToSet(b.posten)
  BY FlushNimmtTut
<1>2. QED BY <1>1 DEF Offene

\* A flush adds none.
LEMMA OffeneSchreibt ==
  ASSUME Typ, Nummern, NEW b \in laufend, NEW G \in SUBSET b.offen, FlushSchreibt(b, G)
  PROVE  Offene' \subseteq Offene
<1> DEFINE c == [posten |-> b.posten, offen |-> b.offen \ G]
<1>1. schlange' = schlange /\ laufend' = (laufend \ {b}) \cup IF G = b.offen THEN {} ELSE {c}
  BY FlushSchreibtTut
<1>2. c.posten = b.posten
  OBVIOUS
<1> HIDE DEF c
<1>3. \A l \in laufend' : \E m \in laufend : l.posten = m.posten
  BY <1>1, <1>2
<1>4. QED BY <1>1, <1>3 DEF Offene

\* A failed batch adds none.
LEMMA OffeneScheitert ==
  ASSUME Typ, NEW b \in laufend, FlushScheitert(b)
  PROVE  Offene' \subseteq Offene
<1>1. ToSet(schlange') = ToSet(schlange) \cup ToSet(b.posten) /\ laufend' = laufend \ {b}
  BY FlushScheitertTut
<1>2. QED BY <1>1 DEF Offene

-----------------------------------------------------------------------------
(* The type and the numbers, step by step.                                 *)
\* The new number is above every other.
LEMMA TypAnhaengen ==
  ASSUME Typ, Nummern, NEW t \in Auftraege, Anhaengen(t)
  PROVE  Typ' /\ Nummern'
<1> DEFINE e == [seq |-> wal.naechste, tx |-> t]
<1>1. /\ wal' \in WalTyp /\ wal'.naechste = wal.naechste + 1 /\ wal'.haltbar = wal.haltbar /\ wal'.hwm = wal.hwm
      /\ wal'.saetze = wal.saetze \cup {e} /\ e \in Saetze /\ schwebend' = schwebend \cup {e}
      /\ konten' = NachBuchung(konten, t, wal.naechste)
      /\ kunde' \in KundeTyp /\ lauf = "laeuft"
      /\ UNCHANGED <<db, schlange, laufend, korb, leert, lauf, zaehler>>
  BY AnhaengenTut
<1>2. Kopf \in Nat /\ wal.naechste = Kopf + 1 /\ Kopf' = Kopf + 1 /\ e.seq = Kopf + 1
  BY <1>1, KopfTyp DEF Kopf
<1>3. konten' \in [Konten -> Konto]
  <2>1. wal.naechste \in Nat /\ konten \in [Konten -> Konto]
    BY <1>2 DEF Typ
  <2>2. QED BY <1>1, <2>1, BuchungTyp
<1> HIDE DEF e
<1>4. Typ'
  <2>1. IsFiniteSet(wal'.saetze)
    <3>1. IsFiniteSet(wal.saetze)
      BY DEF Typ
    <3>2. QED BY <1>1, <3>1, FS_AddElement
  <2>2. wal'.haltbar <= Kopf' /\ wal'.hwm <= Kopf'
    BY <1>1, <1>2 DEF Typ, WalTyp
  <2>3. QED BY <1>1, <1>3, <2>1, <2>2 DEF Typ
<1>5. Offene' = Offene /\ Offene \subseteq Posten
  BY <1>1, OffeneTyp DEF Offene
<1>6. /\ \A r \in wal.saetze \cup schwebend \cup korb.saetze : r.seq \in Nat /\ r.seq < e.seq
      /\ \A p \in Offene : p.seq \in Nat /\ p.seq < e.seq
  <2>1. \A r \in wal.saetze \cup schwebend \cup korb.saetze : r.seq \in Nat
    BY DEF Typ, WalTyp, KorbTyp, Saetze
  <2>2. \A r \in wal.saetze \cup schwebend \cup korb.saetze : r.seq <= Kopf
    BY DEF Nummern, SatzNummern, SchwebNummern, KorbNummern
  <2>3. \A p \in Offene : p.seq \in Nat /\ p.seq <= Kopf
    BY <1>5 DEF Nummern, PostenNummern, Posten
  <2>4. QED BY <1>2, <2>1, <2>2, <2>3
<1>7. SatzNummern'
  BY <1>1, <1>2, <1>6 DEF Nummern, SatzNummern
<1>8. PostenNummern' /\ KorbNummern'
  BY <1>1, <1>2, <1>5, <1>6 DEF Nummern, PostenNummern, KorbNummern
<1>9. ZeilenNummern' /\ Ruhe'
  BY <1>1 DEF Nummern, ZeilenNummern, Ruhe
<1>10. SchwebNummern'
  BY <1>1, <1>2, <1>5, <1>6 DEF Nummern, SchwebNummern
<1>11. QED BY <1>4, <1>7, <1>8, <1>9, <1>10 DEF Nummern

\* The item inherits the number of its record.
LEMMA TypEinreihen ==
  ASSUME Typ, Nummern, NEW e \in schwebend, Einreihen(e)
  PROVE  Typ' /\ Nummern'
<1> DEFINE p == [seq |-> e.seq, tx |-> e.tx, ohne |-> korb.an]
<1>1. /\ p \in Posten /\ schlange' \in Seq(Posten) /\ korb' \in KorbTyp /\ IsFiniteSet(korb'.saetze)
      /\ korb'.saetze \subseteq korb.saetze \cup {e} /\ schwebend' = schwebend \ {e}
      /\ kunde' \in KundeTyp /\ lauf = "laeuft"
      /\ UNCHANGED <<wal, konten, db, laufend, leert, lauf, zaehler>>
  BY EinreihenTut
<1>2. Offene' \subseteq Offene \cup {p} /\ p.seq = e.seq
  BY OffeneEinreihen
<1>3. Kopf' = Kopf
  BY <1>1 DEF Kopf
<1> HIDE DEF p
<1>4. Typ'
  BY <1>1, <1>3 DEF Typ
<1>5. PostenNummern' /\ KorbNummern'
  BY <1>1, <1>2, <1>3 DEF Nummern, PostenNummern, KorbNummern, SchwebNummern
<1>6. SchwebNummern'
  BY <1>1, <1>2, <1>3 DEF Nummern, SchwebNummern
<1>7. SatzNummern' /\ ZeilenNummern' /\ Ruhe'
  BY <1>1, <1>3 DEF Nummern, SatzNummern, ZeilenNummern, Ruhe
<1>8. QED BY <1>4, <1>5, <1>6, <1>7 DEF Nummern

\* Nothing gets a number.
LEMMA TypSichern ==
  ASSUME Typ, Nummern, NEW bis, Sichern(bis)
  PROVE  Typ' /\ Nummern'
<1>1. /\ wal' \in WalTyp /\ wal'.saetze = wal.saetze /\ wal'.naechste = wal.naechste /\ wal'.hwm = wal.hwm
      /\ wal'.haltbar = bis /\ bis \in wal.haltbar .. Kopf /\ kunde' \in KundeTyp
      /\ UNCHANGED <<konten, db, schlange, laufend, korb, schwebend, leert, lauf, zaehler>>
  BY SichernTut
<1>2. Kopf' = Kopf /\ Offene' = Offene
  BY <1>1 DEF Kopf, Offene
<1>3. Typ'
  BY <1>1, <1>2 DEF Typ
<1>4. Nummern'
  BY <1>1, <1>2 DEF Nummern, SatzNummern, PostenNummern, KorbNummern, ZeilenNummern, SchwebNummern, Ruhe
<1>5. QED BY <1>3, <1>4

\* A step that only takes waiting items away.
LEMMA WenigerPosten ==
  ASSUME Typ, Nummern, lauf = "laeuft", Offene' \subseteq Offene,
         UNCHANGED <<wal, korb, schwebend, lauf>>, ZeilenNummern'
  PROVE  Nummern'
<1>1. Kopf' = Kopf
  BY DEF Kopf
<1>2. QED BY <1>1 DEF Nummern, SatzNummern, PostenNummern, KorbNummern, SchwebNummern, Ruhe

\* The items only change place.
LEMMA TypFlushNimmt ==
  ASSUME Typ, Nummern, FlushNimmt
  PROVE  Typ' /\ Nummern'
<1>1. /\ schlange' \in Seq(Posten) /\ \E b \in BuendelTyp : laufend' = laufend \cup {b}
      /\ lauf = "laeuft" /\ UNCHANGED <<wal, konten, db, korb, schwebend, leert, lauf, kunde, zaehler>>
  BY FlushNimmtTut
<1>2. Kopf' = Kopf
  BY <1>1 DEF Kopf
<1>3. Typ'
  BY <1>1, <1>2 DEF Typ
<1>4. ZeilenNummern'
  BY <1>1 DEF Nummern, ZeilenNummern
<1>5. QED BY <1>1, <1>3, <1>4, OffeneNimmt, WenigerPosten

\* New rows keep their ids apart.
LEMMA ZeilenDazu ==
  ASSUME Typ, Nummern, NEW S, IsFiniteSet(S), \A x \in S : x.seq \in Nat /\ x.tx \in Auftraege,
         \A x, y \in S : x.seq = y.seq => x = y,
         db'.zeilen = db.zeilen \cup NeueZeilen(S, db.id), db'.id = db.id + Cardinality(S)
  PROVE  ZeilenNummern'
<1>1. db.id \in Nat /\ \A z \in db.zeilen : z.id \in Nat
  BY DEF Typ, DbTyp, Zeilen
<1>2. /\ Cardinality(S) \in Nat
      /\ \A z \in NeueZeilen(S, db.id) : z.id \in (db.id + 1) .. (db.id + Cardinality(S))
      /\ \A y, z \in NeueZeilen(S, db.id) : y.id = z.id => y = z
  BY <1>1, NeueZeilenIst
<1>3. QED BY <1>1, <1>2 DEF Nummern, ZeilenNummern

\* The new rows have ids above all earlier ones.
LEMMA TypFlushSchreibt ==
  ASSUME Typ, Nummern, NEW b \in laufend, NEW G \in SUBSET b.offen, FlushSchreibt(b, G)
  PROVE  Typ' /\ Nummern'
<1> DEFINE P == OhneZeilen(b)
<1>1. /\ IsFiniteSet(P) /\ \A x \in P : x.seq \in Nat /\ x.tx \in Auftraege
      /\ \A x, y \in P : x.seq = y.seq => x = y
      /\ db'.zeilen = db.zeilen \cup NeueZeilen(P, db.id) /\ db'.id = db.id + Cardinality(P)
  BY FlushSchreibtTut
<1>2. /\ db' \in DbTyp /\ IsFiniteSet(db'.zeilen) /\ zaehler' \in ZaehlerTyp /\ laufend' \in SUBSET BuendelTyp
      /\ lauf = "laeuft" /\ UNCHANGED <<wal, konten, schlange, korb, schwebend, leert, lauf, kunde>>
  BY FlushSchreibtTut
<1> HIDE DEF P
<1>3. Kopf' = Kopf
  BY <1>2 DEF Kopf
<1>4. Typ'
  BY <1>2, <1>3 DEF Typ
<1>5. ZeilenNummern'
  BY <1>1, ZeilenDazu
<1>6. QED BY <1>2, <1>4, <1>5, OffeneSchreibt, WenigerPosten

\* The items only change place.
LEMMA TypFlushScheitert ==
  ASSUME Typ, Nummern, NEW b \in laufend, FlushScheitert(b)
  PROVE  Typ' /\ Nummern'
<1>1. /\ schlange' \in Seq(Posten) /\ laufend' = laufend \ {b} /\ zaehler' \in ZaehlerTyp
      /\ lauf = "laeuft" /\ UNCHANGED <<wal, konten, db, korb, schwebend, leert, lauf, kunde>>
  BY FlushScheitertTut
<1>2. Kopf' = Kopf
  BY <1>1 DEF Kopf
<1>3. Typ'
  BY <1>1, <1>2 DEF Typ
<1>4. ZeilenNummern'
  BY <1>1 DEF Nummern, ZeilenNummern
<1>5. QED BY <1>1, <1>3, <1>4, OffeneScheitert, WenigerPosten

\* The row of a serial order has the next id.
LEMMA TypSeriell ==
  ASSUME Typ, Nummern, NEW t \in Auftraege,
         SeriellBeginnt(t) \/ (t \in leert /\ (SeriellBucht(t) \/ SeriellAbgelehnt(t)))
  PROVE  Typ' /\ Nummern'
<1>1. CASE SeriellBeginnt(t)
  <2>1. /\ leert' \in SUBSET Seriell /\ kunde' \in KundeTyp
        /\ lauf = "laeuft" /\ UNCHANGED <<wal, konten, db, schlange, laufend, korb, schwebend, lauf, zaehler>>
    BY <1>1, SeriellBeginntTut
  <2>2. Kopf' = Kopf /\ Offene' \subseteq Offene
    BY <2>1 DEF Kopf, Offene
  <2>3. Typ'
    BY <2>1, <2>2 DEF Typ
  <2>4. ZeilenNummern'
    BY <2>1 DEF Nummern, ZeilenNummern
  <2>5. QED BY <2>1, <2>2, <2>3, <2>4, WenigerPosten
<1>2. CASE t \in leert /\ SeriellBucht(t)
  <2> DEFINE z == [seq |-> wal.naechste, id |-> db.id + 1, tx |-> t]
  <2>1. /\ konten' \in [Konten -> Konto] /\ db' \in DbTyp /\ IsFiniteSet(db'.zeilen)
        /\ db'.zeilen = db.zeilen \cup {z} /\ db'.id = db.id + 1
        /\ leert' = leert \ {t} /\ kunde' \in KundeTyp /\ zaehler' \in ZaehlerTyp
        /\ lauf = "laeuft" /\ UNCHANGED <<wal, schlange, laufend, korb, schwebend, lauf>>
    BY <1>2, SeriellBuchtTut
  <2>2. Kopf' = Kopf /\ Offene' \subseteq Offene
    BY <2>1 DEF Kopf, Offene
  <2>3. Typ'
    BY <2>1, <2>2 DEF Typ
  <2>4. ZeilenNummern'
    <3>1. db.id \in Nat /\ z.id = db.id + 1
      BY DEF Typ, DbTyp
    <3> HIDE DEF z
    <3>2. QED BY <2>1, <3>1 DEF Nummern, ZeilenNummern
  <2>5. QED BY <2>1, <2>2, <2>3, <2>4, WenigerPosten
<1>3. CASE t \in leert /\ SeriellAbgelehnt(t)
  <2>1. /\ leert' = leert \ {t} /\ lauf = "laeuft"
        /\ UNCHANGED <<wal, konten, db, schlange, laufend, korb, schwebend, lauf, kunde, zaehler>>
    BY <1>3 DEF SeriellAbgelehnt
  <2>2. Kopf' = Kopf /\ Offene' \subseteq Offene
    BY <2>1 DEF Kopf, Offene
  <2>3. Typ'
    BY <2>1, <2>2 DEF Typ
  <2>4. ZeilenNummern'
    BY <2>1 DEF Nummern, ZeilenNummern
  <2>5. QED BY <2>1, <2>2, <2>3, <2>4, WenigerPosten
<1>4. QED BY <1>1, <1>2, <1>3

\* Rows and entries only go.
LEMMA TypBlock ==
  ASSUME Typ, Nummern, Block
  PROVE  Typ' /\ Nummern'
<1>1. /\ db' \in DbTyp /\ IsFiniteSet(db'.zeilen) /\ db'.zeilen \subseteq db.zeilen /\ db'.id = db.id
      /\ korb' \in KorbTyp /\ korb'.saetze \subseteq korb.saetze /\ IsFiniteSet(korb'.saetze)
      /\ lauf = "laeuft" /\ UNCHANGED <<wal, konten, schlange, laufend, schwebend, leert, lauf, kunde, zaehler>>
  BY BlockTut
<1>2. Kopf' = Kopf /\ Offene' = Offene
  BY <1>1 DEF Kopf, Offene
<1>3. Typ'
  BY <1>1, <1>2 DEF Typ
<1>4. Nummern'
  BY <1>1, <1>2 DEF Nummern, SatzNummern, PostenNummern, KorbNummern, ZeilenNummern, SchwebNummern, Ruhe
<1>5. QED BY <1>3, <1>4

\* Records and marks only go.
LEMMA TypKuerzen ==
  ASSUME Typ, Nummern, NEW gross \in BOOLEAN, Kuerzen(gross)
  PROVE  Typ' /\ Nummern'
<1>1. /\ db' \in DbTyp /\ db'.zeilen = db.zeilen /\ db'.id = db.id
      /\ wal' \in WalTyp /\ wal'.naechste = wal.naechste /\ wal'.haltbar = wal.haltbar
      /\ wal'.saetze \subseteq wal.saetze
      /\ wal'.hwm \in {Kopf, wal.hwm} /\ IsFiniteSet(wal'.saetze)
      /\ zaehler' \in ZaehlerTyp /\ lauf = "laeuft"
      /\ UNCHANGED <<konten, schlange, laufend, korb, schwebend, leert, lauf, kunde>>
  BY KuerzenTut
<1>2. Kopf' = Kopf /\ Offene' = Offene /\ Kopf \in Nat
  BY <1>1, KopfTyp DEF Kopf, Offene
<1>3. Typ'
  BY <1>1, <1>2 DEF Typ
<1>4. Nummern'
  BY <1>1, <1>2 DEF Nummern, SatzNummern, PostenNummern, KorbNummern, ZeilenNummern, SchwebNummern, Ruhe
<1>5. QED BY <1>3, <1>4

\* When all in memory is gone only the log and the rows remain.
LEMMA LeereNummern ==
  ASSUME Typ, Nummern, ToSet(schlange') = {}, laufend' = {}, schwebend' = {}, korb'.saetze = {},
         SatzNummern', ZeilenNummern'
  PROVE  Nummern'
<1>1. Offene' = {}
  BY DEF Offene
<1>2. QED BY <1>1 DEF Nummern, PostenNummern, KorbNummern, SchwebNummern, Ruhe

\* The numbers of the surviving records remain.
LEMMA TypAbsturz ==
  ASSUME Typ, Nummern, NEW bis, Absturz(bis)
  PROVE  Typ' /\ Nummern'
<1>1. /\ wal' \in WalTyp /\ wal'.saetze \subseteq wal.saetze /\ IsFiniteSet(wal'.saetze)
      /\ wal'.naechste = wal.naechste /\ wal'.haltbar = wal.haltbar /\ wal'.hwm = wal.hwm
      /\ konten' \in [Konten -> Konto]
      /\ schlange' = <<>> /\ laufend' = {} /\ schwebend' = {} /\ leert' = {} /\ lauf' = "aus"
      /\ korb' \in KorbTyp /\ korb'.saetze = {} /\ IsFiniteSet(korb'.saetze) /\ ToSet(schlange') = {}
      /\ zaehler' \in ZaehlerTyp /\ UNCHANGED <<db, kunde>>
  BY AbsturzTut
<1>2. Kopf' = Kopf
  BY <1>1 DEF Kopf
<1>3. Typ'
  <2>1. schlange' \in Seq(Posten) /\ laufend' \in SUBSET BuendelTyp /\ schwebend' \in SUBSET Saetze
        /\ leert' \in SUBSET Seriell
    BY <1>1
  <2>2. QED BY <1>1, <1>2, <2>1 DEF Typ
<1>4. SatzNummern' /\ ZeilenNummern'
  BY <1>1, <1>2 DEF Nummern, SatzNummern, ZeilenNummern
<1>5. QED BY <1>1, <1>3, <1>4, LeereNummern

\* The items and the entries of the Korb take their numbers from the records.
LEMMA TypEinspielen ==
  ASSUME Typ, Nummern, NEW an \in BOOLEAN, Einspielen(an)
  PROVE  Typ' /\ Nummern'
<1>1. CASE ~StimmigMitDatei(PeekNachStart)
  <2>1. lauf' = "verweigert" /\ lauf = "aus"
        /\ UNCHANGED <<wal, konten, db, schlange, laufend, korb, schwebend, leert, kunde, zaehler>>
    BY <1>1, VerweigertTut
  <2>2. Kopf' = Kopf /\ Offene' = Offene
    BY <2>1 DEF Kopf, Offene
  <2>3. Typ'
    BY <2>1, <2>2 DEF Typ
  <2>4. Nummern'
    BY <2>1, <2>2 DEF Nummern, SatzNummern, PostenNummern, KorbNummern, ZeilenNummern, SchwebNummern, Ruhe
  <2>5. QED BY <2>3, <2>4
<1>2. CASE StimmigMitDatei(PeekNachStart)
  <2> DEFINE peek == PeekNachStart
             S == Nachzuholen(an)
             q == NachgespielteSchlange(an)
             d == Nachholen(an)
  <2>1. /\ lauf = "aus" /\ lauf' = "eingespielt"
        /\ wal' \in WalTyp /\ wal'.saetze = wal.saetze /\ wal'.hwm = wal.hwm
        /\ wal'.haltbar = peek - 1 /\ Kopf' = peek - 1
        /\ konten' = [a \in Konten |-> Nachgespielt(a)] /\ schlange' = q /\ db' = d
        /\ korb' \in KorbTyp /\ korb'.saetze \subseteq wal.saetze /\ IsFiniteSet(korb'.saetze)
        /\ UNCHANGED <<laufend, schwebend, leert, kunde, zaehler>>
    BY <1>2, EinspielenTut
  <2>2. peek \in Nat \ {0} /\ wal.hwm < peek /\ \A r \in wal.saetze : r.seq < peek
    BY PeekIst
  <2>3. /\ IsFiniteSet(S) /\ \A x \in S : x.seq \in Nat /\ x.tx \in Auftraege
        /\ \A x, y \in S : x.seq = y.seq => x = y
        /\ d \in DbTyp /\ d.zeilen = db.zeilen \cup NeueZeilen(S, db.id) /\ IsFiniteSet(d.zeilen)
        /\ d.id = db.id + Cardinality(S)
    BY NachholenTyp
  <2>4. /\ q \in Seq(Posten)
        /\ \A p \in ToSet(q) : \E r \in Nachspielbar :
              p.seq = r.seq /\ p.tx = r.tx /\ p.ohne = OhneZeile(r, an)
    BY NachgespielteSchlangeIst
  <2> HIDE DEF peek, S, q, d
  <2>5. konten' \in [Konten -> Konto]
    BY <2>1, NachgespieltTyp
  <2>6. wal'.haltbar <= Kopf' /\ wal'.hwm <= Kopf' /\ \A r \in wal.saetze : r.seq <= Kopf'
    <3>1. \A r \in wal.saetze : r.seq \in Nat
      BY DEF Typ, WalTyp, Saetze
    <3>2. wal.hwm \in Nat
      BY DEF Typ, WalTyp
    <3>3. QED BY <2>1, <2>2, <3>1, <3>2
  <2>7. Typ'
    BY <2>1, <2>3, <2>4, <2>5, <2>6 DEF Typ
  <2>8. SatzNummern' /\ KorbNummern'
    BY <2>1, <2>6 DEF Nummern, SatzNummern, KorbNummern
  <2>9. laufend' = {} /\ schwebend' = {} /\ Offene' = ToSet(q)
    BY <2>1 DEF Nummern, Ruhe, Offene
  <2>10. PostenNummern'
    <3>1. ASSUME NEW p \in ToSet(q)
          PROVE  p.seq <= Kopf' /\ \A g \in ToSet(q) : p.seq = g.seq => p = g
      <4>1. PICK r \in Nachspielbar : p.seq = r.seq /\ p.tx = r.tx /\ p.ohne = OhneZeile(r, an)
        BY <2>4
      <4>2. r \in wal.saetze
        BY NachspielTyp
      <4>3. ASSUME NEW g \in ToSet(q), p.seq = g.seq PROVE p = g
        <5>1. PICK s \in Nachspielbar : g.seq = s.seq /\ g.tx = s.tx /\ g.ohne = OhneZeile(s, an)
          BY <2>4
        <5>2. s = r
          BY <4>1, <4>2, <4>3, <5>1, NachspielTyp DEF Nummern, SatzNummern
        <5>3. p \in Posten /\ g \in Posten
          BY <2>4 DEF ToSet
        <5>4. QED BY <4>1, <5>1, <5>2, <5>3 DEF Posten
      <4>4. QED BY <2>6, <4>1, <4>2, <4>3
    <3>2. QED BY <2>9, <3>1 DEF PostenNummern
  <2>11. ZeilenNummern'
    BY <2>1, <2>3, ZeilenDazu
  <2>12. SchwebNummern' /\ Ruhe'
    BY <2>9 DEF SchwebNummern, Ruhe
  <2>13. QED BY <2>7, <2>8, <2>10, <2>11, <2>12 DEF Nummern
<1>3. QED BY <1>1, <1>2

\* Only marks and limits move.
LEMMA TypAnschluss ==
  ASSUME Typ, Nummern, Anschluss
  PROVE  Typ' /\ Nummern'
<1>1. /\ lauf = "eingespielt" /\ lauf' \in {"laeuft", "verweigert"}
      /\ db' \in DbTyp /\ db'.zeilen = db.zeilen /\ db'.id = db.id
      /\ korb' \in KorbTyp /\ korb'.saetze = korb.saetze
      /\ UNCHANGED <<wal, konten, schlange, laufend, schwebend, leert, kunde, zaehler>>
  BY AnschlussTut
<1>2. Kopf' = Kopf /\ Offene' = Offene
  BY <1>1 DEF Kopf, Offene
<1>3. Typ'
  BY <1>1, <1>2 DEF Typ
<1>4. Nummern'
  BY <1>1, <1>2 DEF Nummern, SatzNummern, PostenNummern, KorbNummern, ZeilenNummern, SchwebNummern, Ruhe
<1>5. QED BY <1>3, <1>4

\* The floor is the last number given out.
LEMMA TypErsatz ==
  ASSUME Typ, Nummern, NEW u \in BOOLEAN, Ersatz(u)
  PROVE  Typ' /\ Nummern'
<1>1. /\ konten' \in [Konten -> Konto] /\ db' \in DbTyp /\ db'.zeilen = db.zeilen /\ db'.id = db.id
      /\ kunde' \in KundeTyp /\ zaehler' \in ZaehlerTyp
      /\ u => AllesFluechtigeWeg
      /\ ~u => UNCHANGED <<schlange, laufend, schwebend, leert, korb, lauf>>
      /\ UNCHANGED wal
  BY ErsatzTut
<1>2. Kopf' = Kopf
  BY <1>1 DEF Kopf
<1>3. SatzNummern' /\ ZeilenNummern'
  BY <1>1, <1>2 DEF Nummern, SatzNummern, ZeilenNummern
<1>4. CASE u
  <2>1. /\ schlange' = <<>> /\ laufend' = {} /\ schwebend' = {} /\ leert' = {} /\ lauf' = "aus"
        /\ korb' \in KorbTyp /\ korb'.saetze = {} /\ IsFiniteSet(korb'.saetze) /\ ToSet(schlange') = {}
    BY <1>1, <1>4, FluechtigesWeg
  <2>2. schlange' \in Seq(Posten) /\ laufend' \in SUBSET BuendelTyp /\ schwebend' \in SUBSET Saetze
        /\ leert' \in SUBSET Seriell
    BY <2>1
  <2>3. Typ'
    BY <1>1, <1>2, <2>1, <2>2 DEF Typ
  <2>4. QED BY <1>3, <2>1, <2>3, LeereNummern
<1>5. CASE ~u
  <2>1. Offene' = Offene
    BY <1>1, <1>5 DEF Offene
  <2>2. Typ'
    BY <1>1, <1>2, <1>5 DEF Typ
  <2>3. Nummern'
    BY <1>1, <1>2, <1>3, <1>5, <2>1 DEF Nummern, PostenNummern, KorbNummern, SchwebNummern, Ruhe
  <2>4. QED BY <2>2, <2>3
<1>6. QED BY <1>4, <1>5

\* The start.
LEMMA TypAnfang == Init => Typ /\ Nummern
<1> SUFFICES ASSUME Init PROVE Typ /\ Nummern
  OBVIOUS
<1>1. wal = [saetze |-> {}, naechste |-> 1, haltbar |-> 0, hwm |-> 0] /\ Kopf = 0
  BY DEF Init, Kopf
<1>2. LeeresKonto \in Konto
  <2>1. [t \in Auftraege |-> 0] \in [Auftraege -> Nat]
    OBVIOUS
  <2>2. QED BY <2>1 DEF LeeresKonto, Konto
<1>3. konten \in [Konten -> Konto]
  BY <1>2 DEF Init
<1>4. PICK an \in {w[1] : w \in Wechsel} :
          /\ korb = [an |-> an, ab |-> 1, bis |-> 0, fehlt |-> {}, saetze |-> {}]
          /\ db = [konten |-> konten, zeilen |-> {}, id |-> 0, vermerke |-> {}, ab |-> 1,
                   markeDa |-> an, marke |-> 0, boden |-> 0, bloecke |-> <<>>]
  BY DEF Init
<1>5. an \in BOOLEAN
  BY SchalterTyp
<1>6. {} \in SUBSET Nat /\ {} \in SUBSET Saetze /\ {} \in SUBSET Zeilen /\ {} \in SUBSET Auftraege
      /\ <<>> \in Seq(Auftraege) /\ <<>> \in Seq(Posten) /\ {} \in SUBSET BuendelTyp /\ {} \in SUBSET Seriell
      /\ 0 \in Nat /\ 1 \in Nat \ {0} /\ IsFiniteSet({})
  BY FS_EmptySet
<1>7. wal \in WalTyp /\ wal.saetze = {} /\ wal.haltbar = 0 /\ wal.hwm = 0
  BY <1>1, <1>6 DEF WalTyp
<1>8. db \in DbTyp /\ db.zeilen = {}
  BY <1>3, <1>4, <1>5, <1>6 DEF DbTyp
<1>9. korb \in KorbTyp /\ korb.saetze = {}
  BY <1>4, <1>5, <1>6 DEF KorbTyp
<1>10. schlange = <<>> /\ laufend = {} /\ schwebend = {} /\ leert = {} /\ lauf = "laeuft"
       /\ kunde = [gestellt |-> {}, quittiert |-> {}, ersetzt |-> {}]
       /\ zaehler = [abstuerze |-> 0, fehler |-> 0, frist |-> 0, ersatz |-> 0, kuerzungen |-> 0]
  BY DEF Init
<1>11. kunde \in KundeTyp /\ zaehler \in ZaehlerTyp
  BY <1>6, <1>10 DEF KundeTyp, ZaehlerTyp
<1>12. Typ
  BY <1>1, <1>3, <1>6, <1>7, <1>8, <1>9, <1>10, <1>11 DEF Typ
<1>13. Offene = {}
  BY <1>10 DEF Offene, ToSet
<1>14. Nummern
  BY <1>7, <1>8, <1>9, <1>10, <1>13
     DEF Nummern, SatzNummern, PostenNummern, KorbNummern, ZeilenNummern, SchwebNummern, Ruhe
<1>15. QED BY <1>12, <1>14

\* Every step keeps type and numbers.
LEMMA TypSchritt ==
  ASSUME Typ, Nummern, [Next]_vars
  PROVE  Typ' /\ Nummern'
<1>1. CASE UNCHANGED vars
  <2>1. Kopf' = Kopf /\ Offene' = Offene
    BY <1>1 DEF vars, Kopf, Offene
  <2>2. QED BY <1>1, <2>1
        DEF vars, Typ, Nummern, SatzNummern, PostenNummern, KorbNummern, ZeilenNummern, SchwebNummern, Ruhe
<1>2. CASE \E t \in Auftraege : Anhaengen(t)
  BY <1>2, TypAnhaengen
<1>3. CASE \E t \in Auftraege : SeriellBeginnt(t)
  BY <1>3, TypSeriell
<1>4. CASE \E e \in schwebend : Einreihen(e)
  BY <1>4, TypEinreihen
<1>5. CASE \E bis \in 1 .. Kopf : Sichern(bis)
  BY <1>5, TypSichern
<1>6. CASE FlushNimmt
  BY <1>6, TypFlushNimmt
<1>7. CASE \E b \in laufend : FlushScheitert(b)
  BY <1>7, TypFlushScheitert
<1>8. CASE \E b \in laufend : \E G \in SUBSET b.offen : FlushSchreibt(b, G)
  BY <1>8, TypFlushSchreibt
<1>9. CASE \E t \in leert : SeriellBucht(t) \/ SeriellAbgelehnt(t)
  <2>1. leert \subseteq Auftraege
    BY DEF Typ, Auftraege
  <2>2. QED BY <1>9, <2>1, TypSeriell
<1>10. CASE Block
  BY <1>10, TypBlock
<1>11. CASE \E gross \in BOOLEAN : Kuerzen(gross)
  BY <1>11, TypKuerzen
<1>12. CASE \E bis \in 0 .. Kopf : Absturz(bis)
  BY <1>12, TypAbsturz
<1>13. CASE \E an \in BOOLEAN : Einspielen(an)
  BY <1>13, TypEinspielen
<1>14. CASE Anschluss
  BY <1>14, TypAnschluss
<1>15. CASE \E u \in BOOLEAN : Ersatz(u)
  BY <1>15, TypErsatz
<1>16. QED BY <1>1, <1>2, <1>3, <1>4, <1>5, <1>6, <1>7, <1>8, <1>9, <1>10, <1>11, <1>12, <1>13, <1>14, <1>15
       DEF Next

\* The type invariant, for every choice of the constants: accounts, orders, workers,
\* batch size, both settings of the Korb, interrupted replacements included.
THEOREM TypKorrekt == Spec => []TypeOK
<1>1. Typ /\ Nummern /\ [Next]_vars => Typ' /\ Nummern'
  BY TypSchritt
<1>2. QED BY <1>1, TypAnfang, TypReicht, PTL DEF Spec

-----------------------------------------------------------------------------
(***************************************************************************)
(* What the balances contain.                                              *)
(***************************************************************************)
\* The log is replayed: the live accounts count.
Laeuft == lauf \in {"laeuft", "eingespielt"}

\* Orders past the point where they only wait for an empty pipeline.
InKraft == kunde.gestellt \ leert

\* The orders of a set.
Txs(S) == {x.tx : x \in S}

\* Serial orders that wait were submitted.
LeertOK == leert \subseteq kunde.gestellt

\* A record of its own for every order of the log.
LogOK == \A r \in wal.saetze : r.tx \in InKraft /\ \A s \in wal.saetze : r.tx = s.tx => r = s

\* What is on its way out was accepted.
WegeOK == Txs(Offene) \cup Txs(schwebend) \cup Txs(korb.saetze) \cup Txs(db.zeilen) \cup ToSet(db.bloecke) \subseteq InKraft

\* A balance has an order once, on its own two accounts, the stored one not before
\* the live one.
KontenOK ==
  \A a \in Konten :
    /\ konten[a].wal <= Kopf /\ db.konten[a].wal <= Kopf
    /\ \A t \in Auftraege :
         /\ db.konten[a].wirkt[t] <= konten[a].wirkt[t] /\ konten[a].wirkt[t] <= 1
         /\ konten[a].wirkt[t] = 1 => t \in InKraft /\ a \in Beide(t)

\* While the process runs the live balances contain every record above the floor.
LiveOK ==
  Laeuft => \A r \in Nachspielbar : \A a \in Beide(r.tx) :
              konten[a].wirkt[r.tx] = 1 /\ r.seq <= konten[a].wal

\* The nonce of an order on a balance is used up there.
NonceOK ==
  \A t \in Auftraege : Nonce[t] > 0 =>
    /\ konten[Von[t]].wirkt[t] = 1 => konten[Von[t]].nonce > Nonce[t]
    /\ db.konten[Von[t]].wirkt[t] = 1 => db.konten[Von[t]].nonce > Nonce[t]

\* The invariant of the balances.
Salden == LeertOK /\ LogOK /\ WegeOK /\ KontenOK /\ LiveOK /\ NonceOK /\ SeqSagtSaldo

\* The fields of an account.
LEMMA KontoTyp ==
  ASSUME Typ, NEW a \in Konten
  PROVE  /\ konten[a] \in Konto /\ konten[a].wal \in Nat /\ konten[a].nonce \in Nat
         /\ db.konten[a] \in Konto /\ db.konten[a].wal \in Nat /\ db.konten[a].nonce \in Nat
         /\ konten[a].wirkt \in [Auftraege -> Nat] /\ db.konten[a].wirkt \in [Auftraege -> Nat]
         /\ \A t \in Auftraege : konten[a].wirkt[t] \in Nat /\ db.konten[a].wirkt[t] \in Nat
<1>1. konten[a] \in Konto /\ db.konten[a] \in Konto
  BY DEF Typ, DbTyp
<1>2. QED BY <1>1 DEF Konto

\* The accounts of an order.
LEMMA BeideKonten == \A t \in Auftraege : Beide(t) \subseteq Konten /\ Von[t] \in Konten /\ Nach[t] \in Konten
                                          /\ Von[t] \in Beide(t) /\ Nach[t] \in Beide(t) /\ Nonce[t] \in Nat
  BY RichtungTyp, NonceTyp DEF Beide

\* Numbers and orders of the log.
LEMMA SatzTyp == Typ => \A r \in wal.saetze : r \in Saetze /\ r.seq \in Nat \ {0} /\ r.tx \in Auftraege
  BY DEF Typ, WalTyp, Saetze

\* A step that leaves the balances alone.
LEMMA SaldenRuhig ==
  ASSUME Typ, Salden, konten' = konten, db'.konten = db.konten, db'.boden = db.boden,
         wal'.saetze \subseteq wal.saetze, Kopf' = Kopf, InKraft \subseteq InKraft', Laeuft' => Laeuft,
         LeertOK', WegeOK'
  PROVE  Salden'
<1>1. LogOK'
  BY DEF Salden, LogOK
<1>2. KontenOK'
  BY DEF Salden, KontenOK
<1>3. Nachspielbar' \subseteq Nachspielbar
  BY DEF Nachspielbar
<1>4. LiveOK'
  BY <1>3 DEF Salden, LiveOK
<1>5. NonceOK'
  BY DEF Salden, NonceOK
<1>6. SeqSagtSaldo'
  BY DEF Salden, SeqSagtSaldo
<1>7. QED BY <1>1, <1>2, <1>4, <1>5, <1>6 DEF Salden

\* Enqueuing: the order was under way already.
LEMMA SaldenEinreihen ==
  ASSUME Typ, Salden, NEW e \in schwebend, Einreihen(e)
  PROVE  Salden'
<1> DEFINE p == [seq |-> e.seq, tx |-> e.tx, ohne |-> korb.an]
<1>1. /\ korb'.saetze \subseteq korb.saetze \cup {e} /\ schwebend' = schwebend \ {e}
      /\ kunde'.gestellt = kunde.gestellt
      /\ UNCHANGED <<wal, konten, db, laufend, leert, lauf, zaehler>>
  BY EinreihenTut
<1>2. Offene' \subseteq Offene \cup {p} /\ p.tx = e.tx
  BY OffeneEinreihen
<1> HIDE DEF p
<1>3. Kopf' = Kopf /\ InKraft' = InKraft /\ Laeuft' = Laeuft
  BY <1>1 DEF Kopf, InKraft, Laeuft
<1>4. WegeOK' /\ LeertOK'
  BY <1>1, <1>2, <1>3 DEF Salden, WegeOK, Txs, LeertOK
<1>5. QED BY <1>1, <1>3, <1>4, SaldenRuhig

\* A group commit changes no balance.
LEMMA SaldenSichern ==
  ASSUME Typ, Salden, NEW bis, Sichern(bis)
  PROVE  Salden'
<1>1. /\ wal'.saetze = wal.saetze /\ wal'.naechste = wal.naechste /\ kunde'.gestellt = kunde.gestellt
      /\ UNCHANGED <<konten, db, schlange, laufend, korb, schwebend, leert, lauf, zaehler>>
  BY SichernTut
<1>2. Kopf' = Kopf /\ Offene' = Offene /\ InKraft' = InKraft /\ Laeuft' = Laeuft
  BY <1>1 DEF Kopf, Offene, InKraft, Laeuft
<1>3. WegeOK' /\ LeertOK'
  BY <1>1, <1>2 DEF Salden, WegeOK, Txs, LeertOK
<1>4. QED BY <1>1, <1>2, <1>3, SaldenRuhig

\* Batches taken and batches that fail change no balance.
LEMMA SaldenFlushNimmt ==
  ASSUME Typ, Salden, FlushNimmt \/ \E b \in laufend : FlushScheitert(b)
  PROVE  Salden'
<1>1. Offene' \subseteq Offene /\ UNCHANGED <<wal, konten, db, korb, schwebend, leert, lauf, kunde>>
  BY OffeneNimmt, OffeneScheitert, FlushNimmtTut, FlushScheitertTut
<1>2. Kopf' = Kopf /\ InKraft' = InKraft /\ Laeuft' = Laeuft
  BY <1>1 DEF Kopf, InKraft, Laeuft
<1>3. WegeOK' /\ LeertOK'
  BY <1>1, <1>2 DEF Salden, WegeOK, Txs, LeertOK
<1>4. QED BY <1>1, <1>2, <1>3, SaldenRuhig

\* A serial order that begins or is refused changes no balance.
LEMMA SaldenWartet ==
  ASSUME Typ, Salden, NEW t \in Auftraege, SeriellBeginnt(t) \/ (t \in leert /\ SeriellAbgelehnt(t))
  PROVE  Salden'
<1>1. /\ InKraft \subseteq InKraft' /\ LeertOK'
      /\ UNCHANGED <<wal, konten, db, schlange, laufend, korb, schwebend, lauf>>
  <2>1. CASE SeriellBeginnt(t)
    BY <2>1, SeriellBeginntTut DEF InKraft, Salden, LeertOK
  <2>2. CASE t \in leert /\ SeriellAbgelehnt(t)
    BY <2>2 DEF SeriellAbgelehnt, InKraft, Salden, LeertOK
  <2>3. QED BY <2>1, <2>2
<1>2. Kopf' = Kopf /\ Offene' = Offene /\ Laeuft' = Laeuft
  BY <1>1 DEF Kopf, Offene, Laeuft
<1>3. WegeOK'
  BY <1>1, <1>2 DEF Salden, WegeOK, Txs
<1>4. QED BY <1>1, <1>2, <1>3, SaldenRuhig

\* A block changes no balance.
LEMMA SaldenBlock ==
  ASSUME Typ, Nummern, Salden, Block
  PROVE  Salden'
<1>1. /\ db'.zeilen \subseteq db.zeilen /\ db'.konten = db.konten /\ db'.boden = db.boden
      /\ ToSet(db'.bloecke) \subseteq ToSet(db.bloecke) \cup Txs(korb.saetze) \cup Txs(db.zeilen)
      /\ korb'.saetze \subseteq korb.saetze
      /\ UNCHANGED <<wal, konten, schlange, laufend, schwebend, leert, lauf, kunde, zaehler>>
  BY BlockTut DEF Txs
<1>2. Kopf' = Kopf /\ Offene' = Offene /\ InKraft' = InKraft /\ Laeuft' = Laeuft
  BY <1>1 DEF Kopf, Offene, InKraft, Laeuft
<1>3. /\ Txs(db'.zeilen) \subseteq Txs(db.zeilen) /\ Txs(korb'.saetze) \subseteq Txs(korb.saetze)
  BY <1>1 DEF Txs
<1>4. Txs(Offene') = Txs(Offene) /\ Txs(schwebend') = Txs(schwebend)
  BY <1>1, <1>2
<1>5. WegeOK' /\ LeertOK'
  BY <1>1, <1>2, <1>3, <1>4 DEF Salden, WegeOK, LeertOK
<1>6. QED BY <1>1, <1>2, <1>5, SaldenRuhig

\* A compaction and the end of the start change no balance.
LEMMA SaldenKuerzen ==
  ASSUME Typ, Salden, (\E gross \in BOOLEAN : Kuerzen(gross)) \/ Anschluss
  PROVE  Salden'
<1>1. /\ db'.zeilen = db.zeilen /\ db'.konten = db.konten /\ db'.boden = db.boden /\ db'.bloecke = db.bloecke
      /\ korb'.saetze = korb.saetze /\ wal'.saetze \subseteq wal.saetze /\ wal'.naechste = wal.naechste
      /\ UNCHANGED <<konten, schlange, laufend, schwebend, leert, kunde>>
      /\ Laeuft
  <2>1. CASE \E gross \in BOOLEAN : Kuerzen(gross)
    BY <2>1, KuerzenTut DEF Laeuft
  <2>2. CASE Anschluss
    BY <2>2, AnschlussTut DEF Laeuft
  <2>3. QED BY <2>1, <2>2
<1>2. Kopf' = Kopf /\ Offene' = Offene /\ InKraft' = InKraft
  BY <1>1 DEF Kopf, Offene, InKraft
<1>3. WegeOK' /\ LeertOK'
  BY <1>1, <1>2 DEF Salden, WegeOK, Txs, LeertOK
<1>4. QED BY <1>1, <1>2, <1>3, SaldenRuhig

\* The live accounts after a new record.
LEMMA AnhaengenWirkt ==
  ASSUME Typ, NEW t \in Auftraege, Anhaengen(t)
  PROVE  /\ \A a \in Konten \ Beide(t) : konten'[a] = konten[a]
         /\ \A a \in Beide(t) :
              /\ konten'[a].wirkt[t] = konten[a].wirkt[t] + 1
              /\ \A u \in Auftraege \ {t} : konten'[a].wirkt[u] = konten[a].wirkt[u]
              /\ konten'[a].wal = wal.naechste
              /\ konten'[a].nonce >= konten[a].nonce
              /\ a = Von[t] /\ Nonce[t] > 0 => konten'[a].nonce > Nonce[t]
<1>1. konten \in [Konten -> Konto]
  BY DEF Typ
<1>2. PICK s \in Nat : s = wal.naechste /\ s # 0
  BY DEF Typ, WalTyp
<1> DEFINE n == NachBuchung(konten, t, s)
<1>3. /\ \A a \in Konten \ Beide(t) : n[a] = konten[a]
      /\ \A a \in Beide(t) :
           /\ n[a].wirkt[t] = konten[a].wirkt[t] + 1
           /\ \A u \in Auftraege \ {t} : n[a].wirkt[u] = konten[a].wirkt[u]
           /\ s # 0 => n[a].wal = s
           /\ n[a].nonce >= konten[a].nonce
           /\ a = Von[t] /\ Nonce[t] > 0 => n[a].nonce > Nonce[t]
  BY <1>1, <1>2, BuchungTyp
<1>4. konten' = n
  BY <1>2, AnhaengenTut
<1> HIDE DEF n
<1>5. QED BY <1>2, <1>3, <1>4

\* A fast transfer: new to the log, and to both accounts.
LEMMA SaldenAnhaengen ==
  ASSUME Typ, Nummern, Salden, NEW t \in Auftraege, Anhaengen(t)
  PROVE  Salden'
<1> DEFINE e == [seq |-> wal.naechste, tx |-> t]
<1>1. /\ wal'.naechste = wal.naechste + 1 /\ wal'.saetze = wal.saetze \cup {e} /\ schwebend' = schwebend \cup {e}
      /\ konten' = NachBuchung(konten, t, wal.naechste)
      /\ kunde'.gestellt = kunde.gestellt \cup {t} /\ t \notin kunde.gestellt
      /\ UNCHANGED <<db, schlange, laufend, korb, leert, lauf, zaehler>>
  BY AnhaengenTut
<1>2. Kopf \in Nat /\ wal.naechste = Kopf + 1 /\ Kopf' = Kopf + 1 /\ e.seq = Kopf + 1 /\ e.tx = t
  BY <1>1, KopfTyp DEF Kopf
<1> HIDE DEF e
<1>3. InKraft' = InKraft \cup {t} /\ t \notin InKraft /\ Offene' = Offene /\ Laeuft' = Laeuft
  BY <1>1 DEF Salden, LeertOK, InKraft, Offene, Laeuft
<1>4. LeertOK' /\ LogOK'
  BY <1>1, <1>2, <1>3 DEF Salden, LeertOK, LogOK
<1>5. WegeOK'
  BY <1>1, <1>2, <1>3 DEF Salden, WegeOK, Txs
<1>6. /\ \A a \in Konten \ Beide(t) : konten'[a] = konten[a]
      /\ \A a \in Beide(t) :
           /\ konten'[a].wirkt[t] = konten[a].wirkt[t] + 1
           /\ \A u \in Auftraege \ {t} : konten'[a].wirkt[u] = konten[a].wirkt[u]
           /\ konten'[a].wal = wal.naechste
           /\ konten'[a].nonce >= konten[a].nonce
           /\ a = Von[t] /\ Nonce[t] > 0 => konten'[a].nonce > Nonce[t]
  BY AnhaengenWirkt
<1>7. \A a \in Konten : konten[a].wirkt[t] = 0 /\ db.konten[a].wirkt[t] = 0
  BY <1>3, KontoTyp DEF Salden, KontenOK
<1>8. KontenOK'
  <2> SUFFICES ASSUME NEW a \in Konten, NEW u \in Auftraege
               PROVE  /\ konten'[a].wal <= Kopf' /\ db'.konten[a].wal <= Kopf'
                      /\ db'.konten[a].wirkt[u] <= konten'[a].wirkt[u] /\ konten'[a].wirkt[u] <= 1
                      /\ konten'[a].wirkt[u] = 1 => u \in InKraft' /\ a \in Beide(u)
    BY <1>1, <1>2, <1>3, <1>6, KontoTyp DEF KontenOK, Salden
  <2>1. /\ konten[a].wal <= Kopf /\ db.konten[a].wal <= Kopf /\ konten[a].wal \in Nat /\ db.konten[a].wal \in Nat
        /\ db.konten[a].wirkt[u] <= konten[a].wirkt[u] /\ konten[a].wirkt[u] <= 1
        /\ konten[a].wirkt[u] = 1 => u \in InKraft /\ a \in Beide(u)
        /\ konten[a].wirkt[u] \in Nat /\ db.konten[a].wirkt[u] \in Nat
    BY KontoTyp DEF Salden, KontenOK
  <2>2. CASE a \notin Beide(t)
    BY <1>1, <1>2, <1>3, <1>6, <2>1, <2>2
  <2>3. CASE a \in Beide(t)
    BY <1>1, <1>2, <1>3, <1>6, <1>7, <2>1, <2>3
  <2>4. QED BY <2>2, <2>3
<1>9. LiveOK'
  <2> SUFFICES ASSUME Laeuft', NEW r \in Nachspielbar', NEW a \in Beide(r.tx)
               PROVE  konten'[a].wirkt[r.tx] = 1 /\ r.seq <= konten'[a].wal
    BY DEF LiveOK
  <2>1. r \in wal.saetze \cup {e} /\ r.seq > db.boden
    BY <1>1 DEF Nachspielbar
  <2>2. CASE r = e
    <3>1. a \in Konten /\ a \in Beide(t)
      BY <1>2, <2>2, BeideKonten
    <3>2. QED BY <1>2, <1>6, <1>7, <2>2, <3>1
  <2>3. CASE r # e
    <3>1. r \in Nachspielbar /\ r \in wal.saetze /\ r.tx \in Auftraege /\ r.tx # t /\ r.seq \in Nat /\ r.seq <= Kopf
      BY <1>3, <2>1, <2>3, SatzTyp DEF Nachspielbar, Salden, LogOK, Nummern, SatzNummern
    <3>2. a \in Konten /\ konten[a].wirkt[r.tx] = 1 /\ r.seq <= konten[a].wal
      BY <1>3, <3>1, BeideKonten DEF Salden, LiveOK
    <3>3. QED BY <1>2, <1>6, <3>1, <3>2
  <2>4. QED BY <2>2, <2>3
<1>10. NonceOK'
  <2> SUFFICES ASSUME NEW u \in Auftraege, Nonce[u] > 0
               PROVE  /\ konten'[Von[u]].wirkt[u] = 1 => konten'[Von[u]].nonce > Nonce[u]
                      /\ db'.konten[Von[u]].wirkt[u] = 1 => db'.konten[Von[u]].nonce > Nonce[u]
    BY DEF NonceOK
  <2>1. /\ konten[Von[u]].wirkt[u] = 1 => konten[Von[u]].nonce > Nonce[u]
        /\ db.konten[Von[u]].wirkt[u] = 1 => db.konten[Von[u]].nonce > Nonce[u]
    BY DEF Salden, NonceOK
  <2>2. Von[u] \in Konten /\ Von[u] \in Beide(u) /\ Nonce[u] \in Nat
    BY BeideKonten
  <2>3. konten'[Von[u]].nonce \in Nat /\ konten[Von[u]].nonce \in Nat
    BY <2>2, TypAnhaengen, KontoTyp DEF Typ, Konto
  <2>4. CASE u = t
    BY <1>1, <1>6, <2>1, <2>2, <2>4
  <2>5. CASE u # t
    BY <1>1, <1>6, <2>1, <2>2, <2>3, <2>5
  <2>6. QED BY <2>4, <2>5
<1>11. SeqSagtSaldo'
  <2> SUFFICES ASSUME NEW a \in Konten, NEW r \in wal'.saetze, a \in Beide(r.tx), r.seq > db'.boden
               PROVE  db'.konten[a].wirkt[r.tx] = 1 <=> r.seq <= db'.konten[a].wal
    BY DEF SeqSagtSaldo
  <2>1. CASE r = e
    <3>1. db.konten[a].wal <= Kopf /\ db.konten[a].wal \in Nat
      BY KontoTyp DEF Salden, KontenOK
    <3>2. QED BY <1>1, <1>2, <1>7, <2>1, <3>1
  <2>2. CASE r # e
    BY <1>1, <2>2 DEF Salden, SeqSagtSaldo
  <2>3. QED BY <2>1, <2>2
<1>12. QED BY <1>4, <1>5, <1>8, <1>9, <1>10, <1>11 DEF Salden

\* A flushed account is either as it was or as it is in memory.
LEMMA FlushWirkt ==
  ASSUME Typ, Nummern, NEW b \in laufend, NEW G \in SUBSET b.offen, FlushSchreibt(b, G)
  PROVE  \A a \in Konten :
           \/ db'.konten[a] = db.konten[a]
           \/ /\ db.konten[a].wal < konten[a].wal /\ db'.konten[a].wirkt = konten[a].wirkt
              /\ db'.konten[a].wal = konten[a].wal /\ db'.konten[a].nonce >= konten[a].nonce
              /\ a \in G
<1> SUFFICES ASSUME NEW a \in Konten, a \in G
             PROVE  \/ db'.konten[a] = db.konten[a]
                    \/ /\ db.konten[a].wal < konten[a].wal /\ db'.konten[a].wirkt = konten[a].wirkt
                       /\ db'.konten[a].wal = konten[a].wal /\ db'.konten[a].nonce >= konten[a].nonce
                       /\ a \in G
  BY FlushSchreibtTut
<1> DEFINE u == Upsert(db.konten[a], konten[a])
<1>1. db'.konten[a] = u
  BY FlushSchreibtTut
<1>2. /\ db.konten[a].wal < konten[a].wal => u.wirkt = konten[a].wirkt /\ u.wal = konten[a].wal /\ u.nonce >= konten[a].nonce
      /\ konten[a].wal <= db.konten[a].wal => u = db.konten[a]
  BY KontoTyp, UpsertTyp
<1> HIDE DEF u
<1>3. QED BY <1>1, <1>2, KontoTyp

\* A flush: a stored account becomes the live one, which has every record it may need.
LEMMA SaldenFlushSchreibt ==
  ASSUME Typ, Nummern, Salden, NEW b \in laufend, NEW G \in SUBSET b.offen, FlushSchreibt(b, G)
  PROVE  Salden'
<1> DEFINE P == OhneZeilen(b)
<1> HIDE DEF P
<1>0. /\ IsFiniteSet(P) /\ \A x \in P : x.seq \in Nat /\ x.tx \in Auftraege
      /\ \A x, y \in P : x.seq = y.seq => x = y
      /\ db'.zeilen = db.zeilen \cup NeueZeilen(P, db.id)
      /\ P \subseteq Offene
  BY FlushSchreibtTut DEF P
<1>1. /\ \A a \in Konten : db'.konten[a] = IF a \in G THEN Upsert(db.konten[a], konten[a]) ELSE db.konten[a]
      /\ db'.boden = db.boden /\ db'.bloecke = db.bloecke
      /\ lauf = "laeuft"
      /\ UNCHANGED <<wal, konten, schlange, korb, schwebend, leert, lauf, kunde>>
  BY FlushSchreibtTut
<1>2. \A z \in NeueZeilen(P, db.id) : \E x \in P : z.tx = x.tx
  <2>1. db.id \in Nat
    BY DEF Typ, DbTyp
  <2>2. QED BY <1>0, <2>1, NeueZeilenIst
<1>3. Kopf' = Kopf /\ InKraft' = InKraft /\ Laeuft' = Laeuft /\ Laeuft /\ Nachspielbar' = Nachspielbar
  BY <1>1 DEF Kopf, InKraft, Laeuft, Nachspielbar
<1>4. LeertOK' /\ LogOK'
  BY <1>1, <1>3 DEF Salden, LeertOK, LogOK
<1>5. WegeOK'
  <2>1. Offene' \subseteq Offene
    BY OffeneSchreibt
  <2>2. Txs(db'.zeilen) \subseteq Txs(db.zeilen) \cup Txs(Offene)
    BY <1>0, <1>2 DEF Txs
  <2>3. Txs(Offene') \subseteq Txs(Offene)
    BY <2>1 DEF Txs
  <2>4. Txs(schwebend') = Txs(schwebend) /\ Txs(korb'.saetze) = Txs(korb.saetze)
    BY <1>1
  <2>5. QED BY <1>1, <1>3, <2>2, <2>3, <2>4 DEF Salden, WegeOK
<1>6. \A a \in Konten :
        \/ db'.konten[a] = db.konten[a]
        \/ /\ db.konten[a].wal < konten[a].wal /\ db'.konten[a].wirkt = konten[a].wirkt
           /\ db'.konten[a].wal = konten[a].wal /\ db'.konten[a].nonce >= konten[a].nonce
  BY FlushWirkt
<1>7. KontenOK'
  <2> SUFFICES ASSUME NEW a \in Konten
               PROVE  /\ konten'[a].wal <= Kopf' /\ db'.konten[a].wal <= Kopf'
                      /\ \A t \in Auftraege :
                          /\ db'.konten[a].wirkt[t] <= konten'[a].wirkt[t] /\ konten'[a].wirkt[t] <= 1
                          /\ konten'[a].wirkt[t] = 1 => t \in InKraft' /\ a \in Beide(t)
    BY DEF KontenOK
  <2>1. /\ konten[a].wal <= Kopf /\ db.konten[a].wal <= Kopf
        /\ \A t \in Auftraege :
            /\ db.konten[a].wirkt[t] <= konten[a].wirkt[t] /\ konten[a].wirkt[t] <= 1
            /\ konten[a].wirkt[t] = 1 => t \in InKraft /\ a \in Beide(t)
    BY DEF Salden, KontenOK
  <2>2. \A t \in Auftraege : konten[a].wirkt[t] <= konten[a].wirkt[t]
    BY KontoTyp
  <2>3. QED BY <1>1, <1>3, <1>6, <2>1, <2>2
<1>8. LiveOK'
  BY <1>1, <1>3 DEF Salden, LiveOK
<1>9. NonceOK'
  <2> SUFFICES ASSUME NEW u \in Auftraege, Nonce[u] > 0
               PROVE  /\ konten'[Von[u]].wirkt[u] = 1 => konten'[Von[u]].nonce > Nonce[u]
                      /\ db'.konten[Von[u]].wirkt[u] = 1 => db'.konten[Von[u]].nonce > Nonce[u]
    BY DEF NonceOK
  <2>1. /\ konten[Von[u]].wirkt[u] = 1 => konten[Von[u]].nonce > Nonce[u]
        /\ db.konten[Von[u]].wirkt[u] = 1 => db.konten[Von[u]].nonce > Nonce[u]
    BY DEF Salden, NonceOK
  <2>2. Von[u] \in Konten /\ Nonce[u] \in Nat
    BY BeideKonten
  <2>3. konten[Von[u]].nonce \in Nat /\ db'.konten[Von[u]].nonce \in Nat
    BY <2>2, TypFlushSchreibt, KontoTyp DEF Typ, DbTyp, Konto
  <2>4. QED BY <1>1, <1>6, <2>1, <2>2, <2>3
<1>10. SeqSagtSaldo'
  <2> SUFFICES ASSUME NEW a \in Konten, NEW r \in wal.saetze, a \in Beide(r.tx), r.seq > db.boden
               PROVE  db'.konten[a].wirkt[r.tx] = 1 <=> r.seq <= db'.konten[a].wal
    BY <1>1 DEF SeqSagtSaldo
  <2>1. db.konten[a].wirkt[r.tx] = 1 <=> r.seq <= db.konten[a].wal
    BY DEF Salden, SeqSagtSaldo
  <2>2. konten[a].wirkt[r.tx] = 1 /\ r.seq <= konten[a].wal
    BY <1>3 DEF Salden, LiveOK, Nachspielbar
  <2>3. QED BY <1>6, <2>1, <2>2
<1>11. QED BY <1>4, <1>5, <1>7, <1>8, <1>9, <1>10 DEF Salden

\* The accounts after the serial path.
LEMMA SeriellWirkt ==
  ASSUME Typ, NEW t \in leert, SeriellBucht(t)
  PROVE  /\ \A a \in Konten \ Beide(t) : konten'[a] = konten[a] /\ db'.konten[a] = db.konten[a]
         /\ \A a \in Beide(t) :
              /\ konten'[a].wirkt[t] = konten[a].wirkt[t] + 1
              /\ \A u \in Auftraege \ {t} : konten'[a].wirkt[u] = konten[a].wirkt[u]
              /\ konten'[a].wal = konten[a].wal
              /\ konten'[a].nonce >= konten[a].nonce
              /\ a = Von[t] /\ Nonce[t] > 0 => konten'[a].nonce > Nonce[t]
              /\ db'.konten[a].wirkt = konten'[a].wirkt
              /\ db'.konten[a].wal \in {db.konten[a].wal, konten[a].wal}
              /\ db'.konten[a].wal >= konten[a].wal
              /\ db'.konten[a].wal >= db.konten[a].wal
              /\ db'.konten[a].nonce >= konten'[a].nonce
<1>1. /\ konten' = NachBuchung(konten, t, 0) /\ konten' \in [Konten -> Konto]
      /\ db'.konten = [a \in Konten |-> IF a \in Beide(t) THEN Gespeichert(db.konten[a], konten'[a]) ELSE db.konten[a]]
      /\ t \in Auftraege
  BY SeriellBuchtTut
<1>2. /\ \A a \in Konten \ Beide(t) : konten'[a] = konten[a]
      /\ \A a \in Beide(t) :
           /\ konten'[a].wirkt[t] = konten[a].wirkt[t] + 1
           /\ \A u \in Auftraege \ {t} : konten'[a].wirkt[u] = konten[a].wirkt[u]
           /\ konten'[a].wal = konten[a].wal
           /\ konten'[a].nonce >= konten[a].nonce
           /\ a = Von[t] /\ Nonce[t] > 0 => konten'[a].nonce > Nonce[t]
  <2>1. 0 \in Nat /\ konten \in [Konten -> Konto] /\ t \in Auftraege
    BY <1>1 DEF Typ
  <2> DEFINE n == NachBuchung(konten, t, 0)
  <2>2. /\ \A a \in Konten \ Beide(t) : n[a] = konten[a]
        /\ \A a \in Beide(t) :
             /\ n[a].wirkt[t] = konten[a].wirkt[t] + 1
             /\ \A u \in Auftraege \ {t} : n[a].wirkt[u] = konten[a].wirkt[u]
             /\ n[a].wal = konten[a].wal
             /\ n[a].nonce >= konten[a].nonce
             /\ a = Von[t] /\ Nonce[t] > 0 => n[a].nonce > Nonce[t]
    BY <2>1, BuchungTyp
  <2>3. konten' = n
    BY <1>1
  <2> HIDE DEF n
  <2>4. QED BY <2>2, <2>3
<1>3. /\ \A a \in Konten \ Beide(t) : db'.konten[a] = db.konten[a]
      /\ \A a \in Beide(t) :
           /\ db'.konten[a].wirkt = konten'[a].wirkt
           /\ db'.konten[a].wal \in {db.konten[a].wal, konten[a].wal}
           /\ db'.konten[a].wal >= konten[a].wal
           /\ db'.konten[a].wal >= db.konten[a].wal
           /\ db'.konten[a].nonce >= konten'[a].nonce
  <2>1. \A a \in Konten \ Beide(t) : db'.konten[a] = db.konten[a]
    BY <1>1
  <2>2. ASSUME NEW a \in Beide(t)
        PROVE  /\ db'.konten[a].wirkt = konten'[a].wirkt
               /\ db'.konten[a].wal \in {db.konten[a].wal, konten[a].wal}
               /\ db'.konten[a].wal >= konten[a].wal
               /\ db'.konten[a].wal >= db.konten[a].wal
               /\ db'.konten[a].nonce >= konten'[a].nonce
    <3> DEFINE g == Gespeichert(db.konten[a], konten'[a])
    <3>1. a \in Konten /\ db'.konten[a] = g
      BY <1>1, BeideKonten
    <3>2. konten'[a] \in Konto /\ db.konten[a] \in Konto
      BY <1>1, <3>1, KontoTyp
    <3>3. /\ g.wirkt = konten'[a].wirkt /\ g.wal \in {db.konten[a].wal, konten'[a].wal}
          /\ g.wal >= db.konten[a].wal /\ g.wal >= konten'[a].wal /\ g.nonce >= konten'[a].nonce
      BY <3>2, GespeichertTyp
    <3> HIDE DEF g
    <3>4. QED BY <1>2, <3>1, <3>3
  <2>3. QED BY <2>1, <2>2
<1>4. QED BY <1>2, <1>3

\* A serial transfer: the stored wal_seq is that of the live balance, never a lower one.
LEMMA SaldenSeriellBucht ==
  ASSUME Typ, Nummern, Salden, NEW t \in leert, SeriellBucht(t)
  PROVE  Salden'
<1> DEFINE z == [seq |-> wal.naechste, id |-> db.id + 1, tx |-> t]
<1>1. /\ konten' = NachBuchung(konten, t, 0) /\ konten' \in [Konten -> Konto]
      /\ db'.konten = [a \in Konten |-> IF a \in Beide(t) THEN Gespeichert(db.konten[a], konten'[a]) ELSE db.konten[a]]
      /\ db'.boden = db.boden /\ db'.bloecke = db.bloecke /\ db'.zeilen = db.zeilen \cup {z}
      /\ leert' = leert \ {t} /\ kunde'.gestellt = kunde.gestellt
      /\ lauf = "laeuft" /\ t \in Auftraege
      /\ UNCHANGED <<wal, schlange, laufend, korb, schwebend, lauf>>
  BY SeriellBuchtTut
<1>2. z.tx = t
  OBVIOUS
<1> HIDE DEF z
<1>3. /\ Kopf' = Kopf /\ InKraft' = InKraft \cup {t} /\ t \notin InKraft /\ Laeuft' = Laeuft /\ Laeuft
      /\ Nachspielbar' = Nachspielbar /\ Offene' = Offene
  BY <1>1 DEF Kopf, InKraft, Laeuft, Nachspielbar, Offene, Salden, LeertOK
<1>4. LeertOK' /\ LogOK'
  BY <1>1, <1>3 DEF Salden, LeertOK, LogOK
<1>5. WegeOK'
  BY <1>1, <1>2, <1>3 DEF Salden, WegeOK, Txs
<1>6. /\ \A a \in Konten \ Beide(t) : konten'[a] = konten[a]
      /\ \A a \in Beide(t) :
           /\ konten'[a].wirkt[t] = konten[a].wirkt[t] + 1
           /\ \A u \in Auftraege \ {t} : konten'[a].wirkt[u] = konten[a].wirkt[u]
           /\ konten'[a].wal = konten[a].wal
           /\ konten'[a].nonce >= konten[a].nonce
           /\ a = Von[t] /\ Nonce[t] > 0 => konten'[a].nonce > Nonce[t]
  BY SeriellWirkt
<1>7. \A a \in Konten : konten[a].wirkt[t] = 0 /\ db.konten[a].wirkt[t] = 0
  <2> SUFFICES ASSUME NEW a \in Konten PROVE konten[a].wirkt[t] = 0 /\ db.konten[a].wirkt[t] = 0
    OBVIOUS
  <2>1. t \in Auftraege /\ t \notin InKraft
    BY <1>1, <1>3
  <2>2. konten[a].wirkt[t] \in Nat /\ db.konten[a].wirkt[t] \in Nat
    BY <2>1, KontoTyp
  <2>3. db.konten[a].wirkt[t] <= konten[a].wirkt[t] /\ konten[a].wirkt[t] <= 1 /\ konten[a].wirkt[t] # 1
    BY <2>1 DEF Salden, KontenOK
  <2>4. QED BY <2>2, <2>3
<1>8. Typ' /\ \A a \in Konten : konten'[a].nonce \in Nat /\ db'.konten[a].nonce \in Nat
                                /\ \A u \in Auftraege : konten'[a].wirkt[u] \in Nat
  <2>1. Typ'
    BY <1>1, TypSeriell
  <2>2. \A a \in Konten : konten'[a] \in Konto /\ db'.konten[a] \in Konto
    BY <2>1 DEF Typ, DbTyp
  <2>3. QED BY <2>1, <2>2 DEF Konto
<1>9. /\ \A a \in Konten \ Beide(t) : db'.konten[a] = db.konten[a]
      /\ \A a \in Beide(t) :
           /\ db'.konten[a].wirkt = konten'[a].wirkt
           /\ db'.konten[a].wal \in {db.konten[a].wal, konten[a].wal}
           /\ db'.konten[a].wal >= konten[a].wal
           /\ db'.konten[a].wal >= db.konten[a].wal
           /\ db'.konten[a].nonce >= konten'[a].nonce
  BY SeriellWirkt
<1>10. KontenOK'
  <2> SUFFICES ASSUME NEW a \in Konten, NEW u \in Auftraege
               PROVE  /\ konten'[a].wal <= Kopf' /\ db'.konten[a].wal <= Kopf'
                      /\ db'.konten[a].wirkt[u] <= konten'[a].wirkt[u] /\ konten'[a].wirkt[u] <= 1
                      /\ konten'[a].wirkt[u] = 1 => u \in InKraft' /\ a \in Beide(u)
    BY <1>1 DEF KontenOK
  <2>1. /\ konten[a].wal <= Kopf /\ db.konten[a].wal <= Kopf /\ konten[a].wal \in Nat /\ db.konten[a].wal \in Nat
        /\ db.konten[a].wirkt[u] <= konten[a].wirkt[u] /\ konten[a].wirkt[u] <= 1
        /\ konten[a].wirkt[u] = 1 => u \in InKraft /\ a \in Beide(u)
        /\ konten[a].wirkt[u] \in Nat /\ db.konten[a].wirkt[u] \in Nat
    BY KontoTyp DEF Salden, KontenOK
  <2>2. CASE a \notin Beide(t)
    BY <1>1, <1>3, <1>6, <1>9, <2>1, <2>2
  <2>3. CASE a \in Beide(t)
    <3>1. konten'[a].wirkt[u] \in Nat /\ db'.konten[a].wirkt[u] = konten'[a].wirkt[u]
      BY <1>8, <1>9, <2>3
    <3>2. konten'[a].wal <= Kopf' /\ db'.konten[a].wal <= Kopf'
      BY <1>3, <1>6, <1>9, <2>1, <2>3
    <3>3. konten'[a].wirkt[u] <= 1 /\ (konten'[a].wirkt[u] = 1 => u \in InKraft' /\ a \in Beide(u))
      BY <1>3, <1>6, <1>7, <2>1, <2>3
    <3>4. QED BY <3>1, <3>2, <3>3
  <2>4. QED BY <2>2, <2>3
<1>11. LiveOK'
  <2> SUFFICES ASSUME NEW r \in Nachspielbar, NEW a \in Beide(r.tx)
               PROVE  konten'[a].wirkt[r.tx] = 1 /\ r.seq <= konten'[a].wal
    BY <1>3 DEF LiveOK
  <2>1. r \in wal.saetze /\ r.tx \in Auftraege /\ r.tx # t
    BY <1>3, SatzTyp DEF Nachspielbar, Salden, LogOK
  <2>2. a \in Konten /\ konten[a].wirkt[r.tx] = 1 /\ r.seq <= konten[a].wal
    BY <1>3, <2>1, BeideKonten DEF Salden, LiveOK
  <2>3. QED BY <1>6, <2>1, <2>2
<1>12. NonceOK'
  <2> SUFFICES ASSUME NEW u \in Auftraege, Nonce[u] > 0
               PROVE  /\ konten'[Von[u]].wirkt[u] = 1 => konten'[Von[u]].nonce > Nonce[u]
                      /\ db'.konten[Von[u]].wirkt[u] = 1 => db'.konten[Von[u]].nonce > Nonce[u]
    BY DEF NonceOK
  <2>1. /\ konten[Von[u]].wirkt[u] = 1 => konten[Von[u]].nonce > Nonce[u]
        /\ db.konten[Von[u]].wirkt[u] = 1 => db.konten[Von[u]].nonce > Nonce[u]
    BY DEF Salden, NonceOK
  <2>2. Von[u] \in Konten /\ Von[u] \in Beide(u) /\ Nonce[u] \in Nat
    BY BeideKonten
  <2>3. konten'[Von[u]].nonce \in Nat /\ konten[Von[u]].nonce \in Nat /\ db'.konten[Von[u]].nonce \in Nat
    BY <1>8, <2>2, KontoTyp
  <2>4. konten'[Von[u]].wirkt[u] = 1 => konten'[Von[u]].nonce > Nonce[u]
    <3>1. CASE u = t
      BY <1>6, <2>2, <3>1
    <3>2. CASE u # t
      BY <1>6, <2>1, <2>2, <2>3, <3>2
    <3>3. QED BY <3>1, <3>2
  <2>5. QED BY <1>9, <2>1, <2>2, <2>3, <2>4
<1>13. SeqSagtSaldo'
  <2> SUFFICES ASSUME NEW a \in Konten, NEW r \in wal.saetze, a \in Beide(r.tx), r.seq > db.boden
               PROVE  db'.konten[a].wirkt[r.tx] = 1 <=> r.seq <= db'.konten[a].wal
    BY <1>1 DEF SeqSagtSaldo
  <2>1. db.konten[a].wirkt[r.tx] = 1 <=> r.seq <= db.konten[a].wal
    BY DEF Salden, SeqSagtSaldo
  <2>2. CASE a \notin Beide(t)
    BY <1>9, <2>1, <2>2
  <2>3. CASE a \in Beide(t)
    <3>1. r \in Nachspielbar /\ r.tx # t /\ r.tx \in Auftraege /\ r.seq \in Nat
      BY <1>3, SatzTyp DEF Nachspielbar, Salden, LogOK
    <3>2. konten[a].wirkt[r.tx] = 1 /\ r.seq <= konten[a].wal
      BY <1>3, <3>1 DEF Salden, LiveOK
    <3>3. konten[a].wal \in Nat /\ db.konten[a].wal \in Nat
      BY KontoTyp
    <3>4. db'.konten[a].wirkt[r.tx] = 1
      BY <1>6, <1>9, <2>3, <3>1, <3>2
    <3>5. r.seq <= db'.konten[a].wal
      BY <1>9, <2>3, <3>1, <3>2, <3>3
    <3>6. QED BY <3>4, <3>5
  <2>4. QED BY <2>2, <2>3
<1>14. QED BY <1>4, <1>5, <1>10, <1>11, <1>12, <1>13 DEF Salden

\* A crash: the live balances become the stored ones.
LEMMA SaldenAbsturz ==
  ASSUME Typ, Salden, NEW bis, Absturz(bis)
  PROVE  Salden'
<1>1. /\ wal'.saetze \subseteq wal.saetze /\ wal'.naechste = wal.naechste
      /\ konten' = db.konten /\ laufend' = {} /\ schwebend' = {} /\ leert' = {} /\ lauf' = "aus"
      /\ korb'.saetze = {} /\ ToSet(schlange') = {} /\ UNCHANGED <<db, kunde>>
  BY AbsturzTut
<1>2. Kopf' = Kopf /\ InKraft \subseteq InKraft' /\ ~Laeuft' /\ Offene' = {}
  BY <1>1 DEF Kopf, InKraft, Laeuft, Offene
<1>3. LeertOK' /\ LogOK'
  BY <1>1, <1>2 DEF Salden, LeertOK, LogOK
<1>4. WegeOK'
  BY <1>1, <1>2 DEF Salden, WegeOK, Txs
<1>5. KontenOK'
  <2> SUFFICES ASSUME NEW a \in Konten
               PROVE  /\ db.konten[a].wal <= Kopf
                      /\ \A t \in Auftraege :
                          /\ db.konten[a].wirkt[t] <= db.konten[a].wirkt[t] /\ db.konten[a].wirkt[t] <= 1
                          /\ db.konten[a].wirkt[t] = 1 => t \in InKraft' /\ a \in Beide(t)
    BY <1>1, <1>2 DEF KontenOK
  <2>1. db.konten[a].wal <= Kopf
    BY DEF Salden, KontenOK
  <2>2. ASSUME NEW t \in Auftraege
        PROVE  /\ db.konten[a].wirkt[t] <= db.konten[a].wirkt[t] /\ db.konten[a].wirkt[t] <= 1
               /\ db.konten[a].wirkt[t] = 1 => t \in InKraft' /\ a \in Beide(t)
    <3>1. db.konten[a].wirkt[t] \in Nat /\ konten[a].wirkt[t] \in Nat
      BY KontoTyp
    <3>2. /\ db.konten[a].wirkt[t] <= konten[a].wirkt[t] /\ konten[a].wirkt[t] <= 1
          /\ konten[a].wirkt[t] = 1 => t \in InKraft /\ a \in Beide(t)
      BY DEF Salden, KontenOK
    <3>3. QED BY <1>2, <3>1, <3>2
  <2>3. QED BY <2>1, <2>2
<1>6. LiveOK'
  BY <1>2 DEF LiveOK
<1>7. NonceOK'
  BY <1>1 DEF Salden, NonceOK
<1>8. SeqSagtSaldo'
  BY <1>1 DEF Salden, SeqSagtSaldo
<1>9. QED BY <1>3, <1>4, <1>5, <1>6, <1>7, <1>8 DEF Salden

\* The replay gives an account what it lacks, once.
LEMMA NachgespieltWirkt ==
  ASSUME Typ, Nummern, Salden, NEW a \in Konten, NEW t \in Auftraege
  PROVE  /\ (\E r \in Fehlende(a) : r.tx = t) =>
                Nachgespielt(a).wirkt[t] = 1 /\ db.konten[a].wirkt[t] = 0 /\ t \in InKraft /\ a \in Beide(t)
         /\ (\A r \in Fehlende(a) : r.tx # t) => Nachgespielt(a).wirkt[t] = db.konten[a].wirkt[t]
<1>1. Nachgespielt(a).wirkt[t] = db.konten[a].wirkt[t] + Cardinality({r \in Fehlende(a) : r.tx = t})
  BY NachgespieltTyp
<1>2. db.konten[a].wirkt[t] \in Nat /\ konten[a].wirkt[t] \in Nat
      /\ db.konten[a].wirkt[t] <= konten[a].wirkt[t] /\ konten[a].wirkt[t] <= 1
  BY KontoTyp DEF Salden, KontenOK
<1>3. ASSUME NEW r \in Fehlende(a), r.tx = t
      PROVE  Nachgespielt(a).wirkt[t] = 1 /\ db.konten[a].wirkt[t] = 0 /\ t \in InKraft /\ a \in Beide(t)
  <2>1. r \in wal.saetze /\ a \in Beide(r.tx) /\ r.seq > db.konten[a].wal /\ r.seq > db.boden
    BY DEF Fehlende, Nachspielbar
  <2>2. db.konten[a].wirkt[t] = 0
    <3>1. db.konten[a].wirkt[t] = 1 <=> r.seq <= db.konten[a].wal
      BY <1>3, <2>1 DEF Salden, SeqSagtSaldo
    <3>2. r.seq \in Nat /\ db.konten[a].wal \in Nat
      BY <2>1, SatzTyp, KontoTyp
    <3>3. QED BY <1>2, <2>1, <3>1, <3>2
  <2>3. {s \in Fehlende(a) : s.tx = t} = {r}
    <3>1. \A s \in Fehlende(a) : s.tx = t => s = r
      BY <1>3, <2>1 DEF Fehlende, Nachspielbar, Salden, LogOK
    <3>2. QED BY <1>3, <3>1
  <2>4. Cardinality({s \in Fehlende(a) : s.tx = t}) = 1
    BY <2>3, FS_Singleton
  <2>5. t \in InKraft
    BY <1>3, <2>1 DEF Salden, LogOK
  <2>6. QED BY <1>1, <1>3, <2>1, <2>2, <2>4, <2>5
<1>4. ASSUME \A r \in Fehlende(a) : r.tx # t
      PROVE  Nachgespielt(a).wirkt[t] = db.konten[a].wirkt[t]
  <2>1. {r \in Fehlende(a) : r.tx = t} = {}
    BY <1>4
  <2>2. Cardinality({r \in Fehlende(a) : r.tx = t}) = 0
    BY <2>1, FS_EmptySet
  <2>3. QED BY <1>1, <1>2, <2>2
<1>5. QED BY <1>3, <1>4

\* The replay: what the log has and the stored wal_seq lacks, once.
LEMMA SaldenEinspielen ==
  ASSUME Typ, Nummern, Salden, NEW an \in BOOLEAN, Einspielen(an)
  PROVE  Salden'
<1>1. CASE ~StimmigMitDatei(PeekNachStart)
  <2>1. lauf' = "verweigert" /\ UNCHANGED <<wal, konten, db, schlange, laufend, korb, schwebend, leert, kunde>>
    BY <1>1, VerweigertTut
  <2>2. Kopf' = Kopf /\ Offene' = Offene /\ InKraft' = InKraft /\ ~Laeuft'
    BY <2>1 DEF Kopf, Offene, InKraft, Laeuft
  <2>3. WegeOK' /\ LeertOK'
    BY <2>1, <2>2 DEF Salden, WegeOK, Txs, LeertOK
  <2>4. QED BY <2>1, <2>2, <2>3, SaldenRuhig
<1>2. CASE StimmigMitDatei(PeekNachStart)
  <2> DEFINE peek == PeekNachStart
             S == Nachzuholen(an)
             q == NachgespielteSchlange(an)
             d == Nachholen(an)
  <2>1. /\ lauf = "aus" /\ wal'.saetze = wal.saetze /\ Kopf' = peek - 1
        /\ \A a \in Konten : konten'[a] = Nachgespielt(a)
        /\ schlange' = q /\ db' = d /\ korb'.saetze \subseteq wal.saetze
        /\ UNCHANGED <<laufend, schwebend, leert, kunde>>
    BY <1>2, EinspielenTut
  <2>2. peek \in Nat \ {0} /\ \A r \in wal.saetze : r.seq < peek
    BY PeekIst
  <2>3. \A a \in Konten : db.konten[a].wal < peek
    BY <1>2 DEF StimmigMitDatei
  <2>4. /\ S \subseteq Nachspielbar /\ IsFiniteSet(S) /\ \A x \in S : x.seq \in Nat /\ x.tx \in Auftraege
        /\ \A x, y \in S : x.seq = y.seq => x = y
        /\ d.konten = db.konten /\ d.boden = db.boden /\ d.bloecke = db.bloecke
        /\ d.zeilen = db.zeilen \cup NeueZeilen(S, db.id)
    BY NachholenTyp
  <2>5. \A z \in NeueZeilen(S, db.id) : \E x \in S : z.tx = x.tx
    <3>1. db.id \in Nat
      BY DEF Typ, DbTyp
    <3> HIDE DEF S
    <3>2. QED BY <2>4, <3>1, NeueZeilenIst
  <2>6. \A p \in ToSet(q) : \E r \in Nachspielbar : p.tx = r.tx
    BY NachgespielteSchlangeIst
  <2> HIDE DEF peek, S, q, d
  <2>7. InKraft' = InKraft /\ laufend' = {} /\ schwebend' = {} /\ Offene' = ToSet(q)
    BY <2>1 DEF InKraft, Nummern, Ruhe, Offene
  <2>8. Nachspielbar' = Nachspielbar /\ Nachspielbar \subseteq wal.saetze
    BY <2>1, <2>4 DEF Nachspielbar
  <2>9. LeertOK' /\ LogOK'
    BY <2>1, <2>7 DEF Salden, LeertOK, LogOK
  <2>10. WegeOK'
    <3>1. Txs(wal.saetze) \subseteq InKraft
      BY DEF Txs, Salden, LogOK
    <3>2. Txs(ToSet(q)) \subseteq Txs(wal.saetze)
      BY <2>6, <2>8 DEF Txs
    <3>3. Txs(db'.zeilen) \subseteq Txs(db.zeilen) \cup Txs(wal.saetze)
      BY <2>1, <2>4, <2>5, <2>8 DEF Txs
    <3>4. Txs(korb'.saetze) \subseteq Txs(wal.saetze)
      BY <2>1 DEF Txs
    <3>5. Txs(schwebend') = {}
      BY <2>7 DEF Txs
    <3>6. QED BY <2>1, <2>4, <2>7, <3>1, <3>2, <3>3, <3>4, <3>5 DEF Salden, WegeOK
  <2>11. \A a \in Konten : db'.konten[a] = db.konten[a]
    BY <2>1, <2>4
  <2>12. KontenOK'
    <3> SUFFICES ASSUME NEW a \in Konten
                 PROVE  /\ konten'[a].wal <= Kopf' /\ db'.konten[a].wal <= Kopf'
                        /\ \A t \in Auftraege :
                            /\ db'.konten[a].wirkt[t] <= konten'[a].wirkt[t] /\ konten'[a].wirkt[t] <= 1
                            /\ konten'[a].wirkt[t] = 1 => t \in InKraft' /\ a \in Beide(t)
      BY DEF KontenOK
    <3>1. konten'[a].wal <= Kopf' /\ db'.konten[a].wal <= Kopf'
      <4>1. Nachgespielt(a).wal \in {db.konten[a].wal} \cup Seqs(Fehlende(a))
        BY NachgespieltTyp
      <4>2. \A r \in Fehlende(a) : r.seq < peek /\ r.seq \in Nat
        BY <2>2, SatzTyp DEF Fehlende, Nachspielbar
      <4>3. db.konten[a].wal \in Nat /\ db.konten[a].wal < peek
        BY <2>3, KontoTyp
      <4>4. Nachgespielt(a).wal \in Nat /\ Nachgespielt(a).wal < peek
        BY <4>1, <4>2, <4>3 DEF Seqs
      <4>5. QED BY <2>1, <2>2, <2>11, <4>3, <4>4
    <3>2. ASSUME NEW t \in Auftraege
          PROVE  /\ db'.konten[a].wirkt[t] <= konten'[a].wirkt[t] /\ konten'[a].wirkt[t] <= 1
                 /\ konten'[a].wirkt[t] = 1 => t \in InKraft' /\ a \in Beide(t)
      <4>1. /\ (\E r \in Fehlende(a) : r.tx = t) =>
                  konten'[a].wirkt[t] = 1 /\ db.konten[a].wirkt[t] = 0 /\ t \in InKraft /\ a \in Beide(t)
            /\ (\A r \in Fehlende(a) : r.tx # t) => konten'[a].wirkt[t] = db.konten[a].wirkt[t]
        BY <2>1, NachgespieltWirkt
      <4>2. /\ db.konten[a].wirkt[t] \in Nat /\ konten[a].wirkt[t] \in Nat
            /\ db.konten[a].wirkt[t] <= konten[a].wirkt[t] /\ konten[a].wirkt[t] <= 1
            /\ konten[a].wirkt[t] = 1 => t \in InKraft /\ a \in Beide(t)
        BY KontoTyp DEF Salden, KontenOK
      <4>3. CASE \E r \in Fehlende(a) : r.tx = t
        BY <2>7, <2>11, <4>1, <4>3
      <4>4. CASE \A r \in Fehlende(a) : r.tx # t
        BY <2>7, <2>11, <4>1, <4>2, <4>4
      <4>5. QED BY <4>3, <4>4
    <3>3. QED BY <3>1, <3>2
  <2>13. LiveOK'
    <3> SUFFICES ASSUME NEW r \in Nachspielbar, NEW a \in Beide(r.tx)
                 PROVE  konten'[a].wirkt[r.tx] = 1 /\ r.seq <= konten'[a].wal
      BY <2>8 DEF LiveOK
    <3>1. r \in wal.saetze /\ r.tx \in Auftraege /\ r.seq \in Nat /\ a \in Konten
      BY <2>8, SatzTyp, BeideKonten
    <3>2. db.konten[a].wal \in Nat /\ Nachgespielt(a).wal \in Nat
      BY <3>1, KontoTyp, NachgespieltTyp DEF Konto
    <3>3. CASE r.seq > db.konten[a].wal
      <4>1. r \in Fehlende(a)
        BY <3>3 DEF Fehlende
      <4>2. QED BY <2>1, <3>1, <4>1, NachgespieltWirkt, NachgespieltTyp
    <3>4. CASE r.seq <= db.konten[a].wal
      <4>1. \A s \in Fehlende(a) : s.tx # r.tx
        <5>1. \A s \in Fehlende(a) : s \in wal.saetze /\ s.seq > db.konten[a].wal
          BY <2>8 DEF Fehlende
        <5>2. \A s \in Fehlende(a) : s # r
          BY <3>1, <3>2, <3>4, <5>1
        <5>3. QED BY <3>1, <5>1, <5>2 DEF Salden, LogOK
      <4>2. db.konten[a].wirkt[r.tx] = 1
        BY <3>1, <3>4 DEF Salden, SeqSagtSaldo, Nachspielbar
      <4>3. konten'[a].wirkt[r.tx] = 1
        BY <2>1, <3>1, <4>1, <4>2, NachgespieltWirkt
      <4>4. Nachgespielt(a).wal >= db.konten[a].wal
        BY <3>1, NachgespieltTyp
      <4>5. QED BY <2>1, <3>1, <3>2, <3>4, <4>3, <4>4
    <3>5. QED BY <3>1, <3>2, <3>3, <3>4
  <2>14. NonceOK'
    <3> SUFFICES ASSUME NEW u \in Auftraege, Nonce[u] > 0
                 PROVE  /\ konten'[Von[u]].wirkt[u] = 1 => konten'[Von[u]].nonce > Nonce[u]
                        /\ db'.konten[Von[u]].wirkt[u] = 1 => db'.konten[Von[u]].nonce > Nonce[u]
      BY DEF NonceOK
    <3> DEFINE a == Von[u]
    <3>1. a \in Konten /\ Nonce[u] \in Nat
      BY BeideKonten
    <3> HIDE DEF a
    <3>2. db.konten[a].wirkt[u] = 1 => db.konten[a].nonce > Nonce[u]
      BY DEF Salden, NonceOK, a
    <3>3. /\ Nachgespielt(a).nonce >= db.konten[a].nonce
          /\ \A r \in Nachspielbar : Von[r.tx] = a /\ Nonce[r.tx] > 0 => Nachgespielt(a).nonce > Nonce[r.tx]
          /\ Nachgespielt(a).nonce \in Nat /\ db.konten[a].nonce \in Nat
      BY <3>1, NachgespieltTyp, KontoTyp DEF Konto
    <3>4. konten'[a].wirkt[u] = 1 => konten'[a].nonce > Nonce[u]
      <4>1. CASE \E r \in Fehlende(a) : r.tx = u
        BY <2>1, <3>1, <3>3, <4>1 DEF a, Fehlende
      <4>2. CASE \A r \in Fehlende(a) : r.tx # u
        BY <2>1, <3>1, <3>2, <3>3, <4>2, NachgespieltWirkt
      <4>3. QED BY <4>1, <4>2
    <3>5. QED BY <2>11, <3>1, <3>2, <3>4 DEF a
  <2>15. SeqSagtSaldo'
    BY <2>1, <2>4 DEF Salden, SeqSagtSaldo
  <2>16. QED BY <2>9, <2>10, <2>12, <2>13, <2>14, <2>15 DEF Salden
<1>3. QED BY <1>1, <1>2

\* A replacement: nothing above the floor is left to replay.
LEMMA SaldenErsatz ==
  ASSUME Typ, Nummern, Salden, Ersatz(FALSE)
  PROVE  Salden'
<1>1. /\ \A a \in Konten : konten'[a] = AusBloecken(a)
      /\ db'.konten = konten' /\ db'.zeilen = db.zeilen /\ db'.bloecke = db.bloecke
      /\ db'.boden = Kopf /\ kunde'.gestellt = kunde.gestellt
      /\ UNCHANGED <<wal, schlange, laufend, schwebend, leert, korb, lauf>>
  BY ErsatzTut
<1>2. Kopf' = Kopf /\ Kopf \in Nat /\ InKraft' = InKraft /\ Offene' = Offene
  BY <1>1, KopfTyp DEF Kopf, InKraft, Offene
<1>3. LeertOK' /\ LogOK'
  BY <1>1, <1>2 DEF Salden, LeertOK, LogOK
<1>4. WegeOK'
  BY <1>1, <1>2 DEF Salden, WegeOK, Txs
<1>5. \A r \in wal'.saetze : ~(r.seq > db'.boden)
  BY <1>1, <1>2, SatzTyp DEF Nummern, SatzNummern
<1>6. Nachspielbar' = {}
  BY <1>5 DEF Nachspielbar
<1>7. LiveOK' /\ SeqSagtSaldo'
  BY <1>5, <1>6 DEF LiveOK, SeqSagtSaldo
<1>8. ASSUME NEW a \in Konten
      PROVE  /\ konten'[a].wal = 0 /\ konten'[a].nonce \in Nat
             /\ \A t \in Auftraege : konten'[a].wirkt[t] = IF t \in ToSet(db.bloecke) /\ a \in Beide(t) THEN 1 ELSE 0
             /\ \A t \in ToSet(db.bloecke) : Von[t] = a /\ Nonce[t] > 0 => konten'[a].nonce > Nonce[t]
  BY <1>1, AusBloeckenTyp DEF Konto
<1>9. KontenOK'
  <2>1. ToSet(db.bloecke) \subseteq InKraft
    BY DEF Salden, WegeOK
  <2>2. QED BY <1>1, <1>2, <1>8, <2>1 DEF KontenOK
<1>10. NonceOK'
  BY <1>1, <1>8, BeideKonten DEF NonceOK
<1>11. QED BY <1>3, <1>4, <1>7, <1>9, <1>10 DEF Salden

\* At the beginning nothing is in force.
LEMMA SaldenAnfang == Init => Salden
<1> SUFFICES ASSUME Init PROVE Salden
  OBVIOUS
<1>1. wal.saetze = {} /\ Kopf = 0 /\ schlange = <<>> /\ laufend = {} /\ schwebend = {} /\ leert = {}
      /\ korb.saetze = {} /\ db.zeilen = {} /\ db.bloecke = <<>> /\ db.konten = konten
      /\ kunde.gestellt = {}
  BY DEF Init, Kopf
<1>2. \A a \in Konten : konten[a] = LeeresKonto
  BY DEF Init
<1>3. LeeresKonto.wal = 0 /\ \A t \in Auftraege : LeeresKonto.wirkt[t] = 0
  BY DEF LeeresKonto
<1> HIDE DEF LeeresKonto
<1>4. Offene = {} /\ ToSet(db.bloecke) = {}
  BY <1>1 DEF Offene, ToSet
<1>5. LeertOK /\ LogOK /\ SeqSagtSaldo /\ LiveOK
  BY <1>1 DEF LeertOK, LogOK, SeqSagtSaldo, LiveOK, Nachspielbar
<1>6. WegeOK
  BY <1>1, <1>4 DEF WegeOK, Txs
<1>7. KontenOK
  BY <1>1, <1>2, <1>3 DEF KontenOK
<1>8. NonceOK
  BY <1>1, <1>2, <1>3, BeideKonten DEF NonceOK
<1>9. QED BY <1>5, <1>6, <1>7, <1>8 DEF Salden

\* Every step, unless the process may end inside a replacement.
LEMMA SaldenSchritt ==
  ASSUME ~ErsatzUnterbrochen, Typ, Nummern, Salden, [Next]_vars
  PROVE  Salden'
<1>1. CASE UNCHANGED vars
  <2>1. Kopf' = Kopf /\ Offene' = Offene /\ InKraft' = InKraft /\ Laeuft' = Laeuft
    BY <1>1 DEF vars, Kopf, Offene, InKraft, Laeuft
  <2>2. LeertOK' /\ WegeOK'
    BY <1>1, <2>1 DEF vars, Salden, LeertOK, WegeOK, Txs
  <2>3. konten' = konten /\ db' = db /\ wal' = wal
    BY <1>1 DEF vars
  <2>4. QED BY <2>1, <2>2, <2>3, SaldenRuhig
<1>2. CASE \E t \in Auftraege : Anhaengen(t)
  BY <1>2, SaldenAnhaengen
<1>3. CASE \E t \in Auftraege : SeriellBeginnt(t)
  BY <1>3, SaldenWartet
<1>4. CASE \E e \in schwebend : Einreihen(e)
  BY <1>4, SaldenEinreihen
<1>5. CASE \E bis \in 1 .. Kopf : Sichern(bis)
  BY <1>5, SaldenSichern
<1>6. CASE FlushNimmt
  BY <1>6, SaldenFlushNimmt
<1>7. CASE \E b \in laufend : FlushScheitert(b)
  BY <1>7, SaldenFlushNimmt
<1>8. CASE \E b \in laufend : \E G \in SUBSET b.offen : FlushSchreibt(b, G)
  BY <1>8, SaldenFlushSchreibt
<1>9. CASE \E t \in leert : SeriellBucht(t)
  BY <1>9, SaldenSeriellBucht
<1>10. CASE \E t \in leert : SeriellAbgelehnt(t)
  <2>1. leert \subseteq Auftraege
    BY DEF Typ, Auftraege
  <2>2. QED BY <1>10, <2>1, SaldenWartet
<1>11. CASE Block
  BY <1>11, SaldenBlock
<1>12. CASE \E gross \in BOOLEAN : Kuerzen(gross)
  BY <1>12, SaldenKuerzen
<1>13. CASE \E bis \in 0 .. Kopf : Absturz(bis)
  BY <1>13, SaldenAbsturz
<1>14. CASE \E an \in BOOLEAN : Einspielen(an)
  BY <1>14, SaldenEinspielen
<1>15. CASE Anschluss
  BY <1>15, SaldenKuerzen
<1>16. CASE \E u \in BOOLEAN : Ersatz(u)
  <2>1. PICK u \in BOOLEAN : Ersatz(u)
    BY <1>16
  <2>2. u = FALSE
    BY <2>1, ErsatzTut
  <2>3. QED BY <2>1, <2>2, SaldenErsatz
<1>17. QED BY <1>1, <1>2, <1>3, <1>4, <1>5, <1>6, <1>7, <1>8, <1>9, <1>10, <1>11, <1>12, <1>13, <1>14, <1>15, <1>16
       DEF Next

\* The invariant of the balances.
LEMMA SaldenImmer == ASSUME ~ErsatzUnterbrochen PROVE Spec => [](Typ /\ Nummern /\ Salden)
<1>1. Typ /\ Nummern /\ Salden /\ [Next]_vars => Typ' /\ Nummern' /\ Salden'
  BY TypSchritt, SaldenSchritt
<1>2. QED BY <1>1, TypAnfang, SaldenAnfang, PTL DEF Spec

\* A stored wal_seq says which records the stored balance contains (flushWALBatch,
\* saveAccountToDBInnerCtx, recoverFromWAL), if no replacement is interrupted: with an
\* interrupted one it does not hold (wendeResyncSnapshotAn, an observation of the README).
THEOREM SeqSagtSaldoGilt == ASSUME ~ErsatzUnterbrochen PROVE Spec => []SeqSagtSaldo
<1>1. Salden => SeqSagtSaldo
  BY DEF Salden
<1>2. QED BY <1>1, SaldenImmer, PTL

\* While the node runs, the nonce of an order in force is used up (setzeNaechsteNonce,
\* walKontenUpsertSQL, applyFrom): no flush, crash, compaction or replay frees it.
THEOREM NonceVerbrauchtGilt == ASSUME ~ErsatzUnterbrochen PROVE Spec => []NonceVerbraucht
<1>1. ASSUME Typ, Salden, NEW t \in Auftraege, Wirksam(t), Nonce[t] > 0
      PROVE  konten[Von[t]].nonce > Nonce[t]
  <2>1. konten[Von[t]].wirkt[t] \in Nat /\ konten[Von[t]].wirkt[t] <= 1
    BY <1>1, BeideKonten, KontoTyp DEF Salden, KontenOK
  <2>2. konten[Von[t]].wirkt[t] = 1
    BY <1>1, <2>1 DEF Wirksam
  <2>3. QED BY <1>1, <2>2 DEF Salden, NonceOK
<1>2. Typ /\ Salden => NonceVerbraucht
  BY <1>1 DEF NonceVerbraucht
<1>3. QED BY <1>2, SaldenImmer, PTL

\* The first half of NichtDoppelt: no order takes effect on an account twice.
EinmalWirksam ==
  \A a \in Konten, t \in Auftraege : konten[a].wirkt[t] <= 1 /\ db.konten[a].wirkt[t] <= 1

\* EinmalWirksam holds, whatever fails, is replayed or replaced.
THEOREM EinmalWirksamGilt == ASSUME ~ErsatzUnterbrochen PROVE Spec => []EinmalWirksam
<1>1. ASSUME Typ, Salden, NEW a \in Konten, NEW t \in Auftraege
      PROVE  konten[a].wirkt[t] <= 1 /\ db.konten[a].wirkt[t] <= 1
  <2>1. konten[a].wirkt[t] \in Nat /\ db.konten[a].wirkt[t] \in Nat
    BY <1>1, KontoTyp
  <2>2. db.konten[a].wirkt[t] <= konten[a].wirkt[t] /\ konten[a].wirkt[t] <= 1
    BY <1>1 DEF Salden, KontenOK
  <2>3. QED BY <2>1, <2>2
<1>2. Typ /\ Salden => EinmalWirksam
  BY <1>1 DEF EinmalWirksam
<1>3. QED BY <1>2, SaldenImmer, PTL

-----------------------------------------------------------------------------
(***************************************************************************)
(* What is still to be written.                                            *)
(***************************************************************************)
\* The floor lies below the marks and below the next number.
BodenOK == db.boden < db.ab /\ db.boden <= Kopf

\* A floating record comes after all waiting items of its accounts, and floats alone.
VorrangOK ==
  \A e \in schwebend :
    /\ \A p \in Offene : Beide(p.tx) \cap Beide(e.tx) # {} => p.seq <= e.seq
    /\ \A f \in schwebend : Beide(f.tx) \cap Beide(e.tx) # {} => e = f

\* A waiting item that writes account a and stands for a record up to s.
Traeger(a, s) ==
  \/ \E p \in ToSet(schlange) : a \in Beide(p.tx) /\ p.seq <= s
  \/ \E b \in laufend : a \in b.offen /\ \E p \in ToSet(b.posten) : a \in Beide(p.tx) /\ p.seq <= s

\* What an account lacks in the database is carried there.
GetragenOK ==
  Laeuft => \A r \in Nachspielbar : \A a \in Beide(r.tx) :
              r \in schwebend \/ r.seq <= db.konten[a].wal \/ Traeger(a, r.seq)

\* The invariant of what is to be written.
Unterwegs == BodenOK /\ VorrangOK /\ GetragenOK

\* A step that appends nothing and releases nothing.
LEMMA UnterwegsRuhig ==
  ASSUME Typ, Unterwegs, BodenOK', schwebend' = schwebend, Offene' \subseteq Offene, Laeuft' => Laeuft,
         Nachspielbar' \subseteq Nachspielbar,
         \A a \in Konten : db'.konten[a].wal \in Nat /\ db'.konten[a].wal >= db.konten[a].wal,
         ASSUME NEW a \in Konten, NEW r \in Nachspielbar, a \in Beide(r.tx), Laeuft, Traeger(a, r.seq)
         PROVE  Traeger(a, r.seq)' \/ r.seq <= db'.konten[a].wal
  PROVE  Unterwegs'
<1>1. VorrangOK'
  BY DEF Unterwegs, VorrangOK
<1>2. ASSUME Laeuft', NEW r \in Nachspielbar', NEW a \in Beide(r.tx)
      PROVE  r \in schwebend' \/ r.seq <= db'.konten[a].wal \/ Traeger(a, r.seq)'
  <2>1. Laeuft /\ r \in Nachspielbar
    BY <1>2
  <2>2. a \in Konten /\ r.seq \in Nat
    BY <2>1, NachspielTyp
  <2>3. r \in schwebend \/ r.seq <= db.konten[a].wal \/ Traeger(a, r.seq)
    BY <2>1 DEF Unterwegs, GetragenOK
  <2>4. CASE r \in schwebend
    BY <2>4
  <2>5. CASE r.seq <= db.konten[a].wal
    BY <2>2, <2>5, KontoTyp
  <2>6. CASE Traeger(a, r.seq)
    BY <2>1, <2>2, <2>6
  <2>7. QED BY <2>3, <2>4, <2>5, <2>6
<1>3. GetragenOK'
  BY <1>2 DEF GetragenOK
<1>4. QED BY <1>1, <1>3 DEF Unterwegs

\* A step that leaves the queue, the batches and the accounts alone.
LEMMA UnterwegsGleich ==
  ASSUME Typ, Unterwegs, BodenOK', Laeuft' => Laeuft, db'.konten = db.konten, Nachspielbar' \subseteq Nachspielbar,
         UNCHANGED <<schwebend, schlange, laufend>>
  PROVE  Unterwegs'
<1>1. Offene' = Offene
  BY DEF Offene
<1>2. \A a \in Konten : db'.konten[a].wal \in Nat /\ db'.konten[a].wal >= db.konten[a].wal
  BY KontoTyp
<1>3. ASSUME NEW a \in Konten, NEW r \in Nachspielbar, Traeger(a, r.seq) PROVE Traeger(a, r.seq)'
  BY <1>3 DEF Traeger
<1>4. QED BY <1>1, <1>2, <1>3, UnterwegsRuhig

\* A new record floats, above every waiting item.
LEMMA UnterwegsAnhaengen ==
  ASSUME Typ, Nummern, Unterwegs, NEW t \in Auftraege, Anhaengen(t)
  PROVE  Unterwegs'
<1> DEFINE e == [seq |-> wal.naechste, tx |-> t]
<1>1. /\ wal'.naechste = wal.naechste + 1 /\ wal'.saetze = wal.saetze \cup {e} /\ schwebend' = schwebend \cup {e}
      /\ Beide(t) \cap Gesperrt = {}
      /\ UNCHANGED <<db, schlange, laufend, korb, leert, lauf, zaehler>>
  BY AnhaengenTut
<1>2. Kopf \in Nat /\ Kopf' = Kopf + 1 /\ e.seq = Kopf + 1 /\ e.tx = t
  BY <1>1, KopfTyp DEF Kopf
<1> HIDE DEF e
<1>3. Offene' = Offene /\ Laeuft' = Laeuft
  BY <1>1 DEF Offene, Laeuft
<1>4. BodenOK'
  <2>1. db.boden \in Nat
    BY DEF Typ, DbTyp
  <2>2. QED BY <1>1, <1>2, <2>1 DEF Unterwegs, BodenOK
<1>5. VorrangOK'
  <2>1. \A p \in Offene : p.seq \in Nat /\ p.seq <= e.seq
    BY <1>2, OffeneTyp DEF Nummern, PostenNummern, Posten
  <2>2. \A f \in schwebend : Beide(f.tx) \cap Beide(e.tx) = {}
    BY <1>1, <1>2 DEF Gesperrt, KontenVon
  <2>3. QED BY <1>1, <1>3, <2>1, <2>2 DEF Unterwegs, VorrangOK
<1>6. GetragenOK'
  <2> SUFFICES ASSUME Laeuft, NEW r \in Nachspielbar', NEW a \in Beide(r.tx)
               PROVE  r \in schwebend' \/ r.seq <= db'.konten[a].wal \/ Traeger(a, r.seq)'
    BY <1>3 DEF GetragenOK
  <2>1. CASE r = e
    BY <1>1, <2>1
  <2>2. CASE r # e
    <3>1. r \in Nachspielbar
      BY <1>1, <2>2 DEF Nachspielbar
    <3>2. r \in schwebend \/ r.seq <= db.konten[a].wal \/ Traeger(a, r.seq)
      BY <3>1 DEF Unterwegs, GetragenOK
    <3>3. Traeger(a, r.seq) => Traeger(a, r.seq)'
      BY <1>1 DEF Traeger
    <3>4. QED BY <1>1, <3>2, <3>3
  <2>3. QED BY <2>1, <2>2
<1>7. QED BY <1>4, <1>5, <1>6 DEF Unterwegs

\* The record leaves the float: its item carries its accounts, or the items that cover it do.
LEMMA UnterwegsEinreihen ==
  ASSUME Typ, Nummern, Unterwegs, NEW e \in schwebend, Einreihen(e)
  PROVE  Unterwegs'
<1> DEFINE p == [seq |-> e.seq, tx |-> e.tx, ohne |-> korb.an]
<1>1. /\ \/ ToSet(schlange') = ToSet(schlange) \cup {p}
         \/ ToSet(schlange') = ToSet(schlange) /\ Beide(e.tx) \subseteq KontenVon(ToSet(schlange))
      /\ schwebend' = schwebend \ {e} /\ e \in Saetze
      /\ UNCHANGED <<wal, konten, db, laufend, leert, lauf, zaehler>>
  BY EinreihenTut
<1>2. Offene' \subseteq Offene \cup {p} /\ p.tx = e.tx /\ p.seq = e.seq
  BY OffeneEinreihen
<1> HIDE DEF p
<1>3. Kopf' = Kopf /\ Laeuft' = Laeuft /\ Nachspielbar' = Nachspielbar
  BY <1>1 DEF Kopf, Laeuft, Nachspielbar
<1>4. BodenOK'
  BY <1>1, <1>3 DEF Unterwegs, BodenOK
<1>5. VorrangOK'
  <2> SUFFICES ASSUME NEW f \in schwebend'
               PROVE  /\ \A q \in Offene' : Beide(q.tx) \cap Beide(f.tx) # {} => q.seq <= f.seq
                      /\ \A g \in schwebend' : Beide(g.tx) \cap Beide(f.tx) # {} => f = g
    BY DEF VorrangOK
  <2>1. f \in schwebend /\ f # e
    BY <1>1
  <2>2. Beide(p.tx) \cap Beide(f.tx) = {}
    BY <1>2, <2>1 DEF Unterwegs, VorrangOK
  <2>3. QED BY <1>1, <1>2, <2>1, <2>2 DEF Unterwegs, VorrangOK
<1>6. GetragenOK'
  <2> SUFFICES ASSUME Laeuft, NEW r \in Nachspielbar, NEW a \in Beide(r.tx)
               PROVE  r \in schwebend' \/ r.seq <= db'.konten[a].wal \/ Traeger(a, r.seq)'
    BY <1>3 DEF GetragenOK
  <2>1. r \in schwebend \/ r.seq <= db.konten[a].wal \/ Traeger(a, r.seq)
    BY DEF Unterwegs, GetragenOK
  <2>2. Traeger(a, r.seq) => Traeger(a, r.seq)'
    BY <1>1 DEF Traeger
  <2>3. CASE r = e
    <3>1. CASE p \in ToSet(schlange')
      <4>1. p.seq <= r.seq
        BY <1>1, <1>2, <2>3 DEF Saetze
      <4>2. QED BY <1>2, <2>3, <3>1, <4>1 DEF Traeger
    <3>2. CASE ToSet(schlange') = ToSet(schlange) /\ Beide(e.tx) \subseteq KontenVon(ToSet(schlange))
      <4>1. PICK q \in ToSet(schlange) : a \in Beide(q.tx)
        BY <2>3, <3>2 DEF KontenVon
      <4>2. q \in Offene
        BY DEF Offene
      <4>3. q.seq <= e.seq
        BY <2>3, <4>1, <4>2 DEF Unterwegs, VorrangOK
      <4>4. QED BY <2>3, <3>2, <4>1, <4>3 DEF Traeger
    <3>3. QED BY <1>1, <3>1, <3>2
  <2>4. QED BY <1>1, <2>1, <2>2, <2>3
<1>7. QED BY <1>4, <1>5, <1>6 DEF Unterwegs

\* Who carries an account carries it in the batch.
LEMMA UnterwegsNimmt ==
  ASSUME Typ, Nummern, Unterwegs, FlushNimmt
  PROVE  Unterwegs'
<1>1. PICK b \in BuendelTyp :
        /\ laufend' = laufend \cup {b} /\ b.offen = KontenVon(ToSet(b.posten))
        /\ ToSet(schlange) = ToSet(schlange') \cup ToSet(b.posten)
  BY FlushNimmtTut
<1>2. Offene' \subseteq Offene /\ UNCHANGED <<wal, konten, db, korb, schwebend, leert, lauf, kunde>>
  BY OffeneNimmt, FlushNimmtTut
<1>3. Laeuft' = Laeuft /\ Nachspielbar' = Nachspielbar /\ BodenOK'
  BY <1>2 DEF Laeuft, Nachspielbar, Unterwegs, BodenOK, Kopf
<1>4. ASSUME NEW a \in Konten, NEW r \in Nachspielbar, Traeger(a, r.seq)
      PROVE  Traeger(a, r.seq)'
  <2>1. CASE \E p \in ToSet(schlange') : a \in Beide(p.tx) /\ p.seq <= r.seq
    BY <2>1 DEF Traeger
  <2>2. CASE \E p \in ToSet(b.posten) : a \in Beide(p.tx) /\ p.seq <= r.seq
    <3>1. a \in b.offen
      BY <1>1, <2>2 DEF KontenVon
    <3>2. b \in laufend'
      BY <1>1
    <3>3. QED BY <2>2, <3>1, <3>2 DEF Traeger
  <2>3. CASE \E l \in laufend : a \in l.offen /\ \E p \in ToSet(l.posten) : a \in Beide(p.tx) /\ p.seq <= r.seq
    <3>1. \A l \in laufend : l \in laufend'
      BY <1>1
    <3>2. QED BY <2>3, <3>1 DEF Traeger
  <2>4. QED BY <1>1, <1>4, <2>1, <2>2, <2>3 DEF Traeger
<1>5. \A a \in Konten : db'.konten[a].wal \in Nat /\ db'.konten[a].wal >= db.konten[a].wal
  BY <1>2, KontoTyp
<1>6. QED BY <1>2, <1>3, <1>4, <1>5, UnterwegsRuhig

\* Who carried an account in the batch carries it in the queue.
LEMMA UnterwegsScheitert ==
  ASSUME Typ, Nummern, Unterwegs, NEW b \in laufend, FlushScheitert(b)
  PROVE  Unterwegs'
<1>1. /\ ToSet(schlange') = ToSet(schlange) \cup ToSet(b.posten) /\ laufend' = laufend \ {b}
      /\ UNCHANGED <<wal, konten, db, korb, schwebend, leert, lauf, kunde>>
  BY FlushScheitertTut
<1>2. Offene' \subseteq Offene
  BY OffeneScheitert
<1>3. Laeuft' = Laeuft /\ Nachspielbar' = Nachspielbar /\ BodenOK'
  BY <1>1 DEF Laeuft, Nachspielbar, Unterwegs, BodenOK, Kopf
<1>4. ASSUME NEW a \in Konten, NEW r \in Nachspielbar, Traeger(a, r.seq)
      PROVE  Traeger(a, r.seq)'
  BY <1>1, <1>4 DEF Traeger
<1>5. \A a \in Konten : db'.konten[a].wal \in Nat /\ db'.konten[a].wal >= db.konten[a].wal
  BY <1>1, KontoTyp
<1>6. QED BY <1>1, <1>2, <1>3, <1>4, <1>5, UnterwegsRuhig

\* An account that is written needs no carrier; the others keep theirs.
LEMMA UnterwegsSchreibt ==
  ASSUME Typ, Nummern, Salden, Unterwegs, NEW b \in laufend, NEW G \in SUBSET b.offen, FlushSchreibt(b, G)
  PROVE  Unterwegs'
<1>1. /\ \A a \in Konten : db'.konten[a] = IF a \in G THEN Upsert(db.konten[a], konten[a]) ELSE db.konten[a]
      /\ db'.boden = db.boden /\ db'.ab = db.ab
      /\ laufend' = (laufend \ {b})
            \cup IF G = b.offen THEN {} ELSE {[posten |-> b.posten, offen |-> b.offen \ G]}
      /\ UNCHANGED <<wal, konten, schlange, korb, schwebend, leert, lauf, kunde>>
  BY FlushSchreibtTut
<1>2. Offene' \subseteq Offene
  BY OffeneSchreibt
<1>3. Laeuft' = Laeuft /\ Nachspielbar' = Nachspielbar /\ BodenOK'
  BY <1>1 DEF Laeuft, Nachspielbar, Unterwegs, BodenOK, Kopf
<1>4. \A a \in Konten :
        /\ db'.konten[a].wal \in Nat /\ db'.konten[a].wal >= db.konten[a].wal
        /\ a \in G => db'.konten[a].wal >= konten[a].wal
  <2> SUFFICES ASSUME NEW a \in Konten
               PROVE  /\ db'.konten[a].wal \in Nat /\ db'.konten[a].wal >= db.konten[a].wal
                      /\ a \in G => db'.konten[a].wal >= konten[a].wal
    OBVIOUS
  <2> DEFINE u == Upsert(db.konten[a], konten[a])
  <2>1. /\ u \in Konto
        /\ db.konten[a].wal < konten[a].wal => u.wal = konten[a].wal
        /\ konten[a].wal <= db.konten[a].wal => u = db.konten[a]
    BY KontoTyp, UpsertTyp
  <2>2. db'.konten[a] = IF a \in G THEN u ELSE db.konten[a]
    BY <1>1
  <2> HIDE DEF u
  <2>3. QED BY <2>1, <2>2, KontoTyp
<1>5. ASSUME NEW a \in Konten, NEW r \in Nachspielbar, a \in Beide(r.tx), Laeuft, Traeger(a, r.seq)
      PROVE  Traeger(a, r.seq)' \/ r.seq <= db'.konten[a].wal
  <2>1. CASE \E p \in ToSet(schlange) : a \in Beide(p.tx) /\ p.seq <= r.seq
    BY <1>1, <2>1 DEF Traeger
  <2>2. ASSUME NEW l \in laufend, a \in l.offen, NEW p \in ToSet(l.posten), a \in Beide(p.tx), p.seq <= r.seq
        PROVE  Traeger(a, r.seq)' \/ r.seq <= db'.konten[a].wal
    <3>1. CASE a \in G
      <4>1. r.seq <= konten[a].wal
        BY <1>5 DEF Salden, LiveOK
      <4>2. r.seq \in Nat /\ konten[a].wal \in Nat
        BY NachspielTyp, KontoTyp
      <4>3. QED BY <1>4, <3>1, <4>1, <4>2
    <3>2. CASE a \notin G /\ l = b
      <4> DEFINE c == [posten |-> b.posten, offen |-> b.offen \ G]
      <4>1. c \in laufend'
        BY <1>1, <2>2, <3>2
      <4>2. c.posten = b.posten /\ a \in c.offen
        BY <2>2, <3>2
      <4> HIDE DEF c
      <4>3. QED BY <2>2, <3>2, <4>1, <4>2 DEF Traeger
    <3>3. CASE l # b
      <4>1. l \in laufend'
        BY <1>1, <2>2, <3>3
      <4>2. QED BY <2>2, <4>1 DEF Traeger
    <3>4. QED BY <3>1, <3>2, <3>3
  <2>3. QED BY <1>5, <2>1, <2>2 DEF Traeger
<1>6. QED BY <1>1, <1>2, <1>3, <1>4, <1>5, UnterwegsRuhig

\* A stored wal_seq never falls.
LEMMA UnterwegsSeriell ==
  ASSUME Typ, Nummern, Unterwegs, NEW t \in leert, SeriellBucht(t)
  PROVE  Unterwegs'
<1>1. /\ konten' \in [Konten -> Konto]
      /\ db'.konten = [a \in Konten |-> IF a \in Beide(t) THEN Gespeichert(db.konten[a], konten'[a]) ELSE db.konten[a]]
      /\ db'.ab = db.ab /\ db'.boden = db.boden
      /\ UNCHANGED <<wal, schlange, laufend, korb, schwebend, lauf>>
  BY SeriellBuchtTut
<1>2. Laeuft' = Laeuft /\ Nachspielbar' = Nachspielbar /\ BodenOK' /\ Offene' = Offene
  BY <1>1 DEF Laeuft, Nachspielbar, Unterwegs, BodenOK, Kopf, Offene
<1>3. \A a \in Konten : db'.konten[a].wal \in Nat /\ db'.konten[a].wal >= db.konten[a].wal
  <2> SUFFICES ASSUME NEW a \in Konten
               PROVE  db'.konten[a].wal \in Nat /\ db'.konten[a].wal >= db.konten[a].wal
    OBVIOUS
  <2> DEFINE g == Gespeichert(db.konten[a], konten'[a])
  <2>1. konten'[a] \in Konto /\ db.konten[a] \in Konto /\ db.konten[a].wal \in Nat
    BY <1>1, KontoTyp
  <2>2. g \in Konto /\ g.wal >= db.konten[a].wal
    BY <2>1, GespeichertTyp
  <2>3. db'.konten[a] = IF a \in Beide(t) THEN g ELSE db.konten[a]
    BY <1>1
  <2> HIDE DEF g
  <2>4. QED BY <2>1, <2>2, <2>3 DEF Konto
<1>4. ASSUME NEW a \in Konten, NEW r \in Nachspielbar, Traeger(a, r.seq) PROVE Traeger(a, r.seq)'
  BY <1>1, <1>4 DEF Traeger
<1>5. QED BY <1>1, <1>2, <1>3, <1>4, UnterwegsRuhig

\* The steps that touch neither the queue, the batches nor the accounts.
LEMMA UnterwegsSonst ==
  ASSUME Typ, Nummern, Unterwegs,
         \/ \E bis : Sichern(bis)
         \/ \E t \in Auftraege : SeriellBeginnt(t)
         \/ \E t \in leert : SeriellAbgelehnt(t)
         \/ Block
         \/ \E gross \in BOOLEAN : Kuerzen(gross)
         \/ Anschluss
  PROVE  Unterwegs'
<1>1. /\ wal'.naechste = wal.naechste /\ wal'.saetze \subseteq wal.saetze
      /\ db'.konten = db.konten /\ db'.boden = db.boden /\ db'.ab >= db.ab
      /\ Laeuft' => Laeuft
      /\ UNCHANGED <<schwebend, schlange, laufend>>
  <2>1. db.ab \in Nat /\ db.ab >= db.ab
    BY DEF Typ, DbTyp
  <2>2. CASE \E bis : Sichern(bis)
    BY <2>1, <2>2, SichernTut DEF Laeuft
  <2>3. CASE \E t \in Auftraege : SeriellBeginnt(t)
    BY <2>1, <2>3, SeriellBeginntTut DEF Laeuft
  <2>4. CASE \E t \in leert : SeriellAbgelehnt(t)
    BY <2>1, <2>4 DEF SeriellAbgelehnt, Laeuft
  <2>5. CASE Block
    BY <2>1, <2>5, BlockTut DEF Laeuft
  <2>6. CASE \E gross \in BOOLEAN : Kuerzen(gross)
    BY <2>6, KuerzenTut DEF Laeuft
  <2>7. CASE Anschluss
    BY <2>7, AnschlussTut DEF Laeuft
  <2>8. QED BY <2>2, <2>3, <2>4, <2>5, <2>6, <2>7
<1>2. Kopf' = Kopf /\ Nachspielbar' \subseteq Nachspielbar
  BY <1>1 DEF Kopf, Nachspielbar
<1>3. BodenOK'
  <2>1. db.ab \in Nat /\ db.boden \in Nat /\ db'.ab \in Nat
    <3>1. Typ'
      <4>1. leert \subseteq Auftraege
        BY DEF Typ, Auftraege
      <4>2. QED BY <4>1, TypSichern, TypSeriell, TypBlock, TypKuerzen, TypAnschluss
    <3>2. QED BY <3>1 DEF Typ, DbTyp
  <2>2. QED BY <1>1, <1>2, <2>1 DEF Unterwegs, BodenOK
<1>4. QED BY <1>1, <1>2, <1>3, UnterwegsGleich

\* After a crash nothing floats.
LEMMA UnterwegsAbsturz ==
  ASSUME Typ, Unterwegs, NEW bis, Absturz(bis)
  PROVE  Unterwegs'
<1>1. /\ wal'.naechste = wal.naechste /\ schwebend' = {} /\ lauf' = "aus" /\ UNCHANGED <<db, kunde>>
  BY AbsturzTut
<1>2. BodenOK'
  BY <1>1 DEF Unterwegs, BodenOK, Kopf
<1>3. VorrangOK' /\ GetragenOK'
  BY <1>1 DEF VorrangOK, GetragenOK, Laeuft
<1>4. QED BY <1>2, <1>3 DEF Unterwegs

\* The replay queues a carrier for all it applied.
LEMMA UnterwegsEinspielen ==
  ASSUME Typ, Nummern, Unterwegs, NEW an \in BOOLEAN, Einspielen(an)
  PROVE  Unterwegs'
<1>1. CASE ~StimmigMitDatei(PeekNachStart)
  <2>1. lauf' = "verweigert" /\ UNCHANGED <<wal, konten, db, schlange, laufend, korb, schwebend, leert, kunde>>
    BY <1>1, VerweigertTut
  <2>2. BodenOK' /\ ~Laeuft' /\ Nachspielbar' = Nachspielbar
    BY <2>1 DEF Unterwegs, BodenOK, Kopf, Laeuft, Nachspielbar
  <2>3. QED BY <2>1, <2>2, UnterwegsGleich
<1>2. CASE StimmigMitDatei(PeekNachStart)
  <2> DEFINE peek == PeekNachStart
             q == NachgespielteSchlange(an)
             d == Nachholen(an)
  <2>1. /\ lauf = "aus" /\ wal'.saetze = wal.saetze /\ Kopf' = peek - 1
        /\ schlange' = q /\ db' = d /\ UNCHANGED <<laufend, schwebend>>
    BY <1>2, EinspielenTut
  <2>2. d.konten = db.konten /\ d.boden = db.boden /\ d.ab = db.ab
    BY NachholenTyp
  <2>3. peek \in Nat \ {0} /\ db.ab <= peek
    BY <1>2, PeekIst DEF StimmigMitDatei
  <2>4. \A a \in Konten : \A r \in Fehlende(a) : \E p \in ToSet(q) : a \in Beide(p.tx) /\ p.seq <= r.seq
    BY NachgespielteSchlangeIst
  <2> HIDE DEF peek, q, d
  <2>5. BodenOK'
    <3>1. db.ab \in Nat /\ db.boden \in Nat
      BY DEF Typ, DbTyp
    <3>2. QED BY <2>1, <2>2, <2>3, <3>1 DEF Unterwegs, BodenOK
  <2>6. VorrangOK'
    BY <2>1 DEF VorrangOK, Nummern, Ruhe
  <2>7. GetragenOK'
    <3> SUFFICES ASSUME NEW r \in Nachspielbar', NEW a \in Beide(r.tx)
                 PROVE  r \in schwebend' \/ r.seq <= db'.konten[a].wal \/ Traeger(a, r.seq)'
      BY DEF GetragenOK
    <3>1. r \in Nachspielbar
      BY <2>1, <2>2 DEF Nachspielbar
    <3>2. a \in Konten /\ r.seq \in Nat
      BY <3>1, NachspielTyp
    <3>3. db.konten[a].wal \in Nat
      BY <3>2, KontoTyp
    <3>4. CASE r.seq > db.konten[a].wal
      <4>1. r \in Fehlende(a)
        BY <3>1, <3>4 DEF Fehlende
      <4>2. QED BY <2>1, <2>4, <3>2, <4>1 DEF Traeger
    <3>5. QED BY <2>1, <2>2, <3>2, <3>3, <3>4
  <2>8. QED BY <2>5, <2>6, <2>7 DEF Unterwegs
<1>3. QED BY <1>1, <1>2

\* Above the floor there is nothing.
LEMMA UnterwegsErsatz ==
  ASSUME Typ, Nummern, Unterwegs, Ersatz(FALSE)
  PROVE  Unterwegs'
<1>1. /\ db'.boden = Kopf /\ db'.ab = Kopf + 1 /\ schwebend = {}
      /\ UNCHANGED <<wal, schlange, laufend, schwebend, leert, korb, lauf>>
  BY ErsatzTut
<1>2. Kopf' = Kopf /\ Kopf \in Nat
  BY <1>1, KopfTyp DEF Kopf
<1>3. Nachspielbar' = {}
  BY <1>1, SatzTyp, <1>2 DEF Nachspielbar, Nummern, SatzNummern
<1>4. BodenOK' /\ VorrangOK' /\ GetragenOK'
  BY <1>1, <1>2, <1>3 DEF BodenOK, VorrangOK, GetragenOK
<1>5. QED BY <1>4 DEF Unterwegs

\* At the beginning there is no record.
LEMMA UnterwegsAnfang == Init => Unterwegs
<1> SUFFICES ASSUME Init PROVE Unterwegs
  OBVIOUS
<1>1. wal.saetze = {} /\ Kopf = 0 /\ schwebend = {} /\ db.boden = 0 /\ db.ab = 1
  BY DEF Init, Kopf
<1>2. QED BY <1>1 DEF Unterwegs, BodenOK, VorrangOK, GetragenOK, Nachspielbar

\* Every step.
LEMMA UnterwegsSchritt ==
  ASSUME ~ErsatzUnterbrochen, Typ, Nummern, Salden, Unterwegs, [Next]_vars
  PROVE  Unterwegs'
<1>1. CASE UNCHANGED vars
  <2>1. Laeuft' = Laeuft /\ Nachspielbar' = Nachspielbar /\ Kopf' = Kopf
    BY <1>1 DEF vars, Laeuft, Nachspielbar, Kopf
  <2>2. BodenOK'
    BY <1>1, <2>1 DEF vars, Unterwegs, BodenOK
  <2>3. QED BY <1>1, <2>1, <2>2, UnterwegsGleich DEF vars
<1>2. CASE \E t \in Auftraege : Anhaengen(t)
  BY <1>2, UnterwegsAnhaengen
<1>3. CASE \E e \in schwebend : Einreihen(e)
  BY <1>3, UnterwegsEinreihen
<1>4. CASE FlushNimmt
  BY <1>4, UnterwegsNimmt
<1>5. CASE \E b \in laufend : FlushScheitert(b)
  BY <1>5, UnterwegsScheitert
<1>6. CASE \E b \in laufend : \E G \in SUBSET b.offen : FlushSchreibt(b, G)
  BY <1>6, UnterwegsSchreibt
<1>7. CASE \E t \in leert : SeriellBucht(t)
  BY <1>7, UnterwegsSeriell
<1>8. CASE \E bis \in 0 .. Kopf : Absturz(bis)
  BY <1>8, UnterwegsAbsturz
<1>9. CASE \E an \in BOOLEAN : Einspielen(an)
  BY <1>9, UnterwegsEinspielen
<1>10. CASE \E u \in BOOLEAN : Ersatz(u)
  <2>1. PICK u \in BOOLEAN : Ersatz(u)
    BY <1>10
  <2>2. u = FALSE
    BY <2>1, ErsatzTut
  <2>3. QED BY <2>1, <2>2, UnterwegsErsatz
<1>11. CASE \/ \E bis \in 1 .. Kopf : Sichern(bis)
            \/ \E t \in Auftraege : SeriellBeginnt(t)
            \/ \E t \in leert : SeriellAbgelehnt(t)
            \/ Block
            \/ \E gross \in BOOLEAN : Kuerzen(gross)
            \/ Anschluss
  BY <1>11, UnterwegsSonst
<1>12. QED BY <1>1, <1>2, <1>3, <1>4, <1>5, <1>6, <1>7, <1>8, <1>9, <1>10, <1>11 DEF Next

-----------------------------------------------------------------------------
(***************************************************************************)
(* Half a transfer, and what was acknowledged.                             *)
(***************************************************************************)
\* The time between the number of a record and its place in the queue is shorter than
\* the distance the compaction keeps (wal_kompaktierung.go, lines 32-34 and 105-108).
KeinNachzuegler == \A e \in schwebend : Kopf - e.seq <= Abstand

\* The record of t is there to be replayed.
ImLog(t) == \E r \in Nachspielbar : r.tx = t

\* As long as no wait ended in vain, only durable effects are stored; the high-water
\* mark comes with a compaction.
HaltbarOK ==
  /\ zaehler.frist = 0 => \A a \in Konten : db.konten[a].wal <= wal.haltbar
  /\ zaehler.kuerzungen = 0 => wal.hwm = 0

\* Live and stored accounts differ by orders of the log only.
LebendOK ==
  Laeuft => \A a \in Konten, t \in Auftraege : konten[a].wirkt[t] = db.konten[a].wirkt[t] \/ ImLog(t)

\* A transfer stored on one account only is in the log.
PaarOK ==
  Pruefbar /\ (Laeuft \/ (lauf = "aus" /\ StimmigMitDatei(PeekNachStart))) =>
    \A t \in Auftraege : db.konten[Von[t]].wirkt[t] = db.konten[Nach[t]].wirkt[t] \/ ImLog(t)

\* An answered order is stored, or durable in the log.
QuittungOK ==
  \A t \in kunde.quittiert \ kunde.ersetzt :
    \/ db.konten[Von[t]].wirkt[t] = 1
    \/ \E r \in Nachspielbar : r.tx = t /\ r.seq <= wal.haltbar

\* A record under the floor is stored or noted as lost.
UnterBodenOK ==
  \A r \in wal.saetze : r.seq <= db.boden =>
    r.tx \in kunde.ersetzt \/ db.konten[Von[r.tx]].wirkt[r.tx] = 1

\* A record the compaction takes has reached the database on both accounts.
LEMMA GekuerztGespeichert ==
  ASSUME Typ, Nummern, Salden, Unterwegs, KeinNachzuegler, NEW gross \in BOOLEAN, Kuerzen(gross),
         NEW r \in Nachspielbar, r \notin Nachspielbar'
  PROVE  \A a \in Beide(r.tx) : db.konten[a].wirkt[r.tx] = 1 /\ konten[a].wirkt[r.tx] = 1
<1>1. /\ wal'.saetze = IF gross THEN {s \in wal.saetze : s.seq >= KuerzenBis} ELSE wal.saetze
      /\ db'.boden = db.boden /\ lauf = "laeuft"
  BY KuerzenTut
<1>2. r \in wal.saetze /\ r.seq > db.boden /\ r.seq \in Nat /\ r.tx \in Auftraege
  BY NachspielTyp DEF Nachspielbar
<1>3. r \notin wal'.saetze
  BY <1>1, <1>2 DEF Nachspielbar
<1>4. ~(r.seq >= KuerzenBis)
  BY <1>1, <1>2, <1>3
<1>5. KuerzenBis \in Nat /\ db.boden \in Nat
  BY KuerzenBisIst DEF Typ, DbTyp
<1>6. r.seq + Abstand < Kopf /\ \A p \in Offene : r.seq < p.seq
  BY <1>2, <1>4, <1>5, KuerzenBisIst
<1>7. r \notin schwebend
  <2>1. Kopf \in Nat /\ Abstand \in Nat
    BY KopfTyp, GrenzenTyp
  <2>2. QED BY <1>2, <1>6, <2>1 DEF KeinNachzuegler
<1>8. ASSUME NEW a PROVE ~Traeger(a, r.seq)
  <2>1. \A p \in Offene : p.seq \in Nat /\ ~(p.seq <= r.seq)
    BY <1>2, <1>6, OffeneTyp DEF Posten
  <2>2. ToSet(schlange) \subseteq Offene /\ \A b \in laufend : ToSet(b.posten) \subseteq Offene
    BY DEF Offene
  <2>3. QED BY <2>1, <2>2 DEF Traeger
<1>9. Laeuft
  BY <1>1 DEF Laeuft
<1>10. SUFFICES ASSUME NEW a \in Beide(r.tx)
                PROVE  db.konten[a].wirkt[r.tx] = 1 /\ konten[a].wirkt[r.tx] = 1
  OBVIOUS
<1>11. r.seq <= db.konten[a].wal
  BY <1>7, <1>8, <1>9 DEF Unterwegs, GetragenOK
<1>12. a \in Konten
  BY <1>2, BeideKonten
<1>13. QED BY <1>2, <1>9, <1>11, <1>12 DEF Salden, SeqSagtSaldo, LiveOK

-----------------------------------------------------------------------------
(* HaltbarOK.                                                              *)
\* A step that stores no account.
LEMMA HaltbarRuhig ==
  ASSUME Typ, HaltbarOK, db'.konten = db.konten, wal'.haltbar \in Nat, wal'.haltbar >= wal.haltbar,
         zaehler'.frist = zaehler.frist,
         zaehler'.kuerzungen = 0 => zaehler.kuerzungen = 0 /\ wal'.hwm = wal.hwm
  PROVE  HaltbarOK'
<1>1. wal.haltbar \in Nat
  BY DEF Typ, WalTyp
<1>2. QED BY <1>1, KontoTyp DEF HaltbarOK

\* Every step.
LEMMA HaltbarSchritt ==
  ASSUME ~ErsatzUnterbrochen, Typ, Nummern, HaltbarOK, [Next]_vars
  PROVE  HaltbarOK'
<1>1. wal.haltbar \in Nat /\ wal.haltbar >= wal.haltbar
  BY DEF Typ, WalTyp
<1>2. CASE UNCHANGED vars
  BY <1>1, <1>2, HaltbarRuhig DEF vars
<1>3. CASE \E t \in Auftraege : Anhaengen(t)
  BY <1>1, <1>3, HaltbarRuhig, AnhaengenTut
<1>4. CASE \E t \in Auftraege : SeriellBeginnt(t)
  BY <1>1, <1>4, HaltbarRuhig, SeriellBeginntTut
<1>5. CASE \E e \in schwebend : Einreihen(e)
  BY <1>1, <1>5, HaltbarRuhig, EinreihenTut
<1>6. CASE \E bis \in 1 .. Kopf : Sichern(bis)
  <2>1. PICK bis \in 1 .. Kopf : Sichern(bis)
    BY <1>6
  <2>2. bis \in Nat /\ bis >= wal.haltbar
    BY <1>1, <2>1, SichernTut
  <2>3. QED BY <2>1, <2>2, HaltbarRuhig, SichernTut
<1>7. CASE FlushNimmt
  BY <1>1, <1>7, HaltbarRuhig, FlushNimmtTut
<1>8. CASE \E b \in laufend : FlushScheitert(b)
  BY <1>1, <1>8, HaltbarRuhig, FlushScheitertTut
<1>9. CASE \E b \in laufend : \E G \in SUBSET b.offen : FlushSchreibt(b, G)
  <2> PICK b \in laufend : \E G \in SUBSET b.offen : FlushSchreibt(b, G)
    BY <1>9
  <2>1. PICK G \in SUBSET b.offen : FlushSchreibt(b, G)
    OBVIOUS
  <2>2. /\ \A a \in Konten : db'.konten[a] = IF a \in G THEN Upsert(db.konten[a], konten[a]) ELSE db.konten[a]
        /\ zaehler'.kuerzungen = zaehler.kuerzungen
        /\ zaehler'.frist = 0 => zaehler.frist = 0 /\ \A a \in G : konten[a].wal <= wal.haltbar
        /\ wal' = wal
    BY <2>1, FlushSchreibtTut
  <2>3. \A a \in Konten : db'.konten[a] = db.konten[a] \/ (db'.konten[a].wal = konten[a].wal /\ a \in G)
    BY <2>1, FlushWirkt
  <2>4. QED BY <2>2, <2>3 DEF HaltbarOK
<1>10. CASE \E t \in leert : SeriellBucht(t)
  <2>1. PICK t \in leert : SeriellBucht(t)
    BY <1>10
  <2>2. /\ zaehler'.kuerzungen = zaehler.kuerzungen /\ wal' = wal
        /\ zaehler'.frist = 0 => zaehler.frist = 0 /\ \A a \in Beide(t) : konten[a].wal <= wal.haltbar
    BY <2>1, SeriellBuchtTut
  <2>3. /\ \A a \in Konten \ Beide(t) : db'.konten[a] = db.konten[a]
        /\ \A a \in Beide(t) : db'.konten[a].wal \in {db.konten[a].wal, konten[a].wal}
    BY <2>1, SeriellWirkt
  <2>4. QED BY <2>2, <2>3 DEF HaltbarOK
<1>11. CASE \E t \in leert : SeriellAbgelehnt(t)
  BY <1>1, <1>11, HaltbarRuhig DEF SeriellAbgelehnt
<1>12. CASE Block
  BY <1>1, <1>12, HaltbarRuhig, BlockTut
<1>13. CASE \E gross \in BOOLEAN : Kuerzen(gross)
  BY <1>1, <1>13, HaltbarRuhig, KuerzenTut
<1>14. CASE \E bis \in 0 .. Kopf : Absturz(bis)
  BY <1>1, <1>14, HaltbarRuhig, AbsturzTut
<1>15. CASE \E an \in BOOLEAN : Einspielen(an)
  <2>1. PICK an \in BOOLEAN : Einspielen(an)
    BY <1>15
  <2>2. CASE ~StimmigMitDatei(PeekNachStart)
    BY <1>1, <2>1, <2>2, HaltbarRuhig, VerweigertTut
  <2>3. CASE StimmigMitDatei(PeekNachStart)
    <3> DEFINE peek == PeekNachStart
               d == Nachholen(an)
    <3>1. /\ wal'.hwm = wal.hwm /\ wal'.haltbar = peek - 1 /\ db' = d /\ zaehler' = zaehler
      BY <2>1, <2>3, EinspielenTut
    <3>2. d.konten = db.konten
      BY NachholenTyp
    <3>3. peek \in Nat \ {0} /\ \A a \in Konten : db.konten[a].wal < peek
      BY <2>3, PeekIst DEF StimmigMitDatei
    <3> HIDE DEF peek, d
    <3>4. QED BY <3>1, <3>2, <3>3, KontoTyp DEF HaltbarOK
  <2>4. QED BY <2>2, <2>3
<1>16. CASE Anschluss
  BY <1>1, <1>16, HaltbarRuhig, AnschlussTut
<1>17. CASE \E u \in BOOLEAN : Ersatz(u)
  <2>1. PICK u \in BOOLEAN : Ersatz(u)
    BY <1>17
  <2>2. /\ db'.konten = konten' /\ konten' = [a \in Konten |-> AusBloecken(a)] /\ wal' = wal
        /\ zaehler'.frist = zaehler.frist /\ zaehler'.kuerzungen = zaehler.kuerzungen
    BY <2>1, ErsatzTut
  <2>3. \A a \in Konten : db'.konten[a].wal = 0
    BY <2>2, AusBloeckenTyp
  <2>4. QED BY <1>1, <2>2, <2>3 DEF HaltbarOK
<1>18. QED BY <1>2, <1>3, <1>4, <1>5, <1>6, <1>7, <1>8, <1>9, <1>10, <1>11, <1>12, <1>13, <1>14, <1>15, <1>16, <1>17
       DEF Next

-----------------------------------------------------------------------------
(* LebendOK and PaarOK.                                                    *)
\* Both together.
Paare == LebendOK /\ PaarOK

\* A step that leaves the accounts and the log alone.
LEMMA PaareRuhig ==
  ASSUME Paare, konten' = konten, db'.konten = db.konten, Nachspielbar \subseteq Nachspielbar',
         Laeuft' => Laeuft, lauf' # "aus", Pruefbar' => Pruefbar
  PROVE  Paare'
<1>1. ASSUME NEW t \in Auftraege, ImLog(t) PROVE ImLog(t)'
  BY <1>1 DEF ImLog
<1>2. LebendOK'
  BY <1>1 DEF Paare, LebendOK
<1>3. PaarOK'
  BY <1>1 DEF Paare, PaarOK
<1>4. QED BY <1>2, <1>3 DEF Paare

\* The steps that leave the accounts alone.
LEMMA PaareSonst ==
  ASSUME Typ, Nummern, Paare,
         \/ \E e \in schwebend : Einreihen(e)
         \/ \E bis : Sichern(bis)
         \/ FlushNimmt
         \/ \E b \in laufend : FlushScheitert(b)
         \/ \E t \in Auftraege : SeriellBeginnt(t)
         \/ \E t \in leert : SeriellAbgelehnt(t)
         \/ Block
         \/ Anschluss
  PROVE  Paare'
<1>1. /\ wal'.saetze = wal.saetze /\ konten' = konten /\ db'.konten = db.konten /\ db'.boden = db.boden
      /\ Laeuft' => Laeuft
      /\ lauf' # "aus"
      /\ zaehler'.frist = zaehler.frist /\ zaehler'.kuerzungen = zaehler.kuerzungen
  <2>1. CASE \E e \in schwebend : Einreihen(e)
    BY <2>1, EinreihenTut DEF Laeuft
  <2>2. CASE \E bis : Sichern(bis)
    BY <2>2, SichernTut DEF Laeuft
  <2>3. CASE FlushNimmt
    BY <2>3, FlushNimmtTut DEF Laeuft
  <2>4. CASE \E b \in laufend : FlushScheitert(b)
    BY <2>4, FlushScheitertTut DEF Laeuft
  <2>5. CASE \E t \in Auftraege : SeriellBeginnt(t)
    BY <2>5, SeriellBeginntTut DEF Laeuft
  <2>6. CASE \E t \in leert : SeriellAbgelehnt(t)
    BY <2>6 DEF SeriellAbgelehnt, Laeuft
  <2>7. CASE Block
    BY <2>7, BlockTut DEF Laeuft
  <2>8. CASE Anschluss
    BY <2>8, AnschlussTut DEF Laeuft
  <2>9. QED BY <2>1, <2>2, <2>3, <2>4, <2>5, <2>6, <2>7, <2>8
<1>2. Nachspielbar' = Nachspielbar /\ (Pruefbar' => Pruefbar)
  BY <1>1 DEF Nachspielbar, Pruefbar
<1>3. QED BY <1>1, <1>2, PaareRuhig

\* A new transfer is in the log.
LEMMA PaareAnhaengen ==
  ASSUME Typ, Nummern, Unterwegs, Paare, NEW t \in Auftraege, Anhaengen(t)
  PROVE  Paare'
<1> DEFINE e == [seq |-> wal.naechste, tx |-> t]
<1>1. wal'.saetze = wal.saetze \cup {e} /\ lauf = "laeuft" /\ UNCHANGED <<db, lauf, zaehler>>
  BY AnhaengenTut
<1>2. e.seq > db.boden /\ e.tx = t
  <2>1. db.boden \in Nat
    BY DEF Typ, DbTyp
  <2>2. QED BY <2>1, KopfTyp DEF Unterwegs, BodenOK
<1> HIDE DEF e
<1>3. ImLog(t)' /\ Nachspielbar \subseteq Nachspielbar'
  BY <1>1, <1>2 DEF ImLog, Nachspielbar
<1>4. ASSUME NEW u \in Auftraege, ImLog(u) PROVE ImLog(u)'
  BY <1>3, <1>4 DEF ImLog
<1>5. Laeuft /\ Laeuft' /\ Pruefbar' = Pruefbar
  BY <1>1 DEF Laeuft, Pruefbar
<1>6. ASSUME NEW a \in Konten, NEW u \in Auftraege, u # t PROVE konten'[a].wirkt[u] = konten[a].wirkt[u]
  BY <1>6, AnhaengenWirkt
<1>7. LebendOK'
  <2> SUFFICES ASSUME NEW a \in Konten, NEW u \in Auftraege
               PROVE  konten'[a].wirkt[u] = db'.konten[a].wirkt[u] \/ ImLog(u)'
    BY DEF LebendOK
  <2>1. konten[a].wirkt[u] = db.konten[a].wirkt[u] \/ ImLog(u)
    BY <1>5 DEF Paare, LebendOK
  <2>2. QED BY <1>1, <1>3, <1>4, <1>6, <2>1
<1>8. PaarOK'
  BY <1>1, <1>4, <1>5 DEF Paare, PaarOK
<1>9. QED BY <1>7, <1>8 DEF Paare

\* Half a transfer is stored only while its record is in the log.
LEMMA PaareSchreibt ==
  ASSUME Typ, Nummern, Paare, NEW b \in laufend, NEW G \in SUBSET b.offen, FlushSchreibt(b, G)
  PROVE  Paare'
<1>1. /\ db'.boden = db.boden /\ lauf = "laeuft" /\ UNCHANGED <<wal, konten, lauf>>
      /\ zaehler'.kuerzungen = zaehler.kuerzungen
      /\ zaehler'.frist = 0 => zaehler.frist = 0
  BY FlushSchreibtTut
<1>2. \A a \in Konten : db'.konten[a] = db.konten[a] \/ db'.konten[a].wirkt = konten[a].wirkt
  BY FlushWirkt
<1>3. Laeuft /\ Laeuft' /\ (Pruefbar' => Pruefbar) /\ Nachspielbar' = Nachspielbar
  BY <1>1 DEF Laeuft, Pruefbar, Nachspielbar
<1>4. ASSUME NEW u \in Auftraege PROVE ImLog(u)' <=> ImLog(u)
  BY <1>3 DEF ImLog
<1>5. ASSUME NEW a \in Konten, NEW u \in Auftraege, ~ImLog(u)
      PROVE  konten[a].wirkt[u] = db.konten[a].wirkt[u] /\ db'.konten[a].wirkt[u] = db.konten[a].wirkt[u]
  <2>1. konten[a].wirkt[u] = db.konten[a].wirkt[u]
    BY <1>3, <1>5 DEF Paare, LebendOK
  <2>2. QED BY <1>2, <2>1
<1>6. LebendOK'
  BY <1>1, <1>4, <1>5 DEF LebendOK
<1>7. PaarOK'
  <2> SUFFICES ASSUME Pruefbar', NEW u \in Auftraege, ~ImLog(u)
               PROVE  db'.konten[Von[u]].wirkt[u] = db'.konten[Nach[u]].wirkt[u]
    BY <1>4 DEF PaarOK
  <2>1. db.konten[Von[u]].wirkt[u] = db.konten[Nach[u]].wirkt[u]
    BY <1>3 DEF Paare, PaarOK
  <2>2. QED BY <1>5, <2>1, BeideKonten
<1>8. QED BY <1>6, <1>7 DEF Paare

\* A serial transfer is stored on both accounts at once.
LEMMA PaareSeriell ==
  ASSUME Typ, Nummern, Salden, Paare, NEW t \in leert, SeriellBucht(t)
  PROVE  Paare'
<1>1. /\ db'.boden = db.boden /\ lauf = "laeuft" /\ UNCHANGED <<wal, lauf>> /\ t \in Auftraege
      /\ zaehler'.kuerzungen = zaehler.kuerzungen
      /\ zaehler'.frist = 0 => zaehler.frist = 0
  BY SeriellBuchtTut
<1>2. /\ \A a \in Konten \ Beide(t) : konten'[a] = konten[a] /\ db'.konten[a] = db.konten[a]
      /\ \A a \in Beide(t) :
           /\ konten'[a].wirkt[t] = konten[a].wirkt[t] + 1
           /\ \A u \in Auftraege \ {t} : konten'[a].wirkt[u] = konten[a].wirkt[u]
           /\ db'.konten[a].wirkt = konten'[a].wirkt
  BY SeriellWirkt
<1>3. Laeuft /\ Laeuft' /\ (Pruefbar' => Pruefbar) /\ Nachspielbar' = Nachspielbar
  BY <1>1 DEF Laeuft, Pruefbar, Nachspielbar
<1>4. ASSUME NEW u \in Auftraege PROVE ImLog(u)' <=> ImLog(u)
  BY <1>3 DEF ImLog
<1>5. \A a \in Konten : konten[a].wirkt[t] = 0
  <2> SUFFICES ASSUME NEW a \in Konten PROVE konten[a].wirkt[t] = 0
    OBVIOUS
  <2>1. konten[a].wirkt[t] \in Nat /\ konten[a].wirkt[t] <= 1
    BY <1>1, KontoTyp DEF Salden, KontenOK
  <2>2. konten[a].wirkt[t] # 1
    BY <1>1 DEF Salden, KontenOK, InKraft
  <2>3. QED BY <2>1, <2>2
<1>6. ASSUME NEW a \in Konten, NEW u \in Auftraege, ~ImLog(u)
      PROVE  konten'[a].wirkt[u] = db'.konten[a].wirkt[u] /\ (u # t => db'.konten[a].wirkt[u] = db.konten[a].wirkt[u])
  <2>1. konten[a].wirkt[u] = db.konten[a].wirkt[u]
    BY <1>3, <1>6 DEF Paare, LebendOK
  <2>2. QED BY <1>2, <2>1
<1>7. LebendOK'
  BY <1>4, <1>6 DEF LebendOK
<1>8. PaarOK'
  <2> SUFFICES ASSUME Pruefbar', NEW u \in Auftraege, ~ImLog(u)
               PROVE  db'.konten[Von[u]].wirkt[u] = db'.konten[Nach[u]].wirkt[u]
    BY <1>4 DEF PaarOK
  <2>1. Von[u] \in Konten /\ Nach[u] \in Konten /\ Von[u] \in Beide(u) /\ Nach[u] \in Beide(u)
    BY BeideKonten
  <2>2. CASE u = t
    <3>1. ASSUME NEW a \in Beide(t) PROVE db'.konten[a].wirkt[t] = 1
      <4>1. a \in Konten
        BY <1>1, BeideKonten
      <4>2. konten[a].wirkt[t] = 0 /\ konten'[a].wirkt[t] = konten[a].wirkt[t] + 1
        BY <1>2, <1>5, <4>1
      <4>3. db'.konten[a].wirkt = konten'[a].wirkt
        BY <1>2
      <4>4. QED BY <4>2, <4>3
    <3>2. QED BY <2>1, <2>2, <3>1
  <2>3. CASE u # t
    <3>1. db.konten[Von[u]].wirkt[u] = db.konten[Nach[u]].wirkt[u]
      BY <1>3 DEF Paare, PaarOK
    <3>2. QED BY <1>6, <2>1, <2>3, <3>1
  <2>4. QED BY <2>2, <2>3
<1>9. QED BY <1>7, <1>8 DEF Paare

\* A compaction takes only transfers stored on both accounts.
LEMMA PaareKuerzen ==
  ASSUME Typ, Nummern, Salden, Unterwegs, KeinNachzuegler, Paare, NEW gross \in BOOLEAN, Kuerzen(gross)
  PROVE  Paare'
<1>1. /\ db'.konten = db.konten /\ lauf = "laeuft" /\ UNCHANGED <<konten, lauf>>
      /\ zaehler'.frist = zaehler.frist /\ zaehler'.kuerzungen # 0
  BY KuerzenTut
<1>2. Laeuft /\ Laeuft' /\ (Pruefbar' => Pruefbar)
  BY <1>1 DEF Laeuft, Pruefbar
\* A transfer whose record goes is stored on both its accounts, and on no other.
<1>3. ASSUME NEW t \in Auftraege, ImLog(t), ~ImLog(t)'
      PROVE  \A a \in Konten : konten[a].wirkt[t] = db.konten[a].wirkt[t]
                               /\ (a \in Beide(t) => db.konten[a].wirkt[t] = 1)
  <2>1. PICK r \in Nachspielbar : r.tx = t /\ r \notin Nachspielbar'
    BY <1>3 DEF ImLog
  <2>2. \A a \in Beide(t) : db.konten[a].wirkt[t] = 1 /\ konten[a].wirkt[t] = 1
    BY <2>1, GekuerztGespeichert
  <2>3. ASSUME NEW a \in Konten, a \notin Beide(t) PROVE konten[a].wirkt[t] = db.konten[a].wirkt[t]
    <3>1. konten[a].wirkt[t] \in Nat /\ db.konten[a].wirkt[t] \in Nat
      BY KontoTyp
    <3>2. /\ konten[a].wirkt[t] <= 1 /\ konten[a].wirkt[t] # 1 /\ db.konten[a].wirkt[t] <= konten[a].wirkt[t]
      BY <2>3 DEF Salden, KontenOK
    <3>3. QED BY <3>1, <3>2
  <2>4. QED BY <2>2, <2>3
<1>4. LebendOK'
  <2> SUFFICES ASSUME NEW a \in Konten, NEW t \in Auftraege, ~ImLog(t)'
               PROVE  konten'[a].wirkt[t] = db'.konten[a].wirkt[t]
    BY DEF LebendOK
  <2>1. konten[a].wirkt[t] = db.konten[a].wirkt[t] \/ ImLog(t)
    BY <1>2 DEF Paare, LebendOK
  <2>2. QED BY <1>1, <1>3, <2>1
<1>5. PaarOK'
  <2> SUFFICES ASSUME Pruefbar', NEW t \in Auftraege, ~ImLog(t)'
               PROVE  db'.konten[Von[t]].wirkt[t] = db'.konten[Nach[t]].wirkt[t]
    BY DEF PaarOK
  <2>1. db.konten[Von[t]].wirkt[t] = db.konten[Nach[t]].wirkt[t] \/ ImLog(t)
    BY <1>2 DEF Paare, PaarOK
  <2>2. QED BY <1>1, <1>3, <2>1, BeideKonten
<1>6. QED BY <1>4, <1>5 DEF Paare

\* A record that does not survive a crash is not stored either, or the start sees it.
LEMMA AbsturzVergisst ==
  ASSUME Typ, Salden, HaltbarOK, NEW bis, Absturz(bis), Pruefbar, StimmigMitDatei(PeekNachStart)',
         NEW t \in Auftraege, ImLog(t), ~ImLog(t)'
  PROVE  \A a \in Beide(t) : db.konten[a].wirkt[t] = 0
<1>1. /\ wal' \in WalTyp /\ wal'.saetze = {r \in wal.saetze : r.seq <= bis} /\ IsFiniteSet(wal'.saetze)
      /\ wal'.hwm = wal.hwm /\ bis \in wal.haltbar .. Kopf /\ lauf' = "aus"
      /\ zaehler'.frist = zaehler.frist /\ zaehler'.kuerzungen = zaehler.kuerzungen
      /\ UNCHANGED <<db, kunde>>
  BY AbsturzTut
<1>2. bis \in Nat /\ wal.haltbar \in Nat /\ wal.haltbar <= bis
  BY <1>1, KopfTyp DEF Typ, WalTyp
<1>3. PICK r \in Nachspielbar : r.tx = t
  BY DEF ImLog
<1>4. r \notin wal'.saetze
  BY <1>1, <1>3 DEF ImLog, Nachspielbar
<1>5. r \in wal.saetze /\ r.seq \in Nat /\ r.seq > bis /\ r.seq > db.boden
  BY <1>1, <1>2, <1>4, NachspielTyp DEF Nachspielbar
<1>6. ASSUME NEW a \in Konten PROVE db.konten[a].wal <= bis
  <2>1. db.konten[a].wal \in Nat
    BY KontoTyp
  <2>2. CASE zaehler.frist = 0
    BY <1>2, <2>1, <2>2 DEF HaltbarOK
  <2>3. CASE zaehler.kuerzungen = 0
    <3> DEFINE S == {wal'.hwm} \cup {e.seq : e \in wal'.saetze}
               h == Hoechste(S)
    <3>1. wal'.hwm = 0
      BY <1>1, <2>3 DEF HaltbarOK
    <3>2. \A e \in wal'.saetze : e.seq \in Nat /\ e.seq <= bis
      BY <1>1, SatzTyp
    <3>3. IsFiniteSet(Seqs(wal'.saetze))
      BY <1>1, <3>2, SeqsEndlich
    <3>4. S \in SUBSET Nat /\ IsFiniteSet(S) /\ \A x \in S : x <= bis
      <4>1. IsFiniteSet({wal'.hwm} \cup Seqs(wal'.saetze))
        BY <3>3, FS_AddElement
      <4>2. QED BY <1>2, <3>1, <3>2, <4>1 DEF Seqs
    <3>5. PeekNachStart' = h + 1
      BY DEF PeekNachStart, Seqs
    <3> HIDE DEF S
    <3>6. h \in Nat /\ h \in {0} \cup S
      BY <3>4, HoechsteIst
    <3>7. h <= bis
      BY <1>2, <3>4, <3>6
    <3>8. db.konten[a].wal < PeekNachStart'
      BY <1>1 DEF StimmigMitDatei
    <3> HIDE DEF h
    <3>9. QED BY <1>2, <2>1, <3>5, <3>6, <3>7, <3>8
  <2>4. QED BY <2>2, <2>3 DEF Pruefbar
<1>7. ASSUME NEW a \in Beide(t) PROVE db.konten[a].wirkt[t] = 0
  <2>1. a \in Konten
    BY BeideKonten
  <2>2. db.konten[a].wirkt[t] \in Nat /\ konten[a].wirkt[t] \in Nat /\ db.konten[a].wal \in Nat
    BY <2>1, KontoTyp
  <2>3. db.konten[a].wirkt[t] <= konten[a].wirkt[t] /\ konten[a].wirkt[t] <= 1
    BY <2>1 DEF Salden, KontenOK
  <2>4. db.konten[a].wal <= bis
    BY <2>1, <1>6
  <2>5. ~(r.seq <= db.konten[a].wal)
    BY <1>2, <1>5, <2>2, <2>4
  <2>6. db.konten[a].wirkt[t] # 1
    BY <1>3, <1>5, <2>1, <2>5 DEF Salden, SeqSagtSaldo
  <2>7. QED BY <2>2, <2>3, <2>6
<1>8. QED BY <1>7

\* What a crash takes from the log is on neither stored account.
LEMMA PaareAbsturz ==
  ASSUME Typ, Nummern, Salden, HaltbarOK, Paare, NEW bis, Absturz(bis)
  PROVE  Paare'
<1>1. /\ wal' \in WalTyp /\ wal'.saetze = {r \in wal.saetze : r.seq <= bis} /\ IsFiniteSet(wal'.saetze)
      /\ wal'.hwm = wal.hwm /\ bis \in wal.haltbar .. Kopf /\ lauf' = "aus"
      /\ zaehler'.frist = zaehler.frist /\ zaehler'.kuerzungen = zaehler.kuerzungen
      /\ lauf \in {"laeuft", "eingespielt"} /\ UNCHANGED <<db, kunde>>
  BY AbsturzTut
<1>2. ~Laeuft' /\ Laeuft /\ Pruefbar' = Pruefbar
  BY <1>1 DEF Laeuft, Pruefbar
<1>3. LebendOK'
  BY <1>2 DEF LebendOK
<1>4. PaarOK'
  <2> SUFFICES ASSUME Pruefbar, StimmigMitDatei(PeekNachStart)', NEW t \in Auftraege, ~ImLog(t)', ImLog(t)
               PROVE  db.konten[Von[t]].wirkt[t] = db.konten[Nach[t]].wirkt[t]
    BY <1>1, <1>2 DEF Paare, PaarOK
  <2>1. \A a \in Beide(t) : db.konten[a].wirkt[t] = 0
    BY AbsturzVergisst
  <2>2. QED BY <2>1, BeideKonten
<1>5. QED BY <1>3, <1>4 DEF Paare

\* The replay changes only accounts of records in the log.
LEMMA PaareEinspielen ==
  ASSUME Typ, Nummern, Salden, Paare, NEW an \in BOOLEAN, Einspielen(an)
  PROVE  Paare'
<1>1. CASE ~StimmigMitDatei(PeekNachStart)
  <2>1. lauf' = "verweigert" /\ UNCHANGED <<wal, konten, db>>
    BY <1>1, VerweigertTut
  <2>2. QED BY <2>1 DEF Paare, LebendOK, PaarOK, Laeuft
<1>2. CASE StimmigMitDatei(PeekNachStart)
  <2> DEFINE d == Nachholen(an)
  <2>1. /\ lauf = "aus" /\ lauf' = "eingespielt" /\ wal'.saetze = wal.saetze
        /\ konten' = [a \in Konten |-> Nachgespielt(a)] /\ db' = d /\ zaehler' = zaehler
    BY <1>2, EinspielenTut
  <2>2. d.konten = db.konten /\ d.boden = db.boden
    BY NachholenTyp
  <2> HIDE DEF d
  <2>3. Nachspielbar' = Nachspielbar /\ Pruefbar' = Pruefbar
    BY <2>1, <2>2 DEF Nachspielbar, Pruefbar
  <2>4. ASSUME NEW t \in Auftraege PROVE ImLog(t)' <=> ImLog(t)
    BY <2>3 DEF ImLog
  <2>5. LebendOK'
    <3> SUFFICES ASSUME NEW a \in Konten, NEW t \in Auftraege, ~ImLog(t)
                 PROVE  konten'[a].wirkt[t] = db'.konten[a].wirkt[t]
      BY <2>4 DEF LebendOK
    <3>1. \A r \in Fehlende(a) : r.tx # t
      BY DEF ImLog, Fehlende
    <3>2. Nachgespielt(a).wirkt[t] = db.konten[a].wirkt[t]
      BY <3>1, NachgespieltWirkt
    <3>3. QED BY <2>1, <2>2, <3>2
  <2>6. PaarOK'
    BY <1>2, <2>1, <2>2, <2>3, <2>4 DEF Paare, PaarOK
  <2>7. QED BY <2>5, <2>6 DEF Paare
<1>3. QED BY <1>1, <1>2

\* The accounts of the blocks have whole transfers.
LEMMA PaareErsatz ==
  ASSUME Typ, Ersatz(FALSE)
  PROVE  Paare'
<1>1. db'.konten = konten' /\ \A a \in Konten : konten'[a] = AusBloecken(a)
  BY ErsatzTut
<1>2. LebendOK'
  BY <1>1 DEF LebendOK
<1>3. ASSUME NEW t \in Auftraege PROVE db'.konten[Von[t]].wirkt[t] = db'.konten[Nach[t]].wirkt[t]
  <2>1. ASSUME NEW a \in Beide(t)
        PROVE  db'.konten[a].wirkt[t] = IF t \in ToSet(db.bloecke) THEN 1 ELSE 0
    <3>1. a \in Konten
      BY BeideKonten
    <3>2. AusBloecken(a).wirkt[t] = IF t \in ToSet(db.bloecke) /\ a \in Beide(t) THEN 1 ELSE 0
      BY <3>1, AusBloeckenTyp
    <3>3. QED BY <1>1, <3>1, <3>2
  <2>2. QED BY <2>1, BeideKonten
<1>4. PaarOK'
  BY <1>3 DEF PaarOK
<1>5. QED BY <1>2, <1>4 DEF Paare

\* Every step.
LEMMA PaareSchritt ==
  ASSUME ~ErsatzUnterbrochen, Typ, Nummern, Salden, Unterwegs, KeinNachzuegler, HaltbarOK, Paare, [Next]_vars
  PROVE  Paare'
<1>1. CASE UNCHANGED vars
  <2>1. Nachspielbar' = Nachspielbar /\ PeekNachStart' = PeekNachStart /\ Laeuft' = Laeuft /\ Pruefbar' = Pruefbar
    BY <1>1 DEF vars, Nachspielbar, PeekNachStart, Seqs, Laeuft, Pruefbar
  <2>2. StimmigMitDatei(PeekNachStart)' = StimmigMitDatei(PeekNachStart)
    BY <1>1, <2>1 DEF vars, StimmigMitDatei
  <2>3. ASSUME NEW t \in Auftraege PROVE ImLog(t)' = ImLog(t)
    BY <2>1 DEF ImLog
  <2>4. QED BY <1>1, <2>1, <2>2, <2>3 DEF vars, Paare, LebendOK, PaarOK
<1>2. CASE \E t \in Auftraege : Anhaengen(t)
  BY <1>2, PaareAnhaengen
<1>3. CASE \E b \in laufend : \E G \in SUBSET b.offen : FlushSchreibt(b, G)
  BY <1>3, PaareSchreibt
<1>4. CASE \E t \in leert : SeriellBucht(t)
  BY <1>4, PaareSeriell
<1>5. CASE \E gross \in BOOLEAN : Kuerzen(gross)
  BY <1>5, PaareKuerzen
<1>6. CASE \E bis \in 0 .. Kopf : Absturz(bis)
  BY <1>6, PaareAbsturz
<1>7. CASE \E an \in BOOLEAN : Einspielen(an)
  BY <1>7, PaareEinspielen
<1>8. CASE \E u \in BOOLEAN : Ersatz(u)
  <2>1. PICK u \in BOOLEAN : Ersatz(u)
    BY <1>8
  <2>2. u = FALSE
    BY <2>1, ErsatzTut
  <2>3. QED BY <2>1, <2>2, PaareErsatz
<1>9. CASE \/ \E e \in schwebend : Einreihen(e)
           \/ \E bis \in 1 .. Kopf : Sichern(bis)
           \/ FlushNimmt
           \/ \E b \in laufend : FlushScheitert(b)
           \/ \E t \in Auftraege : SeriellBeginnt(t)
           \/ \E t \in leert : SeriellAbgelehnt(t)
           \/ Block
           \/ Anschluss
  BY <1>9, PaareSonst
<1>10. QED BY <1>1, <1>2, <1>3, <1>4, <1>5, <1>6, <1>7, <1>8, <1>9 DEF Next

-----------------------------------------------------------------------------
(* QuittungOK and UnterBodenOK.                                            *)
\* Both together.
Quittungen == QuittungOK /\ UnterBodenOK

\* A step after which stored orders are still stored and durable records still there.
LEMMA QuittungenRuhig ==
  ASSUME Typ, Quittungen,
         kunde'.quittiert = kunde.quittiert, kunde'.ersetzt = kunde.ersetzt,
         db'.boden = db.boden, wal'.saetze \subseteq wal.saetze,
         \A t \in Auftraege : db.konten[Von[t]].wirkt[t] = 1 => db'.konten[Von[t]].wirkt[t] = 1,
         \A r \in Nachspielbar : r.seq <= wal.haltbar =>
            db'.konten[Von[r.tx]].wirkt[r.tx] = 1 \/ (r \in wal'.saetze /\ r.seq <= wal'.haltbar)
  PROVE  Quittungen'
<1>1. \A t \in kunde.quittiert : t \in Auftraege
  BY DEF Typ, KundeTyp
<1>2. \A r \in wal.saetze : r.tx \in Auftraege
  BY SatzTyp
<1>3. QuittungOK'
  <2> SUFFICES ASSUME NEW t \in kunde.quittiert \ kunde.ersetzt, db'.konten[Von[t]].wirkt[t] # 1
               PROVE  \E r \in Nachspielbar' : r.tx = t /\ r.seq <= wal'.haltbar
    BY DEF QuittungOK
  <2>1. PICK r \in Nachspielbar : r.tx = t /\ r.seq <= wal.haltbar
    BY <1>1 DEF Quittungen, QuittungOK
  <2>2. r \in wal'.saetze /\ r.seq <= wal'.haltbar
    BY <2>1
  <2>3. QED BY <2>1, <2>2 DEF Nachspielbar
<1>4. UnterBodenOK'
  BY <1>2 DEF Quittungen, UnterBodenOK
<1>5. QED BY <1>3, <1>4 DEF Quittungen

\* New answers: the records up to a durable number.
LEMMA QuittungenNeu ==
  ASSUME Typ, Quittungen, NEW U, NEW bis \in Nat, bis >= wal.haltbar,
         kunde'.quittiert = kunde.quittiert \cup {r.tx : r \in {s \in wal.saetze \ U : s.seq <= bis}},
         kunde'.ersetzt = kunde.ersetzt, db' = db, wal'.saetze = wal.saetze, wal'.haltbar = bis
  PROVE  Quittungen'
<1>1. wal.haltbar \in Nat /\ db.boden \in Nat
  BY DEF Typ, WalTyp, DbTyp
<1>2. Nachspielbar' = Nachspielbar
  BY DEF Nachspielbar
<1>3. UnterBodenOK'
  BY DEF Quittungen, UnterBodenOK
<1>4. QuittungOK'
  <2> SUFFICES ASSUME NEW t \in kunde'.quittiert, t \notin kunde.ersetzt
               PROVE  \/ db.konten[Von[t]].wirkt[t] = 1
                      \/ \E r \in Nachspielbar : r.tx = t /\ r.seq <= bis
    BY <1>2 DEF QuittungOK
  <2>1. CASE t \in kunde.quittiert
    <3>1. CASE db.konten[Von[t]].wirkt[t] = 1
      BY <3>1
    <3>2. CASE \E r \in Nachspielbar : r.tx = t /\ r.seq <= wal.haltbar
      <4>1. PICK r \in Nachspielbar : r.tx = t /\ r.seq <= wal.haltbar
        BY <3>2
      <4>2. r.seq \in Nat
        BY NachspielTyp
      <4>3. r.seq <= bis
        BY <1>1, <4>1, <4>2
      <4>4. QED BY <4>1, <4>3
    <3>3. QED BY <2>1, <3>1, <3>2 DEF Quittungen, QuittungOK
  <2>2. CASE \E r \in wal.saetze : r.seq <= bis /\ r.tx = t
    <3>1. PICK r \in wal.saetze : r.seq <= bis /\ r.tx = t
      BY <2>2
    <3>2. r.seq \in Nat
      BY SatzTyp
    <3>3. CASE r.seq > db.boden
      BY <3>1, <3>3 DEF Nachspielbar
    <3>4. CASE r.seq <= db.boden
      BY <3>1, <3>4 DEF Quittungen, UnterBodenOK
    <3>5. QED BY <1>1, <3>2, <3>3, <3>4
  <2>3. QED BY <2>1, <2>2
<1>5. QED BY <1>3, <1>4 DEF Quittungen

\* A new record is not yet answered.
LEMMA QuittungenAnhaengen ==
  ASSUME Typ, Nummern, Unterwegs, Quittungen, NEW t \in Auftraege, Anhaengen(t)
  PROVE  Quittungen'
<1> DEFINE e == [seq |-> wal.naechste, tx |-> t]
<1>1. /\ wal'.saetze = wal.saetze \cup {e} /\ wal'.haltbar = wal.haltbar /\ db' = db
      /\ kunde'.quittiert = kunde.quittiert /\ kunde'.ersetzt = kunde.ersetzt
  BY AnhaengenTut
<1>2. ~(e.seq <= db.boden)
  <2>1. db.boden \in Nat
    BY DEF Typ, DbTyp
  <2>2. QED BY <2>1, KopfTyp DEF Unterwegs, BodenOK
<1> HIDE DEF e
<1>3. Nachspielbar \subseteq Nachspielbar'
  BY <1>1 DEF Nachspielbar
<1>4. QuittungOK'
  BY <1>1, <1>3 DEF Quittungen, QuittungOK
<1>5. UnterBodenOK'
  BY <1>1, <1>2 DEF Quittungen, UnterBodenOK
<1>6. QED BY <1>4, <1>5 DEF Quittungen

\* A stored effect stays: the live account has it, and has it once.
LEMMA GespeichertesBleibt ==
  ASSUME Typ, Nummern, Salden,
         \/ \E b \in laufend : \E G \in SUBSET b.offen : FlushSchreibt(b, G)
         \/ \E t \in leert : SeriellBucht(t)
  PROVE  \A a \in Konten, u \in Auftraege : db.konten[a].wirkt[u] = 1 => db'.konten[a].wirkt[u] = 1
<1> SUFFICES ASSUME NEW a \in Konten, NEW u \in Auftraege, db.konten[a].wirkt[u] = 1
             PROVE  db'.konten[a].wirkt[u] = 1
  OBVIOUS
<1>1. konten[a].wirkt[u] = 1
  <2>1. konten[a].wirkt[u] \in Nat
    BY KontoTyp
  <2>2. db.konten[a].wirkt[u] <= konten[a].wirkt[u] /\ konten[a].wirkt[u] <= 1
    BY DEF Salden, KontenOK
  <2>3. QED BY <2>1, <2>2
<1>2. CASE \E b \in laufend : \E G \in SUBSET b.offen : FlushSchreibt(b, G)
  <2>1. db'.konten[a] = db.konten[a] \/ db'.konten[a].wirkt = konten[a].wirkt
    BY <1>2, FlushWirkt
  <2>2. QED BY <1>1, <2>1
<1>3. CASE \E t \in leert : SeriellBucht(t)
  <2>1. PICK t \in leert : SeriellBucht(t)
    BY <1>3
  <2>2. CASE a \notin Beide(t)
    BY <2>1, <2>2, SeriellWirkt
  <2>3. CASE a \in Beide(t)
    <3>1. u # t
      BY <1>1, <2>1 DEF Salden, KontenOK, InKraft
    <3>2. konten'[a].wirkt[u] = konten[a].wirkt[u] /\ db'.konten[a].wirkt = konten'[a].wirkt
      BY <2>1, <2>3, <3>1, SeriellWirkt
    <3>3. QED BY <1>1, <3>2
  <2>4. QED BY <2>2, <2>3
<1>4. QED BY <1>2, <1>3

\* A serial order is answered when it is stored.
LEMMA QuittungenSeriell ==
  ASSUME Typ, Nummern, Salden, Quittungen, NEW t \in leert, SeriellBucht(t)
  PROVE  Quittungen'
<1>1. /\ kunde'.quittiert = kunde.quittiert \cup {t} /\ kunde'.ersetzt = kunde.ersetzt
      /\ db'.boden = db.boden /\ wal' = wal /\ t \in Auftraege
  BY SeriellBuchtTut
<1>2. \A a \in Konten, u \in Auftraege : db.konten[a].wirkt[u] = 1 => db'.konten[a].wirkt[u] = 1
  BY GespeichertesBleibt
<1>3. Nachspielbar' = Nachspielbar
  BY <1>1 DEF Nachspielbar
<1>4. db'.konten[Von[t]].wirkt[t] = 1
  <2>1. Von[t] \in Konten /\ Von[t] \in Beide(t)
    BY <1>1, BeideKonten
  <2>2. konten'[Von[t]].wirkt[t] = konten[Von[t]].wirkt[t] + 1 /\ db'.konten[Von[t]].wirkt = konten'[Von[t]].wirkt
    BY <2>1, SeriellWirkt
  <2>3. konten[Von[t]].wirkt[t] \in Nat /\ konten[Von[t]].wirkt[t] <= 1 /\ konten[Von[t]].wirkt[t] # 1
    BY <1>1, <2>1, KontoTyp DEF Salden, KontenOK, InKraft
  <2>4. QED BY <2>2, <2>3
<1>5. \A u \in kunde.quittiert : u \in Auftraege
  BY DEF Typ, KundeTyp
<1>6. QuittungOK'
  <2> SUFFICES ASSUME NEW u \in kunde'.quittiert \ kunde'.ersetzt
               PROVE  \/ db'.konten[Von[u]].wirkt[u] = 1
                      \/ \E r \in Nachspielbar : r.tx = u /\ r.seq <= wal.haltbar
    BY <1>1, <1>3 DEF QuittungOK
  <2>1. CASE u = t
    BY <1>4, <2>1
  <2>2. CASE u # t
    <3>1. u \in kunde.quittiert \ kunde.ersetzt /\ u \in Auftraege
      BY <1>1, <1>5, <2>2
    <3>2. QED BY <1>2, <3>1, BeideKonten DEF Quittungen, QuittungOK
  <2>3. QED BY <2>1, <2>2
<1>7. UnterBodenOK'
  <2> SUFFICES ASSUME NEW r \in wal.saetze, r.seq <= db.boden, r.tx \notin kunde.ersetzt
               PROVE  db'.konten[Von[r.tx]].wirkt[r.tx] = 1
    BY <1>1 DEF UnterBodenOK
  <2>1. r.tx \in Auftraege /\ db.konten[Von[r.tx]].wirkt[r.tx] = 1
    BY SatzTyp DEF Quittungen, UnterBodenOK
  <2>2. QED BY <1>2, <2>1, BeideKonten
<1>8. QED BY <1>6, <1>7 DEF Quittungen

\* The steps that leave the stored accounts, the log and the answers alone.
LEMMA QuittungenSonst ==
  ASSUME Typ, Nummern, Quittungen,
         \/ FlushNimmt
         \/ \E b \in laufend : FlushScheitert(b)
         \/ \E t \in Auftraege : SeriellBeginnt(t)
         \/ \E t \in leert : SeriellAbgelehnt(t)
         \/ Block
         \/ Anschluss
         \/ UNCHANGED vars
  PROVE  Quittungen'
<1>1. /\ kunde'.quittiert = kunde.quittiert /\ kunde'.ersetzt = kunde.ersetzt
      /\ db'.boden = db.boden /\ db'.konten = db.konten /\ wal' = wal
  <2>1. CASE FlushNimmt
    BY <2>1, FlushNimmtTut
  <2>2. CASE \E b \in laufend : FlushScheitert(b)
    BY <2>2, FlushScheitertTut
  <2>3. CASE \E t \in Auftraege : SeriellBeginnt(t)
    BY <2>3, SeriellBeginntTut
  <2>4. CASE \E t \in leert : SeriellAbgelehnt(t)
    BY <2>4 DEF SeriellAbgelehnt
  <2>5. CASE Block
    BY <2>5, BlockTut
  <2>6. CASE Anschluss
    BY <2>6, AnschlussTut
  <2>7. CASE UNCHANGED vars
    BY <2>7 DEF vars
  <2>8. QED BY <2>1, <2>2, <2>3, <2>4, <2>5, <2>6, <2>7
<1>2. QED BY <1>1, QuittungenRuhig DEF Nachspielbar

\* A flush takes no stored effect away.
LEMMA QuittungenSchreibt ==
  ASSUME Typ, Nummern, Salden, Quittungen, NEW b \in laufend, NEW G \in SUBSET b.offen, FlushSchreibt(b, G)
  PROVE  Quittungen'
<1>1. db'.boden = db.boden /\ wal' = wal /\ kunde' = kunde
  BY FlushSchreibtTut
<1>2. \A t \in Auftraege : db.konten[Von[t]].wirkt[t] = 1 => db'.konten[Von[t]].wirkt[t] = 1
  BY GespeichertesBleibt, BeideKonten
<1>3. QED BY <1>1, <1>2, QuittungenRuhig DEF Nachspielbar

\* A compaction takes only stored records.
LEMMA QuittungenKuerzen ==
  ASSUME Typ, Nummern, Salden, Unterwegs, KeinNachzuegler, Quittungen, NEW gross \in BOOLEAN, Kuerzen(gross)
  PROVE  Quittungen'
<1>1. /\ db'.boden = db.boden /\ db'.konten = db.konten /\ kunde' = kunde /\ wal'.haltbar = wal.haltbar
      /\ wal'.saetze = IF gross THEN {s \in wal.saetze : s.seq >= KuerzenBis} ELSE wal.saetze
  BY KuerzenTut
<1>2. ASSUME NEW r \in Nachspielbar, r.seq <= wal.haltbar
      PROVE  db'.konten[Von[r.tx]].wirkt[r.tx] = 1 \/ (r \in wal'.saetze /\ r.seq <= wal'.haltbar)
  <2>1. CASE r \in wal'.saetze
    BY <1>1, <1>2, <2>1
  <2>2. CASE r \notin wal'.saetze
    <3>1. r \notin Nachspielbar'
      BY <2>2 DEF Nachspielbar
    <3>2. \A a \in Beide(r.tx) : db.konten[a].wirkt[r.tx] = 1
      BY <3>1, GekuerztGespeichert
    <3>3. r.tx \in Auftraege
      BY NachspielTyp
    <3>4. QED BY <1>1, <3>2, <3>3, BeideKonten
  <2>3. QED BY <2>1, <2>2
<1>3. QED BY <1>1, <1>2, QuittungenRuhig

\* Durable records survive.
LEMMA QuittungenAbsturz ==
  ASSUME Typ, Quittungen, NEW bis, Absturz(bis)
  PROVE  Quittungen'
<1>1. /\ wal'.saetze = {r \in wal.saetze : r.seq <= bis} /\ wal'.haltbar = wal.haltbar
      /\ bis \in wal.haltbar .. Kopf /\ db' = db /\ kunde' = kunde
  BY AbsturzTut
<1>2. wal.haltbar \in Nat /\ bis \in Nat /\ wal.haltbar <= bis
  BY <1>1, KopfTyp DEF Typ, WalTyp
<1>3. ASSUME NEW r \in Nachspielbar, r.seq <= wal.haltbar
      PROVE  r \in wal'.saetze /\ r.seq <= wal'.haltbar
  BY <1>1, <1>2, <1>3, NachspielTyp
<1>4. QED BY <1>1, <1>3, QuittungenRuhig

\* After the replay every record counts as durable.
LEMMA QuittungenEinspielen ==
  ASSUME Typ, Nummern, Quittungen, NEW an \in BOOLEAN, Einspielen(an)
  PROVE  Quittungen'
<1>1. CASE ~StimmigMitDatei(PeekNachStart)
  <2>1. UNCHANGED <<wal, db, kunde>>
    BY <1>1, VerweigertTut
  <2>2. QED BY <2>1, QuittungenRuhig DEF Nachspielbar
<1>2. CASE StimmigMitDatei(PeekNachStart)
  <2> DEFINE d == Nachholen(an)
             peek == PeekNachStart
  <2>1. wal'.saetze = wal.saetze /\ wal'.haltbar = peek - 1 /\ db' = d /\ kunde' = kunde
    BY <1>2, EinspielenTut
  <2>2. d.konten = db.konten /\ d.boden = db.boden
    BY NachholenTyp
  <2>3. peek \in Nat \ {0} /\ \A r \in wal.saetze : r.seq < peek /\ r.seq \in Nat
    BY PeekIst, SatzTyp
  <2> HIDE DEF d, peek
  <2>4. \A r \in Nachspielbar : r \in wal'.saetze /\ r.seq <= wal'.haltbar
    BY <2>1, <2>3 DEF Nachspielbar
  <2>5. QED BY <2>1, <2>2, <2>4, QuittungenRuhig
<1>3. QED BY <1>1, <1>2

\* A replacement keeps what is in a block and notes the rest as lost.
LEMMA QuittungenErsatz ==
  ASSUME Typ, Nummern, Salden, Quittungen, Ersatz(FALSE)
  PROVE  Quittungen'
<1>1. /\ \A a \in Konten : konten'[a] = AusBloecken(a)
      /\ db'.konten = konten' /\ kunde'.quittiert = kunde.quittiert
      /\ kunde'.ersetzt = kunde.ersetzt \cup
             {t \in Auftraege \ ToSet(db.bloecke) : konten[Von[t]].wirkt[t] > 0}
      /\ lauf = "laeuft" /\ wal' = wal
  BY ErsatzTut
<1>2. ASSUME NEW t \in Auftraege, t \notin kunde'.ersetzt, konten[Von[t]].wirkt[t] = 1
      PROVE  db'.konten[Von[t]].wirkt[t] = 1
  <2>1. t \in ToSet(db.bloecke)
    BY <1>1, <1>2
  <2>2. Von[t] \in Konten /\ Von[t] \in Beide(t)
    BY BeideKonten
  <2>3. AusBloecken(Von[t]).wirkt[t] = IF t \in ToSet(db.bloecke) /\ Von[t] \in Beide(t) THEN 1 ELSE 0
    BY <2>2, AusBloeckenTyp
  <2>4. QED BY <1>1, <2>1, <2>2, <2>3
<1>3. ASSUME NEW t \in Auftraege, db.konten[Von[t]].wirkt[t] = 1
      PROVE  konten[Von[t]].wirkt[t] = 1
  <2>1. konten[Von[t]].wirkt[t] \in Nat /\ Von[t] \in Konten
    BY BeideKonten, KontoTyp
  <2>2. db.konten[Von[t]].wirkt[t] <= konten[Von[t]].wirkt[t] /\ konten[Von[t]].wirkt[t] <= 1
    BY <2>1 DEF Salden, KontenOK
  <2>3. QED BY <1>3, <2>1, <2>2
<1>4. ASSUME NEW r \in Nachspielbar PROVE r.tx \in Auftraege /\ konten[Von[r.tx]].wirkt[r.tx] = 1
  <2>1. r.tx \in Auftraege /\ Laeuft
    BY <1>1, NachspielTyp DEF Laeuft
  <2>2. QED BY <2>1, BeideKonten DEF Salden, LiveOK
<1>5. QuittungOK'
  <2> SUFFICES ASSUME NEW t \in kunde.quittiert, t \notin kunde'.ersetzt
               PROVE  db'.konten[Von[t]].wirkt[t] = 1
    BY <1>1 DEF QuittungOK
  <2>1. t \in Auftraege /\ t \notin kunde.ersetzt
    BY <1>1 DEF Typ, KundeTyp
  <2>2. konten[Von[t]].wirkt[t] = 1
    BY <1>3, <1>4, <2>1 DEF Quittungen, QuittungOK
  <2>3. QED BY <1>2, <2>1, <2>2
<1>6. UnterBodenOK'
  <2> SUFFICES ASSUME NEW r \in wal.saetze, r.tx \notin kunde'.ersetzt
               PROVE  db'.konten[Von[r.tx]].wirkt[r.tx] = 1
    BY <1>1 DEF UnterBodenOK
  <2>1. r.tx \in Auftraege /\ r.seq \in Nat /\ db.boden \in Nat /\ r.tx \notin kunde.ersetzt
    BY <1>1, SatzTyp DEF Typ, DbTyp
  <2>2. CASE r.seq > db.boden
    BY <1>2, <1>4, <2>1, <2>2 DEF Nachspielbar
  <2>3. CASE r.seq <= db.boden
    BY <1>2, <1>3, <2>1, <2>3 DEF Quittungen, UnterBodenOK
  <2>4. QED BY <2>1, <2>2, <2>3
<1>7. QED BY <1>5, <1>6 DEF Quittungen

\* Every step.
LEMMA QuittungenSchritt ==
  ASSUME ~ErsatzUnterbrochen, Typ, Nummern, Salden, Unterwegs, KeinNachzuegler, Quittungen, [Next]_vars
  PROVE  Quittungen'
<1>1. CASE \E t \in Auftraege : Anhaengen(t)
  BY <1>1, QuittungenAnhaengen
<1>2. wal.haltbar \in Nat /\ wal.haltbar >= wal.haltbar
  BY DEF Typ, WalTyp
<1>3. CASE \E e \in schwebend : Einreihen(e)
  <2>1. PICK e \in schwebend : Einreihen(e)
    BY <1>3
  <2>2. /\ kunde'.quittiert = kunde.quittiert
             \cup {r.tx : r \in {s \in wal.saetze \ schwebend' : s.seq <= wal.haltbar}}
        /\ kunde'.ersetzt = kunde.ersetzt /\ wal' = wal /\ db' = db
    BY <2>1, EinreihenTut
  <2>3. PICK U : U = schwebend'
    OBVIOUS
  <2>4. PICK bis \in Nat : bis = wal.haltbar
    BY <1>2
  <2>5. /\ kunde'.quittiert = kunde.quittiert \cup {r.tx : r \in {s \in wal.saetze \ U : s.seq <= bis}}
        /\ bis >= wal.haltbar /\ wal'.haltbar = bis /\ wal'.saetze = wal.saetze
    BY <1>2, <2>2, <2>3, <2>4
  <2>6. QED BY <2>2, <2>5, QuittungenNeu
<1>4. CASE \E bis \in 1 .. Kopf : Sichern(bis)
  <2>1. PICK bis \in 1 .. Kopf : Sichern(bis)
    BY <1>4
  <2>2. /\ kunde'.quittiert = kunde.quittiert \cup {r.tx : r \in {s \in wal.saetze \ schwebend : s.seq <= bis}}
        /\ kunde'.ersetzt = kunde.ersetzt /\ db' = db /\ wal'.saetze = wal.saetze /\ wal'.haltbar = bis
        /\ bis \in wal.haltbar .. Kopf
    BY <2>1, SichernTut
  <2>3. bis \in Nat /\ bis >= wal.haltbar
    BY <1>2, <2>2
  <2>4. QED BY <2>2, <2>3, QuittungenNeu
<1>5. CASE \E b \in laufend : \E G \in SUBSET b.offen : FlushSchreibt(b, G)
  BY <1>5, QuittungenSchreibt
<1>6. CASE \E t \in leert : SeriellBucht(t)
  BY <1>6, QuittungenSeriell
<1>7. CASE \E gross \in BOOLEAN : Kuerzen(gross)
  BY <1>7, QuittungenKuerzen
<1>8. CASE \E bis \in 0 .. Kopf : Absturz(bis)
  BY <1>8, QuittungenAbsturz
<1>9. CASE \E an \in BOOLEAN : Einspielen(an)
  BY <1>9, QuittungenEinspielen
<1>10. CASE \E u \in BOOLEAN : Ersatz(u)
  <2>1. PICK u \in BOOLEAN : Ersatz(u)
    BY <1>10
  <2>2. u = FALSE
    BY <2>1, ErsatzTut
  <2>3. QED BY <2>1, <2>2, QuittungenErsatz
<1>11. CASE \/ FlushNimmt
            \/ \E b \in laufend : FlushScheitert(b)
            \/ \E t \in Auftraege : SeriellBeginnt(t)
            \/ \E t \in leert : SeriellAbgelehnt(t)
            \/ Block
            \/ Anschluss
            \/ UNCHANGED vars
  BY <1>11, QuittungenSonst
<1>12. QED BY <1>1, <1>3, <1>4, <1>5, <1>6, <1>7, <1>8, <1>9, <1>10, <1>11 DEF Next

\* At the beginning nothing is stored, logged or answered.
LEMMA GanzAnfang == Init => HaltbarOK /\ Paare /\ Quittungen
<1> SUFFICES ASSUME Init PROVE HaltbarOK /\ Paare /\ Quittungen
  OBVIOUS
<1>1. /\ wal.saetze = {} /\ wal.haltbar = 0 /\ wal.hwm = 0 /\ db.konten = konten
      /\ \A a \in Konten : konten[a] = LeeresKonto
      /\ kunde.quittiert = {}
  BY DEF Init
<1>2. LeeresKonto.wal = 0 /\ \A t \in Auftraege : LeeresKonto.wirkt[t] = 0
  BY DEF LeeresKonto
<1> HIDE DEF LeeresKonto
<1>3. HaltbarOK
  BY <1>1, <1>2 DEF HaltbarOK
<1>4. Paare
  BY <1>1, <1>2, BeideKonten DEF Paare, LebendOK, PaarOK
<1>5. Quittungen
  BY <1>1 DEF Quittungen, QuittungOK, UnterBodenOK
<1>6. QED BY <1>3, <1>4, <1>5

\* The whole invariant, as long as no record floats beyond the distance of the compaction.
LEMMA GanzImmer ==
  ASSUME ~ErsatzUnterbrochen
  PROVE  Spec /\ []KeinNachzuegler => [](Typ /\ Nummern /\ Salden /\ Paare /\ Quittungen)
<1>1. Typ /\ Nummern /\ Salden /\ Unterwegs /\ HaltbarOK /\ Paare /\ Quittungen /\ KeinNachzuegler /\ [Next]_vars
      => Typ' /\ Nummern' /\ Salden' /\ Unterwegs' /\ HaltbarOK' /\ Paare' /\ Quittungen'
  BY TypSchritt, SaldenSchritt, UnterwegsSchritt, HaltbarSchritt, PaareSchritt, QuittungenSchritt
<1>2. Init => Typ /\ Nummern /\ Salden /\ Unterwegs /\ HaltbarOK /\ Paare /\ Quittungen
  BY TypAnfang, SaldenAnfang, UnterwegsAnfang, GanzAnfang
<1>3. QED BY <1>1, <1>2, PTL DEF Spec

\* No replay brings back half a transfer (recoverFromWAL, walVermerkeStimmigMitDatei,
\* walKuerzenBis).
THEOREM GanzOderGarNichtGilt ==
  ASSUME ~ErsatzUnterbrochen
  PROVE  Spec /\ []KeinNachzuegler => []GanzOderGarNicht
<1>1. ASSUME Typ, Salden, Paare, Laeuft, Pruefbar, NEW t \in Auftraege
      PROVE  konten[Von[t]].wirkt[t] = konten[Nach[t]].wirkt[t]
  <2>1. CASE ImLog(t)
    <3>1. PICK r \in Nachspielbar : r.tx = t
      BY <2>1 DEF ImLog
    <3>2. \A a \in Beide(t) : konten[a].wirkt[t] = 1
      BY <1>1, <3>1 DEF Salden, LiveOK
    <3>3. QED BY <3>2, BeideKonten
  <2>2. CASE ~ImLog(t)
    <3>1. db.konten[Von[t]].wirkt[t] = db.konten[Nach[t]].wirkt[t]
      BY <1>1, <2>2 DEF Paare, PaarOK
    <3>2. \A a \in Konten : konten[a].wirkt[t] = db.konten[a].wirkt[t]
      BY <1>1, <2>2 DEF Paare, LebendOK
    <3>3. QED BY <3>1, <3>2, BeideKonten
  <2>3. QED BY <2>1, <2>2
<1>2. Typ /\ Salden /\ Paare => GanzOderGarNicht
  BY <1>1 DEF GanzOderGarNicht, Laeuft
<1>3. QED BY <1>2, GanzImmer, PTL

\* What a caller was told is done stays in force (AppendAsync, walKuerzenBis,
\* recoverFromWAL, markWALSupersededByStateReplacement).
THEOREM QuittiertesWirktGilt ==
  ASSUME ~ErsatzUnterbrochen
  PROVE  Spec /\ []KeinNachzuegler => []QuittiertesWirkt
<1>1. ASSUME Typ, Salden, Quittungen, lauf = "laeuft", NEW t \in kunde.quittiert \ kunde.ersetzt
      PROVE  Wirksam(t)
  <2>1. t \in Auftraege
    BY <1>1 DEF Typ, KundeTyp
  <2>2. Von[t] \in Konten /\ Von[t] \in Beide(t) /\ Laeuft
    BY <1>1, <2>1, BeideKonten DEF Laeuft
  <2>3. CASE db.konten[Von[t]].wirkt[t] = 1
    <3>1. db.konten[Von[t]].wirkt[t] <= konten[Von[t]].wirkt[t] /\ konten[Von[t]].wirkt[t] \in Nat
      BY <1>1, <2>1, <2>2, KontoTyp DEF Salden, KontenOK
    <3>2. QED BY <2>3, <3>1 DEF Wirksam
  <2>4. CASE \E r \in Nachspielbar : r.tx = t
    BY <1>1, <2>2, <2>4 DEF Salden, LiveOK, Wirksam
  <2>5. QED BY <1>1, <2>3, <2>4 DEF Quittungen, QuittungOK
<1>2. Typ /\ Salden /\ Quittungen => QuittiertesWirkt
  BY <1>1 DEF QuittiertesWirkt
<1>3. QED BY <1>2, GanzImmer, PTL

-----------------------------------------------------------------------------
(***************************************************************************)
(* The start after the first crash.                                        *)
(***************************************************************************)
\* No wait ended in vain and no state was replaced.
Heil == zaehler.frist = 0 /\ zaehler.ersatz = 0

\* Every number given out has its record or was noted by a compaction; what the Korb
\* has not put into a block has its record.
NummernDa ==
  /\ \A s \in 1 .. Kopf : s \in Seqs(wal.saetze) \/ s <= wal.hwm
  /\ korb.an => (db.marke + 1) .. Kopf \subseteq Seqs(wal.saetze)

\* What waits is in the live accounts, and a batch with rows writes all its accounts.
GebuchtOK == \A p \in Offene \cup schwebend : \A a \in Beide(p.tx) : p.seq <= konten[a].wal
GanzeBuendel == \A b \in laufend : OhneZeilen(b) # {} => b.offen = KontenVon(ToSet(b.posten))

\* Nothing stored is ahead of what is durable.
VermerkOK == \A s \in db.vermerke : s <= wal.haltbar
AbOK == db.ab <= wal.haltbar + 1 \/ db.ab <= wal.hwm + 1

\* The mark of the Korb, in memory and stored.
MarkeOK == db.markeDa = korb.an /\ db.marke = korb.bis

\* Until the first crash.
Unversehrt ==
  /\ lauf = "laeuft" /\ db.boden = 0
  /\ NummernDa /\ GebuchtOK /\ GanzeBuendel /\ VermerkOK /\ AbOK /\ MarkeOK
ErstesLeben == Heil /\ zaehler.abstuerze = 0 => Unversehrt

\* The file goes on above the mark without a gap, to some number.
OhneLoch == \E b \in 0 .. Kopf : {s \in Seqs(wal.saetze) : s > db.marke} = (db.marke + 1) .. b

\* The start after it.
ErsterStart ==
  Heil /\ zaehler.abstuerze = 1 =>
    /\ lauf # "verweigert"
    /\ lauf = "aus" => db.boden = 0 /\ StimmigMitDatei(PeekNachStart) /\ (db.markeDa => OhneLoch)
    /\ lauf = "eingespielt" /\ korb.an /\ db.markeDa =>
         Seqs(korb.saetze) = (korb.bis + 1) .. (korb.bis + Cardinality(korb.saetze))

-----------------------------------------------------------------------------


\* The counters of a step.
LEMMA ZaehlerTut ==
  ASSUME Typ, Nummern, Next
  PROVE  /\ Heil' => Heil
         /\ \/ zaehler'.abstuerze = zaehler.abstuerze
            \/ zaehler'.abstuerze = zaehler.abstuerze + 1 /\ \E bis \in 0 .. Kopf : Absturz(bis)
         /\ (\E u \in BOOLEAN : Ersatz(u)) => ~Heil'
         /\ (\E bis \in 0 .. Kopf : Absturz(bis)) => zaehler'.abstuerze = zaehler.abstuerze + 1
<1>1. zaehler \in ZaehlerTyp
  BY DEF Typ
<1>2. CASE zaehler' = zaehler /\ ~(\E u \in BOOLEAN : Ersatz(u)) /\ ~\E bis \in 0 .. Kopf : Absturz(bis)
  BY <1>2 DEF Heil
<1>3. ASSUME NEW n \in Nat, zaehler' = [zaehler EXCEPT !.frist = @ + n]
      PROVE  (Heil' => Heil) /\ zaehler'.abstuerze = zaehler.abstuerze
  BY <1>1, <1>3 DEF Heil, ZaehlerTyp
<1>4. ASSUME NEW u \in BOOLEAN, Ersatz(u)
      PROVE  (Heil' => Heil) /\ zaehler'.abstuerze = zaehler.abstuerze /\ ~Heil'
  <2>1. zaehler' = [zaehler EXCEPT !.ersatz = @ + 1]
    BY <1>4 DEF Ersatz
  <2>2. QED BY <1>1, <2>1 DEF Heil, ZaehlerTyp
<1>5. ASSUME NEW bis \in 0 .. Kopf, Absturz(bis)
      PROVE  (Heil' => Heil) /\ zaehler'.abstuerze = zaehler.abstuerze + 1
  <2>1. zaehler' = [zaehler EXCEPT !.abstuerze = @ + 1]
    BY <1>5 DEF Absturz
  <2>2. QED BY <1>1, <2>1 DEF Heil, ZaehlerTyp
<1>6. ASSUME ~(\E u \in BOOLEAN : Ersatz(u)), ~\E bis \in 0 .. Kopf : Absturz(bis)
      PROVE  (Heil' => Heil) /\ zaehler'.abstuerze = zaehler.abstuerze
  <2>1. CASE \/ \E t \in Auftraege : Anhaengen(t) \/ SeriellBeginnt(t)
             \/ \E e \in schwebend : Einreihen(e)
             \/ \E bis \in 1..Kopf : Sichern(bis)
             \/ FlushNimmt
             \/ \E t \in leert : SeriellAbgelehnt(t)
             \/ Block
             \/ \E an \in BOOLEAN : Einspielen(an)
             \/ Anschluss
    <3>1. zaehler' = zaehler
      BY <2>1 DEF Anhaengen, SeriellBeginnt, Einreihen, Sichern, FlushNimmt, SeriellAbgelehnt, Block, Einspielen, Anschluss
    <3>2. QED BY <3>1 DEF Heil
  <2>2. CASE \E b \in laufend : FlushScheitert(b)
    <3>1. zaehler' = [zaehler EXCEPT !.fehler = @ + 1]
      BY <2>2 DEF FlushScheitert
    <3>2. QED BY <1>1, <3>1 DEF Heil, ZaehlerTyp
  <2>3. CASE \E gross \in BOOLEAN : Kuerzen(gross)
    <3>1. zaehler' = [zaehler EXCEPT !.kuerzungen = @ + 1]
      BY <2>3 DEF Kuerzen
    <3>2. QED BY <1>1, <3>1 DEF Heil, ZaehlerTyp
  <2>4. CASE \E b \in laufend : \E G \in SUBSET b.offen : FlushSchreibt(b, G)
    <3>1. PICK frist \in BOOLEAN : zaehler' = [zaehler EXCEPT !.frist = @ + IF frist THEN 1 ELSE 0]
      BY <2>4 DEF FlushSchreibt
    <3>2. QED BY <1>3, <3>1
  <2>5. CASE \E t \in leert : SeriellBucht(t)
    <3>1. PICK frist \in BOOLEAN : zaehler' = [zaehler EXCEPT !.frist = @ + IF frist THEN 1 ELSE 0]
      BY <2>5 DEF SeriellBucht
    <3>2. QED BY <1>3, <3>1
  <2>6. QED BY <1>6, <2>1, <2>2, <2>3, <2>4, <2>5 DEF Next
<1>7. QED BY <1>4, <1>5, <1>6

\* A step that adds no order to what waits and takes nothing from the accounts.
LEMMA GebuchtBleibt ==
  ASSUME Typ, Typ', GebuchtOK,
         \A p \in Offene' \cup schwebend' : \E q \in Offene \cup schwebend : q.seq = p.seq /\ q.tx = p.tx,
         \A a \in Konten : konten'[a].wal >= konten[a].wal
  PROVE  GebuchtOK'
<1>1. SUFFICES ASSUME NEW p \in Offene' \cup schwebend', NEW a \in Beide(p.tx)
               PROVE  p.seq <= konten'[a].wal
  BY DEF GebuchtOK
<1>2. PICK q \in Offene \cup schwebend : q.seq = p.seq /\ q.tx = p.tx
  OBVIOUS
<1>3. q.seq \in Nat /\ q.tx \in Auftraege
  BY OffeneTyp DEF Typ, Posten, Saetze
<1>4. a \in Konten
  BY <1>2, <1>3, BeideKonten
<1>5. q.seq <= konten[a].wal
  BY <1>2 DEF GebuchtOK
<1>6. konten[a].wal \in Nat /\ konten'[a].wal \in Nat
  BY <1>4 DEF Typ, Konto
<1>7. QED BY <1>2, <1>3, <1>4, <1>5, <1>6

\* A step of the running process that leaves the log, the marks and the Korb's place alone.
LEMMA UnversehrtRuhig ==
  ASSUME Typ, Typ', Unversehrt, GebuchtOK', GanzeBuendel', lauf' = lauf,
         wal'.saetze = wal.saetze, wal'.naechste = wal.naechste, wal'.hwm = wal.hwm, wal'.haltbar >= wal.haltbar,
         db'.boden = db.boden, db'.markeDa = db.markeDa, db'.marke = db.marke, db'.ab = db.ab,
         \A s \in db'.vermerke : s \in db.vermerke \/ s <= wal.haltbar,
         korb'.an = korb.an, korb'.bis = korb.bis
  PROVE  Unversehrt'
<1>1. wal.haltbar \in Nat /\ wal'.haltbar \in Nat /\ db.ab \in Nat /\ wal.hwm \in Nat /\ db'.vermerke \subseteq Nat
  BY DEF Typ, WalTyp, DbTyp
<1>2. Kopf' = Kopf
  BY DEF Kopf
<1>3. NummernDa'
  BY <1>2 DEF Unversehrt, NummernDa, Seqs
<1>4. VermerkOK'
  BY <1>1 DEF Unversehrt, VermerkOK
<1>5. AbOK'
  BY <1>1 DEF Unversehrt, AbOK
<1>6. MarkeOK'
  BY DEF Unversehrt, MarkeOK
<1>7. QED BY <1>3, <1>4, <1>5, <1>6 DEF Unversehrt

\* Steps that change neither accounts nor what waits.
LEMMA UnversehrtStill ==
  ASSUME Typ, Typ', Unversehrt, lauf' = lauf,
         wal'.saetze = wal.saetze, wal'.naechste = wal.naechste, wal'.hwm = wal.hwm, wal'.haltbar >= wal.haltbar,
         db' = db, korb' = korb, konten' = konten, schlange' = schlange, laufend' = laufend, schwebend' = schwebend
  PROVE  Unversehrt'
<1>1. Offene' = Offene
  BY DEF Offene
<1>2. GebuchtOK'
  BY <1>1 DEF Unversehrt, GebuchtOK
<1>3. GanzeBuendel'
  BY DEF Unversehrt, GanzeBuendel
<1>4. QED BY <1>2, <1>3, UnversehrtRuhig

\* A new record.
LEMMA UnversehrtAnhaengen ==
  ASSUME Typ, Typ', Salden, Unversehrt, NEW t \in Auftraege, Anhaengen(t)
  PROVE  Unversehrt'
<1> DEFINE e == [seq |-> wal.naechste, tx |-> t]
<1>1. /\ wal'.naechste = wal.naechste + 1 /\ wal'.haltbar = wal.haltbar /\ wal'.hwm = wal.hwm
      /\ wal'.saetze = wal.saetze \cup {e} /\ schwebend' = schwebend \cup {e}
      /\ konten' = NachBuchung(konten, t, wal.naechste)
      /\ UNCHANGED <<db, schlange, laufend, korb, leert, lauf, zaehler>>
  BY AnhaengenTut
<1>2. Kopf \in Nat /\ wal.naechste = Kopf + 1 /\ Kopf' = Kopf + 1
  BY <1>1, KopfTyp DEF Kopf
<1>3. e.seq = Kopf + 1 /\ e.tx = t
  BY <1>2
<1> HIDE DEF e
<1>4. NummernDa'
  <2>1. \A s \in Seqs(wal.saetze) : s \in Seqs(wal'.saetze)
    BY <1>1 DEF Seqs
  <2>2. Kopf + 1 \in Seqs(wal'.saetze)
    BY <1>1, <1>3 DEF Seqs
  <2>3. \A s \in 1 .. Kopf' : s = Kopf + 1 \/ s \in 1 .. Kopf
    BY <1>2
  <2>4. db.marke \in Nat
    BY DEF Typ, DbTyp
  <2>5. \A s \in (db.marke + 1) .. Kopf' : s = Kopf + 1 \/ s \in (db.marke + 1) .. Kopf
    BY <1>2, <2>4
  <2>6. QED BY <1>1, <2>1, <2>2, <2>3, <2>5 DEF Unversehrt, NummernDa
<1>5. GebuchtOK'
  <2>1. Offene' = Offene
    BY <1>1 DEF Offene
  <2>2. /\ konten \in [Konten -> Konto] /\ \A a \in Konten \ Beide(t) : konten'[a] = konten[a]
        /\ \A a \in Beide(t) : konten'[a].wal = Kopf + 1
    <3>1. konten \in [Konten -> Konto] /\ wal.naechste \in Nat /\ wal.naechste # 0
      BY <1>2 DEF Typ
    <3>2. QED BY <1>1, <1>2, <3>1, BuchungTyp
  <2>3. \A p \in Offene \cup schwebend : p.seq \in Nat /\ p.tx \in Auftraege
    BY OffeneTyp DEF Typ, Posten, Saetze
  <2>4. SUFFICES ASSUME NEW p \in Offene' \cup schwebend', NEW a \in Beide(p.tx)
                 PROVE  p.seq <= konten'[a].wal
    BY DEF GebuchtOK
  <2>5. CASE p = e
    BY <1>2, <1>3, <2>2, <2>5
  <2>6. CASE p \in Offene \cup schwebend
    <3>1. a \in Konten /\ p.seq <= konten[a].wal /\ konten[a].wal \in Nat /\ konten[a].wal <= Kopf
      BY <2>3, <2>6, BeideKonten DEF Unversehrt, GebuchtOK, Typ, Konto, Salden, KontenOK
    <3>2. konten'[a].wal = konten[a].wal \/ konten'[a].wal = Kopf + 1
      BY <2>2, <3>1
    <3>3. QED BY <1>2, <2>3, <2>6, <3>1, <3>2
  <2>7. QED BY <1>1, <2>1, <2>5, <2>6
<1>6. GanzeBuendel' /\ VermerkOK' /\ AbOK' /\ MarkeOK'
  BY <1>1 DEF Unversehrt, GanzeBuendel, VermerkOK, AbOK, MarkeOK
<1>7. QED BY <1>1, <1>4, <1>5, <1>6 DEF Unversehrt

\* An item enters the queue.
LEMMA UnversehrtEinreihen ==
  ASSUME Typ, Typ', Unversehrt, NEW e \in schwebend, Einreihen(e)
  PROVE  Unversehrt'
<1> DEFINE p == [seq |-> e.seq, tx |-> e.tx, ohne |-> korb.an]
<1>1. schwebend' = schwebend \ {e} /\ UNCHANGED <<wal, konten, db, laufend, leert, lauf, zaehler>>
  BY EinreihenTut
<1>2. korb' = IF korb.an THEN [korb EXCEPT !.saetze = @ \cup {e}] ELSE korb
  BY DEF Einreihen
<1>3. korb \in KorbTyp
  BY DEF Typ
<1>4. korb'.an = korb.an /\ korb'.bis = korb.bis
  BY <1>2, <1>3 DEF KorbTyp
<1>5. Offene' \subseteq Offene \cup {p}
  BY OffeneEinreihen
<1>6. p.seq = e.seq /\ p.tx = e.tx
  OBVIOUS
<1> HIDE DEF p
<1>7. GebuchtOK'
  <2>1. \A q \in Offene' \cup schwebend' : \E o \in Offene \cup schwebend : o.seq = q.seq /\ o.tx = q.tx
    BY <1>1, <1>5, <1>6
  <2>2. \A a \in Konten : konten'[a].wal >= konten[a].wal
    BY <1>1 DEF Typ, Konto
  <2>3. GebuchtOK
    BY DEF Unversehrt
  <2>4. QED BY <2>1, <2>2, <2>3, GebuchtBleibt
<1>8. GanzeBuendel'
  BY <1>1 DEF Unversehrt, GanzeBuendel
<1>9. wal.haltbar >= wal.haltbar
  BY DEF Typ, WalTyp
<1>10. QED BY <1>1, <1>4, <1>7, <1>8, <1>9, UnversehrtRuhig

\* A worker takes a batch.
LEMMA UnversehrtNimmt ==
  ASSUME Typ, Typ', Unversehrt, FlushNimmt
  PROVE  Unversehrt'
<1>1. UNCHANGED <<wal, konten, db, korb, schwebend, leert, lauf, kunde, zaehler>>
  BY FlushNimmtTut
<1>2. PICK b \in BuendelTyp : laufend' = laufend \cup {b} /\ b.offen = KontenVon(ToSet(b.posten))
  BY FlushNimmtTut
<1>3. GebuchtOK'
  <2>1. Offene' \subseteq Offene
    BY OffeneNimmt
  <2>2. QED BY <1>1, <2>1 DEF Unversehrt, GebuchtOK
<1>4. GanzeBuendel'
  BY <1>2 DEF Unversehrt, GanzeBuendel, OhneZeilen
<1>5. wal.haltbar >= wal.haltbar
  BY DEF Typ, WalTyp
<1>6. QED BY <1>1, <1>3, <1>4, <1>5, UnversehrtRuhig

\* A failed batch.
LEMMA UnversehrtScheitert ==
  ASSUME Typ, Typ', Unversehrt, NEW b \in laufend, FlushScheitert(b)
  PROVE  Unversehrt'
<1>1. laufend' = laufend \ {b} /\ UNCHANGED <<wal, konten, db, korb, schwebend, leert, lauf, kunde>>
  BY FlushScheitertTut
<1>2. GebuchtOK'
  <2>1. Offene' \subseteq Offene
    BY OffeneScheitert
  <2>2. QED BY <1>1, <2>1 DEF Unversehrt, GebuchtOK
<1>3. GanzeBuendel'
  BY <1>1 DEF Unversehrt, GanzeBuendel, OhneZeilen
<1>4. wal.haltbar >= wal.haltbar
  BY DEF Typ, WalTyp
<1>5. QED BY <1>1, <1>2, <1>3, <1>4, UnversehrtRuhig


\* A flush writes only what is durable, and marks only what it writes.
LEMMA UnversehrtSchreibt ==
  ASSUME Typ, Typ', Nummern, Unversehrt, zaehler'.frist = 0,
         NEW b \in laufend, NEW G \in SUBSET b.offen, FlushSchreibt(b, G)
  PROVE  Unversehrt'
<1> DEFINE P == OhneZeilen(b)
           c == [posten |-> b.posten, offen |-> b.offen \ G]
<1>1. /\ P \subseteq Offene
      /\ db'.ab = db.ab /\ db'.markeDa = db.markeDa /\ db'.marke = db.marke /\ db'.boden = db.boden
      /\ \A a \in G : konten[a].wal <= wal.haltbar
      /\ laufend' = (laufend \ {b}) \cup IF G = b.offen THEN {} ELSE {c}
      /\ UNCHANGED <<wal, konten, schlange, korb, schwebend, leert, lauf, kunde>>
  BY FlushSchreibtTut
<1>2. db'.vermerke = db.vermerke \cup Seqs(P) /\ (P # {} => G = b.offen)
  <2> DEFINE d == MitVermerk(db, P)
             k == [a \in Konten |-> IF a \in G THEN Upsert(d.konten[a], konten[a]) ELSE d.konten[a]]
  <2>1. db' = [d EXCEPT !.konten = k] /\ (P # {} => G = b.offen)
    BY DEF FlushSchreibt, OhneZeilen
  <2>2. d.vermerke = db.vermerke \cup Seqs(P)
    <3>1. db \in DbTyp
      BY DEF Typ
    <3>2. QED BY <3>1 DEF MitVermerk, DbTyp
  <2>3. d \in [DOMAIN db -> UNION {db[x] : x \in DOMAIN db}] \/ d.vermerke = db'.vermerke
    <3> HIDE DEF k, d
    <3>1. QED BY <2>1
  <2>4. d.vermerke = db'.vermerke
    <3> HIDE DEF k, d
    <3>1. QED BY <2>1
  <2>5. QED BY <2>1, <2>2, <2>4
<1>3. c.posten = b.posten
  OBVIOUS
<1> HIDE DEF c
<1>4. ASSUME NEW s \in db'.vermerke PROVE s \in db.vermerke \/ s <= wal.haltbar
  <2>1. SUFFICES ASSUME s \in Seqs(P) PROVE s <= wal.haltbar
    BY <1>2
  <2>2. PICK p \in P : s = p.seq
    BY <2>1 DEF Seqs
  <2>3. p \in Offene /\ p.seq \in Nat /\ p.tx \in Auftraege /\ p \in ToSet(b.posten)
    BY <1>1, <2>2, OffeneTyp DEF Posten, OhneZeilen
  <2>4. Von[p.tx] \in Beide(p.tx) /\ Von[p.tx] \in Konten
    BY <2>3, BeideKonten DEF Beide
  <2>5. G = KontenVon(ToSet(b.posten))
    BY <1>2, <2>2 DEF Unversehrt, GanzeBuendel
  <2>6. Von[p.tx] \in G
    BY <2>3, <2>4, <2>5 DEF KontenVon
  <2>7. p.seq <= konten[Von[p.tx]].wal /\ konten[Von[p.tx]].wal <= wal.haltbar
    BY <1>1, <2>3, <2>4, <2>6 DEF Unversehrt, GebuchtOK
  <2>8. konten[Von[p.tx]].wal \in Nat /\ wal.haltbar \in Nat
    BY <2>4 DEF Typ, Konto, WalTyp
  <2>9. QED BY <2>2, <2>3, <2>7, <2>8
<1>5. GebuchtOK'
  <2>1. Offene' \subseteq Offene
    BY OffeneSchreibt
  <2>2. QED BY <1>1, <2>1 DEF Unversehrt, GebuchtOK
<1>6. GanzeBuendel'
  <2>1. SUFFICES ASSUME NEW l \in laufend', OhneZeilen(l) # {}
                 PROVE  l.offen = KontenVon(ToSet(l.posten))
    BY DEF GanzeBuendel, OhneZeilen
  <2>2. CASE l \in laufend
    BY <2>1, <2>2 DEF Unversehrt, GanzeBuendel
  <2>3. CASE l = c /\ G # b.offen
    BY <1>2, <1>3, <2>1, <2>3 DEF OhneZeilen
  <2>4. QED BY <1>1, <2>2, <2>3
<1>7. wal'.haltbar >= wal.haltbar
  BY <1>1 DEF Typ, WalTyp
<1> HIDE DEF P
<1>8. QED BY <1>1, <1>4, <1>5, <1>6, <1>7, UnversehrtRuhig

\* A serial order.
LEMMA UnversehrtSeriell ==
  ASSUME Typ, Typ', Unversehrt, NEW t \in leert, SeriellBucht(t)
  PROVE  Unversehrt'
<1>1. /\ konten' = NachBuchung(konten, t, 0) /\ t \in Auftraege
      /\ db'.ab = db.ab /\ db'.markeDa = db.markeDa /\ db'.marke = db.marke /\ db'.boden = db.boden
      /\ UNCHANGED <<wal, schlange, laufend, korb, schwebend, lauf>>
  BY SeriellBuchtTut
<1>2. db'.vermerke = db.vermerke
  BY DEF SeriellBucht
<1>3. GebuchtOK'
  <2>1. konten \in [Konten -> Konto] /\ 0 \in Nat
    BY DEF Typ
  <2>2. \A a \in Konten : konten'[a].wal = konten[a].wal
    BY <1>1, <2>1, BuchungTyp
  <2>3. \A a \in Konten : konten'[a].wal >= konten[a].wal
    BY <2>2 DEF Typ, Konto
  <2>4. Offene' = Offene
    BY <1>1 DEF Offene
  <2>5. GebuchtOK
    BY DEF Unversehrt
  <2>6. QED BY <1>1, <2>3, <2>4, <2>5, GebuchtBleibt
<1>4. GanzeBuendel'
  BY <1>1 DEF Unversehrt, GanzeBuendel
<1>5. wal'.haltbar >= wal.haltbar
  BY <1>1 DEF Typ, WalTyp
<1>6. QED BY <1>1, <1>2, <1>3, <1>4, <1>5, UnversehrtRuhig

\* A block moves the mark forward.
LEMMA UnversehrtBlock ==
  ASSUME Typ, Typ', Nummern, Unversehrt, Block
  PROVE  Unversehrt'
<1> DEFINE bis == Max({korb.bis} \cup Seqs(Bereit))
           E   == IF korb.an
                  THEN {Eintrag(e) : e \in Bereit} \cup {z \in db.zeilen : z.seq <= bis + 1}
                  ELSE db.zeilen
           txs == [i \in 1..Cardinality(E) |-> BlockFolge(E)[i].tx]
<1>1. /\ db' = [db EXCEPT !.bloecke = @ \o txs, !.zeilen = @ \ E,
                          !.marke = IF korb.an THEN bis ELSE @]
      /\ korb' = IF korb.an
                 THEN [korb EXCEPT !.bis = bis, !.ab = Max({@, bis + 1}), !.saetze = @ \ Bereit]
                 ELSE korb
  BY DEF Block
<1>2. bis \in Nat /\ korb.bis <= bis
  <2>1. IsFiniteSet(Bereit) /\ (\A e \in Bereit : e.seq \in Nat) /\ korb.bis \in Nat
    BY BereitTyp DEF Typ, KorbTyp
  <2>2. IsFiniteSet(Seqs(Bereit)) /\ Seqs(Bereit) \in SUBSET Nat
    BY <2>1, SeqsEndlich
  <2>3. QED BY <2>1, <2>2, MaxMit
<1> HIDE DEF bis, E, txs
<1>3. /\ db'.konten = db.konten /\ db'.ab = db.ab /\ db'.markeDa = db.markeDa /\ db'.boden = db.boden
      /\ db'.vermerke = db.vermerke /\ db'.marke = IF korb.an THEN bis ELSE db.marke
  <2>1. db \in DbTyp
    BY DEF Typ
  <2>2. QED BY <1>1, <2>1 DEF DbTyp
<1>4. korb'.an = korb.an /\ korb'.bis = IF korb.an THEN bis ELSE korb.bis
  <2>1. korb \in KorbTyp
    BY DEF Typ
  <2>2. QED BY <1>1, <2>1 DEF KorbTyp
<1>5. UNCHANGED <<wal, konten, schlange, laufend, schwebend, leert, lauf, kunde, zaehler>>
  BY BlockTut
<1>6. MarkeOK'
  BY <1>3, <1>4 DEF Unversehrt, MarkeOK
<1>7. NummernDa'
  <2>1. db.marke = korb.bis /\ korb.bis \in Nat /\ Kopf' = Kopf /\ Kopf \in Nat
    BY <1>5, KopfTyp DEF Unversehrt, MarkeOK, Kopf, Typ, KorbTyp
  <2>2. korb.an => (bis + 1) .. Kopf \subseteq (korb.bis + 1) .. Kopf
    BY <1>2, <2>1
  <2>3. korb.an => (db'.marke + 1) .. Kopf \subseteq Seqs(wal.saetze)
    BY <1>3, <2>1, <2>2 DEF Unversehrt, NummernDa
  <2>4. QED BY <1>4, <1>5, <2>1, <2>3 DEF Unversehrt, NummernDa
<1>8. GebuchtOK' /\ GanzeBuendel' /\ VermerkOK' /\ AbOK'
  <2>1. Offene' = Offene
    BY <1>5 DEF Offene
  <2>2. QED BY <1>3, <1>5, <2>1 DEF Unversehrt, GebuchtOK, GanzeBuendel, VermerkOK, AbOK
<1>9. QED BY <1>3, <1>5, <1>6, <1>7, <1>8 DEF Unversehrt

\* The limit of a compaction without the Korb.
LEMMA MitBodenTyp ==
  ASSUME Typ
  PROVE  LET rechnung == Max({0, Kopf - Len(schlange) - Abstand})
             mitOffen == IF Offene = {} THEN rechnung
                         ELSE Min({rechnung, Max({0, Min(Seqs(Offene)) - Abstand})})
         IN  Max({mitOffen, db.boden}) \in Nat
<1> DEFINE rechnung == Max({0, Kopf - Len(schlange) - Abstand})
           unten    == Max({0, Min(Seqs(Offene)) - Abstand})
           mitOffen == IF Offene = {} THEN rechnung ELSE Min({rechnung, unten})
<1>1. Kopf \in Nat /\ Len(schlange) \in Nat /\ Abstand \in Nat /\ db.boden \in Nat
  <2>1. schlange \in Seq(Posten) /\ db \in DbTyp
    BY DEF Typ
  <2>2. QED BY <2>1, KopfTyp, GrenzenTyp DEF DbTyp
<1>2. rechnung \in Nat
  <2>1. 0 \in Int /\ Kopf - Len(schlange) - Abstand \in Int
    BY <1>1
  <2>2. rechnung \in {0, Kopf - Len(schlange) - Abstand} /\ 0 <= rechnung
    BY <2>1, Groesseres
  <2>3. QED BY <2>1, <2>2
<1>3. Offene # {} => unten \in Nat
  <2>1. SUFFICES ASSUME Offene # {} PROVE unten \in Nat
    OBVIOUS
  <2> DEFINE m == Min(Seqs(Offene))
  <2>2. Seqs(Offene) \subseteq Nat /\ Seqs(Offene) # {}
    BY <2>1, OffeneTyp DEF Posten, Seqs
  <2>3. m \in Nat
    BY <2>2, MinMenge
  <2> HIDE DEF m
  <2>4. 0 \in Int /\ m - Abstand \in Int
    BY <1>1, <2>3
  <2>5. Max({0, m - Abstand}) \in {0, m - Abstand} /\ 0 <= Max({0, m - Abstand})
    BY <2>4, Groesseres
  <2>6. Max({0, m - Abstand}) \in Nat
    BY <2>4, <2>5
  <2>7. QED BY <2>6 DEF m
<1> HIDE DEF rechnung, unten
<1>4. mitOffen \in Nat
  BY <1>2, <1>3, Kleineres
<1> HIDE DEF mitOffen
<1>5. Max({mitOffen, db.boden}) \in Nat
  BY <1>1, <1>4, GroesseresNat
<1>6. QED BY <1>5 DEF mitOffen, rechnung, unten

\* A compaction leaves what the Korb still holds.
LEMMA KuerzenBisKorb ==
  ASSUME Typ, korb.an
  PROVE  KuerzenBis <= korb.bis + 1
<1> DEFINE rechnung == Max({0, Kopf - Len(schlange) - Abstand})
           mitOffen == IF Offene = {} THEN rechnung
                       ELSE Min({rechnung, Max({0, Min(Seqs(Offene)) - Abstand})})
           mitBoden == Max({mitOffen, db.boden})
<1>1. KuerzenBis = Min({mitBoden, korb.bis + 1})
  BY DEF KuerzenBis
<1>2. korb.bis + 1 \in Nat
  BY DEF Typ, KorbTyp
<1>3. mitBoden \in Nat
  BY MitBodenTyp
<1> HIDE DEF mitBoden
<1>4. Min({mitBoden, korb.bis + 1}) <= korb.bis + 1
  BY <1>2, <1>3, Kleineres
<1>5. QED BY <1>1, <1>4

\* A compaction does not pass what is durable or noted.
LEMMA UnversehrtKuerzen ==
  ASSUME Typ, Typ', Nummern, Salden, Unterwegs, HaltbarOK, KeinNachzuegler, Unversehrt, zaehler.frist = 0,
         NEW gross \in BOOLEAN, Kuerzen(gross)
  PROVE  Unversehrt'
<1> DEFINE x == KuerzenBis
<1>1. /\ db'.boden = db.boden /\ wal'.naechste = wal.naechste /\ wal'.haltbar = wal.haltbar
      /\ wal'.saetze = (IF gross THEN {r \in wal.saetze : r.seq >= x} ELSE wal.saetze)
      /\ wal'.hwm = (IF gross THEN Kopf ELSE wal.hwm)
      /\ lauf = "laeuft" /\ UNCHANGED <<konten, schlange, laufend, korb, schwebend, leert, lauf, kunde>>
  BY KuerzenTut
<1>2. x \in Nat /\ x > 0
  BY KuerzenBisIst DEF Kuerzen
<1>3. \A n \in Nat : n < x /\ n >= db.boden => n + Abstand < Kopf /\ \A p \in Offene : n < p.seq
  BY KuerzenBisIst
<1>4. korb.an => x <= korb.bis + 1
  BY KuerzenBisKorb
<1>5. db'.ab \in {db.ab, x} /\ db'.vermerke \subseteq db.vermerke /\ db'.markeDa = db.markeDa /\ db'.marke = db.marke
  <2> DEFINE y == Max({db.ab, x})
             v == {s \in db.vermerke : s >= x}
  <2>1. db' = [db EXCEPT !.ab = y, !.vermerke = v]
    BY DEF Kuerzen
  <2>2. db \in DbTyp /\ db.ab \in Nat
    BY DEF Typ, DbTyp
  <2>3. y \in {db.ab, x}
    BY <1>2, <2>2, GroesseresNat
  <2> HIDE DEF y, x
  <2>4. QED BY <2>1, <2>2, <2>3 DEF DbTyp
<1> HIDE DEF x
<1>6. Kopf \in Nat /\ Kopf' = Kopf /\ wal.haltbar \in Nat /\ wal.hwm \in Nat /\ wal.hwm <= Kopf /\ Abstand \in Nat
  BY <1>1, KopfTyp, GrenzenTyp DEF Kopf, Typ, WalTyp
<1>7. x <= wal.haltbar + 1 \/ x <= wal.hwm + 1
  <2>1. CASE x = 1
    BY <1>6, <2>1
  <2>2. CASE x # 1
    <3> DEFINE n == x - 1
    <3>1. n \in Nat /\ n >= 1 /\ n < x
      BY <1>2, <2>2
    <3>2. db.boden = 0
      BY DEF Unversehrt
    <3> HIDE DEF n
    <3>3. n + Abstand < Kopf /\ \A p \in Offene : n < p.seq
      BY <1>3, <3>1, <3>2
    <3>4. n \in 1 .. Kopf
      BY <1>6, <3>1, <3>3
    <3>5. CASE n <= wal.hwm
      BY <1>2, <1>6, <3>5 DEF n
    <3>6. CASE n \in Seqs(wal.saetze)
      <4>1. PICK r \in wal.saetze : r.seq = n
        BY <3>6 DEF Seqs
      <4>2. r \in Nachspielbar /\ r.tx \in Auftraege
        BY <3>1, <3>2, <4>1, SatzTyp DEF Nachspielbar
      <4>3. r \notin schwebend
        BY <1>6, <3>1, <3>3, <4>1 DEF KeinNachzuegler
      <4>4. Von[r.tx] \in Beide(r.tx) /\ Von[r.tx] \in Konten
        BY <4>2, BeideKonten
      <4>5. ~Traeger(Von[r.tx], r.seq)
        <5>1. \A p \in Offene : p.seq \in Nat /\ ~(p.seq <= r.seq)
          BY <3>1, <3>3, <4>1, OffeneTyp DEF Posten
        <5>2. ToSet(schlange) \subseteq Offene /\ \A b \in laufend : ToSet(b.posten) \subseteq Offene
          BY DEF Offene
        <5>3. QED BY <5>1, <5>2 DEF Traeger
      <4>6. r.seq <= db.konten[Von[r.tx]].wal
        BY <1>1, <4>2, <4>3, <4>4, <4>5 DEF Unterwegs, GetragenOK, Laeuft
      <4>7. db.konten[Von[r.tx]].wal <= wal.haltbar /\ db.konten[Von[r.tx]].wal \in Nat
        BY <4>4, KontoTyp DEF HaltbarOK
      <4>8. n <= wal.haltbar
        BY <1>6, <3>1, <4>1, <4>6, <4>7
      <4>9. QED BY <1>2, <1>6, <4>8 DEF n
    <3>7. QED BY <3>4, <3>5, <3>6 DEF Unversehrt, NummernDa
  <2>3. QED BY <2>1, <2>2
<1>8. AbOK'
  <2>1. db.ab \in Nat /\ wal'.hwm \in Nat /\ wal'.hwm >= wal.hwm
    BY <1>1, <1>6 DEF Typ, DbTyp
  <2>2. QED BY <1>1, <1>2, <1>5, <1>6, <1>7, <2>1 DEF Unversehrt, AbOK
<1>9. VermerkOK' /\ MarkeOK' /\ GanzeBuendel' /\ GebuchtOK'
  <2>1. Offene' = Offene
    BY <1>1 DEF Offene
  <2>2. QED BY <1>1, <1>5, <2>1 DEF Unversehrt, VermerkOK, MarkeOK, GanzeBuendel, GebuchtOK
<1>10. NummernDa'
  <2>1. \A s \in 1 .. Kopf : s \in Seqs(wal'.saetze) \/ s <= wal'.hwm
    BY <1>1, <1>6 DEF Unversehrt, NummernDa
  <2>2. ASSUME korb.an, NEW s \in (db.marke + 1) .. Kopf PROVE s \in Seqs(wal'.saetze)
    <3>1. db.marke = korb.bis /\ korb.bis \in Nat
      BY DEF Unversehrt, MarkeOK, Typ, KorbTyp
    <3>2. PICK r \in wal.saetze : r.seq = s
      BY <2>2 DEF Unversehrt, NummernDa, Seqs
    <3>3. s >= x
      BY <1>2, <1>4, <1>6, <2>2, <3>1
    <3>4. r \in wal'.saetze
      BY <1>1, <3>2, <3>3
    <3>5. QED BY <3>2, <3>4 DEF Seqs
  <2>3. QED BY <1>1, <1>5, <1>6, <2>1, <2>2 DEF NummernDa
<1>11. QED BY <1>1, <1>8, <1>9, <1>10 DEF Unversehrt

\* The first life goes on.
LEMMA ErstesLebenSchritt ==
  ASSUME Typ, Typ', Nummern, Salden, Unterwegs, HaltbarOK, KeinNachzuegler, ErstesLeben, [Next]_vars
  PROVE  ErstesLeben'
<1>1. SUFFICES ASSUME Heil', zaehler'.abstuerze = 0 PROVE Unversehrt'
  BY DEF ErstesLeben
<1>2. CASE UNCHANGED vars
  <2>1. /\ UNCHANGED <<wal, konten, db, schlange, laufend, korb, schwebend, leert, lauf, zaehler>>
    BY <1>2 DEF vars
  <2>2. Unversehrt
    BY <1>1, <2>1 DEF ErstesLeben, Heil
  <2>3. wal'.haltbar >= wal.haltbar
    BY <2>1 DEF Typ, WalTyp
  <2>4. QED BY <2>1, <2>2, <2>3, UnversehrtStill
<1>3. CASE Next
  <2>1. /\ Heil /\ zaehler.abstuerze = 0
        /\ ~(\E bis \in 0 .. Kopf : Absturz(bis)) /\ ~(\E u \in BOOLEAN : Ersatz(u))
    <3>1. zaehler.abstuerze \in Nat
      BY DEF Typ, ZaehlerTyp
    <3>2. QED BY <1>1, <1>3, <3>1, ZaehlerTut
  <2>2. Unversehrt /\ lauf = "laeuft"
    BY <2>1 DEF ErstesLeben, Unversehrt
  <2>3. zaehler.frist = 0 /\ zaehler'.frist = 0
    BY <1>1, <2>1 DEF Heil
  <2>4. ~(\E an \in BOOLEAN : Einspielen(an)) /\ ~Anschluss
    BY <2>2 DEF Einspielen, Anschluss
  <2>5. CASE \E t \in Auftraege : Anhaengen(t)
    BY <2>2, <2>5, UnversehrtAnhaengen
  <2>6. CASE \E e \in schwebend : Einreihen(e)
    BY <2>2, <2>6, UnversehrtEinreihen
  <2>7. CASE FlushNimmt
    BY <2>2, <2>7, UnversehrtNimmt
  <2>8. CASE \E b \in laufend : FlushScheitert(b)
    BY <2>2, <2>8, UnversehrtScheitert
  <2>9. CASE \E b \in laufend : \E G \in SUBSET b.offen : FlushSchreibt(b, G)
    BY <2>2, <2>3, <2>9, UnversehrtSchreibt
  <2>10. CASE \E t \in leert : SeriellBucht(t)
    BY <2>2, <2>10, UnversehrtSeriell
  <2>11. CASE Block
    BY <2>2, <2>11, UnversehrtBlock
  <2>12. CASE \E gross \in BOOLEAN : Kuerzen(gross)
    BY <2>2, <2>3, <2>12, UnversehrtKuerzen
  <2>13. CASE \E bis \in 1 .. Kopf : Sichern(bis)
    <3>1. PICK bis \in 1 .. Kopf : Sichern(bis)
      BY <2>13
    <3>2. /\ wal'.saetze = wal.saetze /\ wal'.haltbar = bis /\ bis \in wal.haltbar .. Kopf
          /\ wal'.naechste = wal.naechste /\ wal'.hwm = wal.hwm
      <4>1. wal' = [wal EXCEPT !.haltbar = bis] /\ wal \in WalTyp
        BY <3>1 DEF Sichern, Typ
      <4>2. QED BY <3>1, <4>1, SichernTut DEF WalTyp
    <3>3. wal'.haltbar >= wal.haltbar
      BY <3>2 DEF Typ, WalTyp
    <3>4. UNCHANGED <<konten, db, schlange, laufend, korb, schwebend, lauf>>
      BY <3>1 DEF Sichern
    <3>5. QED BY <2>2, <3>2, <3>3, <3>4, UnversehrtStill
  <2>14. CASE (\E t \in Auftraege : SeriellBeginnt(t)) \/ (\E t \in leert : SeriellAbgelehnt(t))
    <3>1. UNCHANGED <<wal, konten, db, schlange, laufend, korb, schwebend, lauf>>
      BY <2>14 DEF SeriellBeginnt, SeriellAbgelehnt
    <3>2. wal'.haltbar >= wal.haltbar
      BY <3>1 DEF Typ, WalTyp
    <3>3. QED BY <2>2, <3>1, <3>2, UnversehrtStill
  <2>15. QED BY <1>3, <2>1, <2>4, <2>5, <2>6, <2>7, <2>8, <2>9, <2>10, <2>11, <2>12, <2>13, <2>14 DEF Next
<1>4. QED BY <1>2, <1>3

\* What the first crash leaves is in step with the log.
LEMMA ErsterAbsturz ==
  ASSUME Typ, Typ', HaltbarOK, Unversehrt, zaehler.frist = 0, NEW bis \in 0 .. Kopf, Absturz(bis)
  PROVE  lauf' = "aus" /\ db'.boden = 0 /\ StimmigMitDatei(PeekNachStart)' /\ (db'.markeDa => OhneLoch')
<1>1. /\ wal'.saetze = {r \in wal.saetze : r.seq <= bis} /\ wal'.naechste = wal.naechste /\ wal'.hwm = wal.hwm
      /\ bis \in wal.haltbar .. Kopf /\ lauf' = "aus" /\ db' = db
  BY AbsturzTut
<1>2. Kopf \in Nat /\ wal.haltbar \in Nat /\ wal.haltbar <= Kopf /\ wal.hwm \in Nat /\ Kopf' = Kopf /\ bis \in Nat
  BY <1>1, KopfTyp DEF Typ, WalTyp, Kopf
<1> DEFINE T == Seqs(wal'.saetze)
           peek == Hoechste({wal'.hwm} \cup T) + 1
<1>3. peek \in Nat /\ wal.hwm < peek /\ 0 < peek /\ \A s \in T : s < peek
  <2>1. IsFiniteSet(wal'.saetze) /\ \A e \in wal'.saetze : e.seq \in Nat
    BY DEF Typ, WalTyp, Saetze
  <2>2. IsFiniteSet(T) /\ T \in SUBSET Nat
    BY <2>1, SeqsEndlich
  <2> HIDE DEF T
  <2>3. {wal'.hwm} \cup T \in SUBSET Nat /\ IsFiniteSet({wal'.hwm} \cup T)
    <3>1. IsFiniteSet(T \cup {wal'.hwm}) /\ T \cup {wal'.hwm} = {wal'.hwm} \cup T
      BY <2>2, FS_AddElement
    <3>2. QED BY <1>1, <1>2, <2>2, <3>1
  <2> DEFINE h == Hoechste({wal'.hwm} \cup T)
  <2>4. h \in Nat /\ \A s \in {wal'.hwm} \cup T : s <= h
    BY <2>3, HoechsteIst
  <2> HIDE DEF h
  <2>5. peek = h + 1
    BY DEF h
  <2>6. \A s \in T : s \in Nat /\ s <= h
    BY <2>2, <2>4
  <2> HIDE DEF peek
  <2>7. wal.hwm <= h
    BY <1>1, <2>4
  <2>8. QED BY <1>2, <2>4, <2>5, <2>6, <2>7
<1> HIDE DEF peek
<1>4. wal.haltbar < peek
  <2>1. CASE wal.haltbar = 0 \/ wal.haltbar <= wal.hwm
    BY <1>2, <1>3, <2>1
  <2>2. CASE wal.haltbar # 0 /\ ~(wal.haltbar <= wal.hwm)
    <3>1. wal.haltbar \in 1 .. Kopf
      BY <1>2, <2>2
    <3>2. PICK r \in wal.saetze : r.seq = wal.haltbar
      BY <2>2, <3>1 DEF Unversehrt, NummernDa, Seqs
    <3>3. r.seq <= bis
      BY <1>1, <1>2, <3>2
    <3>4. wal.haltbar \in T
      BY <1>1, <3>2, <3>3 DEF Seqs
    <3>5. QED BY <1>3, <3>4
  <2>3. QED BY <2>1, <2>2
<1>5. db.ab <= peek
  <2>1. db.ab \in Nat
    BY DEF Typ, DbTyp
  <2>2. QED BY <1>2, <1>3, <1>4, <2>1 DEF Unversehrt, AbOK
<1>6. Hoechste(db.vermerke) < peek
  <2>1. db.vermerke \in SUBSET Nat
    BY DEF Typ, DbTyp
  <2>2. \A s \in db.vermerke : s \in 0 .. wal.haltbar
    BY <1>2, <2>1 DEF Unversehrt, VermerkOK
  <2>3. IsFiniteSet(0 .. wal.haltbar)
    <3>1. 0 \in Int /\ wal.haltbar \in Int
      BY <1>2
    <3>2. QED BY <3>1, FS_Interval
  <2>4. IsFiniteSet(db.vermerke)
    BY <2>2, <2>3, FS_Subset
  <2> DEFINE h == Hoechste(db.vermerke)
  <2>5. h \in Nat /\ h \in {0} \cup db.vermerke
    BY <2>1, <2>4, HoechsteIst
  <2> HIDE DEF h
  <2>6. h <= wal.haltbar
    BY <1>2, <2>2, <2>5
  <2>7. h < peek
    BY <1>2, <1>3, <1>4, <2>5, <2>6
  <2>8. QED BY <2>7 DEF h
<1>7. ASSUME NEW a \in Konten PROVE db.konten[a].wal < peek
  <2>1. db.konten[a].wal \in Nat /\ db.konten[a].wal <= wal.haltbar
    BY KontoTyp DEF HaltbarOK
  <2>2. QED BY <1>2, <1>3, <1>4, <2>1
<1>8. StimmigMitDatei(PeekNachStart)'
  <2>1. PeekNachStart' = peek
    BY DEF peek, PeekNachStart
  <2>2. QED BY <1>1, <1>5, <1>6, <1>7, <2>1 DEF StimmigMitDatei
<1>9. db'.markeDa => OhneLoch'
  <2>1. SUFFICES ASSUME db.markeDa PROVE {s \in T : s > db.marke} = (db.marke + 1) .. bis
    BY <1>1, <1>2 DEF OhneLoch
  <2>2. (db.marke + 1) .. Kopf \subseteq Seqs(wal.saetze) /\ db.marke \in Nat
    BY <2>1 DEF Unversehrt, NummernDa, MarkeOK, Typ, DbTyp
  <2>3. ASSUME NEW s \in T, s > db.marke PROVE s \in (db.marke + 1) .. bis
    <3>1. PICK r \in wal.saetze : s = r.seq /\ r.seq <= bis
      BY <1>1, <2>3 DEF Seqs
    <3>2. r.seq \in Nat
      BY SatzTyp
    <3>3. QED BY <1>2, <2>2, <2>3, <3>1, <3>2
  <2>4. ASSUME NEW s \in (db.marke + 1) .. bis PROVE s \in T /\ s > db.marke
    <3>1. s \in (db.marke + 1) .. Kopf /\ s <= bis /\ s > db.marke
      BY <1>1, <1>2, <2>2
    <3>2. PICK r \in wal.saetze : r.seq = s
      BY <2>2, <3>1 DEF Seqs
    <3>3. QED BY <1>1, <3>1, <3>2 DEF Seqs
  <2> HIDE DEF T
  <2>5. QED BY <2>3, <2>4
<1>10. QED BY <1>1, <1>8, <1>9 DEF Unversehrt

\* As many records as numbers.
LEMMA SoVieleNummern ==
  ASSUME NEW S, IsFiniteSet(S), \A x, y \in S : x.seq = y.seq => x = y
  PROVE  Cardinality(Seqs(S)) = Cardinality(S)
<1> DEFINE f == [e \in S |-> e.seq]
<1>1. f \in Surjection(S, Seqs(S))
  BY DEF Surjection, Seqs
<1>2. f \in Injection(S, Seqs(S))
  <2>1. f \in [S -> Seqs(S)] /\ \A x, y \in S : f[x] = f[y] => x = y
    BY DEF Seqs
  <2>2. QED BY <2>1 DEF Injection, IsInjective
<1>3. QED BY <1>1, <1>2, FS_Surjection

\* The replay after the first crash hands the Korb numbers without a gap.
LEMMA ErstesEinspielen ==
  ASSUME Typ, Typ', Nummern, db.boden = 0, StimmigMitDatei(PeekNachStart), db.markeDa => OhneLoch,
         NEW an \in BOOLEAN, Einspielen(an)
  PROVE  /\ lauf' = "eingespielt"
         /\ korb'.an /\ db'.markeDa =>
              Seqs(korb'.saetze) = (korb'.bis + 1) .. (korb'.bis + Cardinality(korb'.saetze))
<1> DEFINE bis == Max({db.marke, db.boden})
<1>1. lauf' = "eingespielt" /\ IsFiniteSet(korb'.saetze) /\ db' = Nachholen(an)
  BY EinspielenTut
<1>2. korb' = [an |-> an, ab |-> bis + 1, bis |-> bis, fehlt |-> {}, saetze |->
                 IF an /\ db.markeDa THEN {r \in Nachspielbar : r.seq > bis} ELSE {}]
  BY DEF Einspielen
<1>3. db.marke \in Nat /\ bis = db.marke
  <2>1. db.marke \in Nat /\ db.boden \in Nat
    BY DEF Typ, DbTyp
  <2>2. bis \in {db.marke, 0} /\ bis >= db.marke
    BY <2>1, GroesseresNat
  <2> HIDE DEF bis
  <2>3. QED BY <2>1, <2>2
<1>4. db'.markeDa = db.markeDa
  BY <1>1, NachholenTyp
<1>5. SUFFICES ASSUME an, db.markeDa
               PROVE  Seqs(korb'.saetze) = (korb'.bis + 1) .. (korb'.bis + Cardinality(korb'.saetze))
  BY <1>1, <1>2, <1>4
<1> HIDE DEF bis
<1>6. korb'.bis = db.marke /\ korb'.saetze = {r \in wal.saetze : r.seq > db.marke}
  <2>1. Nachspielbar = wal.saetze
    BY SatzTyp DEF Nachspielbar
  <2>2. QED BY <1>2, <1>3, <1>5, <2>1
<1>7. Seqs(korb'.saetze) = {s \in Seqs(wal.saetze) : s > db.marke}
  BY <1>6 DEF Seqs
<1>8. PICK b \in 0 .. Kopf : Seqs(korb'.saetze) = (db.marke + 1) .. b
  BY <1>5, <1>7 DEF OhneLoch
<1>9. Cardinality(Seqs(korb'.saetze)) = Cardinality(korb'.saetze)
  <2>1. \A x, y \in korb'.saetze : x.seq = y.seq => x = y
    BY <1>6 DEF Nummern, SatzNummern
  <2>2. QED BY <1>1, <2>1, SoVieleNummern
<1>10. b \in Int /\ db.marke + 1 \in Int
  BY <1>3, <1>8, KopfTyp
<1>11. Cardinality(korb'.saetze) = IF db.marke + 1 > b THEN 0 ELSE b - (db.marke + 1) + 1
  BY <1>8, <1>9, <1>10, FS_Interval
<1>12. CASE db.marke + 1 > b
  <2>1. (db.marke + 1) .. b = {} /\ (db.marke + 1) .. (db.marke + 0) = {}
    BY <1>3, <1>10, <1>12
  <2>2. QED BY <1>6, <1>8, <1>11, <1>12, <2>1
<1>13. CASE ~(db.marke + 1 > b)
  <2>1. db.marke + (b - (db.marke + 1) + 1) = b
    BY <1>3, <1>10
  <2>2. QED BY <1>6, <1>8, <1>11, <1>13, <2>1
<1>14. QED BY <1>12, <1>13

\* While the process is down or replaying only the start acts; otherwise lauf stays.
LEMMA LaufTut ==
  ASSUME [Next]_vars, ~(\E bis \in 0 .. Kopf : Absturz(bis)), ~(\E u \in BOOLEAN : Ersatz(u))
  PROVE  \/ lauf = "laeuft" /\ lauf' = "laeuft"
         \/ UNCHANGED vars
         \/ lauf = "aus" /\ \E an \in BOOLEAN : Einspielen(an)
         \/ lauf = "eingespielt" /\ Anschluss
<1>1. CASE \/ \E t \in Auftraege : Anhaengen(t) \/ SeriellBeginnt(t)
           \/ \E e \in schwebend : Einreihen(e)
           \/ \E bis \in 1 .. Kopf : Sichern(bis)
           \/ FlushNimmt
  BY <1>1 DEF Anhaengen, Gestellt, SeriellBeginnt, Einreihen, Sichern, FlushNimmt
<1>2. CASE \/ \E b \in laufend : FlushScheitert(b) \/ \E G \in SUBSET b.offen : FlushSchreibt(b, G)
           \/ \E t \in leert : SeriellBucht(t) \/ SeriellAbgelehnt(t)
           \/ Block
           \/ \E gross \in BOOLEAN : Kuerzen(gross)
  BY <1>2 DEF FlushScheitert, FlushSchreibt, SeriellBucht, SeriellAbgelehnt, Block, Kuerzen
<1>3. CASE \E an \in BOOLEAN : Einspielen(an)
  BY <1>3 DEF Einspielen
<1>4. CASE Anschluss
  BY <1>4 DEF Anschluss
<1>5. QED BY <1>1, <1>2, <1>3, <1>4 DEF Next

\* The start after the first crash.
LEMMA ErsterStartSchritt ==
  ASSUME Typ, Typ', Nummern, HaltbarOK, ErstesLeben, ErsterStart, [Next]_vars
  PROVE  ErsterStart'
<1>1. SUFFICES ASSUME Heil', zaehler'.abstuerze = 1
               PROVE  /\ lauf' # "verweigert"
                      /\ lauf' = "aus" => /\ db'.boden = 0 /\ StimmigMitDatei(PeekNachStart)'
                                          /\ (db'.markeDa => OhneLoch')
                      /\ lauf' = "eingespielt" /\ korb'.an /\ db'.markeDa =>
                           Seqs(korb'.saetze) = (korb'.bis + 1) .. (korb'.bis + Cardinality(korb'.saetze))
  BY DEF ErsterStart
<1>2. CASE UNCHANGED vars
  BY <1>1, <1>2 DEF vars, ErsterStart, Heil, StimmigMitDatei, PeekNachStart, OhneLoch, Kopf
<1>3. CASE Next /\ \E bis \in 0 .. Kopf : Absturz(bis)
  <2>1. PICK bis \in 0 .. Kopf : Absturz(bis)
    BY <1>3
  <2>2. Heil /\ zaehler.abstuerze = 0
    <3>1. zaehler.abstuerze \in Nat
      BY DEF Typ, ZaehlerTyp
    <3>2. Heil /\ zaehler'.abstuerze = zaehler.abstuerze + 1
      BY <1>1, <1>3, ZaehlerTut
    <3>3. QED BY <1>1, <3>1, <3>2
  <2>3. Unversehrt /\ zaehler.frist = 0
    BY <2>2 DEF ErstesLeben, Heil
  <2>4. QED BY <2>1, <2>3, ErsterAbsturz
<1>4. CASE Next /\ ~\E bis \in 0 .. Kopf : Absturz(bis)
  <2>1. Heil /\ zaehler.abstuerze = 1 /\ ~\E u \in BOOLEAN : Ersatz(u)
    BY <1>1, <1>4, ZaehlerTut
  <2>2. /\ lauf = "aus" => db.boden = 0 /\ StimmigMitDatei(PeekNachStart) /\ (db.markeDa => OhneLoch)
        /\ lauf = "eingespielt" /\ korb.an /\ db.markeDa =>
             Seqs(korb.saetze) = (korb.bis + 1) .. (korb.bis + Cardinality(korb.saetze))
    BY <2>1 DEF ErsterStart
  <2>3. CASE lauf = "aus" /\ \E an \in BOOLEAN : Einspielen(an)
    <3>1. PICK an \in BOOLEAN : Einspielen(an)
      BY <2>3
    <3>2. /\ lauf' = "eingespielt"
          /\ korb'.an /\ db'.markeDa =>
               Seqs(korb'.saetze) = (korb'.bis + 1) .. (korb'.bis + Cardinality(korb'.saetze))
      BY <2>2, <2>3, <3>1, ErstesEinspielen
    <3>3. QED BY <3>2
  <2>4. CASE lauf = "eingespielt" /\ Anschluss
    <3>1. lauf' = "laeuft"
      BY <2>2, <2>4 DEF Anschluss
    <3>2. QED BY <3>1
  <2>5. CASE lauf' = "laeuft"
    BY <2>5
  <2>6. QED BY <1>2, <1>4, <2>1, <2>3, <2>4, <2>5, LaufTut
<1>5. QED BY <1>2, <1>3, <1>4

\* At the beginning.
LEMMA StartAnfang == Init => ErstesLeben /\ ErsterStart
<1> SUFFICES ASSUME Init PROVE ErstesLeben /\ ErsterStart
  OBVIOUS
<1>1. /\ wal.saetze = {} /\ wal.naechste = 1 /\ wal.haltbar = 0 /\ wal.hwm = 0 /\ lauf = "laeuft"
      /\ schlange = <<>> /\ laufend = {} /\ schwebend = {} /\ zaehler.abstuerze = 0
  BY DEF Init
<1>2. /\ db.vermerke = {} /\ db.ab = 1 /\ db.marke = 0 /\ db.boden = 0 /\ db.markeDa = korb.an /\ korb.bis = 0
  <2>1. PICK an \in {w[1] : w \in Wechsel} :
          /\ korb = [an |-> an, ab |-> 1, bis |-> 0, fehlt |-> {}, saetze |-> {}]
          /\ db = [konten |-> konten, zeilen |-> {}, id |-> 0, vermerke |-> {}, ab |-> 1,
                   markeDa |-> an, marke |-> 0, boden |-> 0, bloecke |-> <<>>]
    BY DEF Init
  <2>2. QED BY <2>1
<1>3. Kopf = 0
  BY <1>1 DEF Kopf
<1>4. NummernDa
  <2>1. 1 .. 0 = {} /\ (db.marke + 1) .. 0 = {}
    BY <1>2
  <2>2. QED BY <1>3, <2>1 DEF NummernDa
<1>5. Offene = {}
  BY <1>1 DEF Offene, ToSet
<1>6. GebuchtOK /\ GanzeBuendel /\ VermerkOK /\ AbOK /\ MarkeOK
  BY <1>1, <1>2, <1>5 DEF GebuchtOK, GanzeBuendel, VermerkOK, AbOK, MarkeOK
<1>7. ErstesLeben
  BY <1>1, <1>2, <1>4, <1>6 DEF ErstesLeben, Unversehrt
<1>8. ErsterStart
  BY <1>1 DEF ErsterStart
<1>9. QED BY <1>7, <1>8

\* The first start after a crash finds log and database in step, and the Korb without
\* a gap (walVermerkeStimmigMitDatei, speicherKorbNachWiederanlauf).
THEOREM StartVerweigertNurBeiSchadenGilt ==
  ASSUME ~ErsatzUnterbrochen
  PROVE  Spec /\ []KeinNachzuegler => []StartVerweigertNurBeiSchaden
<1> DEFINE I == /\ Typ /\ Nummern /\ Salden /\ Unterwegs /\ HaltbarOK
                /\ ErstesLeben /\ ErsterStart
<1>1. I /\ KeinNachzuegler /\ [Next]_vars => I'
  BY TypSchritt, SaldenSchritt, UnterwegsSchritt, HaltbarSchritt, ErstesLebenSchritt, ErsterStartSchritt
<1>2. Init => I
  BY TypAnfang, SaldenAnfang, UnterwegsAnfang, GanzAnfang, StartAnfang
<1>3. I => StartVerweigertNurBeiSchaden
  <2>1. SUFFICES ASSUME I, lauf = "verweigert", zaehler.frist = 0, zaehler.ersatz = 0
                 PROVE  zaehler.abstuerze > 1
    <3>1. ASSUME I PROVE zaehler.frist \in Nat /\ zaehler.ersatz \in Nat
      BY <3>1 DEF Typ, ZaehlerTyp
    <3>2. QED BY <3>1 DEF StartVerweigertNurBeiSchaden
  <2>2. zaehler.abstuerze \in Nat /\ zaehler.abstuerze # 0 /\ zaehler.abstuerze # 1
    BY <2>1 DEF ErstesLeben, ErsterStart, Unversehrt, Heil, Typ, ZaehlerTyp
  <2>3. QED BY <2>2
<1> HIDE DEF I
<1>4. QED BY <1>1, <1>2, <1>3, PTL DEF Spec
=============================================================================
