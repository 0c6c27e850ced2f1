------------------------------ MODULE WalFlush ------------------------------
(***************************************************************************)
(* Reconciling the write-ahead log with Postgres.  A fast transfer changes *)
(* the live accounts and is acknowledged when its record is durable; the   *)
(* accounts and the row for pending_txs follow later, in batches written   *)
(* by several workers.  An account's wal_seq says up to which record its   *)
(* balance goes, a mark (Vermerk) per record that its row is written.      *)
(* With the Speicherkorb switched on a transfer gets no row.  One node,    *)
(* with crashes, restarts in either mode, failing and partial flushes,     *)
(* compaction and the replacement of the whole state by a resync.          *)
(*                                                                         *)
(* Source, in x/humanity/keeper: transfer_wal, wal_ausgang, wal_flush_*,   *)
(* wal_nonce_reihenfolge, wal_kompaktierung, speicherkorb (start), state   *)
(* (TransferAtomic), snapshot (wendeResyncSnapshotAn).                     *)
(***************************************************************************)
EXTENDS Integers, FiniteSets, SequencesExt, FiniteSetsExt, Reihen

CONSTANTS Konten,
          Schnell,      \* orders that may take the fast path
          Seriell,      \* orders that may take the serial path
          Von, Nach,    \* [order -> account]
          Nonce,        \* [order -> its nonce, 0 when not signed]
          Buendel,      \* most items in a batch (walFlushMaxBatch)
          Arbeiter,     \* batches written at the same time
          Abstand,      \* walKompaktAbstand
          Wechsel,      \* allowed <<Korb before, Korb after>> a restart
          Nacheinander, \* does a sender await each answer before the next nonce?
          MaxAbstuerze, MaxFehler, MaxFrist, MaxErsatz, MaxKuerzungen, \* bounds
          ErsatzUnterbrochen  \* may the process end inside a replacement?

Auftraege == Schnell \cup Seriell

ASSUME RichtungTyp == /\ {Von, Nach} \subseteq [Auftraege -> Konten]
                      /\ \A t \in Auftraege : Von[t] # Nach[t]
ASSUME NonceTyp == Nonce \in [Auftraege -> Nat]
ASSUME GrenzenTyp == /\ {Buendel, Arbeiter} \subseteq Nat \ {0}
                     /\ {MaxAbstuerze, MaxFehler, MaxFrist, MaxErsatz, MaxKuerzungen, Abstand} \subseteq Nat
ASSUME SchalterTyp == /\ Wechsel \subseteq BOOLEAN \X BOOLEAN
                      /\ {Nacheinander, ErsatzUnterbrochen} \subseteq BOOLEAN

VARIABLES
    wal,       \* the log: records, next number, durable up to, high-water mark
    konten,    \* live accounts: effects of each order, wal_seq, next nonce
    db,        \* Postgres: accounts, rows, last row id, marks and where they
               \* begin (ab), Korb mark, recovery floor (boden), stored blocks
    schlange,  \* walFlushQueue
    laufend,   \* batches taken by a worker, with the accounts still to write
    korb,      \* the Speicherkorb: on, first number expected, in blocks up to (bis),
               \* numbers that never come, entries
    schwebend, \* records appended and applied, shards held, not yet queued
    leert,     \* serial orders past walVorSeriellLeeren
    lauf,      \* "laeuft", "aus", "eingespielt" or "verweigert"
    kunde,     \* history: orders submitted, acknowledged, lost to a replacement
    zaehler    \* crashes, failures, writes without durability, ...

vars == <<wal, konten, db, schlange, laufend, korb, schwebend, leert, lauf, kunde, zaehler>>

Beide(t)       == {Von[t], Nach[t]}
KontenVon(E)   == UNION {Beide(e.tx) : e \in E}
Gesperrt       == KontenVon(schwebend)
Hoechste(S)    == Max({0} \cup S)
Seqs(E)        == {e.seq : e \in E}
Kopf           == wal.naechste - 1

NachSeq(x, y) == x.seq < y.seq

Saetze  == [seq : Nat \ {0}, tx : Auftraege]
Posten  == [seq : Nat \ {0}, tx : Auftraege, ohne : BOOLEAN]
Konto   == [wirkt : [Auftraege -> Nat], wal : Nat, nonce : Nat]
Zeilen  == [seq : Nat, id : Nat, tx : Auftraege]

TypeOK ==
    /\ wal.saetze \subseteq Saetze /\ wal.naechste \in Nat
    /\ {wal.haltbar, wal.hwm} \cup Seqs(wal.saetze) \subseteq 0..Kopf
    /\ {konten, db.konten} \subseteq [Konten -> Konto]
    /\ db.zeilen \subseteq Zeilen /\ {db.id, db.ab, db.marke, db.boden} \subseteq Nat
    /\ db.vermerke \subseteq Nat /\ db.markeDa \in BOOLEAN /\ db.bloecke \in Seq(Auftraege)
    /\ schlange \in Seq(Posten)
    /\ \A b \in laufend : b.posten \in Seq(Posten) /\ b.offen \subseteq Konten
    /\ korb.an \in BOOLEAN /\ {korb.ab, korb.bis} \cup korb.fehlt \subseteq Nat /\ korb.saetze \subseteq Saetze
    /\ schwebend \subseteq Saetze /\ leert \subseteq Seriell
    /\ lauf \in {"laeuft", "aus", "eingespielt", "verweigert"}
    /\ kunde.gestellt \cup kunde.quittiert \cup kunde.ersetzt \subseteq Auftraege
    /\ DOMAIN zaehler = {"abstuerze", "fehler", "frist", "ersatz", "kuerzungen"}

LeeresKonto == [wirkt |-> [t \in Auftraege |-> 0], wal |-> 0, nonce |-> 0]

Init ==
    /\ wal = [saetze |-> {}, naechste |-> 1, haltbar |-> 0, hwm |-> 0]
    /\ konten = [a \in Konten |-> LeeresKonto]
    /\ \E an \in {w[1] : w \in Wechsel} :
          /\ korb = [an |-> an, ab |-> 1, bis |-> 0, fehlt |-> {}, saetze |-> {}]
          /\ db = [konten |-> konten, zeilen |-> {}, id |-> 0, vermerke |-> {}, ab |-> 1,
                   markeDa |-> an, marke |-> 0, boden |-> 0, bloecke |-> <<>>]
    /\ schlange = <<>> /\ laufend = {} /\ schwebend = {} /\ leert = {}
    /\ lauf = "laeuft"
    /\ kunde = [gestellt |-> {}, quittiert |-> {}, ersetzt |-> {}]
    /\ zaehler = [abstuerze |-> 0, fehler |-> 0, frist |-> 0, ersatz |-> 0, kuerzungen |-> 0]

-----------------------------------------------------------------------------
(* The fast path.                                                          *)

\* Account a after order t with number s (0: serial, wal_seq stays).
Gebucht(acc, a, t, s) ==
    [wirkt |-> [acc.wirkt EXCEPT ![t] = @ + 1],
     wal   |-> IF s = 0 THEN acc.wal ELSE s,
     nonce |-> IF a = Von[t] /\ Nonce[t] >= acc.nonce /\ Nonce[t] > 0
               THEN Nonce[t] + 1 ELSE acc.nonce]
NachBuchung(k, t, s) ==
    [a \in Konten |-> IF a \in Beide(t) THEN Gebucht(k[a], a, t, s) ELSE k[a]]

\* The caller: each order once, and with Nacheinander only after the answers to
\* the sender's smaller nonces.
Gestellt(t) ==
    /\ lauf = "laeuft" /\ t \notin kunde.gestellt
    /\ Nacheinander => \A u \in Auftraege :
          (Von[u] = Von[t] /\ 0 < Nonce[u] /\ Nonce[u] < Nonce[t]) => u \in kunde.quittiert
NonceFrei(t) == Nonce[t] > 0 => Nonce[t] >= konten[Von[t]].nonce

\* transferConcurrentWALGesperrt up to the enqueue: number from AppendAsync,
\* both accounts changed under their shard locks.
Anhaengen(t) ==
    /\ t \in Schnell /\ Gestellt(t) /\ NonceFrei(t) /\ Beide(t) \cap Gesperrt = {}
    /\ LET e == [seq |-> wal.naechste, tx |-> t]
       IN  /\ wal' = [wal EXCEPT !.saetze = @ \cup {e}, !.naechste = @ + 1]
           /\ schwebend' = schwebend \cup {e}
           /\ konten' = NachBuchung(konten, t, e.seq)
    /\ kunde' = [kunde EXCEPT !.gestellt = @ \cup {t}]
    /\ UNCHANGED <<db, schlange, laufend, korb, leert, lauf, zaehler>>

\* walGedecktLocked: a waiting item already carries both accounts.
Gedeckt(q, p) == p.ohne /\ Beide(p.tx) \subseteq KontenVon(ToSet(q))

\* A caller has its answer when its record is durable and its function is through.
Beantwortet(bis, unterwegs) ==
    [kunde EXCEPT !.quittiert = @ \cup {r.tx : r \in {s \in wal.saetze \ unterwegs : s.seq <= bis}}]

\* enqueueWALFlushMitLocked, then the shards are released.
Einreihen(e) ==
    /\ lauf = "laeuft" /\ e \in schwebend
    /\ LET p == [seq |-> e.seq, tx |-> e.tx, ohne |-> korb.an]
       IN  schlange' = IF Gedeckt(schlange, p) THEN schlange ELSE Append(schlange, p)
    /\ korb' = IF korb.an THEN [korb EXCEPT !.saetze = @ \cup {e}] ELSE korb
    /\ schwebend' = schwebend \ {e}
    /\ kunde' = Beantwortet(wal.haltbar, schwebend')
    /\ UNCHANGED <<wal, konten, db, laufend, leert, lauf, zaehler>>

\* A group commit of the log.
Sichern(bis) ==
    /\ lauf = "laeuft" /\ bis \in (wal.haltbar + 1)..Kopf
    /\ wal' = [wal EXCEPT !.haltbar = bis]
    /\ kunde' = Beantwortet(bis, schwebend)
    /\ UNCHANGED <<konten, db, schlange, laufend, korb, schwebend, leert, lauf, zaehler>>

-----------------------------------------------------------------------------
(* The flush.                                                              *)

Signierte(q) == {Von[p.tx] : p \in {x \in ToSet(q) : Nonce[x.tx] > 0}}

\* walRohUnterwegs: senders of signed transfers in running flushes.
RohUnterwegs == UNION {Signierte(b.posten) : b \in laufend}

\* Which places of the queue a worker takes: from the front, passing over the
\* items of senders under way (walRohAuswahlLocked).
Auswahl(q) ==
    LET frei == {i \in DOMAIN q : Von[q[i].tx] \notin RohUnterwegs}
    IN  {i \in frei : Cardinality({j \in frei : j <= i}) <= Buendel}

\* flushWALQueue
FlushNimmt ==
    /\ lauf = "laeuft" /\ Cardinality(laufend) < Arbeiter
    /\ LET I == Auswahl(schlange)
           packen == Ausgewaehlt(schlange, I)
       IN  /\ I # {}
           /\ laufend' = laufend \cup {[posten |-> packen, offen |-> KontenVon(ToSet(packen))]}
           /\ schlange' = Ausgewaehlt(schlange, DOMAIN schlange \ I)
    /\ UNCHANGED <<wal, konten, db, korb, schwebend, leert, lauf, kunde, zaehler>>

\* Mutant: without naechste_nonce.
UpsertOhneNonce(alt, neu) == IF alt.wal < neu.wal THEN [neu EXCEPT !.nonce = alt.nonce] ELSE alt

\* walKontenUpsertSQL: only a higher wal_seq writes.
Upsert(alt, neu) ==
    IF alt.wal < neu.wal THEN [neu EXCEPT !.nonce = Max({alt.nonce, @})] ELSE alt

\* The rows of a batch, numbered in its order.
NeueZeilen(S, id) ==
    LET R == Sortiert(S, NachSeq)
    IN  {[seq |-> R[i].seq, id |-> id + i, tx |-> R[i].tx] : i \in DOMAIN R}

\* Rows of S and their marks, in one transaction.
MitVermerk(d, S) ==
    [d EXCEPT !.zeilen = @ \cup NeueZeilen(S, d.id), !.id = @ + Cardinality(S),
              !.vermerke = @ \cup Seqs(S)]

\* Mutant: does not wait for the log.
SchreibbarOhneWarten(G, frist) == G \cap Gesperrt = {} /\ ~frist

\* The accounts G may be written: their shards are free and what their balances
\* contain is durable, or the wait for it has timed out (frist).
Schreibbar(G, frist) ==
    /\ G \cap Gesperrt = {}
    /\ frist = (\E a \in G : konten[a].wal > wal.haltbar)
    /\ frist => zaehler.frist < MaxFrist

\* flushWALBatch commits; or, for a batch without rows, one part of it
\* (flushWALKontenTeil).
FlushSchreibt(b, G) ==
    /\ lauf = "laeuft" /\ b \in laufend
    /\ LET P == {p \in ToSet(b.posten) : ~p.ohne}
       IN  /\ G # {} /\ G \subseteq b.offen /\ (P # {} => G = b.offen)
           /\ db' = [MitVermerk(db, P) EXCEPT !.konten =
                       [a \in Konten |-> IF a \in G THEN Upsert(@[a], konten[a]) ELSE @[a]]]
    /\ \E frist \in BOOLEAN :
          /\ Schreibbar(G, frist)
          /\ zaehler' = [zaehler EXCEPT !.frist = @ + IF frist THEN 1 ELSE 0]
    /\ laufend' = (laufend \ {b})
                  \cup IF G = b.offen THEN {} ELSE {[b EXCEPT !.offen = @ \ G]}
    /\ UNCHANGED <<wal, konten, schlange, korb, schwebend, leert, lauf, kunde>>

\* Mutant: a failed batch is dropped.
ZurueckGarNicht(b, q) == q

\* A failed batch goes back to the front of the queue.
Zurueck(b, q) == b.posten \o q

\* flushWALBatchUndAbschliessen, the error branch: the whole batch again, also
\* when some of its parts are written.
FlushScheitert(b) ==
    /\ lauf = "laeuft" /\ b \in laufend /\ zaehler.fehler < MaxFehler
    /\ schlange' = Zurueck(b, schlange)
    /\ laufend' = laufend \ {b}
    /\ zaehler' = [zaehler EXCEPT !.fehler = @ + 1]
    /\ UNCHANGED <<wal, konten, db, korb, schwebend, leert, lauf, kunde>>

-----------------------------------------------------------------------------
(* The serial path, and blocks.                                            *)

\* Mutant: signed transfers of the sender in a running flush count as written.
NichtsOffenHalb(t) == Nonce[t] > 0 => Von[t] \notin Signierte(schlange)

\* walRohOffenFuer(from) = 0
NichtsOffen(t) == Nonce[t] > 0 => Von[t] \notin Signierte(schlange) \cup RohUnterwegs

\* TransferAtomic falls back; walVorSeriellLeeren has come to an end.
SeriellBeginnt(t) ==
    /\ t \in Seriell /\ Gestellt(t) /\ NichtsOffen(t)
    /\ leert' = leert \cup {t}
    /\ kunde' = [kunde EXCEPT !.gestellt = @ \cup {t}]
    /\ UNCHANGED <<wal, konten, db, schlange, laufend, korb, schwebend, lauf, zaehler>>

\* Mutant: a saved balance without the wal_seq of what it contains.
GespeichertOhneSeq(alt, neu) == [neu EXCEPT !.wal = alt.wal, !.nonce = Max({alt.nonce, @})]

\* The balance with the wal_seq of what it contains, never a lower one
\* (saveAccountToDBInnerCtx).
Gespeichert(alt, neu) == [neu EXCEPT !.wal = Max({alt.wal, @}), !.nonce = Max({alt.nonce, @})]

\* The batcher applies it: balances and row in one transaction, once what the
\* balances contain is durable (walSeqHaltbarAbwarten).
SeriellBucht(t) ==
    /\ lauf = "laeuft" /\ t \in leert /\ NonceFrei(t)
    /\ \E frist \in BOOLEAN :
          /\ Schreibbar(Beide(t), frist)
          /\ zaehler' = [zaehler EXCEPT !.frist = @ + IF frist THEN 1 ELSE 0]
    /\ konten' = NachBuchung(konten, t, 0)
    /\ db' = [db EXCEPT !.konten = [a \in Konten |->
                           IF a \in Beide(t) THEN Gespeichert(@[a], konten'[a]) ELSE @[a]],
                        !.zeilen = @ \cup {[seq |-> wal.naechste, id |-> db.id + 1, tx |-> t]},
                        !.id = @ + 1]
    /\ leert' = leert \ {t}
    /\ kunde' = [kunde EXCEPT !.quittiert = @ \cup {t}]
    /\ UNCHANGED <<wal, schlange, laufend, korb, schwebend, lauf>>

\* pruefeAnnahmeNonce refuses.
SeriellAbgelehnt(t) ==
    /\ lauf = "laeuft" /\ t \in leert /\ ~NonceFrei(t)
    /\ leert' = leert \ {t}
    /\ UNCHANGED <<wal, konten, db, schlange, laufend, korb, schwebend, lauf, kunde, zaehler>>

\* Ready in the Korb: durable, and no smaller number missing.
Bereit == {e \in korb.saetze : e.seq <= wal.haltbar /\ korb.ab..e.seq \subseteq Seqs(korb.saetze) \cup korb.fehlt}

\* The order of a block: by number, at the same number the rows by id first.
Eintrag(e) == [seq |-> e.seq, id |-> 0, tx |-> e.tx]
ImBlockVor(x, y) ==
    \/ x.seq < y.seq
    \/ x.seq = y.seq /\ x.id # 0 /\ (y.id = 0 \/ x.id < y.id)
BlockFolge(E) == Sortiert(E, ImBlockVor)

\* A block of this node in one step (Speicherkorb has its phases): everything
\* ready in the Korb with the rows up to it, or without the Korb all rows.
Block ==
    /\ lauf = "laeuft"
    /\ LET bis == Max({korb.bis} \cup Seqs(Bereit))
           E   == IF korb.an
                  THEN {Eintrag(e) : e \in Bereit} \cup {z \in db.zeilen : z.seq <= bis + 1}
                  ELSE db.zeilen
           txs == [i \in 1..Cardinality(E) |-> BlockFolge(E)[i].tx]
       IN  /\ E # {}
           /\ db' = [db EXCEPT !.bloecke = @ \o txs, !.zeilen = @ \ E,
                               !.marke = IF korb.an THEN bis ELSE @]
           /\ korb' = IF korb.an
                      THEN [korb EXCEPT !.bis = bis, !.ab = Max({@, bis + 1}), !.saetze = @ \ Bereit]
                      ELSE korb
    /\ UNCHANGED <<wal, konten, schlange, laufend, schwebend, leert, lauf, kunde, zaehler>>

-----------------------------------------------------------------------------
(* Compaction.                                                             *)

Offene == ToSet(schlange) \cup UNION {ToSet(b.posten) : b \in laufend}

\* Mutant: only the length of the queue counts.
KuerzenBisNachLaenge ==
    LET rechnung == Max({0, Kopf - Len(schlange) - Abstand})
        mitBoden == Max({rechnung, db.boden})
    IN  IF korb.an THEN Min({mitBoden, korb.bis + 1}) ELSE mitBoden

\* walKuerzenBis: below the open ones with a distance to spare, up to the floor
\* in any case, and never what the Korb still holds.
KuerzenBis ==
    LET rechnung == Max({0, Kopf - Len(schlange) - Abstand})
        mitOffen == IF Offene = {} THEN rechnung
                    ELSE Min({rechnung, Max({0, Min(Seqs(Offene)) - Abstand})})
        mitBoden == Max({mitOffen, db.boden})
    IN  IF korb.an THEN Min({mitBoden, korb.bis + 1}) ELSE mitBoden

\* walKompaktierungsRunde: marks below the limit go (walVermerkAbAnheben), then
\* the records, if the file is large enough (gross).
Kuerzen(gross) ==
    /\ lauf = "laeuft" /\ zaehler.kuerzungen < MaxKuerzungen
    /\ Kopf > Len(schlange) + Abstand /\ KuerzenBis > 0
    /\ db' = [db EXCEPT !.ab = Max({@, KuerzenBis}),
                        !.vermerke = {s \in @ : s >= KuerzenBis}]
    /\ wal' = IF gross
              THEN [wal EXCEPT !.saetze = {r \in @ : r.seq >= KuerzenBis}, !.hwm = Kopf]
              ELSE wal
    /\ zaehler' = [zaehler EXCEPT !.kuerzungen = @ + 1]
    /\ UNCHANGED <<konten, schlange, laufend, korb, schwebend, leert, lauf, kunde>>

-----------------------------------------------------------------------------
(* Crash, restart, and the replacement of the state.                       *)

AllesFluechtigeWeg ==
    /\ schlange' = <<>> /\ laufend' = {} /\ schwebend' = {} /\ leert' = {}
    /\ korb' = [korb EXCEPT !.ab = 0, !.bis = 0, !.fehlt = {}, !.saetze = {}]
    /\ lauf' = "aus"

\* The file keeps its records up to some bis, at least the durable ones.
Absturz(bis) ==
    /\ lauf \in {"laeuft", "eingespielt"} /\ zaehler.abstuerze < MaxAbstuerze
    /\ bis \in wal.haltbar..Kopf
    /\ wal' = [wal EXCEPT !.saetze = {r \in @ : r.seq <= bis}]
    /\ konten' = db.konten
    /\ AllesFluechtigeWeg
    /\ zaehler' = [zaehler EXCEPT !.abstuerze = @ + 1]
    /\ UNCHANGED <<db, kunde>>

\* Mutant: the high-water mark is not read.
PeekOhneHochwasser == Hoechste(Seqs(wal.saetze)) + 1

\* Open: the next number, from the file or the high-water mark beside it.
PeekNachStart == Hoechste({wal.hwm} \cup Seqs(wal.saetze)) + 1

\* Mutant: the accounts are not compared with the log.
StimmigOhneKonten(peek) == db.ab <= peek /\ Hoechste(db.vermerke) < peek

\* walVermerkeStimmigMitDatei: nothing stored is ahead of the log.
StimmigMitDatei(peek) ==
    /\ db.ab <= peek /\ Hoechste(db.vermerke) < peek
    /\ \A a \in Konten : db.konten[a].wal < peek

\* Records the replay looks at, and those that change the account a.
Nachspielbar == {r \in wal.saetze : r.seq > db.boden}
Fehlende(a)  == {r \in Nachspielbar : a \in Beide(r.tx) /\ r.seq > db.konten[a].wal}

\* applyFrom and applyTo over the file: an account gets what its wal_seq lacks;
\* the nonce follows every signed record of the sender.
Nachgespielt(a) ==
    [wirkt |-> [t \in Auftraege |->
                   db.konten[a].wirkt[t] + Cardinality({r \in Fehlende(a) : r.tx = t})],
     wal   |-> Max({db.konten[a].wal} \cup Seqs(Fehlende(a))),
     nonce |-> Max({db.konten[a].nonce} \cup
                   {Nonce[r.tx] + 1 : r \in {x \in Nachspielbar : Von[x.tx] = a /\ Nonce[x.tx] > 0}})]

\* Mutant: without a mark, but both balances carry it: no row.
ZeileFehltNieOhneSaldo(r, an) == FALSE

\* Does the replay owe record r its row?  Not when the Korb carries it or it is
\* in a block; below ab the old rule; else when its mark is missing.
Uebergang(an) == ~an /\ db.markeDa
OhneZeile(r, an) ==
    \/ an /\ db.markeDa
    \/ Uebergang(an) /\ r.seq <= db.marke
    \/ r.seq >= db.ab /\ r.seq \in db.vermerke
ZeileFehlt(r, an) == ~OhneZeile(r, an) /\ (r.seq >= db.ab \/ Uebergang(an))

NeuAngewandt(r) == \E a \in Beide(r.tx) : r \in Fehlende(a)

\* recoverFromWAL queues what it applied: with or without a row.
NachgespielteSchlange(an) ==
    LET R == Sortiert({r \in Nachspielbar : NeuAngewandt(r)}, NachSeq)
        Q == [i \in DOMAIN R |-> [seq |-> R[i].seq, tx |-> R[i].tx, ohne |-> OhneZeile(R[i], an)]]
        I == {i \in DOMAIN Q : ~Gedeckt(SubSeq(Q, 1, i - 1), Q[i])}
    IN  Ausgewaehlt(Q, I)

\* Both balances are stored, only the row is missing: written at once, unless it
\* still stands in pending_txs (walAusgangNachholen).  The block index, which
\* may lack any entry, is taken to be empty.
Nachholen(an) ==
    LET S == {r \in Nachspielbar : ZeileFehlt(r, an) /\ ~NeuAngewandt(r)}
        da == {r \in S : \E z \in db.zeilen : z.seq = r.seq /\ z.tx = r.tx}
    IN  [MitVermerk(db, S \ da) EXCEPT !.vermerke = @ \cup Seqs(da)]

\* initWALIfEnabled: Open, the comparison with the database, recoverFromWAL.
Einspielen(an) ==
    /\ lauf = "aus" /\ <<korb.an, an>> \in Wechsel
    /\ LET peek == PeekNachStart
           bis  == Max({db.marke, db.boden})
       IN  IF ~StimmigMitDatei(peek)
           THEN /\ lauf' = "verweigert" /\ UNCHANGED <<wal, konten, db, schlange, korb>>
           ELSE /\ lauf' = "eingespielt"
                /\ wal' = [wal EXCEPT !.naechste = peek, !.haltbar = peek - 1]
                /\ konten' = [a \in Konten |-> Nachgespielt(a)]
                /\ schlange' = NachgespielteSchlange(an)
                /\ db' = Nachholen(an)
                /\ korb' = [an |-> an, ab |-> bis + 1, bis |-> bis, fehlt |-> {}, saetze |->
                              IF an /\ db.markeDa THEN {r \in Nachspielbar : r.seq > bis} ELSE {}]
    /\ UNCHANGED <<laufend, schwebend, leert, kunde, zaehler>>

\* Where the marks begin once the Korb's mark is gone.
AbNachUebergang == Max({db.ab, db.marke + 1})

\* speicherKorbNachWiederanlauf: after switching off, the mark of the Korb goes;
\* after switching on for the first time it is set behind the log; else the Korb
\* goes on, unless a number in the middle is missing.
Anschluss ==
    /\ lauf = "eingespielt"
    /\ \/ /\ Uebergang(korb.an)
          /\ db' = [db EXCEPT !.markeDa = FALSE, !.marke = 0, !.ab = AbNachUebergang,
                              !.vermerke = {s \in @ : s > db.marke}]
          /\ lauf' = "laeuft" /\ UNCHANGED korb
       \/ /\ ~korb.an /\ ~db.markeDa
          /\ lauf' = "laeuft" /\ UNCHANGED <<db, korb>>
       \/ /\ korb.an /\ ~db.markeDa
          /\ db' = [db EXCEPT !.markeDa = TRUE, !.marke = Kopf]
          /\ korb' = [korb EXCEPT !.ab = Kopf + 1, !.bis = Kopf]
          /\ lauf' = "laeuft"
       \/ /\ korb.an /\ db.markeDa
          /\ LET ende == korb.bis + Cardinality(korb.saetze)
             IN  IF Seqs(korb.saetze) = (korb.bis + 1)..ende
                 THEN lauf' = "laeuft" /\ korb' = [korb EXCEPT !.fehlt = (ende + 1)..Kopf]
                 ELSE lauf' = "verweigert" /\ UNCHANGED korb
          /\ UNCHANGED db
    /\ UNCHANGED <<wal, konten, schlange, laufend, schwebend, leert, kunde, zaehler>>

\* Accounts as the chain's blocks make them, the snapshot of a peer.
AusBloecken(a) ==
    LET drin == {t \in ToSet(db.bloecke) : a \in Beide(t)}
    IN  [wirkt |-> [t \in Auftraege |-> IF t \in drin THEN 1 ELSE 0], wal |-> 0,
         nonce |-> Hoechste({Nonce[t] + 1 : t \in {u \in drin : Von[u] = a /\ Nonce[u] > 0}})]

\* Mutant: no recovery floor.
OhneBoden(d) == [d EXCEPT !.vermerke = {}, !.ab = Kopf + 1]

\* markWALSupersededByStateReplacement with walVermerkeVerwerfen.
MitBoden(d) == [d EXCEPT !.boden = Kopf, !.vermerke = {}, !.ab = Kopf + 1]

\* wendeResyncSnapshotAn under cs.mu: commit of the new accounts, then the floor;
\* the process may end between the two.
Ersatz(unterbrochen) ==
    /\ lauf = "laeuft" /\ schwebend = {} /\ zaehler.ersatz < MaxErsatz
    /\ unterbrochen => ErsatzUnterbrochen
    /\ LET neu == [a \in Konten |-> AusBloecken(a)]
           d   == [db EXCEPT !.konten = neu]
       IN  /\ konten' = neu
           /\ db' = IF unterbrochen THEN d ELSE MitBoden(d)
    /\ kunde' = [kunde EXCEPT !.ersetzt = @ \cup
                    {t \in Auftraege \ ToSet(db.bloecke) : konten[Von[t]].wirkt[t] > 0}]
    /\ zaehler' = [zaehler EXCEPT !.ersatz = @ + 1]
    /\ IF unterbrochen THEN AllesFluechtigeWeg
       ELSE UNCHANGED <<schlange, laufend, schwebend, leert, korb, lauf>>
    /\ UNCHANGED wal

-----------------------------------------------------------------------------
Next ==
    \/ \E t \in Auftraege : Anhaengen(t) \/ SeriellBeginnt(t)
    \/ \E e \in schwebend : Einreihen(e)
    \/ \E bis \in 1..Kopf : Sichern(bis)
    \/ FlushNimmt
    \/ \E b \in laufend : FlushScheitert(b) \/ \E G \in SUBSET b.offen : FlushSchreibt(b, G)
    \/ \E t \in leert : SeriellBucht(t) \/ SeriellAbgelehnt(t)
    \/ Block
    \/ \E gross \in BOOLEAN : Kuerzen(gross)
    \/ \E bis \in 0..Kopf : Absturz(bis)
    \/ \E an \in BOOLEAN : Einspielen(an)
    \/ Anschluss
    \/ \E unterbrochen \in BOOLEAN : Ersatz(unterbrochen)

Spec == Init /\ [][Next]_vars

\* The goroutine of an acceptance, the log's writer, the flush worker's ticker,
\* the producer's ticker and the supervisor of the process keep running.
Fairness ==
    /\ WF_vars(\E e \in schwebend : Einreihen(e))
    /\ WF_vars(Sichern(Kopf))
    /\ WF_vars(FlushNimmt)
    /\ WF_vars(\E b \in laufend : FlushSchreibt(b, b.offen))
    /\ WF_vars(Block)
    /\ WF_vars(\E an \in BOOLEAN : Einspielen(an)) /\ WF_vars(Anschluss)

SpecFair == Spec /\ Fairness

-----------------------------------------------------------------------------
(* Properties.                                                             *)

\* The start check finds balances stored ahead of the log, unless a compaction has
\* put the high-water mark above what the crash then cut off.
Pruefbar == zaehler.frist = 0 \/ zaehler.kuerzungen = 0

Wirksam(t) == konten[Von[t]].wirkt[t] > 0

\* No order takes effect on an account twice, live or stored, and none is in two
\* blocks: however flushes fail, the log is replayed or the state is replaced
\* (recoverFromWAL, walKontenUpsertSQL, walRecoveryFloor).
NichtDoppelt ==
    /\ \A a \in Konten, t \in Auftraege :
          konten[a].wirkt[t] <= 1 /\ db.konten[a].wirkt[t] <= 1
    /\ IsInjective(db.bloecke)

\* In the live state an order is on both its accounts or on neither: a replay
\* never brings back half a transfer, although accounts are flushed apart.
GanzOderGarNicht ==
    lauf \in {"laeuft", "eingespielt"} /\ Pruefbar =>
        \A t \in Auftraege : konten[Von[t]].wirkt[t] = konten[Nach[t]].wirkt[t]

\* What a caller was told is done is in force whenever the node runs, until a
\* resync replaces the state.
QuittiertesWirkt ==
    lauf = "laeuft" => \A t \in kunde.quittiert \ kunde.ersetzt : Wirksam(t)

Stellen(q, t) == Cardinality({i \in DOMAIN q : q[i].tx = t /\ ~q[i].ohne})
Ausgaenge(t) ==
    Cardinality({i \in DOMAIN db.bloecke : db.bloecke[i] = t})
    + Cardinality({z \in db.zeilen : z.tx = t})
    + Cardinality({e \in korb.saetze : e.tx = t})
    + Stellen(schlange, t)
    + Cardinality({b \in laufend : Stellen(b.posten, t) > 0})

\* Every order in force has exactly one way out: a block, a row, the Korb, or a
\* queue item that will write its row.  None is lost to other nodes, none can
\* get into two blocks, whatever was flushed before a crash (wal_ausgang).
GenauEinAusgang ==
    lauf = "laeuft" /\ Pruefbar =>
        \A t \in Auftraege \ (kunde.ersetzt \cup {e.tx : e \in schwebend}) :
            Wirksam(t) => Ausgaenge(t) = 1

\* A stored wal_seq says exactly which records the stored balance contains: the
\* replay neither skips nor repeats one (flushWALBatch, saveAccountToDBInnerCtx).
SeqSagtSaldo ==
    \A a \in Konten : \A r \in wal.saetze :
        a \in Beide(r.tx) /\ r.seq > db.boden =>
            (db.konten[a].wirkt[r.tx] = 1 <=> r.seq <= db.konten[a].wal)

NonceReihe ==
    \A j \in DOMAIN db.bloecke : \A i \in 1..(j - 1) :
        LET t == db.bloecke[i]
            u == db.bloecke[j]
        IN  (Von[t] = Von[u] /\ Nonce[t] > 0 /\ Nonce[u] > 0) => Nonce[t] < Nonce[u]

\* Until a crash the nonces of a sender ascend in the blocks, though several
\* workers write rows at the same time, batches fail, and the serial path writes
\* its row at once (wal_nonce_reihenfolge).
NonceReiheOhneAbsturz == zaehler.abstuerze = 0 => NonceReihe

\* While the node runs, the nonce of an order in force is used up: no flush, crash
\* or compaction lets a signed order be accepted a second time (setzeNaechsteNonce).
NonceVerbraucht ==
    lauf = "laeuft" =>
        \A t \in Auftraege : Wirksam(t) /\ Nonce[t] > 0 => konten[Von[t]].nonce > Nonce[t]

\* After a first crash the fast path starts again, unless a balance was stored
\* without its record being durable or a floor was set above the file.
StartVerweigertNurBeiSchaden ==
    lauf = "verweigert" =>
        zaehler.frist > 0 \/ zaehler.ersatz > 0 \/ zaehler.abstuerze > 1

\* An acknowledged order gets into a block: no failed batch, skipped sender,
\* merged item or restart leaves it behind.
QuittiertesKommt ==
    \A t \in Auftraege : (t \in kunde.quittiert) ~>
        (t \in ToSet(db.bloecke) \/ t \in kunde.ersetzt \/ lauf = "verweigert")
=============================================================================
