--------------------------- MODULE Speicherkorb ----------------------------
(***************************************************************************)
(* The way of an accepted order into a block when blocks are built from    *)
(* memory (AEQUITAS_BLOCK_AUS_SPEICHER): a fast transfer gets its sequence *)
(* number from the write-ahead log and waits in the Speicherkorb, every    *)
(* other order becomes a row of pending_txs, and the block builder mixes   *)
(* both in the order of application.  The mark in chain_config says up to  *)
(* which sequence number the transfers are in stored blocks.  One node,    *)
(* with crashes, restarts, compaction of the log, and the discarding of a  *)
(* leader that was superseded.                                             *)
(*                                                                         *)
(* Source: x/humanity/wal/wal.go and, in x/humanity/keeper, speicherkorb,  *)
(* transfer_wal, pending_reihenfolge, evm_storage (rows), block            *)
(* (ProduceBlock), annahme_tor, annahme_pause, resync_tor, leitung_netz.   *)
(***************************************************************************)
EXTENDS Integers, FiniteSets, SequencesExt, FiniteSetsExt, Reihen

CONSTANTS Schnell,      \* orders that take the fast path (WAL and Speicherkorb)
          Langsam,      \* orders that take the serial path (rows of pending_txs)
          Konten,       \* [order -> the accounts whose shards it locks]
          Deckel,       \* most orders in a block (blockTxCap)
          MaxAbstuerze, \* bound: crashes
          MaxFehler,    \* bound: failing row or block transactions
          Kuerzt,       \* does the log get compacted?
          Ueberholt     \* may this leader be superseded?

ASSUME SchnellOderLangsam == Schnell \cap Langsam = {}
ASSUME KontenTyp == DOMAIN Konten = Schnell \cup Langsam
ASSUME DeckelPositiv == Deckel \in Nat \ {0}
ASSUME GrenzenTyp == MaxAbstuerze \in Nat /\ MaxFehler \in Nat
ASSUME SchalterTyp == Kuerzt \in BOOLEAN /\ Ueberholt \in BOOLEAN

VARIABLES
    wal,        \* the log: records handed over, next number, durable up to, high-water mark
    db,         \* Postgres: rows, claimed row ids, last id, mark, orders in stored blocks
    korb,       \* the Speicherkorb: next number expected, ready entries, entries behind a gap
    annahmen,   \* orders past the gate that have locked nothing yet
    schwebend,  \* orders that hold their shards: appended or inserted, not yet visible
    bau,        \* the block builder
    verw,       \* the discarding of a superseded leader
    lauf,       \* is the process up?
    vorStart,   \* highest row id left over from before the start, 0 when none is waited for
    folge,      \* history: applied orders, in the order of application
    verworfen,  \* history: orders that were in no block when the discarding began
    zaehler     \* crashes and failures so far

vars == <<wal, db, korb, annahmen, schwebend, bau, verw, lauf, vorStart,
          folge, verworfen, zaehler>>

Auftraege == Schnell \cup Langsam

\* An entry of the log, the Korb or a block under construction, and a row of
\* pending_txs: only a row has an id.  A row's seq is its wal_seq.
Eintraege == [seq : Nat, id : Nat, tx : Auftraege]
AusWAL(e) == e.id = 0

Seqs(E) == {e.seq : e \in E}
Txs(E)  == {e.tx : e \in E}

Teilen(x, y) == Konten[x] \cap Konten[y] # {}
Gesperrt     == UNION {Konten[e.tx] : e \in schwebend}
Angewendet   == ToSet(folge)
Verblockt    == ToSet(db.bloecke)

\* Mutant: at the same number the fast transfer first.
FrueherKorbVorZeile(a, b) ==
    \/ a.seq < b.seq
    \/ a.seq = b.seq /\ (AusWAL(a) \/ (~AusWAL(b) /\ a.id < b.id))

\* blockKorbMischen's order: by number; at the same number the rows first,
\* they took the number the log was about to give out.
Frueher(a, b) ==
    \/ a.seq < b.seq
    \/ a.seq = b.seq /\ ~AusWAL(a) /\ (AusWAL(b) \/ a.id < b.id)
Geordnet(E) == Sortiert(E, Frueher)

\* The fast transfers of s, in the same order.
NurSchnelle(s) == Ausgewaehlt(s, {i \in DOMAIN s : AusWAL(s[i])})

TypeOK ==
    /\ wal.saetze \subseteq Eintraege /\ {wal.naechste, wal.haltbar, wal.hwm} \subseteq Nat
    /\ db.zeilen \subseteq Eintraege /\ db.belegt \subseteq Nat /\ {db.id, db.marke} \subseteq Nat
    /\ db.bloecke \in Seq(Auftraege)
    /\ korb.naechste \in Nat /\ korb.bereit \in Seq(Eintraege) /\ korb.warten \subseteq Eintraege
    /\ annahmen \subseteq Auftraege /\ schwebend \subseteq Eintraege
    /\ bau.phase \in {"ruht", "tor", "genommen", "gemischt", "gekuerzt"}
    /\ bau.alt \in Nat /\ bau.inhalt \in Seq(Eintraege)
    /\ verw.phase \in {"nie", "wartet", "frei", "geleert", "fertig", "nach"} /\ verw.bis \in Nat
    /\ lauf \in {"laeuft", "aus", "verweigert"} /\ vorStart \in Nat
    /\ folge \in Seq(Auftraege) /\ verworfen \subseteq Auftraege
    /\ zaehler.abstuerze \in 0..MaxAbstuerze /\ zaehler.fehler \in 0..MaxFehler

LeererKorb(ab) == [naechste |-> ab, bereit |-> <<>>, warten |-> {}]
KeinBau == [phase |-> "ruht", alt |-> 0, inhalt |-> <<>>]

Init ==
    /\ wal = [saetze |-> {}, naechste |-> 1, haltbar |-> 0, hwm |-> 0]
    /\ db = [zeilen |-> {}, belegt |-> {}, id |-> 0, marke |-> 0, bloecke |-> <<>>]
    /\ korb = LeererKorb(1)
    /\ annahmen = {} /\ schwebend = {} /\ bau = KeinBau
    /\ verw = [phase |-> "nie", bis |-> 0]
    /\ lauf = "laeuft" /\ vorStart = 0
    /\ folge = <<>> /\ verworfen = {}
    /\ zaehler = [abstuerze |-> 0, fehler |-> 0]

-----------------------------------------------------------------------------
(* Acceptance.                                                             *)

\* annahmeBeginnen: this node leads, and nothing from before the start is open.
AnnahmeBeginnt(t) ==
    /\ lauf = "laeuft" /\ verw.phase = "nie" /\ vorStart = 0
    /\ t \notin Angewendet \cup annahmen \cup Txs(schwebend) \cup verworfen
    /\ annahmen' = annahmen \cup {t}
    /\ UNCHANGED <<wal, db, korb, schwebend, bau, verw, lauf, vorStart, folge, verworfen, zaehler>>

\* annahmeEnde of an order that was refused (no balance, wrong nonce, ...).
AnnahmeAbgelehnt(t) ==
    /\ lauf = "laeuft" /\ t \in annahmen
    /\ annahmen' = annahmen \ {t}
    /\ UNCHANGED <<wal, db, korb, schwebend, bau, verw, lauf, vorStart, folge, verworfen, zaehler>>

\* AppendAsync under the shard locks, and the change of the live balances.
Anhaengen(t) ==
    /\ lauf = "laeuft" /\ t \in annahmen \cap Schnell
    /\ Konten[t] \cap Gesperrt = {}
    /\ LET e == [seq |-> wal.naechste, id |-> 0, tx |-> t]
       IN  /\ wal' = [wal EXCEPT !.saetze = @ \cup {e}, !.naechste = @ + 1]
           /\ schwebend' = schwebend \cup {e}
    /\ folge' = Append(folge, t)
    /\ annahmen' = annahmen \ {t}
    /\ UNCHANGED <<db, korb, bau, verw, lauf, vorStart, verworfen, zaehler>>

\* Mutant: does not wait for the numbers in between.
HinzuMitLuecke(k, e) ==
    IF e.seq < k.naechste THEN k
    ELSE [k EXCEPT !.naechste = e.seq + 1, !.bereit = Append(@, e)]

\* Mutant: entries behind a gap stay there when it closes.
HinzuOhneNachruecken(k, e) ==
    CASE e.seq < k.naechste -> k
      [] e.seq > k.naechste -> [k EXCEPT !.warten = @ \cup {e}]
      [] OTHER -> [k EXCEPT !.naechste = @ + 1, !.bereit = Append(@, e)]

\* speicherKorb.hinzu: the next number closes the gap up to the first missing one.
Hinzu(k, e) ==
    LET frei == {s \in (e.seq + 1)..(e.seq + 1 + Cardinality(k.warten)) : s \notin Seqs(k.warten)}
        ab   == Min(frei)
        los  == {w \in k.warten : w.seq < ab}
    IN  CASE e.seq < k.naechste -> k
          [] e.seq > k.naechste -> [k EXCEPT !.warten = @ \cup {e}]
          [] OTHER -> [naechste |-> ab,
                       bereit   |-> k.bereit \o Geordnet({e} \cup los),
                       warten   |-> k.warten \ los]

\* enqueueWALFlushMitLocked, the Korb's part; then the shards are released.
Einreihen(e) ==
    /\ lauf = "laeuft" /\ e \in schwebend /\ AusWAL(e)
    /\ korb' = Hinzu(korb, e)
    /\ schwebend' = schwebend \ {e}
    /\ UNCHANGED <<wal, db, annahmen, bau, verw, lauf, vorStart, folge, verworfen, zaehler>>

\* writeBatch: one group commit, up to some record already handed over.
Sichern(bis) ==
    /\ lauf = "laeuft" /\ bis \in (wal.haltbar + 1)..(wal.naechste - 1)
    /\ wal' = [wal EXCEPT !.haltbar = bis]
    /\ UNCHANGED <<db, korb, annahmen, schwebend, bau, verw, lauf, vorStart, folge, verworfen, zaehler>>

\* The serial path up to the INSERT: it holds its shards, has waited until the
\* log's records on its own accounts are durable, and takes the number the log
\* gives out next (pendingSeqJetzt).
LangsamBeginnt(t) ==
    /\ lauf = "laeuft" /\ t \in annahmen \cap Langsam
    /\ Konten[t] \cap Gesperrt = {}
    /\ \A r \in wal.saetze : Teilen(r.tx, t) => r.seq <= wal.haltbar
    /\ schwebend' = schwebend \cup {[seq |-> wal.naechste, id |-> db.id + 1, tx |-> t]}
    /\ db' = [db EXCEPT !.id = @ + 1]
    /\ annahmen' = annahmen \ {t}
    /\ UNCHANGED <<wal, korb, bau, verw, lauf, vorStart, folge, verworfen, zaehler>>

\* COMMIT: balances and row together, then the balances go live.
LangsamFertig(e) ==
    /\ lauf = "laeuft" /\ e \in schwebend /\ ~AusWAL(e)
    /\ db' = [db EXCEPT !.zeilen = @ \cup {e}]
    /\ folge' = Append(folge, e.tx)
    /\ schwebend' = schwebend \ {e}
    /\ UNCHANGED <<wal, korb, annahmen, bau, verw, lauf, vorStart, verworfen, zaehler>>

\* ROLLBACK.
LangsamScheitert(e) ==
    /\ lauf = "laeuft" /\ e \in schwebend /\ ~AusWAL(e)
    /\ zaehler.fehler < MaxFehler
    /\ zaehler' = [zaehler EXCEPT !.fehler = @ + 1]
    /\ schwebend' = schwebend \ {e}
    /\ UNCHANGED <<wal, db, korb, annahmen, bau, verw, lauf, vorStart, folge, verworfen>>

-----------------------------------------------------------------------------
(* Building a block.                                                       *)

\* speicherKorb.bauer
BauHaelt == bau.phase \in {"genommen", "gemischt", "gekuerzt"}

\* resyncTorBetreten: the gate is shut from the discarding to the end of the resync.
BauTor ==
    /\ lauf = "laeuft" /\ bau.phase = "ruht" /\ verw.phase \in {"nie", "nach"}
    /\ bau' = [bau EXCEPT !.phase = "tor"]
    /\ UNCHANGED <<wal, db, korb, annahmen, schwebend, verw, lauf, vorStart, folge, verworfen, zaehler>>

\* Mutant: does not ask what is durable.
AnzahlUngeprueft == Min({Deckel, Len(korb.bereit)})

\* How many entries nehmen hands out: durable ones from the front.
AnzahlNehmen ==
    Min({Deckel, Cardinality({i \in DOMAIN korb.bereit : korb.bereit[i].seq <= wal.haltbar})})

\* bauer taken, mark read, and nehmen; none at all while a gap lasts too long.
BauNimmt ==
    /\ lauf = "laeuft" /\ bau.phase = "tor"
    /\ \E n \in {AnzahlNehmen} \cup (IF korb.warten = {} THEN {} ELSE {0}) :
          /\ bau' = [phase |-> "genommen", alt |-> db.marke, inhalt |-> SubSeq(korb.bereit, 1, n)]
          /\ korb' = [korb EXCEPT !.bereit = SubSeq(@, n + 1, Len(@))]
    /\ UNCHANGED <<wal, db, annahmen, schwebend, verw, lauf, vorStart, folge, verworfen, zaehler>>

\* Mutant: the mark is not carried forward.
BisAlt(inhalt, alt) == alt

\* The highest number of a fast transfer in inhalt, or the mark before it.
Bis(inhalt, alt) ==
    LET korbTeil == {i \in DOMAIN inhalt : AusWAL(inhalt[i])}
    IN  IF korbTeil = {} THEN alt ELSE inhalt[Max(korbTeil)].seq

\* Mutant: off by one, the row waits for the fast transfer of its own number.
PasstNachGleich(e, anf, alt) == AusWAL(e) \/ e.seq <= Bis(anf, alt)

\* A row may follow anf only when no smaller fast number is missing.
PasstNach(e, anf, alt) == AusWAL(e) \/ e.seq <= Bis(anf, alt) + 1

\* How much of the ordered mixture goes into the block.
Mischlaenge(reihe, alt) ==
    Max({n \in 0..Min({Deckel, Len(reihe)}) :
           \A i \in 1..n : PasstNach(reihe[i], SubSeq(reihe, 1, i - 1), alt)})

\* ladeOffeneZeilen, blockKorbMischen, and back what did not fit.
BauMischt ==
    /\ lauf = "laeuft" /\ bau.phase = "genommen"
    /\ LET offen == {z \in db.zeilen : z.id \notin db.belegt /\ z.seq <= Bis(bau.inhalt, bau.alt) + 1}
           reihe == Geordnet(ToSet(bau.inhalt) \cup offen)
           n     == Mischlaenge(reihe, bau.alt)
           drin  == SubSeq(reihe, 1, n)
           rest  == NurSchnelle(SubSeq(reihe, n + 1, Len(reihe)))
       IN  /\ bau' = [bau EXCEPT !.phase = "gemischt", !.inhalt = drin]
           /\ korb' = [korb EXCEPT !.bereit = rest \o @]
           /\ db' = [db EXCEPT !.belegt = @ \cup {z.id : z \in offen \cap ToSet(drin)}]
    /\ UNCHANGED <<wal, annahmen, schwebend, verw, lauf, vorStart, folge, verworfen, zaehler>>

\* Mutant: only the rows are released.
NurZeilenZurueck(s) ==
    /\ UNCHANGED korb
    /\ db' = [db EXCEPT !.belegt = @ \ {e.id : e \in ToSet(s)}]

\* The entries of s go back: to the front of the Korb, or open again as rows.
Zuruecklegen(s) ==
    /\ korb' = [korb EXCEPT !.bereit = NurSchnelle(s) \o @]
    /\ db' = [db EXCEPT !.belegt = @ \ {e.id : e \in ToSet(s)}]

\* blockZeitPraefix found a time for the first j orders only: korbPraefix.
BauKuerzt(j) ==
    /\ lauf = "laeuft" /\ bau.phase = "gemischt" /\ j \in 1..(Len(bau.inhalt) - 1)
    /\ bau' = [phase |-> "gekuerzt", alt |-> db.marke, inhalt |-> SubSeq(bau.inhalt, 1, j)]
    /\ Zuruecklegen(SubSeq(bau.inhalt, j + 1, Len(bau.inhalt)))
    /\ UNCHANGED <<wal, annahmen, schwebend, verw, lauf, vorStart, folge, verworfen, zaehler>>

\* eigenerBlockGespeichert: does a row from before the start still hold acceptance?
VorStartNach(zeilen, belegt, marke) ==
    IF \E z \in zeilen : z.id \notin belegt /\ z.id <= vorStart /\ z.seq <= marke + 1
    THEN vorStart ELSE 0

\* SaveBlockMitKorb: block, rows and mark in one transaction; then the new mark
\* in memory and bauer released.  A block may be empty.
BauSpeichert ==
    /\ lauf = "laeuft" /\ bau.phase \in {"gemischt", "gekuerzt"}
    /\ LET marke  == Bis(bau.inhalt, bau.alt)
           zeilen == {z \in db.zeilen : z \notin ToSet(bau.inhalt)}
       IN  /\ db' = [db EXCEPT !.zeilen = zeilen,
                               !.belegt = @ \ {e.id : e \in ToSet(bau.inhalt)},
                               !.marke = marke,
                               !.bloecke = @ \o [i \in DOMAIN bau.inhalt |-> bau.inhalt[i].tx]]
           /\ vorStart' = VorStartNach(zeilen, db.belegt, marke)
    /\ bau' = KeinBau
    /\ UNCHANGED <<wal, korb, annahmen, schwebend, verw, lauf, folge, verworfen, zaehler>>

\* No block after all: ProduceBlock's deferred release.
BauScheitert ==
    /\ lauf = "laeuft" /\ bau.phase \in {"gemischt", "gekuerzt"}
    /\ zaehler.fehler < MaxFehler
    /\ zaehler' = [zaehler EXCEPT !.fehler = @ + 1]
    /\ Zuruecklegen(bau.inhalt)
    /\ bau' = KeinBau
    /\ UNCHANGED <<wal, annahmen, schwebend, verw, lauf, vorStart, folge, verworfen>>

-----------------------------------------------------------------------------
(* Compaction, crash and restart.                                          *)

\* Mutant: the first record above the mark goes as well.
KuerzenGrenzeZuHoch(marke) == marke + 2

\* walKuerzenBis: nothing above the mark may go.  TruncateBefore removes the
\* numbers below.
KuerzenGrenze(marke) == marke + 1

\* TruncateBefore(ab); the high-water mark is the last number given out.
Kuerzen(ab) ==
    /\ Kuerzt /\ lauf = "laeuft" /\ ab \in 1..KuerzenGrenze(db.marke)
    /\ wal' = [wal EXCEPT !.saetze = {r \in @ : r.seq >= ab}, !.hwm = wal.naechste - 1]
    /\ UNCHANGED <<db, korb, annahmen, schwebend, bau, verw, lauf, vorStart, folge, verworfen, zaehler>>

\* The process ends; the file keeps its records up to some bis, at least the
\* durable ones.  A discarding under way is forgotten: werdeFolger has stored
\* that this node no longer leads before it began.
Absturz(bis) ==
    /\ lauf = "laeuft" /\ verw.phase # "nach" /\ zaehler.abstuerze < MaxAbstuerze
    /\ bis \in wal.haltbar..(wal.naechste - 1)
    /\ wal' = [wal EXCEPT !.saetze = {r \in @ : r.seq <= bis}]
    /\ folge' = Ausgewaehlt(folge, {i \in DOMAIN folge : folge[i] \notin Txs({r \in wal.saetze : r.seq > bis})})
    /\ lauf' = "aus" /\ korb' = LeererKorb(0) /\ vorStart' = 0
    /\ annahmen' = {} /\ schwebend' = {} /\ bau' = KeinBau
    /\ verw' = [phase |-> IF verw.phase = "nie" THEN "nie" ELSE "nach", bis |-> 0]
    /\ zaehler' = [zaehler EXCEPT !.abstuerze = @ + 1]
    /\ UNCHANGED <<db, verworfen>>

\* Mutant: the last number of the file instead of the one after it.
PeekLetzte == Max({wal.hwm} \cup Seqs(wal.saetze))

\* Open: the next number, from the file or the high-water mark beside it.
PeekNachStart == Max({wal.hwm} \cup Seqs(wal.saetze)) + 1

\* initWALIfEnabled: Open, recoverFromWAL, speicherKorbNachWiederanlauf, and the
\* rows a dead builder had claimed opened again (ausgangVorStartMerken).
Wiederanlauf ==
    LET peek == PeekNachStart
        neu  == {r \in wal.saetze : r.seq > db.marke}
        ende == db.marke + Cardinality(neu)
    IN  /\ lauf = "aus"
        /\ \/ /\ Seqs(neu) = (db.marke + 1)..ende
              /\ lauf' = "laeuft"
              /\ wal' = [wal EXCEPT !.naechste = peek, !.haltbar = peek - 1]
              /\ korb' = [naechste |-> Max({peek, ende + 1}), bereit |-> Geordnet(neu), warten |-> {}]
              /\ db' = [db EXCEPT !.belegt = {}]
              /\ vorStart' = Max({0} \cup {z.id : z \in db.zeilen})
           \/ /\ Seqs(neu) # (db.marke + 1)..ende
              /\ lauf' = "verweigert"
              /\ UNCHANGED <<wal, korb, db, vorStart>>
        /\ UNCHANGED <<annahmen, schwebend, bau, verw, folge, verworfen, zaehler>>

-----------------------------------------------------------------------------
(* A leader that was superseded: leitungUeberholt.                         *)

\* werdeFolger notices and stores it; the gate for new blocks is shut.
UeberholtGemeldet ==
    /\ Ueberholt /\ lauf = "laeuft" /\ verw.phase = "nie"
    /\ verw' = [verw EXCEPT !.phase = "wartet"]
    /\ UNCHANGED <<wal, db, korb, annahmen, schwebend, bau, lauf, vorStart, folge, verworfen, zaehler>>

\* A running builder has been waited for.
VerwerfenPrueft ==
    /\ lauf = "laeuft" /\ verw.phase = "wartet" /\ ~BauHaelt
    /\ verw' = [verw EXCEPT !.phase = "frei"]
    /\ verworfen' = (Angewendet \cup annahmen \cup Txs(schwebend)) \ Verblockt
    /\ UNCHANGED <<wal, db, korb, annahmen, schwebend, bau, lauf, vorStart, folge, zaehler>>

\* speicherKorb.verwerfen
VerwerfenLeert ==
    /\ lauf = "laeuft" /\ verw.phase = "frei"
    /\ LET bis == Max({korb.naechste - 1} \cup Seqs(korb.warten))
       IN  /\ verw' = [phase |-> "geleert", bis |-> bis]
           /\ korb' = LeererKorb(bis + 1)
    /\ UNCHANGED <<wal, db, annahmen, schwebend, bau, lauf, vorStart, folge, verworfen, zaehler>>

\* The mark behind what was discarded, and all rows away.
VerwerfenMarke ==
    /\ lauf = "laeuft" /\ verw.phase = "geleert"
    /\ db' = [db EXCEPT !.marke = Max({@, verw.bis}), !.zeilen = {}, !.belegt = {}]
    /\ verw' = [verw EXCEPT !.phase = "fertig"]
    /\ UNCHANGED <<wal, korb, annahmen, schwebend, bau, lauf, vorStart, folge, verworfen, zaehler>>

\* PerformResync has waited for the last pass behind the gate; the gate opens.
ResyncFertig ==
    /\ lauf = "laeuft" /\ verw.phase = "fertig" /\ bau.phase = "ruht"
    /\ verw' = [verw EXCEPT !.phase = "nach"]
    /\ UNCHANGED <<wal, db, korb, annahmen, schwebend, bau, lauf, vorStart, folge, verworfen, zaehler>>

-----------------------------------------------------------------------------
Next ==
    \/ \E t \in Auftraege : AnnahmeBeginnt(t)
    \/ \E t \in annahmen : AnnahmeAbgelehnt(t) \/ Anhaengen(t) \/ LangsamBeginnt(t)
    \/ \E e \in schwebend : Einreihen(e) \/ LangsamFertig(e) \/ LangsamScheitert(e)
    \/ \E bis \in 1..wal.naechste : Sichern(bis)
    \/ BauTor \/ BauNimmt \/ BauMischt \/ BauSpeichert \/ BauScheitert
    \/ \E j \in 1..Deckel : BauKuerzt(j)
    \/ \E ab \in 1..KuerzenGrenze(db.marke) : Kuerzen(ab)
    \/ \E bis \in 0..wal.naechste : Absturz(bis)
    \/ Wiederanlauf
    \/ UeberholtGemeldet \/ VerwerfenPrueft \/ VerwerfenLeert \/ VerwerfenMarke \/ ResyncFertig

Spec == Init /\ [][Next]_vars

\* The producer's ticker, the log's writer, the goroutine of an acceptance and
\* the supervisor that restarts the process all keep running.
Fairness ==
    /\ WF_vars(\E e \in schwebend : Einreihen(e) \/ LangsamFertig(e))
    /\ WF_vars(Sichern(wal.naechste - 1))
    /\ WF_vars(BauTor) /\ WF_vars(BauNimmt) /\ WF_vars(BauMischt) /\ WF_vars(BauSpeichert)
    /\ WF_vars(Wiederanlauf)

SpecFair == Spec /\ Fairness

-----------------------------------------------------------------------------
(* Properties.                                                             *)

\* No order is in the chain's blocks twice, however often the builder fails, the
\* process ends between two steps, or the log is replayed (SaveBlockMitKorb,
\* recoverFromWAL).
NichtDoppelt == IsInjective(db.bloecke)

\* What stands in a block has really been applied and survives a crash: a block
\* never runs ahead of the log (nehmen's limit, the highest durable number).
NurAngewendetes == Verblockt \subseteq Angewendet

\* What is applied and not discarded is in a block, or a restart would find it:
\* as a row, or in the file above the mark.  While the process runs, the Korb,
\* the builder or the acceptance itself still holds it.
NichtsVerloren ==
    \A t \in Angewendet \ (Verblockt \cup verworfen \cup Txs(db.zeilen)) :
        /\ \E r \in wal.saetze : r.tx = t /\ r.seq > db.marke
        /\ lauf = "laeuft" =>
              t \in Txs(ToSet(korb.bereit) \cup korb.warten \cup ToSet(bau.inhalt) \cup schwebend)

\* In the blocks, every order comes after all orders applied before it on one of
\* its accounts: whoever replays them sees the balances the producer saw.
BlockReihenfolge ==
    \A j \in DOMAIN db.bloecke : \A i, k \in DOMAIN folge :
        (folge[k] = db.bloecke[j] /\ i < k /\ Teilen(folge[i], folge[k]) /\ folge[i] \notin verworfen)
            => \E v \in 1..(j - 1) : db.bloecke[v] = folge[i]

\* The same as long as no crash has taken back numbers a committed row is counted
\* among.
ReiheOhneAbsturz == zaehler.abstuerze = 0 => BlockReihenfolge

\* A node that has not lost the leadership starts again after its first crash: it
\* does not take the end of the log that the crash cut off, or what compaction
\* took away, for a damaged file (speicherKorbNachWiederanlauf).
StartNachEinemAbsturz ==
    verw.phase = "nie" /\ zaehler.abstuerze <= 1 => lauf # "verweigert"

\* An applied order that is durable gets into a block: no gap, row or failed build
\* stops the outgoing side (hinzu, blockKorbMischen, zurueckLegen).
Haltbar(t) == \E r \in wal.saetze : r.tx = t /\ r.seq <= wal.haltbar
Kommt == \A t \in Schnell : (t \in Angewendet /\ Haltbar(t)) ~> (t \in Verblockt)

\* A committed row gets into a block although it waits for the fast transfers with
\* smaller numbers (blockKorbMischen).
ZeileKommt == \A t \in Langsam : (t \in Txs(db.zeilen)) ~> (t \in Verblockt)

\* The log, the Korb, the rows and the mark keep the promise of Ausgangsfolge: a
\* block takes orders account by account in the order of application, and a crash
\* takes back only what is in no block, with all that built on it.
Ausgang == INSTANCE Ausgangsfolge WITH bloecke <- db.bloecke
HaeltAusgangsfolge == Ausgang!Spec
=============================================================================
