--------------------------- MODULE BlockNachspiel ---------------------------
(***************************************************************************)
(* A node takes blocks from its peers into its DAG.  A delivery checks the *)
(* block under dag.mu, stores its header, then applies it together with    *)
(* every ancestor not yet applied (under replayMu), and hangs it in; if    *)
(* that fails it deletes the header again.  Several deliveries run at once,*)
(* in any order, and load each other's headers from the database.  After a *)
(* crash the node starts from the headers and repairs in the background    *)
(* what was stored and never applied.                                      *)
(*                                                                         *)
(* Source, in x/humanity/keeper: block (AddPeerBlock, replayTransactions,  *)
(* NewBlockchain, repairUnreplayedBlocks), evm_storage (chain_blocks),     *)
(* sync_blocks (fetchMissingAncestors).                                    *)
(***************************************************************************)
EXTENDS Integers, FiniteSets, FiniteSetsExt

CONSTANTS Block,
          Eltern,        \* [block -> its parents, {} on top of genesis]
          Hoehe,         \* [block -> height]
          Rang,          \* canonical order: height, blue score, hash
          Laeufer,       \* goroutines that deliver blocks
          MaxAbstuerze, MaxFehler   \* bounds: crashes, failed replays

ASSUME BlockTyp == IsFiniteSet(Block) /\ Block # {} /\ Eltern \in [Block -> SUBSET Block]
ASSUME HoeheTyp == /\ Hoehe \in [Block -> Nat \ {0}]
                   /\ \A b \in Block : \A p \in Eltern[b] : Hoehe[p] < Hoehe[b]
ASSUME RangTyp == /\ Rang \in [Block -> Nat]
                  /\ \A x, y \in Block : /\ Rang[x] = Rang[y] => x = y
                                         /\ Hoehe[x] < Hoehe[y] => Rang[x] < Rang[y]
ASSUME LaeuferTyp == Laeufer # {}
ASSUME GrenzenTyp == {MaxAbstuerze, MaxFehler} \subseteq Nat

VARIABLES
    mem,     \* the BlockDAG: blocks, tips, replayedBlocks (nach), blocks that back
             \* off (warte), orphans <<missing parent, block>>, blocks loaded while
             \* unreplayed (vorab), bootHeight and whether a block backs it,
             \* unreplayedAtBoot (luecke), height
    db,      \* chain_blocks (kopf), max_block_height, and how often the effects of a
             \* block are in the accounts (wirkt)
    zug,     \* per goroutine: the delivery on its way through AddPeerBlock
    spielt,  \* holder of replayMu with what it still has to apply, or Frei
    lauf,    \* is the process running?
    chronik, \* history: blocks passed over without their effects (ueber), blocks
             \* whose header a failed delivery has deleted (geloescht), and those
             \* whose effects were stored without a header (verloren)
    zaehler  \* crashes, failures

vars == <<mem, db, zug, spielt, lauf, chronik, zaehler>>

Kopf   == {"keiner", "offen", "nach"}   \* no row, replayed = false, replayed = true
Beliebig == CHOOSE b \in Block : TRUE
Frei   == [art |-> "frei", von |-> CHOOSE g \in Laeufer : TRUE, rest |-> {}]
\* Mutant: the slot is left marked as done.
Beendet  == [stufe |-> "fertig", block |-> Beliebig, fehlt |-> {}]
Untaetig == [stufe |-> "frei", block |-> Beliebig, fehlt |-> {}]
Stufen == {"frei", "verwaist", "geprueft", "gespeichert", "nachspielend", "gescheitert"}

DAG     == [bloecke : SUBSET Block, spitzen : SUBSET Block, nach : SUBSET Block,
            warte : SUBSET Block, waisen : SUBSET (Block \X Block), vorab : SUBSET Block,
            boot : Nat, gedeckt : BOOLEAN, luecke : SUBSET Block, hoehe : Nat]
Tabelle == [kopf : [Block -> Kopf], wirkt : [Block -> Nat], hoehe : Nat]
Zug     == [stufe : Stufen, block : Block, fehlt : SUBSET Block]
Spiel   == [art : {"frei", "zug", "reparatur"}, von : Laeufer, rest : SUBSET Block]
Chronik == [ueber : SUBSET Block, geloescht : SUBSET Block, verloren : SUBSET Block]

TypeOK ==
    /\ mem \in DAG /\ db \in Tabelle /\ zug \in [Laeufer -> Zug] /\ spielt \in Spiel
    /\ lauf \in BOOLEAN /\ chronik \in Chronik
    /\ zaehler \in [abstuerze : Nat, fehler : Nat]

LeeresDAG == [bloecke |-> {}, spitzen |-> {}, nach |-> {}, warte |-> {}, waisen |-> {},
              vorab |-> {}, boot |-> 0, gedeckt |-> TRUE, luecke |-> {}, hoehe |-> 0]

Init ==
    /\ mem = LeeresDAG
    /\ db = [kopf |-> [b \in Block |-> "keiner"], wirkt |-> [b \in Block |-> 0], hoehe |-> 0]
    /\ zug = [g \in Laeufer |-> Untaetig] /\ spielt = Frei /\ lauf = TRUE
    /\ chronik = [ueber |-> {}, geloescht |-> {}, verloren |-> {}]
    /\ zaehler = [abstuerze |-> 0, fehler |-> 0]

Gespeicherte == {b \in Block : db.kopf[b] # "keiner"}
Angewandt(b) == db.wirkt[b] > 0

-----------------------------------------------------------------------------
(* A delivery, up to the stored header.                                    *)

Erwartet(b) == \E w \in mem.waisen : w[1] = b

\* Mutant: a block that an orphan waits for is turned away as well.
ZugedecktImmer(b, selbst) == Hoehe[b] <= mem.boot /\ mem.gedeckt

\* AddPeerBlock answers true without taking the block: covered since the start,
\* unless it was fetched for an orphan.
Zugedeckt(b, selbst) ==
    Hoehe[b] <= mem.boot /\ mem.gedeckt /\ ~(selbst /\ Erwartet(b))

\* S holds every member of T that is a parent of b or of one of its own.
Umfasst(S, b, T) == T \cap (Eltern[b] \cup UNION {Eltern[x] : x \in S}) \subseteq S

\* Ancestors of b that are reached through the set T: the least such S.
Zurueck(b, T) == {x \in T : \A S \in SUBSET T : Umfasst(S, b, T) => x \in S}

\* Mutant: what was loaded unreplayed is shown to peers.
GeladenSichtbar(b) ==
    [mem EXCEPT !.bloecke = @ \cup (Zurueck(b, @ \cup Gespeicherte) \ @)]

\* prefetchParentsFromDB, prefetchMergeSetFromDB: ancestors come from chain_blocks,
\* replayed or not, without becoming tips.
Geladen(b) ==
    LET neu == Zurueck(b, mem.bloecke \cup Gespeicherte) \ mem.bloecke
    IN  [mem EXCEPT !.bloecke = @ \cup neu,
                    !.vorab = @ \cup {x \in neu : db.kopf[x] = "offen"}]

\* AddPeerBlock under dag.mu: a known block goes no further, one without all its
\* parents becomes an orphan after the lock is released.
Ankunft(g, b, selbst) ==
    /\ lauf /\ zug[g] = Untaetig /\ ~Zugedeckt(b, selbst)
    /\ selbst => Erwartet(b)
    /\ LET m     == Geladen(b)
           fehlt == Eltern[b] \ m.bloecke
       IN  /\ mem' = m
           /\ zug' = IF b \in m.bloecke THEN zug
                     ELSE [zug EXCEPT ![g] = [block |-> b, fehlt |-> fehlt,
                              stufe |-> IF fehlt = {} THEN "geprueft" ELSE "verwaist"]]
    /\ UNCHANGED <<db, spielt, lauf, chronik, zaehler>>

\* queueOrphan, after dag.mu was released: the parent may have come in between.
Verwaisen(g) ==
    /\ lauf /\ zug[g].stufe = "verwaist"
    /\ \E p \in zug[g].fehlt : mem' = [mem EXCEPT !.waisen = @ \cup {<<p, zug[g].block>>}]
    /\ zug' = [zug EXCEPT ![g] = Untaetig]
    /\ UNCHANGED <<db, spielt, lauf, chronik, zaehler>>

\* fetchMissingAncestors finds the parent in memory or in chain_blocks: its orphans
\* are delivered again.
LokalGeloest(p) ==
    /\ lauf /\ Erwartet(p) /\ p \in mem.bloecke \cup Gespeicherte
    /\ mem' = [mem EXCEPT !.waisen = {w \in @ : w[1] # p}]
    /\ UNCHANGED <<db, zug, spielt, lauf, chronik, zaehler>>

\* Mutant: stored as replayed, the way the own blocks are.
NeuerKopfNach == "nach"

\* SaveBlockToDB(block, false)
NeuerKopf == "offen"

\* ON CONFLICT DO NOTHING
KopfSpeichern(g) ==
    /\ lauf /\ zug[g].stufe = "geprueft"
    /\ db' = [db EXCEPT !.kopf[zug[g].block] = IF @ = "keiner" THEN NeuerKopf ELSE @]
    /\ zug' = [zug EXCEPT ![g].stufe = "gespeichert"]
    /\ UNCHANGED <<mem, spielt, lauf, chronik, zaehler>>

-----------------------------------------------------------------------------
(* Applying, under replayMu.                                               *)

\* collectUnreplayedAncestors
UnnachgespielteAhnen(b) == Zurueck(b, mem.bloecke \ mem.nach)

\* Mutant: the ancestors are left to their own deliveries.
ReihenfolgeAllein(b) == {b}

\* replayInCanonicalOrder: what is to be applied, the block itself last, since no
\* ancestor ranks above it.
Reihenfolge(b) == UnnachgespielteAhnen(b) \cup {b}

\* The first of a set in canonical order.
Niedrigster(S) == CHOOSE x \in S : \A y \in S : Rang[x] <= Rang[y]

NachspielBeginnt(g) ==
    /\ lauf /\ spielt = Frei /\ zug[g].stufe = "gespeichert"
    /\ spielt' = [art |-> "zug", von |-> g, rest |-> Reihenfolge(zug[g].block)]
    /\ zug' = [zug EXCEPT ![g].stufe = "nachspielend"]
    /\ UNCHANGED <<mem, db, lauf, chronik, zaehler>>

\* repairUnreplayedBlocks: the lowest block left, replayMu taken for each anew.
ReparaturBeginnt ==
    /\ lauf /\ spielt = Frei /\ mem.luecke # {}
    /\ LET b == Niedrigster(mem.luecke)
       IN  /\ spielt' = [Frei EXCEPT !.art = "reparatur", !.rest = {b}]
           /\ mem' = [mem EXCEPT !.luecke = @ \ {b}]
    /\ UNCHANGED <<db, zug, lauf, chronik, zaehler>>

Erzwungen == spielt.art = "reparatur"

\* replayTransactions knows the block as applied, from memory or from the database.
Bekannt(b) == b \in mem.nach \/ db.kopf[b] = "nach"

\* It was tried not long ago (replayFailures).
Zurueckgestellt(b) == ~Erzwungen /\ ~Bekannt(b) /\ b \in mem.warte

\* Its effects count as part of what the accounts were loaded with (skipHeight).
Uebersprungen(b) == ~Erzwungen /\ Hoehe[b] <= mem.boot

\* Remembered in memory and gone from replayFailures.
Erledigt(b) == [mem EXCEPT !.nach = @ \cup {b}, !.warte = @ \ {b}]

NochZuTun == [spielt EXCEPT !.rest = @ \ {Niedrigster(@)}]

\* A block that needs no effects any more, or is taken for covered.
OhneWirkung ==
    /\ lauf /\ spielt.rest # {}
    /\ LET b == Niedrigster(spielt.rest)
       IN  /\ ~Zurueckgestellt(b) /\ (Bekannt(b) \/ Uebersprungen(b))
           /\ mem' = Erledigt(b)
           /\ chronik' = IF Bekannt(b) \/ Angewandt(b) THEN chronik
                         ELSE [chronik EXCEPT !.ueber = @ \cup {b}]
    /\ spielt' = NochZuTun
    /\ UNCHANGED <<db, zug, lauf, zaehler>>

\* Mutant: the flag is left to a later write.
VermerktNicht(k) == k

\* MarkBlockReplayed: UPDATE of a row that may be gone.
Vermerkt(k) == IF k = "keiner" THEN "keiner" ELSE "nach"

\* The effects and the flag of a block in one transaction.
Anwenden ==
    /\ lauf /\ spielt.rest # {}
    /\ LET b == Niedrigster(spielt.rest)
       IN  /\ ~Bekannt(b) /\ ~Zurueckgestellt(b) /\ ~Uebersprungen(b)
           /\ db' = [db EXCEPT !.wirkt[b] = @ + 1, !.kopf[b] = Vermerkt(@)]
           /\ mem' = Erledigt(b)
           /\ chronik' = IF db.kopf[b] = "keiner" THEN [chronik EXCEPT !.verloren = @ \cup {b}]
                         ELSE chronik
    /\ spielt' = NochZuTun
    /\ UNCHANGED <<zug, lauf, zaehler>>

\* What a failure does: a delivery lets go of replayMu with its header still
\* stored, the repair goes on to its next block.
Abbruch ==
    /\ spielt' = Frei
    /\ zug' = IF Erzwungen THEN zug ELSE [zug EXCEPT ![spielt.von].stufe = "gescheitert"]

\* The transaction fails, in full: the block backs off.
AnwendenScheitert ==
    /\ lauf /\ spielt.rest # {} /\ zaehler.fehler < MaxFehler
    /\ LET b == Niedrigster(spielt.rest)
       IN  /\ ~Bekannt(b) /\ ~Zurueckgestellt(b) /\ ~Uebersprungen(b)
           /\ mem' = [mem EXCEPT !.warte = @ \cup {b}]
           /\ chronik' = IF Erzwungen THEN [chronik EXCEPT !.ueber = @ \cup {b}] ELSE chronik
    /\ Abbruch
    /\ zaehler' = [zaehler EXCEPT !.fehler = @ + 1]
    /\ UNCHANGED <<db, lauf>>

\* A block that backs off is not tried, and not counted again.
NochZurueckgestellt ==
    /\ lauf /\ spielt.rest # {} /\ Zurueckgestellt(Niedrigster(spielt.rest))
    /\ Abbruch
    /\ UNCHANGED <<mem, db, lauf, chronik, zaehler>>

\* replayBackoffFor has passed.
WartezeitUm(b) ==
    /\ lauf /\ b \in mem.warte
    /\ mem' = [mem EXCEPT !.warte = @ \ {b}]
    /\ UNCHANGED <<db, zug, spielt, lauf, chronik, zaehler>>

ReparaturFertig ==
    /\ lauf /\ Erzwungen /\ spielt.rest = {}
    /\ spielt' = Frei
    /\ UNCHANGED <<mem, db, zug, lauf, chronik, zaehler>>

\* Mutant: a tip in any case.
SpitzenImmer(b) == (mem.spitzen \ Eltern[b]) \cup {b}

\* spitzeEinhaengenLocked: one that was in memory before may have a child.
Spitzen(b) ==
    LET hatKind == b \in mem.bloecke /\ \E x \in mem.bloecke : b \in Eltern[x]
    IN  (mem.spitzen \ Eltern[b]) \cup (IF hatKind THEN {} ELSE {b})

\* AddPeerBlock, success: into the DAG under dag.mu, then replayMu is released and
\* the orphans of the block are delivered again.
Einhaengen(g) ==
    /\ lauf /\ spielt.art = "zug" /\ spielt.von = g /\ spielt.rest = {}
    /\ LET b == zug[g].block
           h == Max({mem.hoehe, Hoehe[b]})
       IN  /\ mem' = [mem EXCEPT !.bloecke = @ \cup {b}, !.vorab = @ \ {b}, !.hoehe = h,
                                 !.spitzen = Spitzen(b), !.waisen = {w \in @ : w[1] # b}]
           /\ db' = [db EXCEPT !.hoehe = IF h > mem.hoehe THEN h ELSE @]
    /\ zug' = [zug EXCEPT ![g] = Untaetig]
    /\ spielt' = Frei
    /\ UNCHANGED <<lauf, chronik, zaehler>>

\* AddPeerBlock, failure: DeleteBlockFromDB, no longer under replayMu.
KopfLoeschen(g) ==
    /\ lauf /\ zug[g].stufe = "gescheitert"
    /\ LET b == zug[g].block
       IN  /\ db' = [db EXCEPT !.kopf[b] = "keiner"]
           /\ chronik' = [chronik EXCEPT !.geloescht = @ \cup {b},
                                         !.verloren = IF Angewandt(b) THEN @ \cup {b} ELSE @]
    /\ zug' = [zug EXCEPT ![g] = Untaetig]
    /\ UNCHANGED <<mem, spielt, lauf, zaehler>>

-----------------------------------------------------------------------------
(* The end of the process and the next start.                              *)

Absturz ==
    /\ lauf /\ zaehler.abstuerze < MaxAbstuerze
    /\ lauf' = FALSE
    /\ mem' = LeeresDAG /\ zug' = [g \in Laeufer |-> Untaetig] /\ spielt' = Frei
    /\ zaehler' = [zaehler EXCEPT !.abstuerze = @ + 1]
    /\ UNCHANGED <<db, chronik>>

Hoechste(S) == Max({0} \cup {Hoehe[b] : b \in S})

\* replayedBlocks as loaded from chain_blocks.
Nachgespielt == {b \in Block : db.kopf[b] = "nach"}

\* NewBlockchain: every stored header is loaded, replayed or not, and counts for
\* the tips and the height; RefreshBootHeightAfterSnapshotImport(false).
Start ==
    /\ ~lauf /\ lauf' = TRUE
    /\ LET h == Max({db.hoehe, Hoechste(Gespeicherte)})
       IN  mem' = [LeeresDAG EXCEPT
                     !.bloecke = Gespeicherte,
                     !.vorab   = {b \in Gespeicherte : db.kopf[b] = "offen"},
                     !.luecke  = {b \in Gespeicherte : db.kopf[b] = "offen"},
                     !.nach    = Nachgespielt,
                     !.spitzen = {b \in Gespeicherte : \A x \in Gespeicherte : b \notin Eltern[x]},
                     !.hoehe   = h, !.boot = h,
                     !.gedeckt = h = 0 \/ \E b \in Gespeicherte : Hoehe[b] = h]
    /\ UNCHANGED <<db, zug, spielt, chronik, zaehler>>

-----------------------------------------------------------------------------
Next ==
    \/ \E g \in Laeufer :
          \/ \E b \in Block, selbst \in BOOLEAN : Ankunft(g, b, selbst)
          \/ Verwaisen(g) \/ KopfSpeichern(g) \/ NachspielBeginnt(g)
          \/ Einhaengen(g) \/ KopfLoeschen(g)
    \/ \E b \in Block : LokalGeloest(b) \/ WartezeitUm(b)
    \/ ReparaturBeginnt \/ ReparaturFertig
    \/ OhneWirkung \/ Anwenden \/ AnwendenScheitert \/ NochZurueckgestellt
    \/ Absturz \/ Start

Spec == Init /\ [][Next]_vars

\* A goroutine finishes its delivery, and replayMu (a fair mutex) comes round to it
\* and to the repair; the clock passes; a supervisor restarts the process; peers
\* send every block again, and what orphans wait for is fetched.
Gerecht ==
    /\ \A g \in Laeufer :
          /\ WF_vars(Verwaisen(g) \/ KopfSpeichern(g) \/ Einhaengen(g) \/ KopfLoeschen(g))
          /\ SF_vars(NachspielBeginnt(g))
    /\ SF_vars(ReparaturBeginnt)
    /\ WF_vars(OhneWirkung \/ Anwenden \/ NochZurueckgestellt \/ ReparaturFertig)
    /\ WF_vars(\E b \in Block : WartezeitUm(b)) /\ WF_vars(\E b \in Block : LokalGeloest(b))
    /\ \A b \in Block : SF_vars(\E g \in Laeufer, selbst \in BOOLEAN : Ankunft(g, b, selbst))
    /\ WF_vars(Start)

SpecFair == Spec /\ Gerecht

-----------------------------------------------------------------------------
(* Properties.                                                             *)

\* A header marked as replayed has its effects in the accounts: no delivery, race,
\* crash or repair ever marks what it has not applied (MarkBlockReplayed).
VermerkHeisstWirkung == \A b \in Block : db.kopf[b] = "nach" => Angewandt(b)

\* A block's effects get into the accounts once, over redelivery, repair and
\* restarts, unless its header was lost while its effects were stored.
NichtDoppelt == \A b \in Block : db.wirkt[b] > 1 => b \in chronik.verloren

\* A block is applied after its parents, unless the node passed them over, or the
\* repair does it for a child whose parent's header was deleted
\* (collectUnreplayedAncestors, repairUnreplayedBlocks).
ElternZuerst ==
    [][\A b \in Block : db'.wirkt[b] > db.wirkt[b] =>
         \A p \in Eltern[b] :
            Angewandt(p) \/ p \in chronik.ueber \/ (Erzwungen /\ p \in chronik.geloescht)]_vars

\* No tip is the parent of a tip, although children load their parents before those
\* are hung in themselves (spitzeEinhaengenLocked).
KeineSpitzeUeberSpitze ==
    \A t \in mem.spitzen : mem.spitzen \cap Eltern[t] \subseteq chronik.geloescht

\* Only applied blocks are handed out to peers (nachAussen).
NachAussenAngewandt ==
    \A b \in mem.bloecke : (b \notin mem.vorab \/ b \in mem.nach) =>
        Angewandt(b) \/ b \in chronik.ueber

\* Every block that peers keep sending gets applied or passed over: no orphan, retry,
\* covered block or repair starves it; except when its header was deleted and the
\* node restarts with a child of it.
JederBlockKommtAn ==
    \A b \in Block : <>(\/ Angewandt(b) \/ b \in chronik.ueber
                      \/ (b \in chronik.geloescht /\ zaehler.abstuerze > 0))

\* evm_storage.go:4158: a header never goes while the effects stay.
WirkungMitVermerk == \A b \in Block : Angewandt(b) => db.kopf[b] = "nach"
=============================================================================
