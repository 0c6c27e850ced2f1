----------------------------- MODULE Checkpoint -----------------------------
(***************************************************************************)
(* Checkpoints signed by the committee: per slot the leader proposes a     *)
(* block, every member decides by itself whether it signs, a quorum of     *)
(* signatures makes a certificate, and every node stores certificates as   *)
(* a chain.  Members and leader note what they signed and proposed before  *)
(* it leaves them; processes restart, and databases get lost.              *)
(*                                                                         *)
(* Source, in x/humanity/keeper: checkpoint_vorschlag, _unterschreiben,    *)
(* _zertifikat, _bindung and _netz, and kegel_vorfahr.  A refusal whose    *)
(* reason is not kept here (another leader or term in the member's own     *)
(* view, a block that is not replayed yet, a gap in the search, a full     *)
(* queue, a read error) is a proposal or certificate that nobody handles.  *)
(***************************************************************************)
EXTENDS Integers, FiniteSets

CONSTANTS
  Validator,       \* the nodes
  Block,           \* the blocks that can be proposed
  Keiner,          \* no block
  Zeit,            \* [Block -> the time of a block]
  Eltern,          \* [Block -> its parents, as far as they are in Block]
  Komitee,         \* [Block -> the committee at its time]
  Leitende,        \* the nodes that ever hold themselves for the leader
  Rueckweg,        \* [Leitende -> the blocks that are ever on its way back]
  Stoerbar,        \* bound: the nodes that restart or have unclear commits
  SlotLaenge,      \* checkpointSlotLaenge
  RueckToleranz,   \* zeitstempelRueckToleranz: no younger block is signed
  WahlMindestAlt,  \* checkpointWahlMindestAlt: no younger block is proposed
  HoechstensAlt,   \* checkpointHoechstensAlt
  MindestKomitee,  \* checkpointMindestKomitee
  Gleichzeitig,    \* checkpointGleichzeitig: requests a node handles at once
  MaxZeit,         \* bound: the clock stops here
  MaxStoerungen    \* bound: restarts and unclear commits of all nodes together

ASSUME BlockAnnahme ==
  /\ Keiner \notin Block
  /\ Zeit \in [Block -> Nat \ {0}]
  /\ Eltern \in [Block -> SUBSET Block]

ASSUME KomiteeAnnahme ==
  /\ IsFiniteSet(Validator) /\ Leitende \subseteq Validator /\ Stoerbar \subseteq Validator
  /\ Komitee \in [Block -> SUBSET Validator] /\ Rueckweg \in [Leitende -> SUBSET Block]
  /\ MindestKomitee \in Nat \ {0} /\ Gleichzeitig \in Nat \ {0}

ASSUME FristenAnnahme ==
  /\ SlotLaenge \in Nat \ {0} /\ HoechstensAlt \in Nat /\ WahlMindestAlt \in Nat
  /\ RueckToleranz \in Nat /\ SlotLaenge <= RueckToleranz
  /\ MaxZeit \in Nat /\ MaxStoerungen \in Nat

VARIABLES
  jetzt,       \* the time all nodes read
  start,       \* checkpointProzessStart of each node
  merker,      \* table checkpoint_unterschriften of each node
  vorschlag,   \* table checkpoint_vorschlaege of each node
  zert,        \* table checkpoint_zertifikate of each node
  letzter,     \* checkpointLetzter of each node
  geprueft,    \* proposals a node has checked but not signed yet
  runde,       \* the round a leader is in
  taktSlot,    \* checkpointStand.slot: the slot of a leader's last round
  netz,        \* every proposal, signature and certificate ever sent
  stoerungen   \* restarts and unclear commits so far

vars == <<jetzt, start, merker, vorschlag, zert, letzter, geprueft, runde, taktSlot, netz, stoerungen>>

Slot(b)  == Zeit[b] \div SlotLaenge
Alter(b) == jetzt - Zeit[b]

\* Mutant: half of the committee.
QuorumHalb(K) == Cardinality(K) \div 2

\* More than two thirds.
Quorum(K) == (2 * Cardinality(K)) \div 3 + 1

\* vorfahrSuchen from b: what every set contains that contains b and the parents
\* of its members; the search descends only from blocks not older than grenze.
Vorfahren(b, grenze) ==
  {x \in Block : \A S \in SUBSET Block :
     b \in S /\ (\A y \in S : Zeit[y] >= grenze => Eltern[y] \subseteq S) => x \in S}

\* checkpointNachfolger: the blocks with l in their past.
Nachfolger == [l \in Block |-> {b \in Block : l \in Vorfahren(b, Zeit[l])}]

Nachricht == [art : {"vorschlag", "unterschrift", "zertifikat"}, von : Validator, block : Block]

Msg(art, n, b) == [art |-> art, von |-> n, block |-> b]

\* What n has signed, lost tables or not.
Unterschrieben(n) == {b \in Block : Msg("unterschrift", n, b) \in netz}
Zertifiziert == {b \in Block : \E n \in Validator : Msg("zertifikat", n, b) \in netz}

KeineRunde == [block |-> Keiner, phase |-> "keine", von |-> {}]

Runde == {KeineRunde} \cup [block : Block, phase : {"eigene", "sammelt"}, von : SUBSET Validator]

Init ==
  /\ jetzt = 0
  /\ start = [n \in Validator |-> 0]
  /\ merker = [n \in Validator |-> {}]
  /\ vorschlag = [n \in Validator |-> {}]
  /\ zert = [n \in Validator |-> {}]
  /\ letzter = [n \in Validator |-> Keiner]
  /\ geprueft = [n \in Validator |-> {}]
  /\ runde = [n \in Validator |-> KeineRunde]
  /\ taktSlot = [n \in Validator |-> 0]
  /\ netz = {}
  /\ stoerungen = 0

Tick ==
  /\ jetzt < MaxZeit
  /\ jetzt' = jetzt + 1
  /\ UNCHANGED <<start, merker, vorschlag, zert, letzter, geprueft, runde, taktSlot, netz, stoerungen>>

\* Mutant: blocks from before the start count as well.
NachStartImmer(n, b) == TRUE

\* Startsperre
NachStart(n, b) == Zeit[b] > start[n]

\* Mutant: only the slot itself is looked up.
BelegbarOhneReihe(tabelle, b) == \A x \in tabelle : Slot(x) = Slot(b) => x = b

\* checkpointSlotMerken: the slot is free and not before the youngest one, or
\* noted for this very block.
Belegbar(tabelle, b) == b \in tabelle \/ \A x \in tabelle : Slot(x) < Slot(b)

Zulaessig(n, b) ==
  /\ NachStart(n, b) /\ n \in Komitee[b]
  /\ Cardinality(Komitee[b]) >= MindestKomitee
  /\ Alter(b) >= RueckToleranz /\ Alter(b) <= HoechstensAlt

\* checkpointTakt, checkpointWahl, checkpointVorschlagErstellen: which block of
\* the permitted age lies on the leader's way back is left open.
RundeBeginnen(n, b) ==
  /\ b \in Rueckweg[n] /\ runde[n] = KeineRunde /\ taktSlot[n] # jetzt \div SlotLaenge
  /\ taktSlot' = [taktSlot EXCEPT ![n] = jetzt \div SlotLaenge]
  /\ Alter(b) >= WahlMindestAlt /\ Zulaessig(n, b)
  /\ Belegbar(vorschlag[n], b)
  /\ vorschlag' = [vorschlag EXCEPT ![n] = @ \cup {b}]
  /\ runde' = [runde EXCEPT ![n] = [block |-> b, phase |-> "eigene", von |-> {}]]
  /\ UNCHANGED <<jetzt, start, merker, zert, letzter, geprueft, netz, stoerungen>>

\* b follows the last checkpoint n knows.
FolgtLetztem(n, b) ==
  letzter[n] # Keiner => Zeit[b] > Zeit[letzter[n]] /\ b \in Nachfolger[letzter[n]]

\* checkpointVorschlagAnnehmen up to the search, for a proposal received or the
\* leader's own: the last checkpoint is read here, before anything is noted.  The
\* answer to a repeated proposal is the same signature, and is left out.
VorschlagPruefen(n, b) ==
  /\ \/ /\ \E l \in Komitee[b] \ {n} : Msg("vorschlag", l, b) \in netz
        /\ Cardinality(geprueft[n] \ {runde[n].block}) < Gleichzeitig
        /\ b \notin Unterschrieben(n)
     \/ runde[n].block = b /\ runde[n].phase = "eigene"
  /\ Zulaessig(n, b) /\ FolgtLetztem(n, b)
  /\ geprueft' = [geprueft EXCEPT ![n] = @ \cup {b}]
  /\ UNCHANGED <<jetzt, start, merker, vorschlag, zert, letzter, runde, taktSlot, netz, stoerungen>>

\* checkpointMitunterschreiben: noted first, then signed.  The leader whose own
\* signature this is sends its proposal.
Mitunterschreiben(n, b) ==
  /\ b \in geprueft[n] /\ Belegbar(merker[n], b)
  /\ merker' = [merker EXCEPT ![n] = @ \cup {b}]
  /\ geprueft' = [geprueft EXCEPT ![n] = @ \ {b}]
  /\ LET eigene == runde[n].block = b /\ runde[n].phase = "eigene"
     IN  /\ runde' = IF eigene THEN [runde EXCEPT ![n].phase = "sammelt", ![n].von = {n}] ELSE runde
         /\ netz' = netz \cup {Msg("unterschrift", n, b)}
                         \cup (IF eigene THEN {Msg("vorschlag", n, b)} ELSE {})
  /\ UNCHANGED <<jetzt, start, vorschlag, zert, letzter, taktSlot, stoerungen>>

\* The commit of the note succeeds, but its answer does not arrive in time.
MerkenUnklar(n, b) ==
  /\ b \in geprueft[n] /\ Belegbar(merker[n], b) /\ stoerungen < MaxStoerungen
  /\ merker' = [merker EXCEPT ![n] = @ \cup {b}]
  /\ geprueft' = [geprueft EXCEPT ![n] = @ \ {b}]
  /\ stoerungen' = stoerungen + 1
  /\ UNCHANGED <<jetzt, start, vorschlag, zert, letzter, runde, taktSlot, netz>>

\* The slot belongs to another block, or lies before a younger one.
UnterschriftVerweigert(n, b) ==
  /\ b \in geprueft[n] /\ ~Belegbar(merker[n], b)
  /\ geprueft' = [geprueft EXCEPT ![n] = @ \ {b}]
  /\ UNCHANGED <<jetzt, start, merker, vorschlag, zert, letzter, runde, taktSlot, netz, stoerungen>>

Voll(n) == Cardinality(runde[n].von) >= Quorum(Komitee[runde[n].block])

\* checkpointSammler.hinzu
Sammeln(n, m) ==
  /\ m.art = "unterschrift" /\ runde[n].phase = "sammelt" /\ m.block = runde[n].block
  /\ m.von \in Komitee[m.block] \ runde[n].von /\ ~Voll(n)
  /\ runde' = [runde EXCEPT ![n].von = @ \cup {m.von}]
  /\ UNCHANGED <<jetzt, start, merker, vorschlag, zert, letzter, geprueft, taktSlot, netz, stoerungen>>

\* Mutant: a certificate of any younger block will do.
AnnehmbarNurZeit(n, b) == letzter[n] # Keiner => Zeit[b] > Zeit[letzter[n]]

\* checkpointGegenKette and checkpointZertifikatAnnehmen, apart from the age: a
\* leader accepts its own certificate with the time its round began.
Annehmbar(n, b) ==
  \/ letzter[n] = b
  \/ FolgtLetztem(n, b) /\ \A x \in zert[n] : Zeit[x] = Zeit[b] => x = b

\* Mutant: kept in memory only.
AufnehmenOhneTabelle(n, b) ==
  /\ letzter' = [letzter EXCEPT ![n] = b]
  /\ UNCHANGED zert

\* INSERT, then the new last checkpoint in memory.
Aufnehmen(n, b) ==
  /\ zert' = [zert EXCEPT ![n] = @ \cup {b}]
  /\ letzter' = [letzter EXCEPT ![n] = b]

\* checkpointRunde: the leader accepts its own certificate and sends it.
RundeAbschliessen(n) ==
  LET fertig == runde[n].block IN
  /\ runde[n].phase = "sammelt" /\ Voll(n)
  /\ Annehmbar(n, fertig)
  /\ Aufnehmen(n, fertig)
  /\ netz' = netz \cup {Msg("zertifikat", n, fertig)}
  /\ runde' = [runde EXCEPT ![n] = KeineRunde]
  /\ UNCHANGED <<jetzt, start, merker, vorschlag, geprueft, taktSlot, stoerungen>>

\* No own signature, no quorum, no database, or the own certificate does not fit
\* any more.
RundeEndet(n) ==
  /\ runde[n] # KeineRunde
  /\ runde' = [runde EXCEPT ![n] = KeineRunde]
  /\ UNCHANGED <<jetzt, start, merker, vorschlag, zert, letzter, geprueft, taktSlot, netz, stoerungen>>

\* checkpointZertifikatAnnehmen, all under checkpointLetzterMu.
ZertifikatAnnehmen(n, b) ==
  /\ \E l \in Validator \ {n} : Msg("zertifikat", l, b) \in netz
  /\ letzter[n] # b /\ Alter(b) <= HoechstensAlt
  /\ Annehmbar(n, b)
  /\ Aufnehmen(n, b)
  /\ UNCHANGED <<jetzt, start, merker, vorschlag, geprueft, runde, taktSlot, netz, stoerungen>>

\* checkpointLetzterLaden
Juengstes(Z) == IF Z = {} THEN Keiner ELSE CHOOSE b \in Z : \A x \in Z : Zeit[x] <= Zeit[b]

\* The process starts again, with its tables or with an empty database.
Neustart(n, verloren) ==
  /\ stoerungen < MaxStoerungen
  /\ start' = [start EXCEPT ![n] = jetzt]
  /\ geprueft' = [geprueft EXCEPT ![n] = {}]
  /\ runde' = [runde EXCEPT ![n] = KeineRunde]
  /\ taktSlot' = [taktSlot EXCEPT ![n] = 0]
  /\ merker' = IF verloren THEN [merker EXCEPT ![n] = {}] ELSE merker
  /\ vorschlag' = IF verloren THEN [vorschlag EXCEPT ![n] = {}] ELSE vorschlag
  /\ zert' = IF verloren THEN [zert EXCEPT ![n] = {}] ELSE zert
  /\ letzter' = [letzter EXCEPT ![n] = IF verloren THEN Keiner ELSE Juengstes(zert[n])]
  /\ stoerungen' = stoerungen + 1
  /\ UNCHANGED <<jetzt, netz>>

Next ==
  \/ Tick
  \/ \E n \in Leitende, b \in Block : RundeBeginnen(n, b)
  \/ \E n \in Leitende : RundeAbschliessen(n) \/ RundeEndet(n)
  \/ \E n \in Leitende, m \in netz : Sammeln(n, m)
  \/ \E n \in Validator, b \in Block :
       VorschlagPruefen(n, b) \/ Mitunterschreiben(n, b) \/ UnterschriftVerweigert(n, b)
         \/ ZertifikatAnnehmen(n, b)
  \/ \E n \in Stoerbar, b \in Block : MerkenUnklar(n, b)
  \/ \E n \in Stoerbar, verloren \in BOOLEAN : Neustart(n, verloren)

Spec == Init /\ [][Next]_vars

-----------------------------------------------------------------------------
(* Properties.                                                             *)

\* The type of the state; the last checkpoint in memory is always stored.
TypeOK ==
  /\ jetzt \in Nat /\ stoerungen \in Nat /\ netz \subseteq Nachricht
  /\ start \in [Validator -> Nat]
  /\ merker \in [Validator -> SUBSET Block] /\ vorschlag \in [Validator -> SUBSET Block]
  /\ zert \in [Validator -> SUBSET Block] /\ geprueft \in [Validator -> SUBSET Block]
  /\ letzter \in [Validator -> Block \cup {Keiner}]
  /\ \A n \in Validator : letzter[n] \in zert[n] \cup {Keiner}
  /\ runde \in [Validator -> Runde] /\ taktSlot \in [Validator -> Nat]

\* No member ever signs two blocks of one slot, whatever restarts, lost tables
\* and repeated or concurrent proposals do (checkpoint_unterschreiben.go).
KeinDoppelsignieren ==
  \A n \in Validator : \A x, y \in Unterschrieben(n) : Slot(x) = Slot(y) => x = y

\* Two certified blocks of one slot are the same block, as long as the committee
\* does not change inside the slot (checkpointQuorum).
EinZertifikatJeSlot ==
  \A x, y \in Zertifiziert : Slot(x) = Slot(y) /\ Komitee[x] = Komitee[y] => x = y

\* What one node stores as checkpoints is a chain: of any two, the younger has
\* the older in its past, over restarts (checkpointZertifikatAnnehmen).
KetteJeKnoten ==
  \A n \in Validator : \A x, y \in zert[n] :
    x = y \/ (Zeit[x] < Zeit[y] /\ y \in Nachfolger[x]) \/ (Zeit[y] < Zeit[x] /\ x \in Nachfolger[y])

\* A member never signs a slot before one it has signed, lost tables or not,
\* except for a block whose note it had already made (checkpointSlotMerken).
SlotsVorwaerts ==
  [][\A n \in Validator : \A y \in Unterschrieben(n)' \ Unterschrieben(n) :
       y \in merker[n] \/ \A x \in Unterschrieben(n) : Slot(x) < Slot(y)]_vars
=============================================================================
