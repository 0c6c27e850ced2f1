--------------------------- MODULE Ausgangsfolge ---------------------------
(***************************************************************************)
(* What the outgoing side of a node promises, without saying how: orders   *)
(* are applied one after another, blocks take them in that order account   *)
(* by account (pending_reihenfolge.go:5-8), and what a crash or a lost     *)
(* leadership takes back was in no block and takes with it everything that *)
(* was applied after it on the same accounts.                              *)
(***************************************************************************)
EXTENDS SequencesExt, Reihen

CONSTANTS Auftraege,    \* the orders people can hand in
          Konten        \* the accounts an order touches

VARIABLES folge,        \* applied orders, in the order of application
          bloecke       \* orders in stored blocks, in block order

vars == <<folge, bloecke>>

Teilen(x, y) == Konten[x] \cap Konten[y] # {}

\* x was applied before y.
Vor(x, y) == \E j \in DOMAIN folge : folge[j] = y /\ \E i \in 1..(j - 1) : folge[i] = x

Init == folge = <<>> /\ bloecke = <<>>

Annehmen(t) ==
    /\ t \notin ToSet(folge)
    /\ folge' = Append(folge, t)
    /\ UNCHANGED bloecke

\* A block with the orders of neu, in this order.
Verblocken(neu) ==
    /\ neu # <<>>
    /\ ToSet(neu) \subseteq ToSet(folge) \ ToSet(bloecke)
    /\ IsInjective(neu)
    /\ \A j \in DOMAIN neu : \A x \in ToSet(folge) :
          Teilen(x, neu[j]) /\ Vor(x, neu[j])
             => x \in ToSet(bloecke) \cup {neu[i] : i \in 1..(j - 1)}
    /\ bloecke' = bloecke \o neu
    /\ UNCHANGED folge

\* The orders of weg are taken back.
Zuruecknehmen(weg) ==
    /\ weg \cap ToSet(bloecke) = {}
    /\ \A x \in weg : \A y \in ToSet(folge) : Teilen(x, y) /\ Vor(x, y) => y \in weg
    /\ folge' = Ausgewaehlt(folge, {i \in DOMAIN folge : folge[i] \notin weg})
    /\ UNCHANGED bloecke

Next ==
    \/ \E t \in Auftraege : Annehmen(t)
    \/ \E neu \in SetToAllKPermutations(ToSet(folge) \ ToSet(bloecke)) : Verblocken(neu)
    \/ \E weg \in SUBSET ToSet(folge) : Zuruecknehmen(weg)

Spec == Init /\ [][Next]_vars
=============================================================================
