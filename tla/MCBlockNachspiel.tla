-------------------------- MODULE MCBlockNachspiel --------------------------
\* Instances of BlockNachspiel for TLC.
EXTENDS BlockNachspiel, TLC

CONSTANTS x1, x2, x3, l1, l2

Bloecke == {x1, x2, x3}
Zwei  == {l1, l2}

\* x1 below x2 below x3.
KetteEltern == [b \in Block |-> CASE b = x1 -> {} [] b = x2 -> {x1} [] b = x3 -> {x2}]
KetteHoehe  == [b \in Block |-> CASE b = x1 -> 1 [] b = x2 -> 2 [] b = x3 -> 3]

\* Two siblings at the bottom, x3 merges them.
DachEltern == [b \in Block |-> IF b = x3 THEN {x1, x2} ELSE {}]
DachHoehe  == [b \in Block |-> IF b = x3 THEN 2 ELSE 1]

Reihe == [b \in Block |-> CASE b = x1 -> 1 [] b = x2 -> 2 [] b = x3 -> 3]

Tausch == Permutations(Laeufer)
=============================================================================
