---------------------------- MODULE MCCheckpoint ----------------------------
\* Instances of Checkpoint for TLC.
EXTENDS Checkpoint, TLC

CONSTANTS a, b, c, d, p, q, r

VierValidatoren == {a, b, c, d}

\* p and q of one slot on two branches, r of the next slot on the branch of q.
DreiBloecke == {p, q, r}
BlockZeit   == [x \in Block |-> CASE x = p -> 3 [] x = q -> 3 [] x = r -> 4]
BlockEltern == [x \in Block |-> IF x = r THEN {q} ELSE {}]

\* a is on the branch of p first, d on the other one.
Wege == [n \in Leitende |-> IF n = a THEN {p, q} ELSE {q, r}]

AlleImKomitee == [x \in Block |-> Validator]

\* The members that never lead are interchangeable.
Tausch == Permutations(Validator \ (Leitende \cup Stoerbar))
=============================================================================
