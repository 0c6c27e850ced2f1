----------------------------- MODULE MCWalFlush -----------------------------
\* Instances of WalFlush for TLC.
EXTENDS WalFlush

CONSTANTS a, b, c, t1, t2, t3

DreiKonten == {a, b, c}
Alle == {t1, t2, t3}
NurT2 == {t2}
T1T2 == {t1, t2}
NurT1 == {t1}

\* t1 and t2 are signed orders of a, the nonces one after the other; t3 crosses
\* t1 the other way.
VonKette    == [t \in Schnell \cup Seriell |-> IF t = t3 THEN c ELSE a]
NachKette   == [t \in Schnell \cup Seriell |-> IF t = t2 THEN c ELSE b]
NonceKette  == [t \in Schnell \cup Seriell |-> CASE t = t1 -> 1 [] t = t2 -> 2 [] OTHER -> 0]

\* Restarts that stay in their mode, and those that switch the Korb off.
BleibtOderAus == {<<FALSE, FALSE>>, <<TRUE, TRUE>>, <<TRUE, FALSE>>}

\* The Korb switched on for the first time as well.
AuchEin == {<<FALSE, FALSE>>, <<FALSE, TRUE>>, <<TRUE, TRUE>>}
=============================================================================
