-------------------------- MODULE MCLeitungVerteilt --------------------------
\* Instance of LeitungVerteilt for TLC: three members, a ring a, b, c.
EXTENDS LeitungVerteilt

CONSTANTS a, b, c

DreiValidatoren == {a, b, c}
Ring == <<a, b, c>>

\* The leader is cut off in both directions, or only the answers of b are lost.
EinKnoten == {[getrennt |-> {a}, hoert |-> FALSE], [getrennt |-> {b}, hoert |-> TRUE]}

=============================================================================
