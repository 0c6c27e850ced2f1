----------------------------- MODULE MCLeitung -----------------------------
\* Instances of Leitung for TLC.
EXTENDS Leitung

CONSTANTS a, b, c, d, e

ZweiValidatoren == {a, b}
DreiValidatoren == {a, b, c}
FuenfValidatoren == {a, b, c, d, e}

(***************************************************************************)
(* The clock's last moment serves one step only: the candidates of the     *)
(* moment before give up.                                                  *)
(***************************************************************************)
LetzterMoment == jetzt < MaxZeit \/ \E n \in Validator : KandidatGibtAuf(n)

(***************************************************************************)
(* Five validators and one network partition: {a, b}, with the leader a,   *)
(* are cut off from {c, d, e} first, and a and b hand the leadership over  *)
(* while nobody else hears them (time 1).  From time 2 on the majority     *)
(* elects its own leader, gives up and tries again; once that one accepts, *)
(* the partition heals.                                                    *)
(***************************************************************************)
Minderheit == {a, b}

Geheilt == jetzt > 1 /\ NimmtAn(c)

Beteiligt == IF jetzt = 1 THEN Minderheit
             ELSE IF Geheilt THEN Validator ELSE Validator \ Minderheit

Ankommend == {m \in netz : m.zeit \in {0, jetzt} /\ (~Geheilt => m.von \in Beteiligt)}

NextGetrennt ==
  \/ Tick /\ \E n \in Minderheit : k[n].rolle = "leiter" /\ k[n].term > 1
  \/ \E n \in Beteiligt : Takt(n)
  \/ KandidatGibtAuf(c)  \* c stands for election only where it takes part
  \/ \E n \in Beteiligt, m \in Ankommend : Empfange(n, m)

SpecGetrennt == Init /\ [][NextGetrennt]_vars

=============================================================================
