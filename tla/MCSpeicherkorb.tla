-------------------------- MODULE MCSpeicherkorb ---------------------------
\* Instances of Speicherkorb for TLC.
EXTENDS Speicherkorb

CONSTANTS s1, s2, s3, z1, z2

ZweiSchnelle  == {s1, s2}
DreiSchnelle  == {s1, s2, s3}
EineLangsame  == {z1}
ZweiLangsame  == {z1, z2}

\* A chain of shared accounts: s1, s2, s3 with z1 beside them and z2 across; s1
\* and s3, s1 and z1, z1 and z2 share nothing and may run at the same time.
KettenKonten ==
    [t \in Schnell \cup Langsam |->
        CASE t = s1 -> {"a"}
          [] t = s2 -> {"a", "b"}
          [] t = s3 -> {"b", "c"}
          [] t = z1 -> {"b"}
          [] t = z2 -> {"a", "c"}]

\* The rows' accounts meet those of every transfer: no number below a row's own
\* can be lost in a crash once the row is committed.
GemeinsameKonten ==
    [t \in Schnell \cup Langsam |->
        CASE t = s1 -> {"a"} [] t = s2 -> {"b"} [] t = s3 -> {"b"} [] OTHER -> {"a", "b"}]
=============================================================================
