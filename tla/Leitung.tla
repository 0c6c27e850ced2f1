------------------------------ MODULE Leitung ------------------------------
(***************************************************************************)
(* The rotating acceptor of transfers: election, leases, handover and      *)
(* restart of src/x/humanity/keeper/leitung.go, with the transport and the *)
(* persistence of leitung_netz.go, for a fixed set of validators (the      *)
(* "Satz").  Changes of the Satz are not part of this module; the stamp    *)
(* (SatzTerm) that every new leader puts on it is.                         *)
(*                                                                         *)
(* k[n] is the Leitung object of validator n.  Each operator named after a *)
(* Go method maps the object before the call to the object after it.       *)
(* Whether a node is leiterfaehig, has the block of a handover, has        *)
(* drained its accepted transfers, or has led for WechselAlle is left open *)
(* (any answer at any time).                                               *)
(***************************************************************************)
EXTENDS Integers, FiniteSets

CONSTANTS
  Validator,    \* the members of the Satz
  StartLeiter,  \* the configured leader of term 1
  Niemand,      \* the empty address ""
  Leiterfaehig, \* the members that may become leader (Leistungsnachweis or Notbetrieb)
  Abgebende,    \* the members that may hand the leadership over (WechselAlle, abgeben)
  LeaseDauer,   \* how long an acknowledged lease lets its leader accept
  FolgerFrist,  \* how long a follower keeps silent after a lease
  Zeitfenster,  \* leitungZeitfenster: older messages are dropped
  Neustartende, \* bound: the members whose process may stop and start again
  MaxTerm,      \* bound: no node raises its term beyond it
  MaxZeit       \* bound: the clock stops here

ASSUME SatzAnnahme ==
  /\ IsFiniteSet(Validator) /\ StartLeiter \in Validator /\ Niemand \notin Validator
  /\ Neustartende \subseteq Validator /\ Leiterfaehig \subseteq Validator
  /\ Abgebende \subseteq Validator

ASSUME FristenAnnahme ==
  /\ LeaseDauer \in Nat \ {0} /\ FolgerFrist \in Nat /\ Zeitfenster \in Nat
  /\ MaxTerm \in Nat \ {0} /\ MaxZeit \in Nat \ {0}
  /\ LeaseDauer <= FolgerFrist

VARIABLES
  jetzt,     \* the time all nodes read
  k,         \* the Leitung object of each node
  netz,      \* every message ever sent: it may be lost, late, reordered, repeated
  voreilig   \* history: some follower stood for election under a fresh lease, or let
             \* go of one because an answer told it of a higher term

vars == <<jetzt, k, netz, voreilig>>

Mehrheit == Cardinality(Validator) \div 2 + 1
MitWahl  == Cardinality(Validator) >= 3

(***************************************************************************)
(* Messages.  "an" is Niemand for a broadcast.  "satz" is the stamp        *)
(* SatzTerm, "ja" is Gewaehrt.  The answers nobody acts on (a refused      *)
(* pre-vote, a refusal that carries no higher term) are not sent.  The     *)
(* messages of an election are not dated: that the window drops some of    *)
(* them is one more way to lose them.  Answers carry no stamp.             *)
(***************************************************************************)
Nachricht ==
  [art  : {"lease", "ack", "vorbitte", "vorstimme", "bitte", "stimme", "uebergabe"},
   von  : Validator, an : Validator \cup {Niemand},
   term : Nat, zeit : Nat, satz : Nat, ja : BOOLEAN]

Rundruf(n, art, term) ==
  [art |-> art, von |-> n, an |-> Niemand, term |-> term, zeit |-> 0,
   satz |-> k[n].satzTerm, ja |-> TRUE]

Antwort(n, art, an, term, ja) ==
  [art |-> art, von |-> n, an |-> an, term |-> term, zeit |-> 0, satz |-> 0, ja |-> ja]

\* Mutant: a lease stamped with the moment its validity began.
LeaseVordatiert(n, term, satz) ==
  [art |-> "lease", von |-> n, an |-> Niemand, term |-> term, zeit |-> jetzt - LeaseDauer - 1,
   satz |-> satz, ja |-> TRUE]

Lease(n, term, satz) ==
  [art |-> "lease", von |-> n, an |-> Niemand, term |-> term, zeit |-> jetzt,
   satz |-> satz, ja |-> TRUE]

Zustellbar(n, m) ==
  /\ m.von # n
  /\ m.an \in {n, Niemand}
  /\ m.zeit # 0 => jetzt - m.zeit <= Zeitfenster

(***************************************************************************)
(* The Leitung object.                                                     *)
(***************************************************************************)
KeineAcks == [v \in Validator |-> 0]

Knoten ==
  [term : Nat, stimme : Validator \cup {Niemand}, leiter : Validator \cup {Niemand},
   rolle : {"folger", "kandidat", "leiter"}, letzteLease : Nat,
   acks : [Validator -> Nat], stimmen : SUBSET Validator,
   vorStimmen : SUBSET Validator, seit : Nat,
   uebergabeAn : Validator \cup {Niemand}, wartet : Nat,
   satzTerm : Nat, frischZwei : BOOLEAN]

LeaseFrisch(z) ==
  z.rolle = "folger" /\ z.leiter # Niemand /\ jetzt - z.letzteLease < FolgerFrist

AckFrisch(z, v) == z.acks[v] # 0 /\ jetzt - z.acks[v] < LeaseDauer

\* DarfAnnehmen: does n accept transfers now?  With two validators the flag
\* "fest" is always set on a leader as long as the Satz does not change.
NimmtAn(n) ==
  LET z == k[n] IN
  /\ z.rolle = "leiter" /\ z.uebergabeAn = Niemand /\ ~z.frischZwei
  /\ MitWahl => 1 + Cardinality({v \in Validator : AckFrisch(z, v)}) >= Mehrheit

WerdeFolger(z, t, l) ==
  [z EXCEPT !.term = t,
            !.stimme = IF t > z.term THEN Niemand ELSE @,
            !.rolle = "folger", !.leiter = l, !.letzteLease = jetzt,
            !.uebergabeAn = Niemand, !.acks = KeineAcks, !.stimmen = {}]

WerdeLeiter(n, z) ==
  [z EXCEPT !.rolle = "leiter", !.leiter = n, !.acks = KeineAcks,
            !.stimmen = {}, !.uebergabeAn = Niemand, !.wartet = 0,
            !.satzTerm = z.term]

\* Mutant: a restarted node forgets that it may just have granted a lease.
FristOhneStart == 0

\* letzteLease after a start: whatever was granted before may still count.
FristAbStart == jetzt

\* NeueLeitung with nothing saved, or with what speichern saved last.  All
\* that outlives the process is term, stimme, leiter and the Satz.
NeueLeitung(n, t, s, l, st, leer) ==
  LET leitet == l = n IN
  [term |-> t, stimme |-> s, leiter |-> l,
   rolle |-> IF leitet THEN "leiter" ELSE "folger",
   letzteLease |-> FristAbStart, acks |-> KeineAcks, stimmen |-> {}, vorStimmen |-> {},
   seit |-> 0, uebergabeAn |-> Niemand, wartet |-> 0,
   satzTerm |-> IF leitet THEN t ELSE st,
   frischZwei |-> leer /\ Cardinality(Validator) = 2]

Init ==
  /\ jetzt = 1
  /\ k = [n \in Validator |-> NeueLeitung(n, 1, Niemand, StartLeiter, 0, TRUE)]
  /\ netz = {}
  /\ voreilig = FALSE

(***************************************************************************)
(* Steps of Takt.  What Takt does in one call beyond one of these steps is *)
(* sending further messages, which the network may lose anyway.            *)
(***************************************************************************)
Tick ==
  /\ jetzt < MaxZeit
  /\ jetzt' = jetzt + 1
  /\ UNCHANGED <<k, netz, voreilig>>

Setze(n, z) == k' = [k EXCEPT ![n] = z]

LeaseSenden(n) ==
  /\ k[n].rolle = "leiter"
  /\ netz' = netz \cup {Lease(n, k[n].term, k[n].satzTerm)}
  /\ UNCHANGED <<jetzt, k, voreilig>>

UebergabeBeginnen(n, naechster) ==
  /\ n \in Abgebende
  /\ k[n].rolle = "leiter" /\ k[n].uebergabeAn = Niemand /\ naechster # n
  /\ MitWahl => AckFrisch(k[n], naechster)
  /\ Setze(n, [k[n] EXCEPT !.uebergabeAn = naechster])
  /\ UNCHANGED <<jetzt, netz, voreilig>>

\* Mutant: the leader that handed over stays the leader on record.
NachUebergabeSelbst(n, z) ==
  [z EXCEPT !.rolle = "folger", !.uebergabeAn = Niemand, !.term = @ + 1,
            !.stimme = z.uebergabeAn, !.leiter = n, !.letzteLease = jetzt,
            !.acks = KeineAcks]

NachUebergabe(n, z) ==
  [z EXCEPT !.rolle = "folger", !.uebergabeAn = Niemand, !.term = @ + 1,
            !.stimme = z.uebergabeAn, !.leiter = z.uebergabeAn, !.letzteLease = jetzt,
            !.acks = KeineAcks]

\* The message keeps the old term, the sender moves on to the next one.
\* offeneUebergabe is sent again with every Takt, unchanged down to its
\* time: the copies are the message that netz already holds.
UebergabeSenden(n) ==
  LET z == k[n] IN
  /\ z.rolle = "leiter" /\ z.uebergabeAn # Niemand /\ z.term < MaxTerm
  /\ netz' = netz \cup {[Lease(n, z.term, z.satzTerm) EXCEPT !.art = "uebergabe",
                                                           !.an = z.uebergabeAn]}
  /\ Setze(n, NachUebergabe(n, z))
  /\ UNCHANGED <<jetzt, voreilig>>

Uebernehmen(n) ==
  LET z == [k[n] EXCEPT !.term = @ + 1, !.stimme = n]
      neu == WerdeLeiter(n, z) IN
  /\ k[n].wartet = k[n].term /\ k[n].term < MaxTerm
  /\ Setze(n, neu)
  /\ netz' = netz \cup {Lease(n, neu.term, neu.satzTerm)}
  /\ UNCHANGED <<jetzt, voreilig>>

\* The rank of n only delays its turn further: left open.
Vorwahl(n) ==
  LET z == k[n] IN
  /\ MitWahl /\ n \in Leiterfaehig /\ z.rolle = "folger" /\ z.term < MaxTerm
  /\ Cardinality(z.vorStimmen) < Mehrheit
  /\ jetzt - z.letzteLease >= FolgerFrist
  /\ z.vorStimmen = {} \/ jetzt - z.seit >= FolgerFrist
  /\ Setze(n, [z EXCEPT !.vorStimmen = {n}, !.seit = jetzt])
  /\ netz' = netz \cup {Rundruf(n, "vorbitte", z.term + 1)}
  /\ UNCHANGED <<jetzt, voreilig>>

\* Takt does not look at letzteLease again: a lease may have arrived since
\* the pre-votes were gathered.
Kandidieren(n) ==
  LET z == k[n] IN
  /\ MitWahl /\ n \in Leiterfaehig /\ z.rolle = "folger" /\ z.term < MaxTerm
  /\ Cardinality(z.vorStimmen) >= Mehrheit
  /\ Setze(n, [z EXCEPT !.vorStimmen = {}, !.term = @ + 1, !.rolle = "kandidat",
                        !.stimme = n, !.leiter = Niemand, !.seit = jetzt,
                        !.stimmen = {n}])
  /\ netz' = netz \cup {Rundruf(n, "bitte", z.term + 1)}
  /\ voreilig' = (voreilig \/ LeaseFrisch(z))
  /\ UNCHANGED jetzt

KandidatGibtAuf(n) ==
  /\ k[n].rolle = "kandidat" /\ jetzt - k[n].seit >= FolgerFrist
  /\ Setze(n, [k[n] EXCEPT !.rolle = "folger", !.vorStimmen = {}, !.stimmen = {},
                           !.letzteLease = jetzt])
  /\ UNCHANGED <<jetzt, netz, voreilig>>

(***************************************************************************)
(* Handlers of Empfange.                                                   *)
(***************************************************************************)
\* A leader of two that never saved anything waits until the other one is
\* known not to be ahead.
Gehoert(z, m) ==
  [z EXCEPT !.frischZwei = @ /\ m.term > z.term]

LeaseAblehnen(z, m) ==
  \/ m.term < z.term
  \/ m.term = z.term /\ (z.rolle = "leiter" \/ z.leiter \notin {Niemand, m.von})

EmpfangeLease(n, m) ==
  LET z == Gehoert(k[n], m)
      ablehnen == LeaseAblehnen(z, m)
      folgt == IF m.term > z.term \/ z.leiter = Niemand \/ z.rolle # "folger"
               THEN WerdeFolger(z, m.term, m.von) ELSE z
      neu == IF ablehnen THEN z
             ELSE [folgt EXCEPT !.letzteLease = jetzt, !.leiter = m.von, !.satzTerm = m.satz]
  IN
  /\ m.art = "lease" /\ Zustellbar(n, m)
  /\ Setze(n, neu)
  /\ netz' = netz \cup {[Antwort(n, "ack", m.von, neu.term, ~ablehnen) EXCEPT !.zeit = m.zeit]}
  /\ UNCHANGED <<jetzt, voreilig>>

\* The refusal of a lease that n sent while it still led may come when n
\* follows somebody else: the higher term makes it forget that lease.
EmpfangeAck(n, m) ==
  LET z == Gehoert(k[n], m) IN
  /\ m.art = "ack" /\ Zustellbar(n, m)
  /\ Setze(n, IF z.rolle = "leiter" /\ m.term = z.term /\ m.ja
              THEN [z EXCEPT !.acks[m.von] = IF m.zeit > @ THEN m.zeit ELSE @]
              ELSE IF m.term > z.term THEN WerdeFolger(z, m.term, Niemand) ELSE z)
  /\ voreilig' = (voreilig \/ (m.term > z.term /\ LeaseFrisch(z)))
  /\ UNCHANGED <<jetzt, netz>>

\* waehlbar, as far as safety depends on it: the stamp.
Waehlbar(z, m) == z.satzTerm <= m.satz

EmpfangeVorbitte(n, m) ==
  LET z == k[n] IN
  /\ m.art = "vorbitte" /\ Zustellbar(n, m)
  /\ m.term > z.term /\ ~NimmtAn(n) /\ ~LeaseFrisch(z) /\ Waehlbar(z, m)
  /\ netz' = netz \cup {Antwort(n, "vorstimme", m.von, m.term, TRUE)}
  /\ UNCHANGED <<jetzt, k, voreilig>>

EmpfangeVorstimme(n, m) ==
  LET z == Gehoert(k[n], m) IN
  /\ m.art = "vorstimme" /\ Zustellbar(n, m)
  /\ z.rolle = "folger" /\ z.vorStimmen # {} /\ m.term = z.term + 1
  /\ Setze(n, [z EXCEPT !.vorStimmen = @ \cup {m.von}])
  /\ UNCHANGED <<jetzt, netz, voreilig>>

\* A voter that grants saves its vote before it answers; one whose term is
\* higher answers with that term.
EmpfangeBitte(n, m) ==
  LET z == k[n]
      neu == IF m.term > z.term
             THEN [z EXCEPT !.term = m.term, !.stimme = Niemand, !.rolle = "folger",
                            !.leiter = Niemand]
             ELSE z
  IN
  /\ m.art = "bitte" /\ Zustellbar(n, m)
  /\ \/ /\ m.term < z.term
        /\ netz' = netz \cup {Antwort(n, "stimme", m.von, z.term, FALSE)}
        /\ UNCHANGED k
     \/ /\ m.term >= z.term /\ z.rolle # "leiter" /\ ~LeaseFrisch(z) /\ Waehlbar(z, m)
        /\ neu.stimme \in {Niemand, m.von}
        /\ Setze(n, [neu EXCEPT !.stimme = m.von, !.letzteLease = jetzt])
        /\ netz' = netz \cup {Antwort(n, "stimme", m.von, m.term, TRUE)}
  /\ UNCHANGED <<jetzt, voreilig>>

EmpfangeStimme(n, m) ==
  LET z == k[n]
      mehr == [z EXCEPT !.stimmen = @ \cup {m.von}]
  IN
  /\ m.art = "stimme" /\ Zustellbar(n, m)
  /\ \/ /\ m.term > z.term
        /\ Setze(n, WerdeFolger(z, m.term, Niemand))
        /\ voreilig' = (voreilig \/ LeaseFrisch(z))
     \/ /\ z.rolle = "kandidat" /\ m.term = z.term /\ m.ja
        /\ Setze(n, IF Cardinality(mehr.stimmen) >= Mehrheit
                    THEN WerdeLeiter(n, mehr) ELSE mehr)
        /\ UNCHANGED voreilig
  /\ UNCHANGED <<jetzt, netz>>

\* SatzHash: same members, so the stamps decide.
EmpfangeUebergabe(n, m) ==
  LET z == Gehoert(k[n], m) IN
  /\ m.art = "uebergabe" /\ Zustellbar(n, m)
  /\ Setze(n, IF m.term = z.term /\ m.von = z.leiter /\ m.satz = z.satzTerm
              THEN [z EXCEPT !.wartet = m.term] ELSE z)
  /\ UNCHANGED <<jetzt, netz, voreilig>>

(***************************************************************************)
(* The process stops and starts again.  A node that never called speichern *)
(* (term 1: the start leader, or a follower before its first lease) starts *)
(* as a new one.                                                           *)
(***************************************************************************)
NieGespeichert(n) == k[n].term = 1 /\ (n = StartLeiter \/ k[n].satzTerm = 0)

\* Mutant: the vote is not among what outlives the process.
NeustartOhneStimme(n) ==
  LET z == k[n] IN
  /\ Setze(n, NeueLeitung(n, z.term, Niemand, z.leiter, z.satzTerm, NieGespeichert(n)))
  /\ UNCHANGED <<jetzt, netz, voreilig>>

Neustart(n) ==
  LET z == k[n] IN
  /\ Setze(n, NeueLeitung(n, z.term, z.stimme, z.leiter, z.satzTerm, NieGespeichert(n)))
  /\ UNCHANGED <<jetzt, netz, voreilig>>

Takt(n) ==
  \/ LeaseSenden(n) \/ UebergabeSenden(n) \/ Uebernehmen(n)
  \/ \E naechster \in Leiterfaehig : UebergabeBeginnen(n, naechster)
  \/ Vorwahl(n) \/ Kandidieren(n) \/ KandidatGibtAuf(n)

Empfange(n, m) ==
  \/ EmpfangeLease(n, m) \/ EmpfangeAck(n, m)
  \/ EmpfangeVorbitte(n, m) \/ EmpfangeVorstimme(n, m)
  \/ EmpfangeBitte(n, m) \/ EmpfangeStimme(n, m) \/ EmpfangeUebergabe(n, m)

Next ==
  \/ Tick
  \/ \E n \in Validator : Takt(n)
  \/ \E n \in Neustartende : Neustart(n)
  \/ \E n \in Validator, m \in netz : Empfange(n, m)

Spec == Init /\ [][Next]_vars

(***************************************************************************)
(* Properties.                                                             *)
(***************************************************************************)
\* The type of the state.
TypeOK ==
  /\ jetzt \in Nat /\ k \in [Validator -> Knoten]
  /\ netz \subseteq Nachricht /\ voreilig \in BOOLEAN

\* In one term at most one validator accepts transfers, even where two of
\* them lead that term (a handover and an election may both fill it): a
\* follower acknowledges the leases of one leader per term only.
EinAnnehmenderProTerm ==
  \A a, b \in Validator :
    NimmtAn(a) /\ NimmtAn(b) /\ k[a].term = k[b].term => a = b

\* leitung_sim_test.go: two nodes NEVER accept transfers at the same time.
NieZweiAnnehmende ==
  \A a, b \in Validator : NimmtAn(a) /\ NimmtAn(b) => a = b

\* The same, as long as every follower kept the promise its acknowledgement
\* makes: that it takes part in no election while its lease is fresh.
OhneVoreiligeEinAnnehmender == ~voreilig => NieZweiAnnehmende

\* Terms never fall back, and within a term neither the vote a node has given
\* nor the leader it follows is ever exchanged for another, restarts included.
TermBindet ==
  [][\A n \in Validator :
       \/ k'[n].term > k[n].term
       \/ /\ k'[n].term = k[n].term
          /\ k[n].stimme # Niemand => k'[n].stimme = k[n].stimme
          /\ k[n].leiter # Niemand => k'[n].leiter = k[n].leiter]_vars

=============================================================================
