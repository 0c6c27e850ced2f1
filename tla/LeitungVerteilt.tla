--------------------------- MODULE LeitungVerteilt ---------------------------
(***************************************************************************)
(* Distributed acceptance ("Stufe 2"): every member of the Satz accepts    *)
(* transfers of its own accounts, src/x/humanity/keeper/leitung_verteilt.go*)
(* and zustaendigkeit.go on top of the leases and handovers of leitung.go. *)
(*                                                                         *)
(* An election is one step here (Wahl): its messages, and what can go      *)
(* wrong between them, are the subject of module Leitung.  Time is kept as *)
(* ages ("how long ago"), which stop growing where nobody can tell them    *)
(* apart.  Whether a node has the final blocks of its predecessors         *)
(* (HatBlock) and when a leader hands over is left open.                   *)
(***************************************************************************)
EXTENDS Integers, FiniteSets

CONSTANTS
  Validator,    \* the Satz, at least three members; all of them get accounts
  Zuteilung,    \* the sorted Satz: the ring over which accounts are spread
  StartLeiter,  \* the configured leader of term 1
  Niemand,      \* the empty address ""
  LeaseDauer, FolgerFrist, Ruhezeit,  \* LeitKonfig
  Verzug,       \* the longest a lease is under way: leitungKlient's timeout
  Abgebende,    \* bound: the members that hand the leadership over
  Annehmende,   \* bound: the members that do accept a transfer, where they may
  Gestoerte,    \* bound: the members whose processes stop
  Spaete,       \* bound: the members that get leases late
  Trennungen,   \* bound: how the links can be cut
  Stoerungen,   \* bound: links cut or restored, leases delayed, processes stopped, together
  MaxTerm       \* bound: no node raises its term beyond it

ASSUME VerteiltAnnahme ==
  /\ IsFiniteSet(Validator) /\ Cardinality(Validator) >= 3
  /\ Zuteilung \in [1 .. Cardinality(Validator) -> Validator]
  /\ \A v \in Validator : \E i \in 1 .. Cardinality(Validator) : Zuteilung[i] = v
  /\ StartLeiter \in Validator /\ Niemand \notin Validator /\ Abgebende \subseteq Validator
  /\ Trennungen \subseteq [getrennt : SUBSET Validator, hoert : BOOLEAN]
  /\ Annehmende \cup Gestoerte \cup Spaete \subseteq Validator
  /\ {LeaseDauer, FolgerFrist, Ruhezeit, Verzug, Stoerungen} \subseteq Nat
  /\ MaxTerm \in Nat \ {0}

VARIABLES
  k,          \* the Leitung object of each node
  vt,         \* its verteiltStand
  offen,      \* the terms in which it accepted what is in no block yet
  verwirft,   \* leitungUeberholt is started and has not discarded yet
  netz,       \* the delayed leases
  leitungen,  \* the links: who is cut off, and whether they still hear
  uebergaben, \* the handovers sent: repeated with every Takt
  stoerungen, \* how many faults there were so far
  abgestuerzt \* history: the members whose process has stopped

vars == <<k, vt, offen, verwirft, netz, leitungen, uebergaben, stoerungen, abgestuerzt>>

N == Cardinality(Validator)
Mehrheit == N \div 2 + 1
Halbe == LeaseDauer \div 2
Minimum(S) == CHOOSE x \in S : \A y \in S : x <= y
Aelter(t, grenze) == IF t < grenze THEN t + 1 ELSE grenze

(***************************************************************************)
(* The objects.  acks[v] is the age of the newest lease v has acknowledged *)
(* and LeaseDauer stands for older and for none.  A set of members stands  *)
(* for the final blocks a handover lists (Abschluesse); {} is no handover. *)
(***************************************************************************)
Knoten ==
  [rolle : {"folger", "leiter", "aus"}, term : 1 .. MaxTerm,
   leiter : Validator \cup {Niemand}, letzteLease : 0 .. FolgerFrist,
   leiterSeit : 0 .. LeaseDauer, acks : [Validator -> 0 .. LeaseDauer],
   uebergabeAn : Validator \cup {Niemand}, beleg : SUBSET Validator]

\* termSeit: Ruhezeit also stands for a term that began with a handover
\* (geordnet).  ueberholtGemeldet: ueberholtFuer = term.  The keys of
\* ausgefallen are the members counted out in this term.
Stand ==
  [term : 0 .. MaxTerm,
   ausgefallen : UNION {[S -> 0 .. LeaseDauer + Ruhezeit] : S \in SUBSET Validator},
   termSeit : 0 .. Ruhezeit, letzteBestaetigt : 0 .. Halbe,
   abschlussGesehen : BOOLEAN, hatAngenommen : BOOLEAN, ueberholtGemeldet : BOOLEAN,
   abschliessenSeit : 0 .. LeaseDauer, abschlussVon : SUBSET Validator]

Lease ==
  [von : Validator, an : Validator, term : 1 .. MaxTerm, alter : 0 .. Verzug,
   bestaetigt : BOOLEAN, abschluss : BOOLEAN, ausgefallen : SUBSET Validator,
   uebergabe : SUBSET Validator,
   antwortbar : BOOLEAN]   \* the process that sent it still waits for the answer

Uebergabe == [von : Validator, an : Validator, term : 1 .. MaxTerm, abschluesse : SUBSET Validator]

KeineAcks == [v \in Validator |-> LeaseDauer]

Frisch(t, aus, beleg) ==
  [term |-> t, ausgefallen |-> [a \in aus |-> 0], termSeit |-> IF beleg = {} THEN 0 ELSE Ruhezeit,
   letzteBestaetigt |-> Halbe, abschlussGesehen |-> FALSE, hatAngenommen |-> FALSE,
   ueberholtGemeldet |-> FALSE, abschliessenSeit |-> LeaseDauer, abschlussVon |-> {}]

Ausgefallen(v) == DOMAIN v.ausgefallen

(***************************************************************************)
(* Who accepts for an account.  An account is the ring position it has in  *)
(* each term (zuteilungsIndex hashes both), or one of the global accounts. *)
(***************************************************************************)
Global == <<>>
Konto == [1 .. MaxTerm -> 1 .. N] \cup {Global}

ImRing(i, j) == Zuteilung[((i - 1 + j) % N) + 1]

VerteiltImTerm(n) == vt[n].term = k[n].term

DarfAnnehmen(z) ==
  /\ z.rolle = "leiter" /\ z.uebergabeAn = Niemand
  /\ 1 + Cardinality({v \in Validator : z.acks[v] < LeaseDauer}) >= Mehrheit

\* zustaendigFuer: from the position on, the first member not counted out.
Zustaendig(n, konto) ==
  IF konto = Global THEN k[n].leiter
  ELSE LET lebend == {j \in 0 .. N - 1 : ImRing(konto[k[n].term], j) \notin Ausgefallen(vt[n])} IN
       IF lebend = {} THEN Niemand ELSE ImRing(konto[k[n].term], Minimum(lebend))

Bereit(n) == vt[n].termSeit >= Ruhezeit

\* Mutant: the next in the ring waits for half a lease only.
UebernahmeNachHalberLease(n, konto) ==
  konto # Global =>
    \A j \in 0 .. N - 1 :
      (\A i \in 0 .. j : ImRing(konto[k[n].term], i) \in Ausgefallen(vt[n]))
      => vt[n].ausgefallen[ImRing(konto[k[n].term], j)] >= Halbe

\* Everybody before the one in charge has been out for LeaseDauer + Ruhezeit.
UebernahmeSicher(n, konto) ==
  konto # Global =>
    \A j \in 0 .. N - 1 :
      (\A i \in 0 .. j : ImRing(konto[k[n].term], i) \in Ausgefallen(vt[n]))
      => vt[n].ausgefallen[ImRing(konto[k[n].term], j)] >= LeaseDauer + Ruhezeit

\* The part that does not depend on the account.
Befugt(n) ==
  /\ VerteiltImTerm(n) => Bereit(n)
  /\ \/ DarfAnnehmen(k[n])
     \/ /\ k[n].rolle = "folger" /\ VerteiltImTerm(n) /\ k[n].leiter # Niemand
        /\ ~vt[n].abschlussGesehen /\ vt[n].letzteBestaetigt < Halbe
        /\ n \notin Ausgefallen(vt[n])

NimmtAn(n, konto) ==
  Befugt(n) /\ (VerteiltImTerm(n) => Zustaendig(n, konto) = n /\ UebernahmeSicher(n, konto))

Verbunden == [getrennt |-> {}, hoert |-> FALSE]

Init ==
  /\ k = [n \in Validator |->
           [rolle |-> IF n = StartLeiter THEN "leiter" ELSE "folger", term |-> 1,
            leiter |-> StartLeiter, letzteLease |-> 0, leiterSeit |-> 0,
            acks |-> KeineAcks, uebergabeAn |-> Niemand, beleg |-> {}]]
  /\ vt = [n \in Validator |-> Frisch(IF n = StartLeiter THEN 1 ELSE 0, {}, {})]
  /\ offen = [n \in Validator |-> {}]
  /\ verwirft = [n \in Validator |-> FALSE]
  /\ netz = {} /\ leitungen = Verbunden /\ uebergaben = {}
  /\ stoerungen = 0 /\ abgestuerzt = {}

An(n) == k[n].rolle # "aus"

Stoerung == stoerungen < Stoerungen /\ stoerungen' = stoerungen + 1

\* What v sends reaches n: those cut off send nothing and may still hear.
Erreicht(v, n) ==
  v \notin leitungen.getrennt /\ (n \in leitungen.getrennt => leitungen.hoert)

(***************************************************************************)
(* Steps to another leader or term.  Each operator maps the state of one   *)
(* node, [k, vt, verwirft], to the state after the call.                   *)
(***************************************************************************)
Lage(n) == [k |-> k[n], vt |-> vt[n], verwirft |-> verwirft[n]]

\* A leader that learns of a higher term has lost it without handing over.
WerdeFolger(s, t, l) ==
  LET verloren == s.k.rolle = "leiter" /\ t > s.k.term IN
  [k |-> [s.k EXCEPT !.rolle = "folger", !.term = t, !.leiter = l, !.letzteLease = 0,
                     !.acks = KeineAcks, !.uebergabeAn = Niemand, !.beleg = {}],
   vt |-> [s.vt EXCEPT !.ueberholtGemeldet = @ \/ verloren],
   verwirft |-> s.verwirft \/ verloren]

\* Mutant: whoever took part in an old term keeps what it accepted there.
NeuerTermOhneUeberholt(n, s, t, beleg) ==
  [s EXCEPT !.vt = Frisch(t, {}, beleg)]

NeuerTermVerteilt(n, s, t, beleg) ==
  [s EXCEPT !.vt = Frisch(t, {}, beleg),
            !.verwirft = @ \/ /\ s.vt.hatAngenommen /\ s.vt.term < t
                              /\ ~s.vt.ueberholtGemeldet /\ n \notin beleg]

WerdeLeiter(n, s, beleg) ==
  NeuerTermVerteilt(n,
    [s EXCEPT !.k = [@ EXCEPT !.rolle = "leiter", !.leiter = n, !.leiterSeit = 0,
                              !.acks = KeineAcks, !.uebergabeAn = Niemand, !.beleg = beleg]],
    s.k.term, beleg)

Setze(n, s) ==
  /\ k' = [k EXCEPT ![n] = s.k]
  /\ vt' = [vt EXCEPT ![n] = s.vt]
  /\ verwirft' = [verwirft EXCEPT ![n] = s.verwirft]

(***************************************************************************)
(* Takt.                                                                   *)
(***************************************************************************)
LeaseVon(n, v) ==
  [von |-> n, an |-> v, term |-> k[n].term, alter |-> 0,
   bestaetigt |-> DarfAnnehmen(k[n]), abschluss |-> k[n].uebergabeAn # Niemand,
   ausgefallen |-> Ausgefallen(vt[n]), uebergabe |-> k[n].beleg, antwortbar |-> TRUE]

LeaseAblehnen(z, m) ==
  \/ m.term < z.term
  \/ m.term = z.term /\ (z.rolle = "leiter" \/ z.leiter \notin {Niemand, m.von})

\* Whom the leader has to count out: no answer for LeaseDauer.
Stumme(n) ==
  IF k[n].rolle = "leiter" /\ VerteiltImTerm(n) /\ k[n].leiterSeit >= LeaseDauer
  THEN {a \in Validator \ ({n} \cup Ausgefallen(vt[n])) : k[n].acks[a] >= LeaseDauer}
  ELSE {}

\* Takt runs many times per unit of time: unless the links are cut, every
\* member has got a lease and its answer is there.
Getaktet(n) ==
  k[n].rolle = "leiter" =>
    /\ Stumme(n) = {}
    /\ \A v \in Validator \ {n} : Erreicht(n, v) /\ An(v) =>
         \/ LeaseAblehnen(k[v], LeaseVon(n, v))
         \/ k[v].letzteLease = 0 /\ (Erreicht(v, n) => k[n].acks[v] = 0)

Tick ==
  /\ \A n \in Validator : Getaktet(n)
  /\ k' = [n \in Validator |->
            [k[n] EXCEPT !.letzteLease = IF k[n].rolle = "folger" THEN Aelter(@, FolgerFrist) ELSE 0,
                         !.leiterSeit = IF k[n].rolle = "leiter" THEN Aelter(@, LeaseDauer) ELSE 0,
                         !.acks = [v \in Validator |-> Aelter(@[v], LeaseDauer)]]]
  /\ vt' = [n \in Validator |->
             [vt[n] EXCEPT !.ausgefallen = [a \in DOMAIN @ |-> Aelter(@[a], LeaseDauer + Ruhezeit)],
                           !.termSeit = Aelter(@, Ruhezeit),
                           !.letzteBestaetigt = Aelter(@, Halbe),
                           !.abschliessenSeit = Aelter(@, LeaseDauer)]]
  /\ netz' = {[m EXCEPT !.alter = @ + 1] : m \in {l \in netz : l.alter < Verzug}}
  /\ UNCHANGED <<offen, verwirft, leitungen, uebergaben, stoerungen, abgestuerzt>>

\* The lease that is delayed; all others are answered at once (Antworten).
LeaseSenden(n, v) ==
  /\ k[n].rolle = "leiter" /\ v \in Spaete \ {n} /\ Erreicht(n, v) /\ Stoerung
  /\ netz' = netz \cup {LeaseVon(n, v)}
  /\ UNCHANGED <<k, vt, offen, verwirft, leitungen, uebergaben, abgestuerzt>>

\* The links are cut or restored.
Trennung(l) ==
  /\ l # leitungen /\ Stoerung
  /\ leitungen' = l
  /\ UNCHANGED <<k, vt, offen, verwirft, netz, uebergaben, abgestuerzt>>

AusfaelleErkennen(n) ==
  /\ Stumme(n) # {}
  /\ vt' = [vt EXCEPT ![n].ausgefallen =
              [a \in DOMAIN @ \cup Stumme(n) |-> IF a \in Stumme(n) THEN 0 ELSE @[a]]]
  /\ UNCHANGED <<k, offen, verwirft, netz, leitungen, uebergaben, stoerungen, abgestuerzt>>

AbschlussBeginnt(n, naechster) ==
  /\ n \in Abgebende /\ naechster # n
  /\ k[n].rolle = "leiter" /\ k[n].uebergabeAn = Niemand /\ k[n].acks[naechster] < LeaseDauer
  /\ k' = [k EXCEPT ![n].uebergabeAn = naechster]
  /\ vt' = [vt EXCEPT ![n].abschliessenSeit = 0, ![n].abschlussVon = {}]
  /\ UNCHANGED <<offen, verwirft, netz, leitungen, uebergaben, stoerungen, abgestuerzt>>

AbschlussFertig(n) ==
  \/ ~VerteiltImTerm(n)
  \/ vt[n].abschliessenSeit >= LeaseDauer
  \/ Validator \ {n} \subseteq vt[n].abschlussVon

Entleert(n) == offen[n] = {}

Uebergeben(n) ==
  LET z == k[n] IN
  /\ z.rolle = "leiter" /\ z.uebergabeAn # Niemand /\ z.term < MaxTerm
  /\ Entleert(n) /\ AbschlussFertig(n)
  /\ uebergaben' = uebergaben \cup {[von |-> n, an |-> z.uebergabeAn, term |-> z.term,
                                     abschluesse |-> vt[n].abschlussVon \cup {n}]}
  /\ k' = [k EXCEPT ![n] = [z EXCEPT !.rolle = "folger", !.term = @ + 1, !.leiter = z.uebergabeAn,
                                     !.letzteLease = 0, !.acks = KeineAcks, !.uebergabeAn = Niemand]]
  /\ vt' = [vt EXCEPT ![n].ueberholtGemeldet = TRUE]
  /\ UNCHANGED <<offen, verwirft, netz, leitungen, stoerungen, abgestuerzt>>

\* Empfange, leitArtUebergabe: only from the leader of the running term.
GueltigeUebergabe(n, u) == u.an = n /\ u.term = k[n].term /\ u.von = k[n].leiter

\* The handover arrives, and Takt takes over once its block is there.
Uebernehmen(n) ==
  /\ An(n) /\ k[n].term < MaxTerm
  /\ \E u \in uebergaben :
       /\ GueltigeUebergabe(n, u) /\ Erreicht(u.von, n)
       /\ Setze(n, WerdeLeiter(n, [Lage(n) EXCEPT !.k.term = @ + 1], u.abschluesse))
  /\ UNCHANGED <<offen, netz, leitungen, uebergaben, stoerungen, abgestuerzt>>

\* A majority that has heard of no leader for FolgerFrist elects n.
Mehrheiten == {w \in SUBSET Validator : Cardinality(w) = Mehrheit}

Wahl(n, waehler) ==
  LET neu == k[n].term + 1
      stimmt(v) == [k[v] EXCEPT !.term = neu, !.leiter = Niemand, !.letzteLease = 0]
      s == WerdeLeiter(n, [Lage(n) EXCEPT !.k = stimmt(n)], {})
  IN
  /\ n \in waehler /\ Cardinality(waehler) = Mehrheit /\ neu <= MaxTerm
  /\ k[n].letzteLease >= FolgerFrist
  /\ \A v \in waehler :
       /\ v # n => Erreicht(n, v) /\ Erreicht(v, n)
       /\ k[v].rolle = "folger" /\ k[v].term < neu
       /\ k[v].leiter = Niemand \/ k[v].letzteLease >= FolgerFrist
  /\ k' = [v \in Validator |-> IF v = n THEN s.k ELSE IF v \in waehler THEN stimmt(v) ELSE k[v]]
  /\ vt' = [vt EXCEPT ![n] = s.vt]
  /\ verwirft' = [verwirft EXCEPT ![n] = s.verwirft]
  /\ UNCHANGED <<offen, netz, leitungen, uebergaben, stoerungen, abgestuerzt>>

(***************************************************************************)
(* A lease arrives at n.  The answer is that of the same request: it       *)
(* reaches the leader if the links let it through.                         *)
(***************************************************************************)
FolgerLeaseVerteilt(n, s, m) ==
  LET r == IF s.vt.term = m.term THEN s ELSE NeuerTermVerteilt(n, s, m.term, m.uebergabe) IN
  [r EXCEPT !.vt.ausgefallen =
              [a \in DOMAIN @ \cup m.ausgefallen |-> IF a \in DOMAIN @ THEN @[a] ELSE 0],
            !.vt.abschlussGesehen = @ \/ m.abschluss,
            !.vt.letzteBestaetigt = IF m.bestaetigt THEN 0 ELSE @]

NachLease(n, m) ==
  LET s == Lage(n)
      folgt == IF m.term > s.k.term \/ s.k.leiter = Niemand THEN WerdeFolger(s, m.term, m.von) ELSE s
  IN
  IF LeaseAblehnen(s.k, m) THEN s
  ELSE FolgerLeaseVerteilt(n, [folgt EXCEPT !.k.letzteLease = 0], m)

\* Mutant: any member that has seen the end counts as drained.
QuittungUngeprueft(n, s) == s.vt.abschlussGesehen

QuittungEntleert(n, s) == s.vt.abschlussGesehen /\ Entleert(n)

\* The leader l gets the answer of n, whose state is now s.
NachQuittung(l, n, s, m) ==
  LET r == Lage(l) IN
  IF LeaseAblehnen(k[n], m)
  THEN IF s.k.term > r.k.term THEN WerdeFolger(r, s.k.term, Niemand) ELSE r
  ELSE IF r.k.rolle = "leiter" /\ r.k.term = m.term
  THEN [r EXCEPT !.k.acks[n] = IF m.alter < @ THEN m.alter ELSE @,
                 !.vt.abschlussVon =
                    IF r.k.uebergabeAn # Niemand /\ QuittungEntleert(n, s) THEN @ \cup {n} ELSE @]
  ELSE r

Antworten(m) ==
  LET n == m.an
      l == m.von
      s == NachLease(n, m)
      kommtAn == An(l) /\ m.antwortbar /\ Erreicht(n, l)
      r == IF kommtAn THEN NachQuittung(l, n, s, m) ELSE Lage(l)
  IN
  /\ An(n)
  /\ k' = [k EXCEPT ![n] = s.k, ![l] = r.k]
  /\ vt' = [vt EXCEPT ![n] = s.vt, ![l] = r.vt]
  /\ verwirft' = [verwirft EXCEPT ![n] = s.verwirft, ![l] = r.verwirft]
  /\ UNCHANGED <<offen, leitungen, uebergaben, stoerungen, abgestuerzt>>

\* A lease that arrives at once.
Austausch(n, v) ==
  /\ k[n].rolle = "leiter" /\ v # n /\ Erreicht(n, v)
  /\ Antworten(LeaseVon(n, v))
  /\ UNCHANGED netz

EmpfangeLease(m) ==
  /\ Antworten(m)
  /\ netz' = netz \ {m}

(***************************************************************************)
(* Transfers.                                                              *)
(***************************************************************************)
\* Bound: not in the last term, which no other follows.
Annehmen(n) ==
  /\ n \in Annehmende /\ k[n].term < MaxTerm /\ \E konto \in Konto : NimmtAn(n, konto)
  /\ offen' = [offen EXCEPT ![n] = @ \cup {k[n].term}]
  /\ vt' = [vt EXCEPT ![n].hatAngenommen = @ \/ VerteiltImTerm(n)]
  /\ UNCHANGED <<k, verwirft, netz, leitungen, uebergaben, stoerungen, abgestuerzt>>

\* All that is open goes into the next own block.
BlockBauen(n) ==
  /\ An(n) /\ offen[n] # {}
  /\ offen' = [offen EXCEPT ![n] = {}]
  /\ UNCHANGED <<k, vt, verwirft, netz, leitungen, uebergaben, stoerungen, abgestuerzt>>

\* leitungUeberholt, a goroutine of its own.
Verwerfen(n) ==
  /\ An(n) /\ verwirft[n]
  /\ verwirft' = [verwirft EXCEPT ![n] = FALSE]
  /\ offen' = [offen EXCEPT ![n] = {}]
  /\ UNCHANGED <<k, vt, netz, leitungen, uebergaben, stoerungen, abgestuerzt>>

(***************************************************************************)
(* The process stops and starts again.  Term and leader outlive it, of a   *)
(* leader also whom it counted out; accepted transfers are in the log.     *)
(***************************************************************************)
Gespeichert(n) ==
  IF k[n].leiter = n THEN Frisch(k[n].term, Ausgefallen(vt[n]), {}) ELSE Frisch(0, {}, {})

Absturz(n) ==
  /\ An(n) /\ n \in Gestoerte /\ Stoerung
  /\ k' = [k EXCEPT ![n] = [@ EXCEPT !.rolle = "aus", !.letzteLease = 0, !.acks = KeineAcks,
                                     !.uebergabeAn = Niemand, !.beleg = {}]]
  /\ vt' = [vt EXCEPT ![n] = Gespeichert(n)]
  /\ verwirft' = [verwirft EXCEPT ![n] = FALSE]
  /\ netz' = {[m EXCEPT !.antwortbar = @ /\ m.von # n] : m \in {l \in netz : l.an # n}}
  /\ abgestuerzt' = abgestuerzt \cup {n}
  /\ UNCHANGED <<offen, leitungen, uebergaben>>

\* NeueLeitung with what was saved.
Start(n) ==
  /\ ~An(n)
  /\ k' = [k EXCEPT ![n].rolle = IF k[n].leiter = n THEN "leiter" ELSE "folger",
                    ![n].letzteLease = 0, ![n].leiterSeit = 0]
  /\ vt' = [vt EXCEPT ![n] = Frisch(@.term, Ausgefallen(@), {})]
  /\ UNCHANGED <<offen, verwirft, netz, leitungen, uebergaben, stoerungen, abgestuerzt>>

Next ==
  \/ Tick
  \/ \E n \in Validator :
       \/ \E v \in Validator : LeaseSenden(n, v) \/ Austausch(n, v)
       \/ AusfaelleErkennen(n) \/ Uebergeben(n) \/ Uebernehmen(n)
       \/ \E naechster \in Validator : AbschlussBeginnt(n, naechster)
       \/ \E waehler \in Mehrheiten : Wahl(n, waehler)
       \/ Annehmen(n) \/ BlockBauen(n) \/ Verwerfen(n)
       \/ Absturz(n) \/ Start(n)
  \/ \E m \in netz : EmpfangeLease(m)
  \/ \E l \in Trennungen \cup {Verbunden} : Trennung(l)

Spec == Init /\ [][Next]_vars

(***************************************************************************)
(* Properties.                                                             *)
(***************************************************************************)
\* The type of the state.
TypeOK ==
  /\ k \in [Validator -> Knoten] /\ vt \in [Validator -> Stand]
  /\ offen \in [Validator -> SUBSET (1 .. MaxTerm)] /\ verwirft \in [Validator -> BOOLEAN]
  /\ leitungen \in [getrennt : SUBSET Validator, hoert : BOOLEAN]
  /\ netz \subseteq Lease /\ uebergaben \subseteq Uebergabe
  /\ stoerungen \in 0 .. Stoerungen /\ abgestuerzt \subseteq Validator

\* leitung_verteilt_sim_test.go: for NO account do two nodes accept at the
\* same time, across terms, failures in a term, handovers and restarts.
EinAnnehmenderJeKonto ==
  \A n, m \in {v \in Validator : Befugt(v)} :
    n # m => \A konto \in Konto : ~(NimmtAn(n, konto) /\ NimmtAn(m, konto))

\* Whoever a handover lists has put all it accepted in that term into
\* blocks: those that wait for the listed blocks miss nothing of theirs.
AbschlussHeisstLeer ==
  \A u \in uebergaben : \A n \in u.abschluesse : u.term \notin offen[n]

\* leitung_verteilt.go:30-33: what a member accepted in an old term and did
\* not put into a block is being discarded from the moment the member takes
\* part in a newer one, as long as its process has not stopped in between.
AltesVerfaellt ==
  \A n \in Validator \ abgestuerzt :
    (\E t \in offen[n] : t < vt[n].term) => verwirft[n]

=============================================================================
