# Aequitas in TLA+

Aequitas (`src/`) is a layer-1 chain written in Go ("Proof of Humanity"): registered humans hold accounts, validators
produce blocks of a DAG, and at any moment one validator, the *Leiter*, accepts transfers into its write-ahead log.
This directory holds TLA+ modules of its core, the TLC configurations that check them on small instances, and proofs
checked by TLAPS. Identifiers keep the (mostly German) names of the source.

- §1 inventory, §2 how the parts interact, §3 modules and their correspondence to the code, §4 runs, bounds and
  fairness, §5 what the runs show (findings), §6 proofs, §7 what is not modelled, §8 plan.
- Check a run: `tlc -config MCLeitungNeustart.cfg MCLeitung`. Check the proofs: `tlapm M.tla` for
  each module `M` whose name ends in `Proofs`.

## 1. Inventory of the system

The core is `src/x/humanity/keeper` (about 110 000 lines of Go without the tests). Everything below is in that
directory unless a path is given. `PROJECT.json` lists the same components with their status and, under `hazards`, the
line at which each hard behaviour bites.

| Component | Files | State it keeps | Operations |
|---|---|---|---|
| Leitung (rotating acceptor) | `leitung.go`, `leitung_netz.go` | term, vote, known leader, lease acknowledgements, open handover, the Satz (member set) with stamp and version | Takt (every 200 ms), Empfange (seven kinds of message), restart from `leitung_zustand` |
| Distributed acceptance (Stufe 2) | `leitung_verteilt.go`, `zustaendigkeit.go`, `kappung_verteilt.go` | Zuteilung of a term, ausgefallen, quiet period, closing of members | which member accepts for which account, failure of a member, closing before a handover |
| Annahme-Tor | `annahme_tor.go`, `annahme_pause.go` | running acceptances, pause flags | begin/end of an acceptance, pause, forwarding |
| Accept pipeline | `x/humanity/wal/*`, `transfer_wal.go`, `wal_*.go`, `speicherkorb.go`, `pending_reihenfolge.go`, `nonce_batch*.go` | WAL files, flush queue, Speicherkorb, `pending_txs` rows, nonces | accept, append, flush, put into the basket, take into a block, put back, confirm, recover |
| Vorbehalt | `vorbehalt.go`, `nachrechnen_vorbehalt.go` | reserved amounts per account | reserve, release, settle |
| Block DAG and sync | `block.go`, `sync_blocks.go`, `resync_tor.go`, `dag_ausduennen.go`, `replay_parallel.go` | blocks, tips, replayed set, orphans | produce, receive, replay, resync, thin out |
| Checkpoints | `checkpoint_*.go`, `kegel_vorfahr.go`, `komitee_register.go` | notes of what was signed and proposed, certificates, committee register | propose, sign, gather, certify, bind |
| Finality | `finality.go` | votes, finalised height | vote, finalise, detect divergence |
| Slashing | `slashing.go`, `slash_beweis.go`, `strafe_abrechnung.go` | evidence, penalties | detect, prove, settle |
| Self-healing | `autoheal.go`, `divergenz_waechter.go`, `breaker.go` | heal attempts, divergence counters | detect divergence, rebuild, back off |
| Ledger | `state.go`, `decimal.go`, `sharded_accounts.go`, `swap.go`, `ubi_chunked.go`, `pool_remainder.go`, `wirtschaft*.go` | balances, pools, decay, UBI chunks | transfer, mint, pay out, swap, decay |
| Grants and life proofs | `grant_staffel.go`, `lebensnachweis.go`, `staffel_einspruch.go`, `guardian.go`, `vormund_kette.go` | instalments, objections, guardianships | release, object, prove life, transfer guardianship |
| Identity | `register.go`, `nullifier_canonical.go`, `bio_bescheinigung_*.go`, `verifier_*.go`, `validator_register*.go` | nullifiers, humans, attestations, keys | register, attest, revoke |
| MPC | `x/humanity/mpc/*`, `mpc_*.go` | Beaver triples, sessions | deal, reserve, consume |
| State regions | `x/humanity/bereiche/*`, `snapshot.go` | sparse Merkle tree, region blocks | prove, apply, snapshot |
| Transport and load | `p2p.go`, `admission_control.go`, `peer_lag_bremse.go`, `inflight_grenze.go`, `rueckstau_grenze.go` | peers, windows, counters | gossip, admit, throttle |
| EVM | `evm_*.go`, `contracts/*.sol` | contract storage | execute, meter |
| API, UI, tools | `api*.go`, `cmd/`, `tools/`, `deploy/`, `scripts/`, `docs/` | none of their own | requests, operation |

What is hard in each, and what makes it correct:

- **Leitung.** Up to *N* processes, messages that are lost, late, reordered and repeated, a clock, restarts. Correct:
  at no moment do two nodes accept transfers, because two acceptors spend one balance twice; terms, votes and the
  leader followed outlive a restart; a handover moves the right to accept without a gap in the log.
- **Distributed acceptance.** Several members accept at once, each for its own senders. Correct: no account has two
  acceptors in one term, nor across a change of term (Ruhezeit, Abschluss), nor when a member counts as failed.
- **Annahme-Tor.** An acceptance that passed the gate before a pause or the loss of the leadership ends after it.
  Correct: who waits for the gate sees every acceptance that passed it.
- **Accept pipeline.** Group commit, an asynchronous database, a basket in memory, a builder that may fail at every
  step, compaction, and a crash between any two of them. Correct: nothing accepted is lost, nothing gets into a block
  twice, blocks keep the order of application per account, the node starts again, and what was accepted eventually
  gets into a block.
- **Vorbehalt.** Reserved and spent amounts are changed by acceptance, replay and recomputation. Correct: the sum of
  reservations never exceeds the balance, a reservation is released once.
- **Block DAG and sync.** Blocks arrive in any order, replay runs in parallel, a resync replaces the state underneath
  it. Correct: the state depends on the DAG and not on the order of arrival; a replayed block is never replayed again.
- **Checkpoints.** Members sign independently, lose databases, restart, hear of certificates late. Correct: no member
  signs two blocks of a slot, a slot has one certified block, a node's certificates form a chain.
- **Finality, slashing, self-healing.** Correct: what is final is never reverted by a heal; a proof is settled once
  and never against a member that keeps the rules; healing ends.
- **Ledger, grants.** Fixed-width decimals with rounding, remainders, chunks over many blocks. Correct: the total is
  conserved, no chunk is paid twice, an instalment objected to is not released.
- **Identity, MPC.** Concurrent registration and replay; correlated randomness. Correct: one nullifier, one human; no
  triple is used twice.

## 2. How the parts interact

`leitungSchleife` calls `Takt` every 200 ms and posts the messages it returns; `handleLeitung` passes received ones to
`Empfange` and sends back its answer. A request to transfer passes the Annahme-Tor, which asks `DarfAnnehmen` (and, in
Stufe 2, who is responsible for the account). A fast transfer is appended to the WAL, changes the live balances under
the locks of its shards and goes to the Speicherkorb; every other order runs as one database transaction that also
inserts its row of `pending_txs`, stamped with the number the log gives out next. `ProduceBlock` takes durable entries
from the front of the Korb, mixes them with the open rows, and stores the block, the deletion of the rows and the mark
of the Korb in one transaction. Everything that was not stored goes back. Before a handover the leader waits until all
of that is drained (`leitungEntleert`), names its last block, and the successor takes over once it has replayed that
block. A leader that was superseded instead discards what is in no block (`leitungUeberholt`,
`leitungUnverteiltVerwerfen`) and resyncs. Whoever leads also proposes checkpoints; the members sign over HTTP, and the
certificate is sent to everyone.

## 3. Modules

| Module | Models | Instances, proofs |
|---|---|---|
| `Leitung` | election, leases, handover and restart of `leitung.go` for a fixed Satz | `MCLeitung`, `LeitungProofs` |
| `Ausgangsfolge` | what the outgoing side of a node promises (abstract) | `Speicherkorb` refines it: `MCSpeicherkorb`, `SpeicherkorbProofs` |
| `Speicherkorb` | the way of an accepted order into a stored block | `MCSpeicherkorb`, `SpeicherkorbProofs` |
| `Checkpoint` | signing and certifying checkpoints by a committee | `MCCheckpoint`, `CheckpointProofs` |
| `WalFlush` | from the log into the database: accounts, rows, marks, restart and replay | `MCWalFlush`, `WalFlushProofs`, `WalAusgangProofs` (what reaches the blocks) |
| `BlockNachspiel` | the blocks of peers into the DAG and the accounts | `MCBlockNachspiel`, `BlockNachspielProofs` |
| `Reihen` | sorting a set, picking places of a sequence: helpers of the pipeline's modules | `MengenLemmas` (sets and sequences, for the proofs of both) |
| `LeitungVerteilt` | every member accepts for its own accounts (Stufe 2) | `MCLeitungVerteilt`, `LeitungVerteiltProofs` |

`Sortiert` and `Ausgewaehlt` of `Reihen` are a `CHOOSE` over functions and a function of it: `SetToSortSeq` of the
community modules rests on TLC's `SortSeq`, which has no definition for the prover, and `SelectSeq` takes an operator.

Operators marked `Mutant:` are the wrong variants by which `PROJECT.json` shows that each property can fail; nothing
else uses them.

### 3.1 `Leitung`

`k[n]` is the Go object `Leitung` of node *n*, a record with the fields that survive abstraction. `WerdeFolger`,
`WerdeLeiter` and `NeueLeitung` map the object before the Go method to the object after it.

| Code | Model |
|---|---|
| `Takt` of a leader | `LeaseSenden`, `UebergabeBeginnen`, `UebergabeSenden` (repeats the message, with its old time) |
| `Takt` of a follower | `Uebernehmen` (handover), `Vorwahl`, `Kandidieren`, and `KandidatGibtAuf` of a candidate |
| `Empfange` | one action per kind of message: lease, ack, vorbitte, vorstimme, bitte, stimme, uebergabe |
| `DarfAnnehmen` | `NimmtAn` |
| `speichern`/`leitungLaden` | `Neustart`: term, vote, leader and stamp survive, acknowledgements and times do not |

- `netz` keeps every message ever sent. A handler reads a message and leaves it there, so messages are lost, delayed,
  reordered and repeated at will; leases and handovers carry the time the window check (`leitungZeitfenster`) reads.
  Election messages are undated: the window can only lose them, which never reading them does as well. Refusals nobody
  acts on are not sent, and answers carry no stamp because nobody reads it.
- One `Takt` in the code may do two of these things (send a lease, then begin a handover). Splitting them is exact up
  to losing one of the messages.
- `seit` merges `vorwahlSeit` and `kandSeit`, which are never used in the same role. `fest` is always set on the leader
  of a Satz that does not change.
- Free answers: whether a node is fit to lead (Leistungsnachweis), has the block a handover names, has drained its
  orders, has led long enough, and the rank that staggers candidates. Each can only remove behaviours.
- All nodes read one clock. The code needs clocks that agree up to `leitungZeitfenster` and drift less than
  `FolgerFrist - LeaseDauer` (12 s and 6 s by default); the assumption `LeaseDauer <= FolgerFrist` is weaker than that.
- `voreilig` is a history variable: some follower stood for election while its lease was still fresh, or forgot a fresh
  lease when the answer to an old lease or vote named a higher term (§5).

### 3.2 `Speicherkorb` and `Ausgangsfolge`

| Code | Model |
|---|---|
| `annahmeBeginnen`, `annahmeEnde` | `AnnahmeBeginnt`, `AnnahmeAbgelehnt` |
| `AppendAsync` under the shard locks | `Anhaengen` |
| `enqueueWALFlushMitLocked`, `speicherKorb.hinzu` | `Einreihen`, `Hinzu` (gaps close in order) |
| `writeBatch` | `Sichern` |
| serial path: `walSeqHaltbarAbwarten`, `pendingSeqJetzt`, INSERT, COMMIT or ROLLBACK | `LangsamBeginnt`, `LangsamFertig`, `LangsamScheitert` |
| `ProduceBlock`: `resyncTorBetreten`; `nehmen`; `ladeOffeneZeilen` and `blockKorbMischen`; `korbPraefix`; `SaveBlockMitKorb`; deferred release | `BauTor`, `BauNimmt`, `BauMischt`, `BauKuerzt`, `BauSpeichert`, `BauScheitert` |
| `TruncateBefore`, `walKuerzenBis` | `Kuerzen` |
| end of the process, torn end of the log | `Absturz(bis)` |
| `wal.Open`, `recoverFromWAL`, `speicherKorbNachWiederanlauf`, `ausgangVorStartMerken` | `Wiederanlauf` (or the refusal to start) |
| `leitungUeberholt`, `leitungUnverteiltVerwerfen`, `PerformResync`'s gate | `UeberholtGemeldet`, `VerwerfenPrueft`, `VerwerfenLeert`, `VerwerfenMarke`, `ResyncFertig` |

- The mark in memory (`korbBis`) equals the one in the database wherever the model reads it. `speicherKorb.bauer` is a
  CAS, so there is one builder; an order is a model value and the accounts it locks are `Konten`.
- A retry of an order that a crash took back is allowed: it is a new acceptance.
- Not taken: the 30 s after which the discard stops waiting for the builder, the 2 s after which a row stops waiting
  for its account's durable end, a failed sync of the log, and a failing `PendingTxIDsFreigeben`. They are hazards
  without a property. The database's LIMIT on open rows is absorbed by `Deckel`. Balances and the flush of accounts
  are in `WalFlush`.
- After a discard the node follows another leader (`verw.phase = "nach"`); no further crash is modelled there.
- `Ausgangsfolge` says what all that is for: orders are applied one after another; a block takes them in that order
  account by account; a crash or a lost leadership takes back a set that is in no block, together with everything
  applied after it on the same accounts. `HaeltAusgangsfolge` is the refinement (`folge` and `db.bloecke` map to
  `folge` and `bloecke`).

### 3.3 `Checkpoint`

| Code | Model |
|---|---|
| `checkpointTakt`, `checkpointWahl`, `checkpointVorschlagErstellen` | `RundeBeginnen` (one round per clock slot, `taktSlot`) |
| `checkpointVorschlagAnnehmen` up to the ancestor search | `VorschlagPruefen`: the last checkpoint is read here |
| `checkpointMitunterschreiben`, `checkpointSlotMerken` | `Mitunterschreiben`, `UnterschriftVerweigert`, `MerkenUnklar` (commit done, answer lost) |
| `checkpointSammler.hinzu` | `Sammeln` |
| `checkpointRunde` | `RundeAbschliessen`, `RundeEndet` (any failure) |
| `checkpointZertifikatAnnehmen` | `ZertifikatAnnehmen`, `Annehmbar`, `Aufnehmen` |
| start of the process, with the tables or with an empty database | `Neustart(n, verloren)` |
| `checkpointQuorum`, `checkpointSlot`, `Startsperre`, `vorfahrSuchen` | `Quorum`, `Slot`, `NachStart`, `Vorfahren` |

- Checking a proposal and noting it are two actions because the code reads the last checkpoint under its lock, lets it
  go and notes much later; up to `checkpointGleichzeitig` requests are in between at once.
- `Vorfahren` is the least set that contains the block and the parents of those members that are not older than the
  limit: what `vorfahrSuchen` visits, level by level. Its limits (visits, levels) and gaps in the data are refusals.
- Over-approximations, all harmless for safety: a Takt that fails before it has noted its proposal does not use up its
  slot here, in the code it does; a signature sent for an earlier request of the same block counts in a later round; a
  leader finishes its certificate without the age check, because the code uses the time at which the round began.
- Free: who holds itself for the leader and in which term, what is replayed, which block of the permitted age a leader
  picks, refusals for reasons not kept here. Heights, message formats, the signatures themselves, and the retention of
  the notes (1440 slots) are left out; so are unclear commits of a proposal or certificate, jumps of the clock and the
  part that writes checkpoints into blocks (`checkpoint_tx.go`, dormant in this commit).
- The committee is a function of the block (the code derives it from the block's time).

### 3.4 `WalFlush`

`Speicherkorb` follows one order into a block; `WalFlush` asks what the database knows when the process dies in
between. A fast transfer changes the live accounts and the log; its accounts and its row of `pending_txs` reach the
database later, by several workers, in batches that may be written in parts.

| Code | Model |
|---|---|
| `transferConcurrentWALGesperrt` to `AppendAsync` | `Anhaengen` |
| `enqueueWALFlushMitLocked` with `walGedecktLocked` | `Einreihen` (an item whose accounts already wait is merged) |
| `writeBatch` | `Sichern` |
| `flushWALQueue`, `walRohAuswahlLocked` | `FlushNimmt` (passes over senders whose signed transfers are being written) |
| `flushWALBatch`, `flushWALKontenTeil`, `walKontenUpsertSQL` | `FlushSchreibt`, `Upsert` |
| its error branch | `FlushScheitert` (the whole batch back to the front, also if parts are written) |
| `TransferAtomic` in its serial form | `SeriellBeginnt` (`walVorSeriellLeeren`), `SeriellBucht`, `SeriellAbgelehnt` |
| `ProduceBlock` in one step | `Block` |
| `walKompaktierungsRunde`, `walKuerzenBis` | `Kuerzen` |
| end of the process | `Absturz(bis)` |
| `wal.Open`, `walVermerkeStimmigMitDatei`, `recoverFromWAL`, `walAusgangNachholen` | `Einspielen` (or the refusal) |
| `speicherKorbNachWiederanlauf` | `Anschluss` |
| `wendeResyncSnapshotAn`, `markWALSupersededByStateReplacement` | `Ersatz` |

- An account is how often each order is in it (`wirkt`), its `wal_seq` and its next nonce. Amounts do not matter to
  what is asked.
- `db.vermerke` from `db.ab` on are the marks that a row was written. With the Speicherkorb on, an order needs no row
  (`ohne`); the switch may change at a restart (`Wechsel`).
- A writer waits at most two seconds for an account's log records to become durable and writes then anyway: `frist`,
  counted by `MaxFrist`.
- The index of blocks, which tells the replay that a transfer is in a block already, may lack any entry; it is taken to
  be empty.
- `Nacheinander` is what senders do: they wait for an answer before they use the next nonce (§5 says who needs that).

### 3.5 `BlockNachspiel`

| Code | Model |
|---|---|
| `AddPeerBlock` under `dag.mu`: known, covered by the boot height, parents loaded from the database or missing | `Ankunft`, `Geladen`, `Zugedeckt` |
| `queueOrphan`, after the lock is released | `Verwaisen` |
| `fetchMissingAncestors` finding the parent at home | `LokalGeloest` |
| `SaveBlockToDB(block, false)` | `KopfSpeichern` |
| `replayMu`, `collectUnreplayedAncestors`, `replayInCanonicalOrder` | `NachspielBeginnt`, `Reihenfolge`, `Niedrigster` |
| `replayTransactions` for one block: known or below the boot height, applied, failed, backing off | `OhneWirkung`, `Anwenden`, `AnwendenScheitert`, `NochZurueckgestellt` |
| the end of the back-off | `WartezeitUm` |
| success of `AddPeerBlock`, `spitzeEinhaengenLocked` | `Einhaengen`, `Spitzen` |
| failure: `DeleteBlockFromDB`, after `replayMu` | `KopfLoeschen` |
| `NewBlockchain`, `RefreshBootHeightAfterSnapshotImport(false)` | `Start` |
| `repairUnreplayedBlocks` | `ReparaturBeginnt`, the replay steps with `Erzwungen`, `ReparaturFertig` |
| end of the process | `Absturz` |

- A delivery is a goroutine's walk through the stages of `zug`; several walk at once, and `spielt` is the holder of
  `replayMu` with what it still has to apply. `mem` is lost at a crash, `db` stays.
- `db.wirkt` counts how often a block's effects are in the accounts. The code has no such counter; the module asks
  whether the flags the code has tell the truth about it.
- `chronik` is history: blocks passed over without effects (`ueber`), blocks whose header a failed delivery deleted
  (`geloescht`), blocks whose effects were stored without a header (`verloren`). The properties name these exceptions
  because the code has them (§5).
- The queue of soft retries and the pages of the sync are absorbed by `Ankunft`, which may deliver any block again.

### 3.6 `LeitungVerteilt`

The distributed mode is dormant in this commit (`verteilteAnnahmeAbUnix` is the largest integer). Elections are one
step (`Wahl`); what can go wrong between their messages is the subject of `Leitung`.

| Code | Model |
|---|---|
| `zustaendigFuer`, `uebernahmeSicher`, `bereit` | `Zustaendig`, `UebernahmeSicher`, `Bereit` |
| `DarfAnnehmen` of the leader, `darfAnnehmenFuer` of a member | `Befugt`, `NimmtAn` |
| `neuerTermVerteilt`, `folgerLeaseVerteilt` | `NeuerTermVerteilt`, `FolgerLeaseVerteilt` |
| sending a lease and answering it | `Austausch`; late: `LeaseSenden`, `EmpfangeLease` |
| counting a silent member out | `AusfaelleErkennen` |
| closing before a handover, handover, takeover | `AbschlussBeginnt`, `Uebergeben`, `Uebernehmen` |
| `leitungUeberholt` | `Verwerfen` |
| accepting, and the own block that takes all | `Annehmen`, `BlockBauen` |
| end and start of the process | `Absturz`, `Start` |

- Time is kept as ages that stop where nobody can tell them apart. The unit is 3 s: `LeaseDauer` 2, half of it 1,
  `FolgerFrist` 4, `Ruhezeit` 2 (5 s, rounded up), and a lease is at most one unit under way (`Verzug`, the 3 s limit
  of `leitungKlient`).
- Time passes only after every member that can be reached has exchanged a lease with its leader and silent ones were
  counted out: `Takt` runs every 200 ms, fifteen times in a unit.
- An account is a ring position per term, any function of the terms, or a global account; a member accepts when some
  account allows it. Whether a node has the final blocks it waits for is free, so acceptance is over-approximated.
- The Zuteilung is the whole Satz. Forwarding, deferred caps (`kappung_verteilt.go`), the choice of the members that
  may be given accounts, two validators, and switching the mode on in mid-term are left out.

## 4. Runs, bounds and fairness

| Run | Instance | What it asks |
|---|---|---|
| `leitung_neustart` | 3 validators, all may restart; a hands over, b may lead; 2 terms, time 0..3 | types; nobody accepts beside another acceptor as long as no follower is premature or forgetful; terms, votes and leaders bind over restarts |
| `leitung_zwei` | 2 validators (no election, handovers both ways), both may restart; 3 terms, time 0..3 | never two acceptors, in one term or in two |
| `leitung_voreilig` | 3 validators | violated: never two acceptors |
| `leitung_getrennt` | 5 validators, one partition {a, b} / {c, d, e} that heals | violated: never two acceptors |
| `korb_alle` | 2 fast orders, 1 row on a chain of shared accounts; 1 crash, 1 failure, compaction, discard | nothing twice, nothing lost, nothing ahead of the log, order without a crash, the node starts again |
| `korb_folge` | the same with the row's accounts meeting all others; 1 crash, 1 failure; fair | the refinement of `Ausgangsfolge`; everything durable gets into a block; every row does |
| `checkpoint` | 4 members (quorum 3), 2 leaders, 3 blocks: two of one slot on two branches, one of the next slot; 1 restart, lost database or unclear commit | no double signing, one certificate per slot, a chain per node, slots only forward |
| `wal_flush` | 3 orders over 3 accounts: two signed by one sender, one of them fast or serial, and one unsigned; 2 workers, batches of 1; 1 crash, 1 failed flush, 1 wait in vain, 1 compaction; the Korb on or off, and switched off at the restart | no order twice or half, none lost, one way out each, the stored `wal_seq` tells the balance, nonces in order and used up, the node starts again |
| `wal_kommt` | 2 orders of one sender; 1 crash, 1 failed flush, 1 compaction, 1 replaced state; fair | every acknowledged order gets into a block; a replaced state is not replayed over |
| `block_dag` | two siblings and a block on both; 2 goroutines, 1 crash, 1 failed replay; fair | nothing marked that is not applied, nothing twice, parents first, no tip above a tip, only applied blocks handed out; every block gets through |
| `block_vermerk` | a chain of three; 1 failed replay, no crash | violated: an applied block keeps its header |
| `leitung_verteilt` | 3 members; a hands over, b accepts; any 2 of: a link cut or healed, a late lease to b, a or b stopped; 2 terms | no account has two acceptors; a handover lists only drained members; what an old term left open is being discarded |

Distinct states of the passing runs: 236,645 and 41,091 (`Leitung`), 1,850,213 and 12,126 (`Speicherkorb`), 639,354
(`Checkpoint`), 287,957 and 23,847 (`WalFlush`), 76,467 (`BlockNachspiel`), 921,346 (`LeitungVerteilt`). Each ends with
its whole state space explored.

Why the bounds are enough to matter:

- *Leitung.* Two terms are the fewest in which a handover and an election meet, and the clock passes a lease of length
  1 more than once. With `LeaseDauer = FolgerFrist = 1` a lease runs out at the very step at which a follower may
  stand, the tightest case the assumption allows; `leitung_voreilig` leaves a gap between them. In `leitung_neustart`
  `LetzterMoment` keeps the last moment of the clock for a candidate that gives up: everything else is explored for the
  times 0..2. Three validators are the smallest Satz with elections, two the only one
  without. `NextGetrennt` prescribes the course of one partition for five validators: first the minority hands over
  while nobody else hears it, then the majority votes, gives up and votes again, then the partition heals. It is a
  subset of `Next`.
- *Speicherkorb.* Two fast orders around a row with an account in common with both is the smallest case in which a
  number can be missing below, at and above the row's. `Deckel = 2` makes a block that cannot take everything. One
  crash, one failure and one discard meet at every pair of steps.
- *Checkpoint.* Four is the smallest committee the code allows (`checkpointMindestKomitee`), three signatures certify.
  A slot of two time units holds two blocks, the minimum age equals the slot, the tightest the assumption
  `SlotLaenge <= RueckToleranz` allows (60 s and 120 s in the code), and time 6 lets every block become old
  enough and too old. The members b and c never lead and never fail, so they are interchangeable (symmetry).
- *WalFlush.* With accounts a, b, c and the orders a→b, a→c and c→b every two orders share an account. Two workers
  with batches of one item write one account at the same time, and a batch has two accounts, so it has parts. One wait
  in vain and one compaction are what it takes for the start check to have something to find, and together for it to
  be blind (`Pruefbar`, §5).
- *BlockNachspiel.* A block on two siblings is the smallest DAG in which the order among ancestors matters and a parent
  can be loaded from the database by its child before its own delivery is through. Two goroutines and `replayMu` give
  every order of the steps of two deliveries; the repair is a third.
- *LeitungVerteilt.* Two faults are the fewest that let a member accept behind its leader's back: a late lease or a
  half-cut link, and a stopped or cut-off leader. Two terms are what one change of term needs; acceptances of the last
  term are not counted because no later one could meet them.

The clocks (`MaxZeit`), terms (`MaxTerm`), restarts, crashes, failures, compactions and faults are bounded in the
guards of the modules, so the systems stop there: these runs have `CHECK_DEADLOCK FALSE`. `korb_folge` checks for
deadlock as well: without compaction and discard a start never fails and there is always a next block, an empty one if
need be.

**Fairness** is stated where a loop or a goroutine of the code justifies it, and never for acceptances, failures,
crashes, compaction or replacement.

- `Speicherkorb` (`SpecFair`): the goroutine of an acceptance that holds its locks goes on (`Einreihen`,
  `LangsamFertig`), the writer of the log syncs what it was handed (`Sichern` up to the last number), the ticker of the
  producer calls `ProduceBlock` (`BauTor` to `BauSpeichert`), and the supervisor starts the process again
  (`Wiederanlauf`). All of it is weak: each of these steps, once possible, stays possible until it happens.
- `WalFlush` (`SpecFair`): the same for `Einreihen`, `Sichern`, `Block`, `Einspielen` and `Anschluss`, and the flush
  worker, which takes (`FlushNimmt`) and writes (`FlushSchreibt` of all accounts left); all weak.
- `BlockNachspiel` (`Gerecht`): a goroutine finishes its delivery, the holder of `replayMu` goes on, back-off ends,
  orphans whose parent is at home are delivered again, the process is started again: weak. Strong fairness is needed
  for the two that compete for `replayMu` (Go's mutex hands over to whoever has waited for a millisecond) and for the
  arrival of each block, which is possible only while a goroutine is free and is repeated by the pages of the sync and
  the fetching of ancestors.
- `Leitung`, `LeitungVerteilt` and `Checkpoint` state no liveness: their clocks or terms are bounded, and a system that
  stops there proves nothing about what must happen.

## 5. What the runs show

Violated runs, each listed under `findings` with the lines it concerns:

1. **A premature candidate** (`leitung_voreilig`). After a majority of pre-votes `Takt` calls `kandidieren` without
   looking at the lease again. A lease that was acknowledged in between counts for the old leader, the follower's vote
   for itself counts for the new one, and both accept. A second way to the same end: the answer to an old lease or vote
   names a higher term, and `Empfange` (`leitung.go:1204`, `1210`) makes the receiver a follower of nobody, whatever
   lease it has just acknowledged, so that it votes at once. (TLC's trace for three validators: v leads term 1 and hands
   over to a. w stands for pre-votes of term 3 before a's lease reaches it, v acknowledges that lease, a accepts, and w,
   now a candidate, refuses a lease of term 1 that was under way; v takes term 3 from the refusal, votes for w and
   acknowledges w's lease.) `OhneVoreiligeEinAnnehmender` says that there is no third way, restarts included; §6 proves
   it for three or four validators.
2. **Handovers of a cut-off minority** (`leitung_getrennt`). A handover needs no majority. A cut-off leader and its
   successor raise the term by handing over; when the partition heals, their lease has a higher term than the one the
   majority elected, a follower takes it at once, and for one lease both leaders have a fresh majority.
3. **Effects without a header** (`block_vermerk`). A delivery whose replay failed deletes the header after it has
   released `replayMu`. A second delivery that found that header stored goes on to apply the block, and
   `MarkBlockReplayed` updates a row that is gone. A comment at the deletion asks for one transaction
   (`evm_storage.go:4158`). After restarts the block can be applied again, which is why `NichtDoppelt` of
   `BlockNachspiel` excepts `verloren`.

Around these, the passing runs and theorems show what holds: `OhneVoreiligeEinAnnehmender` and `EinAnnehmenderProTerm`
say what is left of 1 and 2, and the exceptions by name in `NichtDoppelt`, `ElternZuerst` and `JederBlockKommtAn` what
is left of 3.

Seen while modelling, without a run of its own. Each is a behaviour of the code that a property excludes by name, or
that lies just outside a bound.

*Leitung and LeitungVerteilt*

- A handover and an election that choose the same number give a term two leaders (`leitung.go:1273` allows for it);
  only one of them ever gets acknowledgements (`EinAnnehmenderProTerm`).
- With two validators the handover is repeated with its old time and is dropped after `leitungZeitfenster`
  (`leitung.go:1075`): from then on nobody accepts.
- `leitungEntleert` counts the Korb and not what the builder has taken from it (`leitung_netz.go:187`).
- The distributed mode rests on a lease being handled within 3 s of its sending. The receiver checks only the window of
  30 s (`leitung_netz.go:69`) and dates the confirmation by its receipt. With `Verzug = 2` TLC finds two acceptors of
  one account, against `leitung_verteilt.go:20-24` and `30-33`.
- `hatAngenommen` does not outlive a restart, as `warLeiter` does: what a member accepted in a term before it restarted
  is not discarded when the term changes (hence `\ abgestuerzt` in `AltesVerfaellt`).
- A handover counts as orderly even if it lists only some members: the last blocks of a silent one are not awaited, and
  there is no `Ruhezeit`.
- `Ruhezeit` does not bear on `EinAnnehmenderJeKonto` in this instance, which holds without `Bereit`: it gives blocks
  of the old term time to arrive. If a neighbour took over at once, or a restarted leader forgot whom it had counted
  out, the property would fail.

*Speicherkorb*

- The discard waits for `bauer` only, so a builder that has passed the gate but not taken `bauer` takes transfers that
  are about to be discarded (`leitung_netz.go:561`); an acceptance that passed its gate before the leadership was lost
  does the same. The builder writes its mark back as well; with compaction and a crash the start then refuses.
- A row takes the log's next number although smaller numbers of other accounts are not durable
  (`pending_reihenfolge.go:55`). After a crash these are given out again, and a later transfer on the row's account
  overtakes it. `ReiheOhneAbsturz` is what is left.
- Compaction stores as high-water mark a number that was given out but not written (`wal.go:755`). After a crash
  nothing fills the hole, a row above it ends the merge in every block (`speicherkorb.go:288`), and all transfers after
  it wait. A second crash then makes the start refuse (`speicherkorb.go:448`). `korb_folge` leaves compaction out.
- A crash during the discard puts what was discarded back into the Korb (`leitung.go:949`, `leitung_netz.go:555`).

*WalFlush*

- Switching the Korb on for the first time: the replay only queues the rows that are missing, the mark is set behind
  the log at once, and a crash before the flush leaves orders with neither row nor entry (`speicherkorb.go:428`). The
  runs switch it off, not on.
- `walVorSeriellLeeren` looks for waiting transfers of the sender and goes on without a lock (`state.go:5581`): the
  order of nonces holds only because senders await each answer (`Nacheinander`).
- After a crash the replay may write the row of a later record before the one of an earlier record that is still
  queued: `NonceReiheOhneAbsturz` is what is left.
- Switching the Korb off twice over: a record at or below the old mark is in a block already, and the start that
  switches sets `ab` behind the mark. A second crash before the replayed accounts are flushed makes that record newly
  applied again, now without a Vermerk: `alteRegel` writes its row, and a second block takes it. Whether it is in a block
  (`walSatzVerblockt`, `transfer_wal.go:1743`) is asked only of records that were not newly applied. The comment at
  `speicherkorb.go:408-411` means to exclude just that. The runs allow one crash, which makes the switch.
- A start that switches the Korb off and dies between the rows (`recoverFromWAL`) and the removal of the mark, followed by
  a start with the Korb on: the transfers are in `pending_txs` and in the Korb, hence in two blocks. `NichtDoppelt` and
  `GenauEinAusgang` for any number of crashes need the mode to stay as it is.
- A wait in vain stores a balance ahead of the log. The start check finds that, unless compaction has put the
  high-water mark above what the crash cut off (`Pruefbar`).
- A process that ends between the commit of a resync and its floor (`snapshot.go:1253-1272`) applies the whole log
  again onto the new state (`ErsatzUnterbrochen`, off in the runs). The floor counts numbers that are not durable, so
  that a start after a crash may refuse.

*BlockNachspiel*

- The height at the start counts headers that were never replayed (`block.go:404-407`, `10484-10488`). A child that
  arrives before the repair, or after a failed one, marks its unreplayed parent as replayed in memory without applying
  it; the repair then believes that. Its effects are missing until the next start.
- A late sibling at or below that height is hung in without its effects, and the next start repairs it out of order.
- A parent loaded by its child before its own delivery fails stays known in memory, and its header is never stored
  again. After a restart it may never come: `JederBlockKommtAn` excepts it.
- `queueOrphan` is a check followed by an act: the parent may have come in between. `fetchMissingAncestors` resolves it.

*Checkpoint*

- Members that have signed a block but not received its certificate sign the next slot on another branch, and both
  certificates are valid. A node keeps the one it saw first: `KetteJeKnoten` is what is left of one chain.

## 6. Proofs

TLAPS proves these for every value of the constants that satisfies the named assumptions, hence without the bounds of §4.

| Theorem | Says |
|---|---|
| `LeitungProofs!TypKorrekt` | `Spec => []TypeOK` |
| `LeitungProofs!TermBindetGilt` | terms, votes and the leader followed bind over restarts |
| `LeitungProofs!EinAnnehmenderProTermGilt` | one acceptor per term, for three or more validators |
| `LeitungProofs!EinAnnehmenderProTermImmer` | the same for every Satz, two validators included |
| `LeitungProofs!OhneVoreiligeEinAnnehmenderGilt` | one acceptor across all terms, unless a follower is premature or forgetful: for three or four validators, or any number without handovers |
| `LeitungProofs!NieZweiAnnehmendeGilt` | two validators never accept at once |
| `LeitungVerteiltProofs!TypKorrekt` | `Spec => []TypeOK` |
| `LeitungVerteiltProofs!AbschlussHeisstLeerGilt` | a handover lists only members that have nothing left of its term |
| `LeitungVerteiltProofs!AltesVerfaelltGilt` | what an old term left open is being discarded |
| `LeitungVerteiltProofs!EinAnnehmenderJeKontoGilt` | no account has two acceptors, under `Fristen` and `Handhabbar` |
| `SpeicherkorbProofs!TypKorrekt` | `Spec => []TypeOK` |
| `SpeicherkorbProofs!NichtDoppeltGilt` | no order is in the blocks twice |
| `SpeicherkorbProofs!NurAngewendetesGilt` | what is in a block was applied, and no crash takes it back |
| `SpeicherkorbProofs!NichtsVerlorenGilt` | what was applied and not discarded is in a block, a row, or the log above the mark, and is still held |
| `SpeicherkorbProofs!StartNachEinemAbsturzGilt` | the first restart of a node that leads is not refused |
| `SpeicherkorbProofs!ReiheOhneAbsturzGilt` | without a crash, what shares an account gets into the blocks in the order it was applied |
| `SpeicherkorbProofs!HaeltAusgangsfolgeGilt` | `Speicherkorb` implements `Ausgangsfolge`, for a leader not superseded, without crashes or with `AlleTreffen` |
| `CheckpointProofs!TypKorrekt` | `Spec => []TypeOK` |
| `CheckpointProofs!KeinDoppelsignierenGilt` | no member signs two blocks of one slot |
| `CheckpointProofs!SlotsVorwaertsGilt` | a new signature is for a later slot, or was noted before |
| `CheckpointProofs!EinZertifikatJeSlotGilt` | one certified block per slot and committee |
| `CheckpointProofs!KetteJeKnotenGilt` | the certificates of a node form a chain, for every DAG |
| `WalFlushProofs!TypKorrekt` | `Spec => []TypeOK` |
| `WalFlushProofs!SeqSagtSaldoGilt` | the stored `wal_seq` says which records a stored balance contains |
| `WalFlushProofs!NonceVerbrauchtGilt` | the nonce of an order in force is used up |
| `WalFlushProofs!EinmalWirksamGilt` | no order takes effect on an account twice |
| `WalFlushProofs!GanzOderGarNichtGilt` | no order is in one of its accounts only, if no acceptance lags behind compaction |
| `WalFlushProofs!QuittiertesWirktGilt` | what was acknowledged counts after every restart, under the same condition |
| `WalFlushProofs!StartVerweigertNurBeiSchadenGilt` | the first start after a crash is refused only after a wait in vain or a resync, under the same condition |
| `WalAusgangProofs!NonceReiheOhneAbsturzGilt` | without a crash, the signed orders of a sender get into the blocks in the order of their nonces |
| `WalAusgangProofs!NichtDoppeltGilt` | no order takes effect twice, and none is in two blocks, if the Korb stays as it is or there is one crash |
| `WalAusgangProofs!GenauEinAusgangGilt` | every order in force has exactly one way out, under the same condition |
| `BlockNachspielProofs!TypKorrekt` | `Spec => []TypeOK` |
| `BlockNachspielProofs!VermerkHeisstWirkungGilt` | a header marked as replayed has its effects in the accounts |
| `BlockNachspielProofs!NichtDoppeltGilt` | effects get in once, unless the header was lost |
| `BlockNachspielProofs!ElternZuerstGilt` | a block is applied after its parents, with the exceptions named there |
| `BlockNachspielProofs!NachAussenAngewandtGilt` | only applied blocks, or those passed over, are handed out |
| `BlockNachspielProofs!KeineSpitzeUeberSpitzeGilt` | no tip is a parent of a tip, unless its header was deleted |

**Leitung.** `EinAnnehmenderProTerm` is not inductive: it speaks of acknowledgements in the leaders' records, and
these come from messages. `IInv` adds, per node, what its role implies (`RolleOK`: a leader follows itself, a candidate
nobody) and that every counted acknowledgement was sent to it, in its term, by another node (`AcksBelegt`); that every
promise sent is covered by its sender, which follows the leader it acknowledged or has a higher term (`ZusageGilt`);
and that a sender acknowledges one leader per term. A step that sends an acknowledgement reads the record that `TermBindet` protects, so
the last part is preserved. Two acceptors of one term then each hold a majority (their own place included), the
majorities meet (`FS_MajoritiesIntersect`), and the member in both has promised twice in one term, or is one of the two
leaders, which follows itself there. With two validators there is no majority and the theorem does not speak.

**Leitung, across terms.** Terms alone do not help here, because promises run out. `BasisInv`
adds to `IInv` that a follower has been silent since every lease it acknowledged (`letzteLease` is no earlier than any
promise of it) and that whoever handed a term over has left it without having promised anything in it. `WahlInv` says
what an election has settled, as long as `voreilig` is false: who leads a term, or was handed it, finds every earlier
term over (`Geklaert`), because its leader has left it, or because so many have gone on to a later term without a fresh
promise to it that the rest is no majority (`Abgehaengt`). Whoever votes, or is free to (`Frei`), has no promise that is
still fresh to a leader whose term is not over, so votes carry that fact to the candidate (`Ungebunden`). Such a leader
cannot accept: it would need a fresh acknowledgement from one of those. The hypothesis `Handhabbar` is what the
argument needs and no more: after a handover the old leader and its successor no longer count for an earlier term. With
three or four validators these two are already so many that no majority does without them; with five they are not,
which is `leitung_getrennt`. Without handovers any number will do.

Two validators have no elections, and their leader asks for no acknowledgements. `ZweiInv` says that terms differ by
one at most, and that while one leads the other has the same term and does not lead: a handover leaves its sender a
follower of the next term before anyone can take it.

**LeitungVerteilt.** `AbschlussHeisstLeer` and `AltesVerfaellt` rest on one invariant that follows a member through the end of a term. `Geschlossen`
is what a member has reached once it has reported itself drained: nothing of this term is open, it still follows the
leader it reported to or has gone on, and it cannot accept again, because it has seen that the leader is closing, or
because every lease of that leader to it that is still under way says so. What is under way matters: a member that
restarts forgets that it has seen the end of the term, and the next lease must tell it again. `LeiterOK` and
`UebergabeOK` carry the fact from the reports to the list in the handover, and `Belegt` ties every list that a later
leader quotes to a handover that was made. `AltesOK` is about one member: what is open belongs to the term it takes
part in and `hatAngenommen` says so, or is being discarded, and a report of having been superseded is never given in
vain. The invariant needs three or more validators (`VerteiltAnnahme`), no bound on time.

**LeitungVerteilt, one acceptor per account.** `EinAnnehmenderJeKonto` is about time, and its theorem names what it takes
of it. `Fristen`: a member stays patient for as long as a lease lasts; a confirmation that was under way as long as the
client allows, and what it then permits for half a lease, ends within one lease; and within the time from the end of
a lease to impatience and the rest of a new term. The code has 6 s, 12 s and 5 s (`leitung.go:205-221`) and gives up
sending after 3 s (`leitung_netz.go:348`), so these are 3 + 3 <= 6, an equality, and 3 + 3 <= 6 + 5; the run's `.cfg`
satisfies them as well. If a lease may be under way for longer (observation with `Verzug = 2` in §5), they fail and TLC
finds two acceptors. `Handhabbar`: no handovers, or at most four members, since three of five that have not heard of a
handover can elect a leader of the very term it began. All ages grow with the one `Tick`; that nobody misses its turn for
long (`Getaktet`, a guard of `Tick`) is not used.

`EInv` is inductive on top of the invariant above:

- `TermeOK`, `UebergabenOK`: a term is begun by a majority or by a handover, has one leader, and ends with at most one
  handover. As long as the receiver of a handover has not taken it, nobody else is in the next term unless it follows
  the receiver or knows it by hearsay (`Unberuehrt`).
- `LeiterFest`: whom a leader has heard of lately follows it or has left its term. Once somebody is beyond the term, a
  majority has left it and does not answer the leader any more (`Abgehaengt`).
- `ZeugenOK`: behind every lease that confirms, and every member that one still allows to accept, is a majority that
  followed the leader when the lease was sent.
- `SterbenOK`: `Sterbend(t, r)` says that whatever still allows to accept in terms up to `t` was sent at least `r` ago. It
  holds with the distance from a lease to impatience once somebody was elected beyond `t`, with more the longer the new
  term runs or a leader has been ending its own, and with `Ruhezeit` on top after a handover.
- `AusfallOK`, `AusfallLeiter`: who is counted out and does not know has had no lease that allows it to accept for as
  long as the other counts; the leader counts out whomever anybody of its term does, and never itself.

Two acceptors of an account in different terms are excluded by `Sterbend`: the later one has rested so long that the
permission of the earlier one has run out. In the same term the ring has one of them before the other, and the
later one accepts only after it has counted the earlier one out for `LeaseDauer + Ruhezeit` (`UebernahmeSicher`): by
then the earlier one's permission has run out too. A majority is what two terms have in common: any two meet
(lemma on cardinalities from the library).

**Speicherkorb.** For every set of orders and accounts, every size of a block, every crash, failed build, compaction and
discarding. The model sorts (`Geordnet`), picks (`NurSchnelle`), cuts and closes gaps (`Hinzu`); each of these has a lemma
that says what it does to the set of entries and to their order, and each action a lemma `...Tut` in these terms, so
that the invariants never look into a sequence.

- `Grund`: types; a number belongs to one fast transfer wherever it waits, an id to one row (`SchnelleOK`, `ZeilenOK`); an
  order is past the gate, under way or applied, and only one of them (`AnnahmenOK`); what the builder took comes before
  what is ready, that before the next number, and that before what waits behind the gap (`Lage`).
- `VerblocktOK`: `NichtDoppelt` alone is not inductive, because a restart fills the Korb from the file. So: a record of an
  order in a block is at or below the mark, durable, and before everything the builder and the Korb still hand out.
  `NurAngewendetes` follows, since a crash only cuts what is not durable.
- `PhaseOK`: until a superseded leader looks at what is outgoing, a running process holds exactly the records above the
  mark (`Ordentlich`: `Gehalten = Neu`) and has claimed exactly the rows in the builder; some durable record, or the
  high-water mark of a compaction, is at or above the mark (`Gedeckt`), so that a restart never gives out a number
  that a block has used. From that look on, everything is in a block or counted among what is discarded (`Abgegeben`).
  `NichtsVerloren` is what both have in common.
- `StartOK`: before the first crash every number above the mark has its record, and the mark is durable; the crash
  therefore leaves a file without a gap above the mark, and `speicherKorbNachWiederanlauf` counts as many records as
  there are numbers. After a crash this is lost: a record that was not durable leaves a hole in front of what compaction
  has counted (§5).
- `ReiheOK` is about the order of application (`Vor`) of entries that share an account. A row is counted behind the
  numbers given out before it (`NachFolge`), what the builder has comes before what still waits (`NichtVoraus`), a block
  under construction has everything that belongs before its entries (`Vollstaendig`), rows included (`ZeilenGedeckt`), and
  so have the blocks (`BlockFolgt`, from which `ReiheOhneAbsturz` follows). It holds while there was no crash, or over
  crashes if `AlleTreffen`: every row shares an account with every fast transfer. Without that condition a crash can take
  back numbers that a row was counted behind though it has nothing to do with them; new transfers get these numbers and
  sort before the row (§5). Discarding ends it, but only after `Abgegeben`: the blocks get nothing any more that waited
  before (`Danach`).

The refinement rests on the same invariant. `Anhaengen` and `LangsamFertig` are `Annehmen`; `BauSpeichert` is
`Verblocken`, or a stutter when the block has nothing of one's own; `Absturz` is `Zuruecknehmen` of what was not durable, which by
`VerblocktOK` is in no block; every other action stutters. Its two hypotheses are the configuration of the run: a leader
that is not superseded, since `Ausgangsfolge` has no discarding, and no crash or `AlleTreffen`.

**Checkpoint.** A note alone does not suffice, because it gets lost. `SigInv` says that a signature is either noted, or
was made by an earlier process: then its block is at least `RueckToleranz` older than the start of this one
(`SignaturenOK`). The
start lock lets a process sign only blocks younger than its start, and two blocks that far apart cannot be of one slot
as long as `SlotLaenge <= RueckToleranz` (lemma `SlotAbstand`, then `NachFrueheren` and `NeueUnterschrift`). What is
checked but not signed (`GeprueftOK`) is younger than the process that checked it, and notes are unique per slot
(`MerkerEindeutig`). `BelegInv` ties the round of a leader and every certificate to signatures that were sent; two
quorums of one committee meet (`QuorumSchnitt`, by counting), so two certificates of a slot would need a double signer.

The chain of a node needs that `Nachfolger` is transitive although the search stops at a time (lemma
`NachfolgerTransitiv`): the search for an older block stops later, so that what it finds from a block it also finds from
every successor of that block. With the youngest stored one in memory (`Juengster`, kept by acceptance and by the
restart), a new certificate follows that one and hence all of them.

**WalFlush.** For every set of orders and accounts, every number of workers, batch size, crash and mode.
On the types and the numbers (`Nummern`: a number is given out once, `wal.saetze` and what waits lie below the next one)
stand five layers.

- `Salden`: an order is in a balance once, on its own two accounts, in the stored one not before the live one
  (`KontenOK`); while the process runs, the live balances contain every record above the floor (`LiveOK`); the stored
  `wal_seq` says which of them the stored balance contains. Parts of a batch, a failed batch and a replay keep it
  because a part writes the live account as a whole, with its number. `SeqSagtSaldo`, `EinmalWirksam` (the first half of
  `NichtDoppelt`) and, with `NonceOK`, `NonceVerbraucht` follow. That one turned out to need no `Pruefbar`, and the run
  now checks it without.
- `Unterwegs`: what an account lacks in the database is carried by an acceptance that has not queued it yet, or by an
  item of the queue or of a batch that writes this account (`Traeger`, `GetragenOK`). A merge in the queue keeps an
  earlier item, which is enough because nothing of an account that waits comes after a record that floats (`VorrangOK`).
- `Paare`: live and stored accounts differ by orders of the log only (`LebendOK`), and a transfer stored on one account
  only is in the log (`PaarOK`). This is where compaction counts: what it removes has reached both accounts.
- `Quittungen`: an answered order is stored, or durable in the log, or was replaced.
- `ErstesLeben` and `ErsterStart`: up to the first crash every number given out has its record or lies below the
  high-water mark, marks and the place where they begin are not ahead of what is durable, and the Korb's mark has a
  record for every number after it (`Unversehrt`). A crash keeps the durable records, so the comparison with the
  database succeeds and the Korb finds no gap. That a batch with rows writes all its accounts (`GanzeBuendel`) is why
  its marks are durable: the wait is for the accounts, and they are ahead of every item that waits (`GebuchtOK`).

Two hypotheses. `~ErsatzUnterbrochen` excludes a process that dies between the commit of a resync and its floor, with
which `SeqSagtSaldo` is false (§5). `[]KeinNachzuegler`, for the last three of these theorems and the last two of
`WalAusgangProofs`, says that an acceptance that has
been given a number is not overtaken by `Abstand` others before it has queued its record. Compaction relies on that
(`wal_kompaktierung.go:32-34`, `105-108`: the distance covers the window between writing and queueing; it is 300000
numbers there), and nothing in the code enforces it; without it compaction may remove a record that is durable and not
yet queued.

**WalFlush, into the blocks** (`WalAusgangProofs`). What will be in a block is a row, an item that will write one, a
record that floats, or an entry of the Korb; `Dinge` is all of it, each with the place it takes in a block.

- `Ordnung`, up to the first crash: blocks come before `Dinge`, rows before what waits (`StufenOK`), and within `Dinge`
  the places go by nonce (`PlaetzeOK`). `ReihenOK` says why rows come in order although several workers write them: a
  sender has its items in one batch at most (`walRohAuswahlLocked`), that batch before the queue, the queue before the
  record that floats. `FrageOK` is the caller's side: a sender knew the answers to its smaller nonces, and a serial
  order that waits has none of them before it. Hence the hypothesis `Nacheinander` (without it the property is false,
  §5), and `NonceEindeutig \/ MaxErsatz = 0`: a resync may take a nonce back, and then a second order with the same
  nonce may follow the first.
- `Einmal`: an order has one number, an item stands in one place, and an order is in one block or is one of `Dinge`. A
  replay queues an order again only if no row, block or Korb entry has it. It decides that by marks, so `Vermerkt` says
  what they cover: without the Korb every record whose order is in a row or block has its Vermerk, or is below `ab` and
  stored on both accounts; with the Korb there are no rows, and its mark covers the blocks.
- The other half, that no way is missing. `Getan` is the converse of `Vermerkt`: what the next start takes as done has
  a row or is in a block. `LogWeg`: while the process runs, every record above the floor has a way. `Folge`: the file has
  no gap above the high-water mark and the Korb waits for what floats; otherwise a block would take a number behind a
  transfer that still comes, and the mark would pass it over. `GespeichertOK`: an order that is stored but no longer in
  the log is in a row or block, or noted as lost to a resync; this is where compaction counts. `GenauEinAusgang` follows
  from both halves: at least one way, and by `Einmal` at most one.

`Vermerkt` and `Getan` hold while the Korb stays as it is, and up to the start that switches it; `[]EinUmschalten` says
that `Wechsel` has no switch, or that there is one crash at most. A switch and two crashes break both properties (§5).

**BlockNachspiel.** The theorems hold for every finite DAG, every number of goroutines, crashes and failures. Three
invariants on top of the types:

- `IInv`: a block remembered or marked as replayed has its effects or was passed over (`ErinnertesWirkt`), and the
  holder of `replayMu` has its block still ahead or done. `VermerkHeisstWirkung`, `NichtDoppelt` and
  `NachAussenAngewandt` follow: whoever applies a block has found it unmarked, in memory and in the table, under the
  same lock.
- `AhnenInv`: what is in memory, and the parents of what is stored, were stored once (`BelegInv`); parents of what is
  in memory are in memory unless their header was deleted (`ElternDa`). From it `KeineSpitzeUeberSpitze`: a block hung
  in later than its child finds that child in memory.
- `ReiheInv` with `LueckeInv`: what is to be applied has its missing parents in the same set, and the repair takes the
  lowest rank first, so its parents are done. From these `ElternZuerst`. That a finite set has a lowest member is an
  induction over strict subsets, by the well-foundedness that the library states (lemma `Extrem`).

**Only model-checked.** Every invariant and every action property of a passing run is stated by a theorem. What a run shows and no theorem says: five
or more validators with handovers, for which the statements across terms are false. Liveness under fairness (`Kommt`, `ZeileKommt`, `QuittiertesKommt`, `JederBlockKommtAn`)
and ENABLED, induction over data, and what a recursive definition computes are out of the prover's reach and stay with
TLC; the modules have no recursive operator, and ancestors are least closed sets for that reason.

## 7. What is not modelled, and why

- Cryptography, encodings, formats, logging, pages, statistics: no control of their own.
- A Satz that changes: a module of its own (§8); the stamp a new leader puts on the Satz is in `Leitung` because
  elections read it.
- Of the blocks: own production next to deliveries, the finality gate and abandoned blocks, windows of pruning
  (`blockAltBekannt`) and stubs, degraded mode, gaps in the merge set, unclear commits, the wipe of caches by a resync.
- Of the flush: the cap on addresses per batch, nonces given out in advance, limits on what is under way, and the files
  of the log as such (segments, preallocation, a failed sync).
- A vote that leaves although it could not be stored (in `hazards`), the sweep of claimed rows, time limits of the
  Speicherkorb that expire while something waits, and an unclear commit of a certificate (it would break
  `KetteJeKnoten`: the stored chain is ahead of the one in memory).
- Clocks that differ: both protocols compare times of one machine with times in messages, within tolerances. The model
  has one clock.
- The EVM, the MPC arithmetic and the sparse Merkle tree: data beyond what TLC enumerates.
- Distribution, grants, slashing, guardians, registration, finality and divergence: not modelled yet (§8). Much of that
  is sequential computation inside the transaction of a block, whose hazards are arithmetic; the concurrent core, where
  tests reach least, came first.

## 8. Plan

Next modules, in this order:

1. `LeitungSatz`: the member set changes while leases and elections run; majorities of two sets.
2. `LeitungAnnahme`: the composition of `Leitung` with the gate and the drained log of `Speicherkorb` (handover,
   `leitungEntleert`), where observations of §5 become properties; an abstract specification "an account has one
   acceptor" that `Leitung` and `LeitungVerteilt` implement.
3. `BlockNachspiel` together with own production, the finality gate and a resync: votes against heal.
4. `Vorbehalt`, `NonceBatch`.
5. Pure algorithms against reference definitions: `pool_remainder`, `grant_staffel`, `decimal`, the ranking of the
   committee.
6. Protocols of several calls: `guardian`, `register` and nullifiers, triples of `mpc`, `breaker` and `autoheal`,
   `slash_beweis`.

Theorems next: those of these modules.
