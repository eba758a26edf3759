# zknot3 in TLA+

TLA+ models of [zknot3](../src/README.md), a validator node written in Zig, and of
blst, the signature library in C that its repository carries, with the TLC
configurations that check them and the TLAPS proofs about them. Paths below are
relative to `src/src/`, those of blst to `src/zig-pkg/blst-*/src/`.

    tlc -config MCNodeCheckpoints.cfg MCNodeCheckpoints    # a run
    tlapm NodeCheckpointsProofs.tla                        # a proof

`PROJECT.json` is the index: the runs, the lines of code behind every definition
(`map`), the mutation of the code that breaks every property (`mutants`), the
hazards and the disagreements between code and docs (`findings`).

## 1. The system

A node is one process: a main thread that runs the consensus loop
(`checkAndPropose`, `processPeerMessages`, `maybeCommit`,
`rebroadcastEquivocation`), a worker thread per handshake, and the RPC servers.
Nodes exchange blocks, votes and evidence over TCP (or QUIC) streams, FIFO per
ordered pair of nodes and unordered between pairs.

| part | state | operations | called by / calls |
|---|---|---|---|
| **Consensus driver** `form/consensus/ConsensusIntegration.zig` | `should_commit`, `commit_batch`, `last_proposed_round`, quarantine, evidence ring | `checkAndPropose`, `onBlockReceived`, `onVoteReceived`, `onCertificateReceived`, `maybeCommit`, `rebroadcastEquivocation`, `processPeerMessages` | main loop / Node, P2PServer |
| **Block maps** `app/Node.zig`, `ConsensusIngressCoordinator`, `BlockCommit`, `CommitCoordinator` | `pending_blocks`, `committed_blocks` (insertion ordered, swap-remove), votes inside the blocks, `consensus_round` | `receiveBlock`, `proposeBlock`, `receiveVote`, `tryCommitBlocksBatch`, `promotePendingBlock` | driver / executor, checkpoints |
| **Quorum threshold** `form/consensus/QuorumConfig.zig` | none | `thresholdOf`, `accepts` | BlockCommit |
| **Checkpoint store** `form/storage/Checkpoint.zig` | counter, hardened marker and digest, head, ring of 8 digests, evicted slots | `advance`, `next`, `hardenThrough`, `setLatestSequence`, `loadCheckpoint`, `append`, `save`, `load` | Node |
| **Node checkpoint path** `app/Node.zig` | archive of 4096 digests; files `sequence.bin` and `hardened.digests` | `recordQuorumCheckpoint`, `retainEvictedHardenedDigests`, `writeHardenedDigestArchive`, `init`, `recoverFromDisk`, `deinit` | commit path / files |
| **Peer table** `form/network/P2PServer.zig` | `peers` under `peers_mutex`, `inflight_inbound`, `handshake_threads`, direction counts | `handleConnection`, `dial`, the two handshakes, `publishPeer`, `broadcast`, `removePeer`, `maybeRotatePeers`, `stop`, `deinit` | main thread and workers |
| Transaction pool, executor, ingress, egress `pipeline/` | queues, nonces, receipts | submit, next, execute | RPC, driver |
| **Write-ahead log** `form/storage/WAL.zig` | file, 64 KiB buffer, `current_offset` | `logRecordAsync`, `flushAsync`, `open`, `replayStrict` | LSM tree |
| **LSM tree** `form/storage/LSMTree.zig` | memtable, list of tables, `sequence`, files `L{level}_{seq}.sst` | `put`, `delete`, `get`, `maybeCompact`, `compactLevel`, `recoverFromWAL` | object store / log, files |
| **Object store** `form/storage/ObjectStore.zig` | `write_buffer`, `mutation_count` | `put`, `get`, `delete`, `flushWriteBuffer`, `importStateSnapshot`, `deinit` | executor, snapshots / tree |
| **BLS: fields** `no_asm.h`, `vect.c`, `recip*`, `sqrt*`, `fp12_tower.c` | none | limb arithmetic, inverses, roots, the tower | all below |
| **BLS: points and maps** `ec_ops.h`, `ec_mult.h`, `multi_scalar.c`, `bulk_addition.c`, `e1.c`, `e2.c`, `map_to_g*.c` | none | addition, multiplication, subgroup tests, encodings | keys, signatures, pairing |
| **BLS: pairing** `pairing.c` | line tables | Miller loop, final exponentiation | aggregation |
| **BLS: aggregation** `aggregate.c`, `rb_tree.c` | a context per thread; a tree of messages | `Aggregate*`, `Commit`, `Merge`, `FinalVerify`; `uniq_test` | certificate checks |
| Mainnet extension `app/MainnetExtensionHooks.zig` | stake operations, slashes, proposals, gas | submit, apply, replay | RPC, driver (punishment) |
| Epochs, stake, validator sets `metric/`, `form/consensus/{Validator,Quorum}.zig` | epoch, stake pool | advance, add, slash | node, extension |
| DAG library `form/consensus/Mysticeti*.zig` | DAG, waves | `addBlock`, commit rule | off the node's commit path |
| Kademlia, Noise, QUIC, Yamux, RPC, GraphQL, light client, agents, metrics | see PROJECT.json `components` | | |

What is hard in it, and where it is taken up:

- **Rounds are local clocks.** Every node steps its own round; nothing ties a
  received block to the receiver's round, so proposals, votes and commits of
  different rounds overlap freely (`ValidatorNetwork`).
- **Two streams race.** A vote can overtake its block on another stream; it is
  then dropped and never resent (run `voted_by_all`).
- **Bounded maps forget.** The pending map evicts to make room before it looks
  at the arriving block, the committed map after a promotion; a forgotten block
  can come back, be voted on again and be executed again (`NodeIngress`).
- **A restart forgets everything but files.** Rounds, proposals, votes and both
  maps start afresh while the peers remember (run `fork`).
- **Two files, one atomic and one not.** `hardened.digests` is renamed into
  place, `sequence.bin` is truncated and rewritten (`NodeCheckpoints`).
- **Look-ups beside the commit.** The HTTP server answers `knot3_getCheckpoint` and
  `knot3_getHardenedCheckpoint` on its own thread and without a lock, so a client can
  learn the digest of a sequence that is not saved yet (`NodeCheckpoints`).
- **A table shared by threads.** Admission reads counts that change before they
  are used; publishing, removal, rotation and shutdown interleave (`PeerTable`).
- **A log that only grows.** The memtable moves to tables, tables are merged, and
  a start rebuilds the memtable from the log alone; flushes, merges and log writes
  fail separately, and a call that moves several records can die between them
  (`ObjectStore`).
- **Exceptional operands.** Carries out of the top limb, equal, opposite and
  infinite points inside a table or a batch, and the rests of batches, occur in
  signature checks for few inputs (`Bls`).

What makes each part correct: *threshold*: two quorums intersect in more than a
third. *Block maps*: a round counts nobody's stake twice, the maps are disjoint
and bounded. *Driver*: an executed block has a certificate, two blocks of a round
never both commit, only equivocators are accused, proposals get executed (those that are
neither evicted nor left by a spent batch).
*Checkpoint store*: one slot per sequence, a marker that never retreats, oldest
digests forgotten first. *Checkpoint path*: one digest per hardened sequence
through any crash, unless it was given out before it was saved. *Peer table*: one owner per
connection, exact in-flight count (a failed spawn included),
outbound peers survive rotation, shutdown ends. *Storage*: a map that only calls
change; a start brings back what was logged and nothing that was refused. *BLS*:
every shortcut computes what the mathematics says, a point has one encoding, a
verdict is about everything that was aggregated, repeated messages are refused.

## 2. Modules

| module | models | how |
|---|---|---|
| `QuorumConfig` | the arithmetic | operators with the source's names; amounts end at `MaxAmount`, the saturation is kept |
| `BlockIngress` (extends it) | block maps and their handlers | one operator per handler, from the maps before to the maps after; keys are sequences because map order decides what is evicted and committed first |
| `NodeIngress` (extends it) | one node, any arrivals | actions `checkAndPropose`, `onBlockReceived`, `onVoteReceived`, `maybeCommit` |
| `ValidatorNetwork` (extends `BlockIngress`) | several nodes, streams, losses, restarts | an action per handler; `cast`, `executed`, `restarted` and `leftover` are history |
| `CheckpointSequence` | the store's methods | one operator per method on a record |
| `CheckpointApi` (extends it) | the store called in any order | version 1 files as initial states; every hardening followed by the owner's archiving |
| `NodeCheckpoints` (extends it) | commit, save, crash, recovery | a step per file operation, faults as a constant of the environment |
| `HardenedHistory` | the abstract promise | implemented by `NodeCheckpoints` under `DurableHistory` |
| `PeerTable` | peer table | main thread as a program counter, a worker state per connection; a critical section is one step |
| `WriteAheadLog` | the log | a file of records and an unwritten buffer; lost writes and torn tails are `Damage` |
| `LsmTree` (extends it) | the tree | one operator per method, from the tree before to the tree after and how the call ended |
| `ObjectStore` (extends it) | one thread that calls the store | calls that move several records take a step per record; faults, crashes, shutdowns, restarts |
| `KeyValue` | the abstract promise | implemented by `ObjectStore` |
| `LimbArithmetic`, `FieldCalls` | limbs | every loop over limbs is the fold `Columns`; calls and what integer arithmetic says of them |
| `AdditionChains` | three exponentiations | registers hold exponents, with the program's own moduli |
| `FieldTower`, `PairingLoop`, `PairingCalls` | Fp, Fp2, Fp6, Fp12; Miller loop, final exponentiation; their calls | a loop is a program over registers; the curve is a constant |
| `CurvePoints`, `Multiples`, `CurveMaps`, `GroupCalls` | what both curves share | the field is a parameter, operators included, as the C macros have it |
| `CurveE1`, `CurveE2` | the curves | endomorphisms, subgroup tests, maps, encodings |
| `PairingContext` | `aggregate.c` | a point is its multiple of the generator, or `Outside` |
| `UniquenessTree` | `rb_tree.c` | nodes in an array; the walk that is recorded and the climb that rebalances are recursive functions, a round each |
| `Bls` (extends or instantiates them) | the library as used | one call of a layer, or a sequence of calls on contexts or on a tree |
| `Loops` | folds that TLC can evaluate | the only project module with RECURSIVE operators; no proof rests on it |
| `NodeCheckpointsProofs`, `CheckpointApiProofs`, `BlockIngressProofs`, `NodeIngressProofs`, `ValidatorNetworkProofs`, `PeerTableProofs`, `ObjectStoreProofs`, `BlsProofs` (`PairingContext` and `UniquenessTree`) | theorems | |
| `MC*` | constants for TLC | |

Operators marked "(mutant: ...)" are plausible bugs of the definition below them.
No specification uses them; they are there to show that a property can fail.

Data left out: payloads, signatures and digests are equalities, so every block
and vote that arrives is well formed; addresses are members of a two-element set;
the checkpoint bodies, Merkle roots and BLS certificates do not occur. A digest
is determined by round and payload, because proposals carry a zero author and no
parents. The stake table is the genesis one: no stake operation has been
submitted, in which case `scheduledSlashAmount` has nothing to take and
punishing an equivocation fails; the handlers' early exits after that failure are
modelled. A record of the log has a size in units, not bytes; bloom filters answer
as the tables do.

## 3. Runs

| run | instance | shows |
|---|---|---|
| `checkpoint_api` | ring 2, archive 2, sequences 0..3, 2 digests | all orders of all public calls: distinct slots, equal copies of the marker's digest, marker never retreats, only the oldest forgotten |
| `node_checkpoints` | ring 2, archive 1, sequences 0..4, every set of faults | look-ups at any moment get one digest per sequence while `sequence.bin` is written whole (but for early answers, below); coherent memory under all faults; refinement of `HardenedHistory` without faults |
| `node_ingress` | stakes 5/4/1, 3 rounds of which one is its own, 2 payloads, pending 2, committed 1, 3 executions | one counted vote per voter and round across maps, eviction and return; disjoint maps, bounded but for own proposals |
| `network` | validators 1 and 2 of four run and hold 4 and 9 of 15 stake; 2 rounds, 2 payloads, losses, one restart | certificates, accusations, no fork without a restart, and who signed both blocks of a fork that a restart makes |
| `network_live` | validators 1 and 2 of four hold 12 of 14 stake; 4 rounds with three proposals, pending 2, batches of 1 and 2, fair, no loss | a proposal is executed by its proposer, evicted, or left by a batch that spent its budget |
| `peer_table` | two inbound and two outbound connections, an inbound and an outbound one of one peer; limit 3, 1 reserved, ratio 60 % | ownership, counting, rotation, shutdown |
| `object_store` | 2 keys, 1 value, a memtable of one value or two tombstones, 2 buffered records in log and store, 4 logged records, 2 mishaps, one snapshot | the refinement of `KeyValue`, the log against the tree, refused records, imports |
| `bls` | limbs modulo 6659, 46337 and 436277759, fields from 19 to 7207, groups of order 13 and 601, 2 contexts and 4 calls, 7 messages | every layer against its reference definition |
| `fork`, `voted_by_all`, `node_torn_save`, `broadcast_deadlock` | small versions of the above | each a counterexample, see section 5 |

Why the bounds are enough. In `node_checkpoints` the third commit evicts from the
ring and the fourth from the archive, so that every eviction path, a full archive
and the counter's limit are met (the source's 8, 4096 and 2^64 differ only in how
long that takes; the evicted buffer keeps its 2). Look-ups are followed where they tell
invariants apart, in the environments that write `sequence.bin` whole (`Watched`). Two payloads and two rounds are
what an equivocation and its absence need; a pending map of two among five blocks
evicts in every position, and twice at once after a proposal. Two validators with
the quorum between them need both votes, so a lost vote and a restart matter;
the three equal ones of `voted_by_all` let a vote overtake a block. In `network_live`
two of the three proposals are the same node's, so that blocks with a quorum wait side
by side in a full pending map and a batch of one has to choose between them. Four connections give the peer table
a full limit, a refused ratio, a subnet collision and a replaced entry. In
`network` the proposer of round 1 has less than a third of the stake, so that a
fork of round 1 cannot be blamed on it alone. In `object_store` every second
mutation flushes the store's buffer, fills the memtable or offers a merge, and a
level holds one table, so that a second memtable, a merge of two levels, a failed
merge before another and a start with more records than one memtable all occur;
mishaps are failed writes, crashes and shutdowns.

The arithmetic of `bls` is checked on instances, each with the property of the real
parameters that the code uses. Limbs have 4 bits (8 where the Euclidean inverse
wants them) and there are four; the moduli 6659 and 436277759 leave three bits of
the top limb free, as the curve's does. The 256-bit routines, which a comment offers
for any modulus, are also run with 46337, which fills its top limb, so that sums and
products carry out of it. The pairing is over a field of 163 with
groups of order 13 and the parameter -26: as the real one it is negative, the
embedding degree is 12, and 163 % 24 = 19 makes the roots in Fp2 the code's. Points
are multiplied on curves over 7207 with groups of order 601, the least that hold the
33 points of the longest batch apart; encodings and maps are enumerated on curves
over 19. No small curve has both groups, both maps and a degree of 12, so
bilinearity is checked against the textbook exponent, and `final_exp`, whose
exponent is three times it, against its own formula. The addition chains run with the
program's own moduli. Every round of a loop is a step of the model.
`MaxRound`, `MaxExecuted` and `MaxRestarts` only end the exploration; since
streams drain and rounds end, the network configurations switch off the deadlock
check, and `PeerTable` ends in "down" or "panic". Symmetry permutes payloads or
digests only, which the properties treat alike, and is not used where liveness is
checked.

Fairness. `ValidatorNetwork`: the main loop of a node polls all streams
round-robin with a cursor that moves at every tick, proposes when the clock
passes the round interval, and calls `maybeCommit` each turn; hence weak fairness
of proposing (`checkAndPropose`), of reading each stream (`processPeerMessages`) and of
clearing a set `should_commit` (`commitTurn`), which is what `maybeCommit` does. Nothing is assumed of losses, restarts and
rebroadcasts. `PeerTable`: the main thread never waits but for the mutex and the
joins, and socket timeouts end handshakes; hence weak fairness of the main
thread's continuations and of each worker. Starting a new activity is never
forced.

## 4. Proofs

`NodeCheckpointsProofs` proves, for every ring and archive size, digest set and
counter width (`SequenceAssumption`, `FaultAssumption`), that

- `TypeCorrect`: `Spec => []TypeOK`, under every fault;
- `ServedOnceAlways`: `Spec => []ServedOnce`: while `sequence.bin` is written
  whole, no interleaving of commits, look-ups, failed archive writes, crashes and
  recoveries makes a node answer with a second digest for a hardened sequence that
  is not `unsettled`.

`unsettled` names the two cases in which the code does not keep that promise.
`recordQuorumCheckpoint` hardens first and saves afterwards, and the HTTP thread can
answer with the new tip in between: if a crash comes before the end of the save, the
sequence is issued again for another block, and a client that asked twice has two
digests of it, without any fault of the disk. And a look-up that overlaps
`hardenThrough` itself reads entries that are being moved, and a marker without its
digest; what it returns is not compared with anything. `Answer` and `AnswerRacing`
are these look-ups, `Crash` adds the sequence of the first case, and only if it was
answered.

The proof is in two layers. `recorded` has the digest of every sequence whose commit
ended. That it has one digest per sequence is not inductive: it says nothing of the
counters from which the next sequence is taken. `RecordedInv` adds that the counter,
in memory and in the file, is one above the marker, and that everything recorded
lies below the sequence being committed, below the next one to be issued, and (except
while the file is being rewritten) below the counter on disk, from which a recovery
continues. A commit then ends by recording a sequence nothing was recorded for, so
the set it adds to was empty. `TypeInv` supplies that the digest recorded is never
null. `ServedInv` then says of the answers that they are what was recorded or, for
the commit under way, the marker's digest; a crash makes the second kind `unsettled`.
The lemmas on `NoteDigest`, `HardenThrough`, `Retain`,
`Encode` and `Decode` carry the store's types.

`PeerTableProofs` proves every safety property of `PeerTable`, for any finite set
of connections, any keys, prefixes and limits (`PeerAssumption`):
`TypeCorrect`, `OneOwnerAlways`, `InflightExact`, `CleanTeardown` and
`RotationSafe`. `IInv` adds to the invariants the runs check only `Accepting`: the
connection the main thread is accepting or dialling is new, a new connection
has no worker, and only an accept waits between its count and its spawn. Without it a
spawn could hand a second worker a connection that has one, a refusal could free a
connection in the table, and a failed spawn could lower a count nobody raised. That the
counter keeps its type follows from its exactness, since it counts some of the connections. Rotation
needs one more invariant, `VictimSpare`, over the window between the snapshot and
the removal: the victim is inbound or another outbound peer is in the table. It
survives that window because only workers run in it, and a worker only adds an
entry unless it overwrites one; `RotationKeepsOutbound` excludes the latter with
`replaced = {}`, since an overwritten outbound entry may be the spare one.

`NodeCheckpointsProofs` also proves the other two invariants of the checkpoint path.
`StoreCoherentAlways` holds under every fault: `CoherenceInv` says that ring, marker
and counter are coherent in memory and in the file, and what a commit under way has
already moved. `StoredIsServedAlways`, and the step of `ServedInv` in which a look-up is answered,
need `TruthInv` on top of it: every digest in the ring, in the archive and in their
files is the only one recorded for its number, except the ring's newest while its
commit is under way.

It also proves `HistoryRefinedAlways`: every step of
`NodeCheckpoints` is, under the mapping, a step or a stutter of `HardenedHistory`.
Two steps are visible: writing the archive forgets the oldest digest of a full
history, or stutters, and starting to rewrite `sequence.bin` hardens the new one.
`RefInv` compares memory and disk at each program point (memory is one commit ahead
while a commit is under way, and equal otherwise), and says that the archive on file
lies below a full ring. Hence what the ring drops is in the archive first, which is
the order of the two writes in `recordQuorumCheckpoint`.

`CheckpointApiProofs` proves every property of `CheckpointApi`. `ApiInv` says that the
ring has one slot per sequence and lies at or below the marker, whose digest is the
ring's where the ring has one. That nothing lies above the marker is needed when a
hardening without a digest moves it: the new marker has no slot then, so dropping
its digest contradicts nothing. For `OldestFirstAlways`, `HardenSound` shows that
what a call takes from the ring or the marker is in the evicted slots (two are
enough because a call notes at most two digests), and `Retained` that archiving
them drops only what lies below a full archive.

`BlockIngressProofs` proves of the quorum arithmetic, for every total, that two
accepted stakes overlap in more than `byzantineThreshold` and that more stake never
loses a quorum, and holds the lemmas about the block maps: that handlers keep
`SoundMaps` (distinct keys, disjoint maps, one vote per voter and round) whatever
their argument, and what a sum of stakes gains from one more voter. `NodeIngressProofs`
proves every invariant of `NodeIngress` for any stake table, caps and number of
rounds: `TypeCorrect`, `OneVoteAlways`, `SeparateAlways`, `BoundedAlways`. The
inductive `IngressInv` is `SoundMaps`, `WithinCaps`, and `OwnReached`: a stored block
of the node's own belongs to a round it has reached. The last one is why
`proposeBlock`, which files its block without asking whether it is held, cannot file
one twice.

`ValidatorNetworkProofs` proves every safety property of `ValidatorNetwork` for any
validators, stakes, rounds and payloads. `NetworkInv` says of each node that its maps
are sound, that each vote it counts was cast and is weighed by the stake table, and
that its own blocks are of rounds it has reached; of each stream, that it holds only
what its sender may have sent; of each executed block, that it has a certificate; of
each accusation, that it is true; that whatever a validator signed its proposer
signed; and, until the first restart, that a proposer signed one block of each of its
rounds. The last two give `NoForkAlways`: what keeps honest nodes from forking is the
proposer, since a validator signs any block that arrives. When restarts break that,
`AccountableAlways` says what the quorum still gives: by `QuorumsIntersect` and
`SumAdds` the validators in both certificates hold more than `byzantineThreshold`. It
is stated for totals that fit the amounts, since a saturated total is not the sum of
its parts.

`ObjectStoreProofs` proves every property of `ObjectStore`, the refinement included,
for any keys, contents, sizes, thresholds and levels and through every fault
(`StoreAssumption`; a snapshot has finitely many keys). The inductive invariant has
four parts.

- `TypeInv`, beside types, says of the rows what a search relies on: their numbers lie
  below the tree's counter and tell them apart. A memtable weighs no more than its
  size, and no table is empty (`TypeCorrect`).
- `OrderInv` is what `GetFindsLatest` lacks. `get` stops at the first table that
  knows the key, and a merged table goes to the end of the list, so the list must
  fall in level and rise in age. A merge keeps that only if the levels below it are
  empty, and they are because compaction goes upwards and starts at a level that
  has just been filled: no level above the first is crowded but the one that
  compaction has come to. The failed merge that breaks this is `behind`
  (`FindsLatestAlways`).
- `StoreInv` relates log and tree. `LogInv` says of every file that a crash can leave
  (`Images`: any prefix of the buffered records, torn or not) that, undamaged, either
  all its records were carried out or no memtable has room for it. The second
  alternative is why a refused record is never replayed: the memtable that refused it
  was full of what the log holds, and a replay weighs at least as much, which
  is the first half of `UpInv`; the other half is `LogRebuildsTree`. Without the
  comparison of weights neither is inductive, since the memtable forgets what was
  flushed and the log does not (`RebuildsAlways`, `RefusedNeverReplayedAlways`).
  `StoreInv` also says that every content in log, tree or buffer was once held, which
  `KeyValue` asks of a restart.
- `ImportInv` says of an import under way that nothing is buffered when it writes and
  that what it has left to write leads (`Leads`) from what the tree holds to the
  snapshot (`ImportInstallsAlways`).

`ActsAsMapAlways` follows with one lemma for each action: `put` and `delete` are the
map's change at their key, moving the buffer, flushing and merging are stutters, and
a start is the map's restart. `LogGrowsAlways` needs none of this: the file is
only ever continued, by buffered records, by the hole a lost buffer leaves, by a torn
record, and the first damage of a file is the first damage of whatever continues it
(`IntactContinues`). The lemmas the rest stands on are about the operators of
`LsmTree`: what `Kept` takes from a list, what `Size` gains from a row, that `Merged`
keeps the newest row of each key, that a replay carries a file out row by row.

`BlsProofs` proves `VerdictAlways` for any order (prime or not), batch
size, set of points, scalars and hashes, and any number of contexts and calls, under
`ContextSpec`: the calls of `PairingContext`, which `Bls` takes as one kind of
its steps. `Accounts` says of a context and what it was given that the
signature is the sum of the signatures; that a product is set or a pair pending
exactly if a pair was given; that, unless the product is zero, the product and the
product of the pending pairs make up that of all pairs; and that a zero product,
or a pending pair that can make one, comes from an infinite Q. The third part is what
batching preserves: a batch moves its share from one factor to the other. `Aggregate`
keeps it whatever it answers, because what it adds before refusing a key is counted
as given. The sums are modulo the order, so the proof begins with the residues:
uniqueness of the remainder, from which sums are associative and a scalar may
multiply either side of a pair.

Its second part is about `UniquenessTree`, for any finite set of messages and any
sequence of `blst_uniq_test`. The invariant `TreeInv` says that the tree is
`WellFormed` and that its keys are the accepted messages. Well formed means that there are
sets `S[i]`, of the nodes at or below `i`, that the leafs of each node divide and
whose keys lie on their side of it (`Shape`); that there are heights `h[i]`, the black
nodes on every way down (`Heights`); and that no red node has a red leaf, and the
root is black. Both `S` and `h` are witnesses and not part of the state: that a tree has
no cycle and no shared node follows from `S`, and `TreeInduction` proves facts of
all nodes from those of their leafs. The proof follows `rb_tree_insert`:

- `WalkFacts`: the walk ends at the node with the message if there is one, otherwise
  where the message belongs, within twice the height. For that the order of messages
  (bytes, then length) is shown to be a strict total one (`CompareFacts`,
  `LessTransitive`).
- `GraftShape`: the new red node is in its place, and may clash with its parent only.
- `Climbing`, the invariant of the loop: the node `k` steps down the walk is the only
  one that may be red with a red leaf. A red uncle moves the clash two steps up
  (`Recoloured`), and a rotation removes it (`TurnInner`, `TurnOuter`; `RotatedTurns`
  shows that the code's assignments make such a turn). `ClimbRuns` shows
  that the recursive function is defined at each round.
- `RootPainted`: the root can be black whatever it was.

`UniquenessAlways` then needs what `Below` makes of a well formed tree (`BelowFacts`:
the messages in order, and one number of black nodes) and that a tree of height
`h` has at least `2^h - 1` nodes (`SizeOfHeight`). Two more theorems are about the arrays,
which the code never checks: `WalksFitAlways` (less than `2^b` nodes are walked in at
most `2b` steps: the 64 entries of `nodes` and `dirs` are enough below `2^32`
nodes, and the code itself has nothing that keeps a caller below) and `NodesFitAlways`
(a node for each accepted message and none for a refused one).

Recursive functions (a sum over a set of voters, an iterated eviction, the product of
a batch) are treated
without an induction rule: `SetInduction`, from the well-foundedness of the naturals,
says that a set of naturals closed under the successor is all of them, and each use
gives the set of numbers for which its claim holds.

Only model-checked: liveness (`ProposerExecutes`, `StopEnds`), which TLAPS does not
do; and `FieldAgrees`, `PairingAgrees`, `PointsAgree` and `EncodingsAgree`, which
compare loops over limbs, bits and points with reference definitions and hold of moduli
and curves with the properties section 3 names, not of every constant. These four
fold with the RECURSIVE operators of `Loops`, which TLAPS has no backend for. The four
expected violations are TLC's.

## 5. Where code and docs part

- `fork`: `docs/invariants.md` I-1 forbids two committed blocks of a round. A
  proposer that restarts proposes the round again, and validators that no longer
  hold the first block commit the second. Without a restart the property holds in
  the model (`NoForkingWithoutRestart`).
- `voted_by_all`: `docs/protocol/safety-proofs.md` (Theorem 2) lets a block that
  everyone voted for commit. A vote that arrives before its block is dropped.
- `node_torn_save`: `README.md` promises "no silent state divergence" for corrupt
  checkpoints. A torn `sequence.bin` is loaded as an empty store, and sequences are
  issued again.
- `broadcast_deadlock`: `broadcast` calls `removePeer` with `peers_mutex` held.

Seen on the way and not kept as runs. In the node:

- The digest of a sequence that has fallen into the archive, or that a version 1
  file holds only as the marker, is replaced when the sequence is hardened again
  (`noteHardenedDigest` asks the ring only; the node itself never hardens a sequence
  twice).
- A digest can be given out before it is saved and be lost in a crash (`unsettled`
  above): the node then answers with another digest for the same sequence.
- A quorum completed by the node's own vote on a received block does not set
  `should_commit`, and a batch that spends its budget has cleared it: the blocks it
  leaves wait, with their quorum, for a vote or proposal that has nothing to do with
  them, and may be evicted meanwhile (`leftover`). An evicted committed block can be executed again. The block pruned
  from a full pending map is the first key, which after a swap-remove is not the
  oldest. Nodes may execute the same blocks in different orders.
- A peer published between `peerCount` and the snapshot overflows the rotation's
  candidate array (pc = "panic" in `PeerTable`).

In storage:

- Nothing truncates the log after a memtable was flushed and no start loads the
  tables, so a start fails once more was logged than one memtable holds
  (status = "refused"). The memtable is flushed only when an entry fills it exactly.
- A torn tail, and the gap behind a failed write, make the strict replay fail; the
  log is not repaired.
- After a failed merge of level 0, a merge of a higher level puts its table behind
  newer ones, and `get`, which stops at the first table that knows the key, answers
  with an older value (`behind` in `GetFindsLatest`).
- A table file left by an earlier life can be opened under the same name
  `L0_{seq}.sst`: its index and its contents then belong to different tables. The
  model stops there (`Mixed`).
- `importStateSnapshot` is not atomic. A field with an empty value is logged as a
  record without one, which the replay dereferences. `initWALOrNull` turns a failure
  to open the log into a store without one.

In blst:

- The comment at `no_asm.h:93` lets the 256-bit routines take an arbitrary modulus. The
  portable `mul_mont_n` adds the carry out of its top column to that column instead of
  the next, and is wrong when that carry occurs, which takes a modulus whose top limb is
  all ones (65521 with four limbs of 4 bits; hence `FullAssumption`). The library calls
  it with its two moduli only, which leave bits of the top limb free.
- `POINTonE1_mult_glv` and `POINTonE2_mult_gls` use every bit of a scalar's last byte,
  the window methods of the same calls only `nbits`.
- An aggregation adds the signature and fixes the context's kind before it refuses
  the public key; the context must then be thrown away. `FinalVerify` ignores pairs
  that were not committed.
- `blst_miller_loop_n` makes the product zero if one of several second points is
  infinite (`blst_miller_loop` and the aggregation leave such pairs out).
  `blst_aggregate_in_g1`/`_g2` leave the output unwritten for an infinite input that
  comes first.

In the mainnet extension, which has no model: `submitStakeOperation` takes an id
before the operation can fail; `applyEquivocationEvidence` logs the evidence before
the slash, and a crash between the two loses the slash; `voteOnProposal` accepts at
floor(2t/3) where its comment says more than two thirds; the voting power and the
jails are not handed to the driver again after a replay.

## 6. Not modelled, and the plan

Not modelled for good: parsing and encodings of the node, key exchange, HTTP, RPC
and GraphQL, metrics, agents, and the verification of Merkle proofs. The models also
leave out allocation failures (but the one `publishPeer` undoes), rate limits and
bans (a message refused by them is the loss `Discard`), the QUIC twin of the peer
table, and the evidence ring's limit of 16.

In storage: fields and parent references are further keys of the same tree; write
batches and the compaction worker are called by nothing; records larger than the
log's buffer, log rotation and the lossy replay are not reached by the node.

In blst: SHA-256, HKDF, hash-to-field and the byte-order conversions compute fixed
functions that have no shorter definition to check them against; `exports.c` wraps
the modelled routines; `cpuid.c`, `exp.c` and `blst_t.hpp` are not part of the
arithmetic the node links. `build.zig` links assembly on x86_64 and aarch64 and
`no_asm.h` elsewhere: the model is of the latter, and the routines above it are
shared. The isogenies' coefficients are constants of the real curves; a small curve
has others.

Hazards without a property (see `PROJECT.json`) are data races inside a container,
below the grain of these models, or behaviour the models reproduce and the code
promises nothing about.

Next, in this order:

1. `MainnetExtension`: stake operations, slashes by evidence, governance and gas with
   their log records, replayed after a crash; then `ValidatorNetwork` with a stake
   table that changes, and epochs.
2. `TxnPool`: admission, nonces, duplicates, the limit and its eviction, `next`
   and the executor's sender sequence: no transaction executes twice or skips a
   sequence number.
3. `PipelineOrder`: the dependency graph against sequential execution.
