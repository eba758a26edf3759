--------------------------- MODULE NodeCheckpoints ---------------------------
(***************************************************************************)
(* How a node records, persists and recovers its hardened checkpoints      *)
(* (Node.recordQuorumCheckpoint, Node.deinit and Node.init in              *)
(* src/src/app/Node.zig): the checkpoint store of CheckpointSequence in    *)
(* memory, and two files, written in this order after every commit:        *)
(*   hardened.digests  the archive, written beside and renamed (atomic);   *)
(*   sequence.bin      the store, truncated and then rewritten in place.   *)
(* A crash may come between any two of these steps, and the HTTP thread    *)
(* answers look-ups of the store during all of them, without a lock.       *)
(***************************************************************************)
EXTENDS CheckpointSequence

FaultKinds ==
    { "archive_write",   \* writing hardened.digests fails: logged, dropped
      "sequence_write",  \* sequence.bin cannot be opened: logged, dropped
      "torn_save" }      \* a crash or error between truncate and sync

CONSTANTS
    FaultSets,  \* the sets of faults an environment may have
    Watched     \* bound: the sets of faults under which look-ups are followed

ASSUME FaultAssumption == FaultSets \subseteq SUBSET FaultKinds

VARIABLES
    faults,       \* the faults of this environment; never changes
    cs,           \* checkpoint_store, in memory
    archive,      \* hardened_digest_archive, in memory
    sequenceFile, \* contents of sequence.bin
    archiveFile,  \* contents of hardened.digests
    pc,           \* where the node is in the commit or shutdown path
    closing,      \* the save in progress is the one of deinit
    recorded,     \* history: the digest of each sequence whose commit is over
    served,       \* history: every digest the HTTP thread has answered with
    unsettled     \* history: the sequences answered too early: before a save
                  \* that a crash then prevented, or while the store changed

nodeVars == <<faults, cs, archive, sequenceFile, archiveFile, pc, closing, recorded>>
clients == <<served, unsettled>>
vars == <<nodeVars, clients>>

\* A commit has hardened its sequence and the save of it is not over.
Committing == pc \in {"archive", "save", "write"} /\ ~closing

\* load() turns a missing file, one shorter than the 40-byte prefix and one
\* whose tail does not decode into init(), so all of them read as this one.
Blank == Encode(EmptyStore)

\* What a write that stops part-way leaves: nothing usable, or just the
\* legacy prefix, which reads back as a counter without a marker.
TornContents(c) ==
    {Blank, [Blank EXCEPT !.current = c.current]}

Init ==
    /\ faults \in FaultSets
    /\ cs = EmptyStore
    /\ archive = << >>
    /\ sequenceFile = Blank
    /\ archiveFile = << >>
    /\ pc = "idle"
    /\ closing = FALSE
    /\ recorded = [s \in SeqNo |-> {}]
    /\ served = [s \in SeqNo |-> {}]
    /\ unsettled = {}

----------------------------------------------------------------------------
(* (mutant: the archive only reaches the disk with a later eviction)       *)
RecordWithoutArchive(d) ==
    LET issued == cs.current
        after == HardenThrough(Advanced(cs), issued, d)
    IN /\ pc = "idle"
       /\ CanAdvance(cs)
       /\ cs' = Drained(after)
       /\ archive' = Retain(archive, after.evicted)
       /\ pc' = "save"
       /\ UNCHANGED <<faults, sequenceFile, archiveFile, closing, recorded, clients>>

(* A block with digest d has gathered a quorum and was executed: issue the *)
(* next sequence, harden through it and retain what left the ring.  The    *)
(* archive is written only when it changed.                                *)
RecordQuorumCheckpoint(d) ==
    LET issued == cs.current
        after == HardenThrough(Advanced(cs), issued, d)
    IN /\ pc = "idle"
       /\ CanAdvance(cs)
       /\ cs' = Drained(after)
       /\ archive' = Retain(archive, after.evicted)
       /\ pc' = IF archive' # archive THEN "archive" ELSE "save"
       /\ UNCHANGED <<faults, sequenceFile, archiveFile, closing, recorded, clients>>

\* writeHardenedDigestArchive: temporary file, sync, rename; an error is
\* logged and the old file stays.
WriteArchive ==
    /\ pc = "archive"
    /\ \/ archiveFile' = archive
       \/ "archive_write" \in faults /\ UNCHANGED archiveFile
    /\ pc' = "save"
    /\ UNCHANGED <<faults, cs, archive, sequenceFile, closing, recorded, clients>>

\* save(): createFile with truncate.
TruncateSequence ==
    /\ pc = "save"
    /\ sequenceFile' = Blank
    /\ pc' = "write"
    /\ UNCHANGED <<faults, cs, archive, archiveFile, closing, recorded, clients>>

\* The save is over: deinit ends the process, a commit returns to the main loop.
SaveEnds ==
    IF closing
    THEN pc' = "down" /\ UNCHANGED recorded
    ELSE /\ pc' = "idle"
         /\ recorded' = [recorded EXCEPT ![cs.marker] =
                            @ \cup {StoredDigest(cs, archive, cs.marker)}]

\* save() fails before it truncates; the caller only logs it.
SkipSave ==
    /\ pc = "save"
    /\ "sequence_write" \in faults
    /\ SaveEnds
    /\ UNCHANGED <<faults, cs, archive, sequenceFile, archiveFile, closing, clients>>

\* (mutant: the rewritten file stays empty)
WriteSequenceLost ==
    /\ pc = "write"
    /\ UNCHANGED sequenceFile
    /\ SaveEnds
    /\ UNCHANGED <<faults, cs, archive, archiveFile, closing, clients>>

\* save(): write and sync.
WriteSequence ==
    /\ pc = "write"
    /\ \/ sequenceFile' = Encode(cs)
       \/ /\ "torn_save" \in faults
          /\ sequenceFile' \in TornContents(cs)
    /\ SaveEnds
    /\ UNCHANGED <<faults, cs, archive, archiveFile, closing, clients>>

\* deinit saves the store once more before the process ends.
Shutdown ==
    /\ pc = "idle"
    /\ closing' = TRUE
    /\ pc' = "save"
    /\ UNCHANGED <<faults, cs, archive, sequenceFile, archiveFile, recorded, clients>>

\* A crash before the save of a commit is over loses the sequence it hardened.
\* If the HTTP thread has given out its digest, that answer is not taken back.
Crash ==
    /\ pc # "down"
    /\ pc = "write" => "torn_save" \in faults
    /\ pc' = "down"
    /\ \/ UNCHANGED sequenceFile
       \/ pc = "write" /\ sequenceFile' \in TornContents(cs)
    /\ unsettled' = unsettled \cup {s \in SeqNo : Committing /\ s = cs.marker /\ served[s] # {}}
    /\ UNCHANGED <<faults, cs, archive, archiveFile, closing, recorded, served>>

\* Node.init and recoverFromDisk: reload both files.
Recover ==
    /\ pc = "down"
    /\ cs' = Decode(sequenceFile)
    /\ archive' = archiveFile
    /\ pc' = "idle"
    /\ closing' = FALSE
    /\ UNCHANGED <<faults, sequenceFile, archiveFile, recorded, clients>>

\* The HTTP thread answers a look-up of sequence s (knot3_getHardenedCheckpoint,
\* knot3_getCheckpoint), the tip of a commit that is not saved yet included: it
\* runs beside the main loop and takes no lock.  It is gone before deinit saves.
Answer(s) ==
    /\ faults \in Watched
    /\ pc # "down" /\ ~closing
    /\ s \notin unsettled
    /\ StoredDigest(cs, archive, s) # None
    /\ served' = [served EXCEPT ![s] = @ \cup {StoredDigest(cs, archive, s)}]
    /\ UNCHANGED <<nodeVars, unsettled>>

\* A look-up that overlapped hardenThrough and the draining of its evicted
\* slots: entries move, and the marker moves before its digest does, so any
\* digest may come out; that answer is compared with nothing.
AnswerRacing(s) ==
    /\ faults \in Watched
    /\ pc \in {"archive", "save"} /\ ~closing
    /\ s <= cs.marker
    /\ unsettled' = unsettled \cup {s}
    /\ UNCHANGED <<nodeVars, served>>

NodeStep ==
    \/ \E d \in Digest : RecordQuorumCheckpoint(d)
    \/ WriteArchive
    \/ TruncateSequence
    \/ SkipSave
    \/ WriteSequence
    \/ Shutdown
    \/ Crash
    \/ Recover

Next ==
    \/ NodeStep
    \/ \E s \in SeqNo : Answer(s) \/ AnswerRacing(s)

Spec == Init /\ [][Next]_vars
----------------------------------------------------------------------------
FileContents ==
    [ current : SeqNo, marker : SeqNo \cup {None},
      markerDigest : Digest \cup {None}, ring : Seq(Mark) ]

ArchiveOK(m) ==
    /\ DOMAIN m \subseteq SeqNo
    /\ \A s \in DOMAIN m : m[s] \in Digest

TypeOK ==
    /\ faults \subseteq FaultKinds
    /\ cs \in Store
    /\ sequenceFile \in FileContents
    /\ ArchiveOK(archive)
    /\ ArchiveOK(archiveFile)
    /\ pc \in {"idle", "archive", "save", "write", "down"}
    /\ closing \in BOOLEAN
    /\ recorded \in [SeqNo -> SUBSET Digest]
    /\ served \in [SeqNo -> SUBSET Digest]
    /\ unsettled \subseteq SeqNo

\* "No silent state divergence" (README.md, on a corrupt checkpoint): whatever
\* commits, shutdowns, faults, crashes and recoveries interleave, the node
\* answers with one digest for a hardened sequence, except where it answered too
\* early: between hardenThrough and the end of the save, when a crash came before
\* that end, or while the store was changing.
NoSilentDivergence == \A s \in SeqNo \ unsettled : \A d, e \in served[s] : d = e

\* That holds as long as sequence.bin is written whole: an archive that cannot
\* be written, and a crash between any two steps, never make the node answer
\* with a second digest ("The first digest recorded for a sequence is the one
\* later replays must match").
SequenceWritten == faults \subseteq {"archive_write"}

ServedOnce == SequenceWritten => NoSilentDivergence

\* Whatever a running node stores, in a commit or between two, is what it has
\* answered with: rings, archives and files of different ages never mix.
StoredIsServed ==
    SequenceWritten /\ pc # "down" => \A s \in SeqNo \ unsettled :
        StoredDigest(cs, archive, s) # None => served[s] \subseteq {StoredDigest(cs, archive, s)}

\* Why that is so, in a form that every step preserves: the counter of the
\* store and of the file is just above the marker, and what was recorded lies
\* below the sequence being committed, below the next one to issue and below
\* the counter on disk, which is what a recovery continues from.
CounterFollows(c) == c.marker # None => c.current = c.marker + 1

RecordedBelow(bound) == \A s \in SeqNo : recorded[s] # {} => s < bound

CommitHasDigest ==
    /\ closing => pc \in {"save", "write", "down"}
    /\ Committing => cs.marker \in SeqNo /\ cs.markerDigest \in Digest

RecordedOnce == \A s \in SeqNo : \A d, e \in recorded[s] : d = e

RecordedInv ==
    /\ CounterFollows(cs)
    /\ CounterFollows(sequenceFile)
    /\ SequenceWritten =>
         /\ pc # "write" => RecordedBelow(sequenceFile.current)
         /\ Committing => RecordedBelow(cs.marker)
         /\ ~Committing /\ pc # "down" => RecordedBelow(cs.current)
         /\ RecordedOnce

\* And what was answered is what was recorded, but for the commit under way.
ServedInv ==
    SequenceWritten => \A s \in SeqNo \ unsettled :
        served[s] \subseteq
            recorded[s] \cup {d \in {cs.markerDigest} : Committing /\ s = cs.marker}

\* Whatever the disk does to the two files, the store in memory is one the
\* commit path can continue from: the counter follows the marker, the ring
\* holds consecutive sequences that end at the marker, and the marker's digest
\* is the newest of the ring (advance and verifyCheckpoint rely on all three).
StoreCoherent ==
    IF cs.marker = None
    THEN cs.ring = << >>
    ELSE /\ cs.current = cs.marker + 1
         /\ cs.ring # << >>
         /\ cs.ring[Len(cs.ring)] = [seq |-> cs.marker, digest |-> cs.markerDigest]
         /\ \A i \in 1..Len(cs.ring) - 1 : cs.ring[i + 1].seq = cs.ring[i].seq + 1

\* What a recovery would find on disk; during the in-place rewrite, the
\* contents being written.
DurableDigest(s) ==
    StoredDigest(IF pc = "write" THEN cs ELSE Decode(sequenceFile), archiveFile, s)

\* (Only an environment without faults is compared: the constant history of
\* any other refines everything.)
DurableHistory ==
    [s \in {t \in SeqNo : faults = {} /\ DurableDigest(t) # None} |-> DurableDigest(s)]

Abstract == INSTANCE HardenedHistory
    WITH history <- DurableHistory, Capacity <- RingCap + ArchiveCap

\* The durable state implements the history that grows at the top and forgets
\* its oldest entry only when ring and archive are full: the archive file is
\* always written before the file that drops the same entry, so neither a crash
\* between the two nor a recovery from files of different ages loses a digest.
HistoryRefined == Abstract!Spec
=============================================================================
