----------------------------- MODULE ObjectStore -----------------------------
(***************************************************************************)
(* The node's object store (src/src/form/storage/ObjectStore.zig): a       *)
(* write-back buffer over the tree of LsmTree, as one thread drives it,    *)
(* through crashes, clean shutdowns and restarts.  A call that moves       *)
(* several records is a sequence of steps, and a crash may come between    *)
(* any two.                                                                *)
(***************************************************************************)
EXTENDS LsmTree

CONSTANTS
    BufferThreshold,  \* write_buffer_threshold (64)
    CompactEvery,     \* mutations between two calls of maybeCompact (1000)
    Snapshots,        \* contents a state snapshot may carry
    MaxLog,           \* bound: records ever logged
    MaxMishaps        \* bound: failed writes and ended processes

ASSUME StoreAssumption ==
    /\ {BufferThreshold, CompactEvery} \subseteq Nat \ {0}
    /\ Snapshots \subseteq [Key -> Content]
    /\ \A s \in Snapshots : IsFiniteSet({k \in Key : s[k] # None})
    /\ {MaxLog, MaxMishaps} \subseteq Nat

VARIABLES
    status,     \* "up", "down" or "refused": recoverFromDisk failed
    tree,       \* lsm
    buffer,     \* write_buffer
    exhausted,  \* write_buffer_failed
    mutations,  \* mutation_count modulo CompactEvery
    call,       \* the call in progress, "idle" between calls
    level,      \* the level a compaction has come to
    todo,       \* what an import has left to write
    target,     \* the snapshot being imported
    behind,     \* history: a compaction of this life failed
    held,       \* history: the contents every key has been given
    answered,   \* history: the change the last step answered, and how
    mishaps     \* modelling bound: failures and ends so far

vars == <<status, tree, buffer, exhausted, mutations, call, level, todo, target, behind,
          held, answered, mishaps>>

Calls == {"idle", "compact", "flush", "import_flush", "import", "stop", "close"}

Init ==
    /\ status = "up"
    /\ tree = EmptyTree
    /\ buffer = << >>
    /\ exhausted = FALSE
    /\ mutations = 0
    /\ call = "idle"
    /\ level = 0
    /\ todo = << >>
    /\ target = [k \in Key |-> None]
    /\ behind = FALSE
    /\ held = [k \in Key |-> {None}]
    /\ answered = << >>
    /\ mishaps = 0

\* get: the newest buffered copy, and else the tree.
Overlay(k, below) ==
    LET copies == {i \in DOMAIN buffer : buffer[i].key = k}
    IN IF copies = {} THEN below ELSE buffer[Max(copies)].content

Get(k) == Overlay(k, ContentIn(Lookup(tree, k)))

Idle == status = "up" /\ call = "idle"

\* Modelling bound: no further mutation once the log holds MaxLog records, or
\* a buffer that cannot be flushed holds one entry more than its threshold.
Bounded ==
    /\ Len(tree.log.file) + Len(tree.log.buffer) < MaxLog
    /\ Len(buffer) <= BufferThreshold

\* The store has become unpredictable: a table was written over an old file.
Mixed == \E t \in Range(tree.tables) : t.reopened

\* A mishap is counted; Ending says whether the operation that ends in this
\* way may have been struck by the fault.
Mishap ==
    /\ mishaps < MaxMishaps
    /\ mishaps' = mishaps + 1

Ending(end, fault) ==
    IF fault = "none" THEN UNCHANGED mishaps ELSE end = "io" /\ Mishap

Answer(k, content, end) == answered' = <<k, content, end = "ok">>

NoAnswer == answered' = << >>

Noted(m) == (m + 1) % CompactEvery

\* What put and delete do last.
After(m) == IF m = 0 THEN "compact" ELSE "idle"

----------------------------------------------------------------------------
(* Calls of the node                                                       *)

\* put: buffer the object; at the threshold, flush.
Put(k, v) ==
    /\ Idle
    /\ Bounded
    /\ buffer' = Append(buffer, [key |-> k, content |-> v])
    /\ held' = [held EXCEPT ![k] = @ \cup {v}]
    /\ mutations' = Noted(mutations)
    /\ call' = IF Len(buffer') < BufferThreshold THEN After(mutations')
               ELSE IF exhausted THEN "idle" ELSE "flush"
    /\ Answer(k, v, "ok")
    /\ UNCHANGED <<status, tree, exhausted, todo, target, behind, mishaps, level>>

(* (mutant: buffered copies survive the delete of their key)               *)
DeleteKeepingCopies(k, fault) ==
    LET done == Mutate(tree, k, None, fault)
    IN /\ Idle
       /\ Bounded
       /\ tree' = done.tree
       /\ IF done.end = "ok"
          THEN /\ mutations' = Noted(mutations)
               /\ call' = After(mutations')
          ELSE UNCHANGED <<mutations, call>>
       /\ Ending(done.end, fault)
       /\ Answer(k, None, done.end)
       /\ UNCHANGED <<status, buffer, exhausted, todo, target, behind, held, level>>

\* delete: the tombstone first, the buffered copies only when it is in place.
Delete(k, fault) ==
    LET done == Mutate(tree, k, None, fault)
    IN /\ Idle
       /\ Bounded
       /\ tree' = done.tree
       /\ IF done.end = "ok"
          THEN /\ buffer' = Kept(buffer, {i \in DOMAIN buffer : buffer[i].key # k})
               /\ mutations' = Noted(mutations)
               /\ call' = After(mutations')
          ELSE UNCHANGED <<buffer, mutations, call>>
       /\ Ending(done.end, fault)
       /\ Answer(k, None, done.end)
       /\ UNCHANGED <<status, exhausted, todo, target, behind, held, level>>

\* importStateSnapshot and the shutdown both begin by flushing the buffer,
\* unless the sequence has run out: then the import fails and the shutdown
\* drops what is buffered.
ImportSnapshot(s) ==
    /\ Idle
    /\ Bounded
    /\ ~exhausted
    /\ target' = s
    /\ call' = "import_flush"
    /\ NoAnswer
    /\ UNCHANGED <<status, tree, buffer, exhausted, mutations, todo,
                   behind, held, mishaps, level>>

Deinit ==
    /\ Idle
    /\ mishaps < MaxMishaps
    /\ call' = IF exhausted THEN "close" ELSE "stop"
    /\ NoAnswer
    /\ UNCHANGED <<status, tree, buffer, exhausted, mutations, todo,
                   target, behind, held, mishaps, level>>

----------------------------------------------------------------------------
(* Their steps                                                             *)

Flushing == status = "up" /\ call \in {"flush", "import_flush", "stop"}

\* flushWriteBuffer moves the oldest entry; an error ends the call and keeps
\* the entry, and only a shutdown goes on after it.
FlushEntry(fault) ==
    LET done == Mutate(tree, Head(buffer).key, Head(buffer).content, fault)
    IN /\ Flushing
       /\ buffer # << >>
       /\ tree' = done.tree
       /\ IF done.end = "ok"
          THEN buffer' = Tail(buffer) /\ UNCHANGED <<exhausted, call>>
          ELSE /\ exhausted' = (exhausted \/ done.end = "overflow")
               /\ call' = IF call = "stop" THEN "close" ELSE "idle"
               /\ UNCHANGED buffer
       /\ Ending(done.end, fault)
       /\ NoAnswer
       /\ UNCHANGED <<status, mutations, todo, target, behind, held, level>>

\* The records that replace the store: tombstones for what is live, then the
\* snapshot's, each in the order of the keys.
Replacement ==
    LET live == SetToSeq({k \in Key : Latest(tree, k) # None})
        put == SetToSeq({k \in Key : target[k] # None})
    IN [i \in DOMAIN live |-> [key |-> live[i], content |-> None]]
         \o [i \in DOMAIN put |-> [key |-> put[i], content |-> target[put[i]]]]

(* (mutant: the import leaves alone what the snapshot does not name)       *)
FlushedMerging ==
    /\ Flushing
    /\ buffer = << >>
    /\ call' = CASE call = "flush" -> After(mutations)
                 [] call = "import_flush" -> "import"
                 [] call = "stop" -> "close"
    /\ todo' = IF call = "import_flush"
               THEN SelectSeq(Replacement, LAMBDA e : e.content # None) ELSE todo
    /\ NoAnswer
    /\ UNCHANGED <<status, tree, buffer, exhausted, mutations, target,
                   behind, held, mishaps, level>>

Flushed ==
    /\ Flushing
    /\ buffer = << >>
    /\ call' = CASE call = "flush" -> After(mutations)
                 [] call = "import_flush" -> "import"
                 [] call = "stop" -> "close"
    /\ todo' = IF call = "import_flush" THEN Replacement ELSE todo
    /\ NoAnswer
    /\ UNCHANGED <<status, tree, buffer, exhausted, mutations, target,
                   behind, held, mishaps, level>>

ImportRecord(fault) ==
    LET r == Head(todo)
        done == Mutate(tree, r.key, r.content, fault)
    IN /\ status = "up"
       /\ call = "import"
       /\ todo # << >>
       /\ Bounded
       /\ tree' = done.tree
       /\ held' = [held EXCEPT ![r.key] = @ \cup {Latest(done.tree, r.key)}]
       /\ IF done.end = "ok" THEN todo' = Tail(todo) /\ UNCHANGED call
          ELSE todo' = << >> /\ call' = "idle"
       /\ Ending(done.end, fault)
       /\ Answer(r.key, r.content, done.end)
       /\ UNCHANGED <<status, buffer, exhausted, mutations, target, behind, level>>

ImportDone ==
    /\ status = "up"
    /\ call = "import"
    /\ todo = << >>
    /\ call' = "idle"
    /\ NoAnswer
    /\ UNCHANGED <<status, tree, buffer, exhausted, mutations, todo,
                   target, behind, held, mishaps, level>>

\* maybeCompact: the levels in turn, up to the first error.
CompactStep(fault) ==
    LET done == CompactIfCrowded(tree, level, fault)
        over == level = MaxLevels - 1 \/ done.end # "ok"
    IN /\ status = "up"
       /\ call = "compact"
       /\ level = 0 => NeedsCompaction(tree)
       /\ tree' = done.tree
       /\ behind' = (behind \/ done.end # "ok")
       /\ level' = IF over THEN 0 ELSE level + 1
       /\ call' = IF over THEN "idle" ELSE call
       /\ Ending(done.end, fault)
       /\ NoAnswer
       /\ UNCHANGED <<status, buffer, exhausted, mutations, todo, target,
                      held>>

NothingToCompact ==
    /\ status = "up"
    /\ call = "compact"
    /\ level = 0
    /\ ~NeedsCompaction(tree)
    /\ call' = "idle"
    /\ NoAnswer
    /\ UNCHANGED <<status, tree, buffer, exhausted, mutations, level,
                   todo, target, behind, held, mishaps>>

----------------------------------------------------------------------------
(* The end of a life, and the next                                         *)

\* A process that ends leaves the log's file and the table files.
Gone(file) ==
    /\ status' = "down"
    /\ tree' = [EmptyTree EXCEPT !.log = Reopened(file), !.leftovers = FilesLeft(tree)]
    /\ buffer' = << >>
    /\ exhausted' = FALSE
    /\ mutations' = 0
    /\ call' = "idle"
    /\ level' = 0
    /\ todo' = << >>
    /\ target' = [k \in Key |-> None]
    /\ behind' = FALSE
    /\ NoAnswer
    /\ UNCHANGED held

\* The last step of deinit: the log flushes what it has buffered.
Close(fault) ==
    /\ status = "up"
    /\ call = "close"
    /\ Mishap
    /\ Gone(FlushAsync(tree.log, fault # "wal").file)

Crash ==
    /\ status = "up"
    /\ Mishap
    /\ \E file \in CrashFiles(tree.log) : Gone(file)

\* runStart: a replay that met an error ends the start.
Restart ==
    /\ status = "down"
    /\ IF Recovers(tree.log.file)
       THEN /\ status' = "up"
            /\ tree' = Recovered(tree.log.file, tree.leftovers)
       ELSE status' = "refused" /\ UNCHANGED tree
    /\ NoAnswer
    /\ UNCHANGED <<buffer, exhausted, mutations, call, todo, target,
                   behind, held, mishaps, level>>

Next ==
    /\ ~Mixed
    /\ \/ \E k \in Key, v \in Value : Put(k, v)
       \/ \E k \in Key, fault \in WriteFaults : Delete(k, fault)
       \/ \E s \in Snapshots : ImportSnapshot(s)
       \/ Deinit
       \/ \E fault \in WriteFaults : FlushEntry(fault)
       \/ Flushed
       \/ \E fault \in WriteFaults : ImportRecord(fault)
       \/ ImportDone
       \/ \E fault \in CompactFaults : CompactStep(fault)
       \/ NothingToCompact
       \/ \E fault \in {"none", "wal"} : Close(fault)
       \/ Crash
       \/ Restart

Spec == Init /\ [][Next]_vars

----------------------------------------------------------------------------
(* Properties                                                              *)

Row == [key : Key, content : Content, seq : 0 .. MaxSequence]

TableName == (0 .. MaxLevels - 1) \X (0 .. MaxSequence)

\* Every variable and every part of the tree has its type; in particular a
\* memtable never outgrows its size and numbers are never reused in a life.
TypeOK ==
    /\ status \in {"up", "down", "refused"}
    /\ tree.mem \subseteq Row
    /\ Size(tree.mem) <= MemtableSize
    /\ tree.sequence \in 0 .. MaxSequence
    /\ \A r \in AllRows(tree) : r.seq < tree.sequence
    /\ \A t \in Range(tree.tables) :
        t.name \in TableName /\ t.rows \in (SUBSET Row) \ {{}}
    /\ tree.leftovers \subseteq TableName
    /\ Len(tree.log.buffer) < FlushThreshold
    /\ exhausted \in BOOLEAN /\ behind \in BOOLEAN
    /\ mutations \in 0 .. CompactEvery - 1
    /\ call \in Calls
    /\ level \in 0 .. MaxLevels - 1
    /\ target \in [Key -> Content]
    /\ held \in [Key -> SUBSET Content]
    /\ answered \in {<< >>} \cup (Key \X Content \X BOOLEAN)
    /\ mishaps \in 0 .. MaxMishaps

\* What a caller finds: in the store while it is up, and else what a restart
\* would bring back; nothing from a log that the start refuses.
View(k) ==
    IF status = "up" THEN Overlay(k, Latest(tree, k))
    ELSE IF Recovers(tree.log.file)
         THEN ContentIn(RowsOf(Replayed(tree.log.file), k))
         ELSE None

Promise == INSTANCE KeyValue WITH up <- (status = "up"), dict <- [k \in Key |-> View(k)]

\* Buffer, memtable, tables, compaction, log and replay together are a map
\* that a call changes at its key and nothing else changes; a restart may
\* lose changes but never makes up a content.
ActsAsMap == Promise!Spec

\* get, which stops at the first table that knows a key, finds the row with
\* the highest sequence number, as collectLive does, as long as no compaction
\* has failed: a merged table goes to the end of the list, so that depends on
\* the levels below it being empty.
GetFindsLatest ==
    status = "up" /\ ~behind /\ ~Mixed =>
        \A k \in Key :
            RowsOf(AllRows(tree), k) # {} =>
                Newest(RowsOf(AllRows(tree), k)) \in Lookup(tree, k)

\* The log alone rebuilds the tree: replaying what is in the file and in the
\* buffer gives every key the content it has now, whatever has moved to
\* tables or been merged, unless a write to the log was lost or a mutation
\* was refused for room.
LogRebuildsTree ==
    LET all == Written(tree.log, Len(tree.log.buffer))
    IN status = "up" /\ ~tree.log.gap /\ Undamaged(all)
          /\ (\A i \in DOMAIN all : all[i].applied)
       => \A k \in Key : ContentIn(RowsOf(Replayed(all), k)) = Latest(tree, k)

\* A mutation that was logged but refused for want of room is not carried out
\* by a later replay: the memtable of the replay is as full, so the start
\* fails instead.
RefusedNeverReplayed ==
    status # "refused" /\ Recovers(tree.log.file) =>
        \A i \in DOMAIN tree.log.file : tree.log.file[i].applied

\* What one restart would replay, every later restart replays first: neither
\* a flush, a failed write, a crash nor a shutdown rewrites the log.
LogOnlyGrows ==
    [][IsPrefix(Intact(tree.log.file), Intact(tree'.log.file))]_vars

\* An import that ends well leaves the snapshot and nothing else.
ImportInstalls ==
    [][call = "import" /\ todo = << >> /\ ~Mixed /\ status' = "up" =>
          \A k \in Key : View(k) = target[k]]_vars
=============================================================================
