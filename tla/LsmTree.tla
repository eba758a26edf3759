------------------------------- MODULE LsmTree -------------------------------
(***************************************************************************)
(* The log-structured merge tree of src/src/form/storage/LSMTree.zig: a    *)
(* memtable over a list of tables, every mutation logged first.  A tree is *)
(* a record; the operators return the tree an operation leaves and how it  *)
(* ended.  A content is a value, or None for a tombstone.                  *)
(***************************************************************************)
EXTENDS WriteAheadLog, SequencesExt, FiniteSetsExt

CONSTANTS
    Key, Value, None,
    ValueSize, TombstoneSize,  \* bytes of an entry: 24, the key and the value
    MemtableSize,      \* memtable_size
    MaxSequence,       \* the sequence number that is never issued (2^64 - 1)
    MaxLevels,         \* max_levels (7)
    LevelMultiplier,   \* level_multiplier (10)
    CompactAbove       \* tables a level may hold before it is merged (3)

ASSUME SizeAssumption ==
    /\ {ValueSize, TombstoneSize, MemtableSize} \subseteq Nat \ {0}
    /\ {MaxSequence, MaxLevels, CompactAbove} \subseteq Nat \ {0}
    /\ LevelMultiplier \in Nat \ {0, 1}

Content == Value \cup {None}

\* What fails during a mutation and during a compaction, if anything does.
WriteFaults == {"none", "wal", "table"}
CompactFaults == {"none", "compact_read", "compact_write"}

EmptyTree ==
    [log |-> EmptyLog,     \* wal
     mem |-> {},           \* memtable.entries, with their sequence numbers
     tables |-> << >>,     \* sstables, oldest first
     sequence |-> 0,
     leftovers |-> {}]     \* names of table files that no open table owns

EntrySize(content) == IF content = None THEN TombstoneSize ELSE ValueSize

Size(rows) ==
    LET tombstones == {r \in rows : r.content = None}
    IN Cardinality(tombstones) * TombstoneSize + Cardinality(rows \ tombstones) * ValueSize

----------------------------------------------------------------------------
(* Reading                                                                 *)

RowsOf(rows, k) == {r \in rows : r.key = k}

\* Rows are sorted by key and then by falling sequence, so the binary search
\* for the first row of a key finds its newest.
Newest(rows) == CHOOSE r \in rows : \A q \in rows : q.seq <= r.seq

ContentIn(rows) == IF rows = {} THEN None ELSE Newest(rows).content

\* get looks in the memtable, then in the tables from the last to the first,
\* and ends at the first that has rows of the key, tombstones included.
Lookup(tree, k) ==
    LET having == {i \in DOMAIN tree.tables : RowsOf(tree.tables[i].rows, k) # {}}
    IN IF RowsOf(tree.mem, k) # {} THEN RowsOf(tree.mem, k)
       ELSE IF having # {} THEN RowsOf(tree.tables[Max(having)].rows, k)
       ELSE {}

AllRows(tree) == tree.mem \cup UNION {t.rows : t \in Range(tree.tables)}

\* collectLive: the highest sequence of a key wins, wherever it is.
Latest(tree, k) == ContentIn(RowsOf(AllRows(tree), k))

----------------------------------------------------------------------------
(* Writing                                                                 *)

\* SSTable.open creates a file, or opens the one a previous life left under
\* the same name: its old index is kept and its records are written over.
Table(level, tree, rows) ==
    [level |-> level, name |-> <<level, tree.sequence>>, rows |-> rows,
     reopened |-> <<level, tree.sequence>> \in tree.leftovers]

(* (mutant: the log is truncated once the memtable is in a table)          *)
FlushMemtableTruncating(tree, fault) ==
    LET table == Table(0, tree, tree.mem)
    IN IF fault = "table"
       THEN [tree |-> [tree EXCEPT !.leftovers = @ \ {table.name}], end |-> "io"]
       ELSE [tree |-> [tree EXCEPT !.tables = Append(@, table), !.mem = {},
                                   !.log = EmptyLog],
             end |-> "ok"]

\* flushMemtable: the level is 0, as a memtable never outgrows MemtableSize.
\* A failed write removes the file and leaves the memtable as it was.
FlushMemtable(tree, fault) ==
    LET table == Table(0, tree, tree.mem)
    IN IF fault = "table"
       THEN [tree |-> [tree EXCEPT !.leftovers = @ \ {table.name}], end |-> "io"]
       ELSE [tree |-> [tree EXCEPT !.tables = Append(@, table), !.mem = {},
                                   !.leftovers = @ \ {table.name}],
             end |-> "ok"]

(* (mutant: the size before the insertion is compared)                     *)
FitsBefore(rows, content) == Size(rows) < MemtableSize

Fits(rows, content) == Size(rows) + EntrySize(content) <= MemtableSize

\* put and delete: log, take a sequence number, insert, and flush the
\* memtable when it is exactly full.  A mutation that finds no room has been
\* logged and has used its number.
Mutate(tree, k, content, fault) ==
    LET room == Fits(tree.mem, content)
        logged == AppendRecord(tree.log,
                      [key |-> k, content |-> content, applied |-> room],
                      fault # "wal")
        numbered == [tree EXCEPT !.log = logged.log, !.sequence = @ + 1]
        row == [key |-> k, content |-> content, seq |-> tree.sequence]
        inserted == [numbered EXCEPT !.mem = @ \cup {row}]
    IN IF tree.sequence = MaxSequence THEN [tree |-> tree, end |-> "overflow"]
       ELSE IF ~logged.ok
            THEN [tree |-> [tree EXCEPT !.log = logged.log], end |-> "io"]
       ELSE IF ~room THEN [tree |-> numbered, end |-> "full"]
       ELSE IF Size(inserted.mem) >= MemtableSize THEN FlushMemtable(inserted, fault)
       ELSE [tree |-> inserted, end |-> "ok"]

----------------------------------------------------------------------------
(* Compaction                                                              *)

AtLevel(tree, level) == {i \in DOMAIN tree.tables : tree.tables[i].level = level}

\* The members of s at some positions, in their order.
Kept(s, positions) ==
    LET nth(n) == CHOOSE i \in positions : Cardinality({j \in positions : j <= i}) = n
    IN [n \in 1 .. Cardinality(positions) |-> s[nth(n)]]

\* The tables of the other levels.
Others(tree, level) == Kept(tree.tables, DOMAIN tree.tables \ AtLevel(tree, level))

\* What compaction makes of a level: the newest row of every key.
Merged(tree, level) ==
    LET rows == UNION {tree.tables[i].rows : i \in AtLevel(tree, level)}
    IN {r \in rows : r = Newest(RowsOf(rows, r.key))}

\* getCompactionScore of some level reaches 1.
NeedsCompaction(tree) ==
    \E level \in 0 .. MaxLevels - 1 :
        Cardinality(AtLevel(tree, level)) >= (IF level = 0 THEN 2 ELSE LevelMultiplier)

(* (mutant: the merged table goes where the merged ones were)             *)
CompactInPlace(tree, level, fault) ==
    LET table == Table(level + 1, tree, Merged(tree, level))
    IN [tree |-> [tree EXCEPT
                     !.sequence = @ + 1,
                     !.tables = <<table>> \o Others(tree, level)],
        end |-> "ok"]

\* compact: the newest row of every key of a level goes to one table of the
\* next level, at the end of the list; the last level is left alone.  A write
\* that fails has used the name and leaves the file.
Compact(tree, level, fault) ==
    LET table == Table(level + 1, tree, Merged(tree, level))
    IN IF AtLevel(tree, level) = {} \/ level + 1 >= MaxLevels THEN [tree |-> tree, end |-> "ok"]
       ELSE IF fault = "compact_read" THEN [tree |-> tree, end |-> "io"]
       ELSE IF tree.sequence = MaxSequence THEN [tree |-> tree, end |-> "overflow"]
       ELSE IF fault = "compact_write"
            THEN [tree |-> [tree EXCEPT !.sequence = @ + 1,
                                        !.leftovers = @ \cup {table.name}],
                  end |-> "io"]
       ELSE [tree |-> [tree EXCEPT !.sequence = @ + 1,
                                   !.tables = Append(Others(tree, level), table),
                                   !.leftovers = @ \ {table.name}],
             end |-> "ok"]

\* What maybeCompact does at one level.
CompactIfCrowded(tree, level, fault) ==
    IF Cardinality(AtLevel(tree, level)) > CompactAbove THEN Compact(tree, level, fault)
    ELSE [tree |-> tree, end |-> "ok"]

----------------------------------------------------------------------------
(* Recovery                                                                *)

(* (mutant: tombstones are not replayed)                                   *)
ReplayedInserts(records) ==
    {[key |-> records[i].key, content |-> records[i].content, seq |-> i - 1]
        : i \in {j \in DOMAIN records : records[j].content # None}}

\* The rows a replay of these records would put into the memtable.
Replayed(records) ==
    {[key |-> records[i].key, content |-> records[i].content, seq |-> i - 1]
        : i \in DOMAIN records}

(* (mutant: a record the memtable has no room for is skipped)              *)
RecoversSkipping(file) == Undamaged(file) /\ Len(Intact(file)) <= MaxSequence

\* recoverFromDisk accepts a replay that met neither damage nor an error of
\* its callback: every record finds a sequence number and room in the one
\* memtable.  The tables on disk are not read.
Recovers(file) ==
    /\ Undamaged(file)
    /\ Size(Replayed(Intact(file))) <= MemtableSize
    /\ Len(Intact(file)) <= MaxSequence

Recovered(file, leftovers) ==
    [EmptyTree EXCEPT !.log = Reopened(file),
                      !.mem = Replayed(Intact(file)),
                      !.sequence = Len(Intact(file)),
                      !.leftovers = leftovers]

\* The table files on disk once the process is gone.
FilesLeft(tree) == tree.leftovers \cup {t.name : t \in Range(tree.tables)}
=============================================================================
