---------------------------- MODULE WriteAheadLog ----------------------------
(***************************************************************************)
(* The write-ahead log of src/src/form/storage/WAL.zig as its clients see  *)
(* it: a file of records, and a buffer that has not reached the file.  A   *)
(* buffer whose write failed is gone, but current_offset still counts it,  *)
(* so the next write leaves a gap; a gap and a half-written record are     *)
(* both Damage, at which a replay stops and reports an error.              *)
(***************************************************************************)
EXTENDS Integers, Sequences, FiniteSets

CONSTANT FlushThreshold  \* records that fill the asynchronous buffer (64 KiB)

ASSUME ThresholdAssumption == FlushThreshold \in Nat \ {0}

Damage == [op |-> "damage"]

EmptyLog == [file |-> << >>, buffer |-> << >>, gap |-> FALSE]

\* The file once the first n buffered records have been written behind it.
Written(log, n) ==
    log.file \o (IF log.gap /\ n > 0 THEN <<Damage>> ELSE << >>)
             \o SubSeq(log.buffer, 1, n)

\* One positional write of the whole buffer and an fsync; the buffer is
\* reset before the write, whatever becomes of it.
FlushAsync(log, succeeds) ==
    IF log.buffer = << >> THEN log
    ELSE IF succeeds
         THEN [file |-> Written(log, Len(log.buffer)), buffer |-> << >>, gap |-> FALSE]
         ELSE [log EXCEPT !.buffer = << >>, !.gap = TRUE]

Full(log) == Len(log.buffer) >= FlushThreshold

\* Buffer a record, and flush when the threshold is reached.
AppendRecord(log, r, succeeds) ==
    LET buffered == [log EXCEPT !.buffer = Append(@, r)]
    IN [log |-> IF Full(buffered) THEN FlushAsync(buffered, succeeds) ELSE buffered,
        ok  |-> succeeds \/ ~Full(buffered)]

\* What a crash may leave: any number of the buffered records, the next one
\* perhaps in part.
CrashFiles(log) ==
    LET n == Len(log.buffer)
    IN {Written(log, k) : k \in 0 .. n}
         \cup {Written(log, k) \o <<Damage>> : k \in 0 .. n - 1}

Reopened(file) == [EmptyLog EXCEPT !.file = file]

\* The records a replay hands to its callback, and whether it ends without
\* having met damage.
Intact(file) ==
    LET bad == {i \in DOMAIN file : file[i] = Damage}
    IN IF bad = {} THEN file
       ELSE SubSeq(file, 1, (CHOOSE i \in bad : \A j \in bad : i <= j) - 1)

Undamaged(file) == Intact(file) = file
=============================================================================
