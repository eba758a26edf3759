------------------------- MODULE CheckpointSequence -------------------------
(***************************************************************************)
(* The operations of CheckpointSequence (src/src/form/storage/             *)
(* Checkpoint.zig): the counter of issued checkpoints, the hardened        *)
(* marker, and the bounded ring of hardened (sequence, digest) pairs whose *)
(* overflow its owner archives.                                            *)
(*                                                                         *)
(* The struct is a record and each method an operator from the record      *)
(* before the call to the record after it, so that the machine that calls  *)
(* the methods one by one (CheckpointApi) and the node that composes them  *)
(* (NodeCheckpoints) share one translation.                                *)
(***************************************************************************)
EXTENDS Naturals, Sequences, FiniteSets

CONSTANTS
    Digest,     \* checkpoint digests; only equality of two of them matters
    None,       \* the null of an optional
    RingCap,    \* slots of the hardened ring (8 in the source)
    ArchiveCap, \* entries the owner's archive keeps (4096)
    MaxSeq      \* maxInt of the sequence counter's type

ASSUME SequenceAssumption ==
    /\ RingCap \in Nat \ {0}
    /\ ArchiveCap \in Nat \ {0}
    /\ MaxSeq \in Nat \ {0}
    /\ None \notin Digest
    /\ None \notin Nat

SeqNo == 0..MaxSeq

Mark == [seq : SeqNo, digest : Digest]

Store ==
    [ current      : SeqNo,
      marker       : SeqNo \cup {None},
      markerDigest : Digest \cup {None},
      head         : Mark \cup {None},
      ring         : Seq(Mark),
      evicted      : Seq(Mark) ]

\* init()
EmptyStore ==
    [ current |-> 0, marker |-> None, markerDigest |-> None,
      head |-> None, ring |-> << >>, evicted |-> << >> ]

\* (mutant: room for one)
EvictedCapOne == 1

\* Slots for the digests that leave the ring in one call.
EvictedCap == 2

----------------------------------------------------------------------------
(* Look-ups.                                                              *)

Slots(cs, s) == {i \in DOMAIN cs.ring : cs.ring[i].seq = s}

\* ringDigest: the digest of a ring entry for s; the entries have distinct
\* sequences (RingSeqsDistinct below), so the first match is the only one.
RingDigest(cs, s) ==
    IF Slots(cs, s) = {} THEN None
    ELSE cs.ring[CHOOSE i \in Slots(cs, s) : TRUE].digest

\* storedDigest: the ring, then the archive, then the marker's own digest.
StoredDigest(cs, archive, s) ==
    IF RingDigest(cs, s) # None THEN RingDigest(cs, s)
    ELSE IF s \in DOMAIN archive THEN archive[s]
    ELSE IF cs.marker = s THEN cs.markerDigest
    ELSE None

HeadDigest(cs, s) ==
    IF cs.head # None /\ cs.head.seq = s THEN cs.head.digest ELSE None

\* verifyCheckpoint without its error: the checkpoint <<s, d, prev>> does not
\* rewrite history at or below the marker and chains from the marker.
Accepts(cs, archive, s, d, prev) ==
    cs.marker # None =>
        \/ /\ s <= cs.marker
           /\ d # None
           /\ StoredDigest(cs, archive, s) = d
        \/ /\ s > cs.marker
           /\ s = cs.marker + 1 /\ cs.markerDigest # None => prev = cs.markerDigest

----------------------------------------------------------------------------
(* Updates.                                                               *)

\* (mutant: one entry too many)
NoteDigestOverfull(cs, s, d) ==
    LET mark == [seq |-> s, digest |-> d] IN
    IF RingDigest(cs, s) # None THEN cs
    ELSE IF Len(cs.ring) <= RingCap
         THEN [cs EXCEPT !.ring = Append(@, mark)]
         ELSE [cs EXCEPT !.ring = Append(Tail(@), mark)]

\* (mutant: a sequence already in the ring gets a second slot)
NoteDigestAgain(cs, s, d) ==
    LET mark == [seq |-> s, digest |-> d] IN
    IF Len(cs.ring) < RingCap
    THEN [cs EXCEPT !.ring = Append(@, mark)]
    ELSE [cs EXCEPT !.ring = Append(Tail(@), mark),
                    !.evicted = IF Len(@) < EvictedCap
                                THEN Append(@, Head(cs.ring)) ELSE @]

\* noteHardenedDigest: first write wins; a full ring drops its oldest entry
\* into `evicted` while that has room.
NoteDigest(cs, s, d) ==
    LET mark == [seq |-> s, digest |-> d] IN
    IF RingDigest(cs, s) # None THEN cs
    ELSE IF Len(cs.ring) < RingCap
         THEN [cs EXCEPT !.ring = Append(@, mark)]
         ELSE [cs EXCEPT !.ring = Append(Tail(@), mark),
                         !.evicted = IF Len(@) < EvictedCap
                                     THEN Append(@, Head(cs.ring)) ELSE @]

\* (mutant: the marker takes the digest passed, not the one the ring kept)
HardenThroughNewDigest(cs, s, d) ==
    LET advancing == cs.marker = None \/ s > cs.marker
        moved == IF advancing THEN [cs EXCEPT !.marker = s] ELSE cs
    IN IF d = None THEN cs
       ELSE IF moved.marker = s
            THEN [NoteDigest(moved, s, d) EXCEPT !.markerDigest = d]
            ELSE NoteDigest(moved, s, d)

\* (mutant: the marker moves back as well as forward)
HardenThroughAnyway(cs, s, d) ==
    IF d = None THEN cs
    ELSE [NoteDigest(cs, s, d) EXCEPT !.marker = s, !.markerDigest = d]

\* hardenThrough(s, d); d = None is the null digest.
HardenThrough(cs, s, d) ==
    LET advancing == cs.marker = None \/ s > cs.marker
        noted == IF advancing /\ cs.marker # None /\ cs.markerDigest # None
                 THEN NoteDigest(cs, cs.marker, cs.markerDigest) ELSE cs
        moved == IF advancing THEN [noted EXCEPT !.marker = s] ELSE noted
        chosen == IF d # None THEN d ELSE HeadDigest(moved, s)
        kept == NoteDigest(moved, s, chosen)
    IN IF ~advancing /\ d = None THEN cs
       ELSE IF chosen # None
            THEN IF kept.marker = s
                 THEN [kept EXCEPT !.markerDigest = RingDigest(kept, s)]
                 ELSE kept
       ELSE [moved EXCEPT !.markerDigest = None]

\* rememberHead
RememberHead(cs, s, d) ==
    [cs EXCEPT !.head = [seq |-> s, digest |-> d],
               !.markerDigest = IF cs.marker = s THEN d ELSE @]

\* (mutant: no overflow check)
CanAdvancePastMax(cs) ==
    cs.marker # None => cs.current + 1 > cs.marker

\* advance() steps the counter unless it would overflow or land inside the
\* hardened prefix; the issued sequence is the counter before the step.
CanAdvance(cs) ==
    /\ cs.current < MaxSeq
    /\ cs.marker # None => cs.current + 1 > cs.marker

Advanced(cs) == [cs EXCEPT !.current = @ + 1]

----------------------------------------------------------------------------
(* The owner's archive (Node.retainEvictedHardenedDigests): drain the     *)
(* evicted slots, oldest first. A full archive makes room by dropping its *)
(* lowest sequence, unless the digest to keep lies at or below that one.  *)

Lowest(archive) ==
    CHOOSE s \in DOMAIN archive : \A t \in DOMAIN archive : s <= t

Keep(archive, dom, m) ==
    [t \in dom \cup {m.seq} |-> IF t \in dom THEN archive[t] ELSE m.digest]

RetainOne(archive, m) ==
    IF m.seq \in DOMAIN archive THEN archive
    ELSE IF Cardinality(DOMAIN archive) < ArchiveCap
         THEN Keep(archive, DOMAIN archive, m)
    ELSE IF m.seq <= Lowest(archive) THEN archive
    ELSE Keep(archive, DOMAIN archive \ {Lowest(archive)}, m)

Retain(archive, evicted) ==
    CASE Len(evicted) = 0 -> archive
      [] Len(evicted) = 1 -> RetainOne(archive, evicted[1])
      [] OTHER -> RetainOne(RetainOne(archive, evicted[1]), evicted[2])

Drained(cs) == [cs EXCEPT !.evicted = << >>]

----------------------------------------------------------------------------
(* The file format (save, encode, load, decode).                          *)

\* encode: without a marker only the counter is written.
Encode(cs) ==
    [ current |-> cs.current, marker |-> cs.marker,
      markerDigest |-> IF cs.marker = None THEN None ELSE cs.markerDigest,
      ring |-> IF cs.marker = None THEN << >> ELSE cs.ring ]

\* (mutant: the ring of a version 2 file is ignored)
DecodeNoRing(f) ==
    [ current |-> f.current, marker |-> f.marker,
      markerDigest |-> f.markerDigest,
      head |-> None, ring |-> << >>, evicted |-> << >> ]

\* decode: the head is rebuilt from the marker when its digest was written.
Decode(f) ==
    [ current |-> f.current, marker |-> f.marker,
      markerDigest |-> f.markerDigest,
      head |-> IF f.marker # None /\ f.markerDigest # None
               THEN [seq |-> f.marker, digest |-> f.markerDigest] ELSE None,
      ring |-> f.ring, evicted |-> << >> ]
=============================================================================
