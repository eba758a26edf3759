---------------------------- MODULE CheckpointApi ----------------------------
(***************************************************************************)
(* The checkpoint store driven through its public methods in any order     *)
(* and with any arguments, the way its callers and its tests may use it.   *)
(* Every call that hardens is followed by the owner's archiving of what    *)
(* left the ring, as Node does.                                            *)
(***************************************************************************)
EXTENDS CheckpointSequence

VARIABLES
    cs,      \* the CheckpointSequence
    archive  \* the owner's map of digests that fell out of the ring

vars == <<cs, archive>>

\* A store loaded from a version 1 file: a marker, perhaps its digest, no ring.
VersionOne(m, d, c) == Decode([current |-> c, marker |-> m, markerDigest |-> d, ring |-> << >>])

Init ==
    /\ cs \in {EmptyStore} \cup
              {VersionOne(m, d, c) : m \in SeqNo, d \in Digest \cup {None}, c \in SeqNo}
    /\ archive = << >>

\* advance()
Advance ==
    /\ CanAdvance(cs)
    /\ cs' = Advanced(cs)
    /\ UNCHANGED archive

\* next(checkpoint): no digest is passed, so nothing at or below the marker
\* is accepted.
NextCheckpoint(s, prev) ==
    /\ Accepts(cs, archive, s, None, prev)
    /\ s < MaxSeq
    /\ cs' = [cs EXCEPT !.current = s + 1]
    /\ UNCHANGED archive

\* hardenThrough(s, d), then the owner drains what was evicted.
Harden(s, d) ==
    LET hardened == HardenThrough(cs, s, d) IN
    /\ cs' = Drained(hardened)
    /\ archive' = Retain(archive, hardened.evicted)

\* setLatestSequence(s)
SetLatestSequence(s) ==
    /\ s # cs.current
    /\ cs.marker # None => s > cs.marker
    /\ cs' = [cs EXCEPT !.current = s,
                        !.head = IF @ # None /\ @.seq # s THEN None ELSE @]
    /\ UNCHANGED archive

\* loadCheckpoint and append: a replay at or below the marker only becomes
\* the head, a later one also moves the counter.
LoadCheckpoint(s, d, prev) ==
    /\ Accepts(cs, archive, s, d, prev)
    /\ cs' = IF cs.marker # None /\ s <= cs.marker
             THEN RememberHead(cs, s, d)
             ELSE RememberHead([cs EXCEPT !.current = s], s, d)
    /\ UNCHANGED archive

\* save then load of the same file; the archive has a file of its own.
Reopen ==
    /\ cs' = Decode(Encode(cs))
    /\ UNCHANGED archive

Next ==
    \/ Advance
    \/ \E s \in SeqNo, prev \in Digest : NextCheckpoint(s, prev)
    \/ \E s \in SeqNo, d \in Digest \cup {None} : Harden(s, d)
    \/ \E s \in SeqNo : SetLatestSequence(s)
    \/ \E s \in SeqNo, d \in Digest, prev \in Digest : LoadCheckpoint(s, d, prev)
    \/ Reopen

Spec == Init /\ [][Next]_vars

----------------------------------------------------------------------------
TypeOK ==
    /\ cs \in [ current : SeqNo, marker : SeqNo \cup {None},
                markerDigest : Digest \cup {None}, head : Mark \cup {None},
                ring : UNION {[1..n -> Mark] : n \in 0..RingCap},
                evicted : {<< >>} ]
    /\ DOMAIN archive \subseteq SeqNo
    /\ \A s \in DOMAIN archive : archive[s] \in Digest

\* No sequence holds two slots of the ring, whatever order of hardenings,
\* evictions and reloads: a second slot would let a later digest shadow, or
\* be shadowed by, the first (noteHardenedDigest, Checkpoint.zig:544).
RingSeqsDistinct ==
    \A i, j \in DOMAIN cs.ring : cs.ring[i].seq = cs.ring[j].seq => i = j

\* The marker's digest is stored twice, as hardened_digest and in the ring;
\* the two copies never disagree, so hardenedTip() and verifyCheckpoint(),
\* which read different copies, answer alike.
MarkerCopiesAgree ==
    cs.marker # None /\ RingDigest(cs, cs.marker) # None
        => cs.markerDigest = RingDigest(cs, cs.marker)

\* The hardened marker only moves forward, through every call and reload
\* ("Raise the hardened marker to max(current marker, seq)").
MarkerNeverRetreats ==
    [][cs.marker # None => cs'.marker # None /\ cs'.marker >= cs.marker]_vars

\* A stored digest is only ever forgotten from the bottom of a full archive:
\* neither a full ring, a second eviction in one call nor a reload loses a
\* digest while a lower one is still kept.
ForgetsOnlyOldest ==
    [][\A s \in SeqNo : StoredDigest(cs, archive, s) # None
            => \/ StoredDigest(cs', archive', s) # None
               \/ /\ Cardinality(DOMAIN archive') = ArchiveCap
                  /\ \A t \in DOMAIN archive' : s < t]_vars
=============================================================================
