----------------------- MODULE NodeCheckpointsProofs -----------------------
(***************************************************************************)
(* Theorems about NodeCheckpoints, for every ring and archive size, every  *)
(* set of digests and every counter width: its types, what it serves, the  *)
(* shape of what it stores, the agreement of the two, and the refinement   *)
(* of HardenedHistory.                                                     *)
(***************************************************************************)
EXTENDS NodeCheckpoints, FiniteSetTheorems, WellFoundedInduction, TLAPS

----------------------------------------------------------------------------
(* Facts about the operators of CheckpointSequence.                        *)

\* A look-up in the ring gives a digest or None, and a digest when the sequence
\* has a slot.
LEMMA RingDigestType ==
    ASSUME NEW c \in Store, NEW s
    PROVE  /\ RingDigest(c, s) \in Digest \cup {None}
           /\ Slots(c, s) # {} => RingDigest(c, s) \in Digest
<1>1. CASE Slots(c, s) = {}
  BY <1>1 DEF RingDigest
<1>2. CASE Slots(c, s) # {}
  <2> DEFINE i == CHOOSE j \in Slots(c, s) : TRUE
  <2>1. i \in Slots(c, s)
    BY <1>2
  <2>2. i \in DOMAIN c.ring
    BY <2>1 DEF Slots
  <2>3. c.ring[i] \in Mark
    BY <2>2 DEF Store
  <2>4. RingDigest(c, s) = c.ring[i].digest
    BY <1>2 DEF RingDigest
  <2> QED
    BY <2>3, <2>4 DEF Mark
<1> QED
  BY <1>1, <1>2

\* Noting a digest touches the ring and the evicted slots only, and the
\* sequence has a slot afterwards.
LEMMA NoteDigestFacts ==
    ASSUME NEW c \in Store, NEW s \in SeqNo, NEW d \in Digest
    PROVE  LET n == NoteDigest(c, s, d) IN
           /\ n \in Store
           /\ n.current = c.current
           /\ n.marker = c.marker
           /\ n.markerDigest = c.markerDigest
           /\ Slots(n, s) # {}
<1> DEFINE mark == [seq |-> s, digest |-> d]
           n == NoteDigest(c, s, d)
<1>0. mark \in Mark /\ mark.seq = s
  BY DEF Mark
<1>1. CASE RingDigest(c, s) # None
  BY <1>1 DEF NoteDigest, RingDigest
<1>2. CASE RingDigest(c, s) = None /\ Len(c.ring) < RingCap
  <2> DEFINE r == Append(c.ring, mark)
  <2>1. n = [c EXCEPT !.ring = r, !.evicted = c.evicted]
    BY <1>2 DEF NoteDigest, Store
  <2>2. c.ring \in Seq(Mark) /\ c.evicted \in Seq(Mark)
    BY DEF Store
  <2>3. r \in Seq(Mark)
    BY <1>0, <2>2
  <2>4. /\ n \in Store /\ n.current = c.current /\ n.marker = c.marker
        /\ n.markerDigest = c.markerDigest /\ n.ring = r
    <3> HIDE DEF r, n
    <3> QED
      BY <2>1, <2>2, <2>3 DEF Store
  <2>5. Len(c.ring) + 1 \in DOMAIN n.ring /\ n.ring[Len(c.ring) + 1] = mark
    BY <1>0, <2>2, <2>4
  <2>6. Len(c.ring) + 1 \in Slots(n, s)
    BY <2>5, <1>0 DEF Slots
  <2> QED
    BY <2>4, <2>6
<1>3. CASE RingDigest(c, s) = None /\ ~(Len(c.ring) < RingCap)
  <2> DEFINE e == IF Len(c.evicted) < EvictedCap
                  THEN Append(c.evicted, Head(c.ring)) ELSE c.evicted
             r == Append(Tail(c.ring), mark)
  <2>1. n = [c EXCEPT !.ring = r, !.evicted = e]
    BY <1>3 DEF NoteDigest
  <2>2. c.ring \in Seq(Mark) /\ c.evicted \in Seq(Mark) /\ c.ring # << >>
    BY <1>3, SequenceAssumption DEF Store
  <2>3. Head(c.ring) \in Mark /\ Tail(c.ring) \in Seq(Mark)
    BY <2>2
  <2>4. e \in Seq(Mark) /\ r \in Seq(Mark)
    BY <1>0, <2>2, <2>3
  <2>5. /\ n \in Store /\ n.current = c.current /\ n.marker = c.marker
        /\ n.markerDigest = c.markerDigest /\ n.ring = r
    <3> HIDE DEF r, e, n
    <3> QED
      BY <2>1, <2>4 DEF Store
  <2>6. Len(Tail(c.ring)) + 1 \in DOMAIN n.ring /\ n.ring[Len(Tail(c.ring)) + 1] = mark
    BY <1>0, <2>3, <2>5
  <2>7. Len(Tail(c.ring)) + 1 \in Slots(n, s)
    BY <2>6, <1>0 DEF Slots
  <2> QED
    BY <2>5, <2>7
<1> QED
  BY <1>1, <1>2, <1>3

\* Hardening the issued sequence, above any marker, moves the marker there and
\* gives it a digest; the counter stays.
LEMMA HardenFacts ==
    ASSUME NEW c \in Store, NEW s \in SeqNo, NEW d \in Digest,
           c.marker = None \/ s > c.marker
    PROVE  LET h == HardenThrough(c, s, d) IN
           /\ h \in Store
           /\ h.current = c.current
           /\ h.marker = s
           /\ h.markerDigest \in Digest
<1> DEFINE noted == IF c.marker # None /\ c.markerDigest # None
                    THEN NoteDigest(c, c.marker, c.markerDigest) ELSE c
           moved == [noted EXCEPT !.marker = s]
           kept == NoteDigest(moved, s, d)
<1>1. noted \in Store /\ noted.current = c.current
  BY NoteDigestFacts DEF Store
<1>2. moved \in Store /\ moved.current = c.current /\ moved.marker = s
  BY <1>1 DEF Store
<1> HIDE DEF moved
<1>3. /\ kept \in Store /\ kept.current = c.current /\ kept.marker = s
      /\ Slots(kept, s) # {}
  BY <1>2, NoteDigestFacts
<1>4. RingDigest(kept, s) \in Digest
  BY <1>3, RingDigestType
<1>5. d # None
  BY SequenceAssumption
<1>6. HardenThrough(c, s, d) = [kept EXCEPT !.markerDigest = RingDigest(kept, s)]
  <2>1. kept.marker = s
    BY <1>3
  <2> QED
    BY <1>5, <2>1 DEF HardenThrough, moved
<1> HIDE DEF kept
<1> QED
  BY <1>3, <1>4, <1>6 DEF Store

\* Archiving one digest, in a full archive or not, keeps the archive a map from
\* sequences to digests.
LEMMA RetainOneType ==
    ASSUME NEW archive0, ArchiveOK(archive0), NEW m \in Mark
    PROVE  ArchiveOK(RetainOne(archive0, m))
<1>1. m.seq \in SeqNo /\ m.digest \in Digest
  BY DEF Mark
<1>2. ASSUME NEW dom, dom \subseteq DOMAIN archive0
      PROVE  ArchiveOK(Keep(archive0, dom, m))
  BY <1>1, <1>2 DEF ArchiveOK, Keep
<1>3. /\ ArchiveOK(Keep(archive0, DOMAIN archive0, m))
      /\ ArchiveOK(Keep(archive0, DOMAIN archive0 \ {Lowest(archive0)}, m))
  BY <1>2
<1> QED
  BY <1>3 DEF RetainOne

\* So does archiving whatever the evicted slots hold.
LEMMA RetainType ==
    ASSUME NEW archive0, ArchiveOK(archive0), NEW evicted \in Seq(Mark)
    PROVE  ArchiveOK(Retain(archive0, evicted))
<1>1. CASE Len(evicted) = 0
  BY <1>1 DEF Retain
<1>2. CASE Len(evicted) = 1
  <2>1. evicted[1] \in Mark
    BY <1>2
  <2> QED
    BY <1>2, <2>1, RetainOneType DEF Retain
<1>3. CASE Len(evicted) \notin {0, 1}
  <2> DEFINE n == Len(evicted)
  <2>1. n \in Nat
    OBVIOUS
  <2>2. n # 0 /\ n # 1
    BY <1>3
  <2>3. 1 \in 1..n /\ 2 \in 1..n
    <3> HIDE DEF n
    <3> QED
      BY <2>1, <2>2
  <2>4. 1 \in DOMAIN evicted /\ 2 \in DOMAIN evicted
    BY <2>3
  <2>5. evicted[1] \in Mark /\ evicted[2] \in Mark
    BY <2>4
  <2>6. Retain(archive0, evicted) = RetainOne(RetainOne(archive0, evicted[1]), evicted[2])
    BY <1>3 DEF Retain
  <2>7. ArchiveOK(RetainOne(archive0, evicted[1]))
    BY <2>5, RetainOneType
  <2> QED
    BY <2>5, <2>6, <2>7, RetainOneType
<1> QED
  BY <1>1, <1>2, <1>3

\* A marker that has a digest is always answered with a digest, whichever copy
\* the look-up finds first.
LEMMA StoredDigestType ==
    ASSUME NEW c \in Store, NEW archive0, ArchiveOK(archive0), NEW s,
           c.marker = s, c.markerDigest \in Digest
    PROVE  StoredDigest(c, archive0, s) \in Digest
BY RingDigestType DEF StoredDigest, ArchiveOK

\* The contents a save can leave, and what loading contents gives.
LEMMA FileFacts ==
    /\ Blank \in FileContents /\ Blank.marker = None
    /\ \A c \in Store :
          /\ Encode(c) \in FileContents
          /\ Encode(c).current = c.current
          /\ Encode(c).marker = c.marker
          /\ \A f \in TornContents(c) : f \in FileContents /\ f.marker = None
    /\ \A f \in FileContents :
          /\ Decode(f) \in Store
          /\ Decode(f).current = f.current
          /\ Decode(f).marker = f.marker
<1>1. EmptyStore \in Store /\ EmptyStore.marker = None
  BY SequenceAssumption DEF EmptyStore, Store, SeqNo
<1>2. ASSUME NEW c \in Store
      PROVE  /\ Encode(c) \in FileContents
             /\ Encode(c).current = c.current
             /\ Encode(c).marker = c.marker
  BY DEF Encode, FileContents, Store
<1>3. Blank \in FileContents /\ Blank.marker = None
  BY <1>1, <1>2 DEF Blank
<1>4. ASSUME NEW c \in Store, NEW f \in TornContents(c)
      PROVE  f \in FileContents /\ f.marker = None
  BY <1>3 DEF TornContents, FileContents, Store
<1>5. ASSUME NEW f \in FileContents
      PROVE  /\ Decode(f) \in Store
             /\ Decode(f).current = f.current
             /\ Decode(f).marker = f.marker
  BY DEF Decode, FileContents, Store, Mark
<1> QED
  BY <1>2, <1>3, <1>4, <1>5

----------------------------------------------------------------------------
(* The invariants.                                                         *)

\* Draining the evicted slots leaves the rest of the store.
LEMMA DrainedFacts ==
    ASSUME NEW c \in Store
    PROVE  /\ Drained(c) \in Store
           /\ Drained(c).current = c.current
           /\ Drained(c).marker = c.marker
           /\ Drained(c).markerDigest = c.markerDigest
<1>1. << >> \in Seq(Mark)
  OBVIOUS
<1> QED
  BY <1>1 DEF Drained, Store

\* The types, with what makes the digest served at the end of a commit one.
TypeInv == TypeOK /\ CommitHasDigest

\* A commit issues the sequence at the counter and hardens exactly that one.
LEMMA CommitFacts ==
    ASSUME TypeInv, CounterFollows(cs), NEW d \in Digest, RecordQuorumCheckpoint(d)
    PROVE  /\ cs' \in Store
           /\ cs'.marker = cs.current
           /\ cs'.current = cs.current + 1
           /\ cs'.markerDigest \in Digest
           /\ ArchiveOK(archive)'
<1> DEFINE adv == Advanced(cs)
           after == HardenThrough(adv, cs.current, d)
<1>1. cs \in Store /\ cs.current \in SeqNo /\ cs.current < MaxSeq
  BY DEF TypeInv, TypeOK, Store, RecordQuorumCheckpoint, CanAdvance
<1>2. cs.current \in Nat /\ cs.current + 1 \in SeqNo
  BY <1>1, SequenceAssumption DEF SeqNo
<1>3. adv \in Store /\ adv.current = cs.current + 1 /\ adv.marker = cs.marker
  BY <1>1, <1>2 DEF Advanced, Store
<1>4. adv.marker = None \/ cs.current > adv.marker
  BY <1>1, <1>2, <1>3 DEF CounterFollows, Store, SeqNo
<1> HIDE DEF adv
<1>5. /\ after \in Store /\ after.current = cs.current + 1
      /\ after.marker = cs.current /\ after.markerDigest \in Digest
  BY <1>1, <1>3, <1>4, HardenFacts
<1>6. cs' = Drained(after) /\ archive' = Retain(archive, after.evicted)
  BY DEF RecordQuorumCheckpoint, adv
<1> HIDE DEF after
<1>7. after.evicted \in Seq(Mark)
  BY <1>5 DEF Store
<1>8. ArchiveOK(archive)'
  BY <1>6, <1>7, RetainType DEF TypeInv, TypeOK
<1> QED
  BY <1>5, <1>6, <1>8, DrainedFacts

\* Ending a save keeps the history typed.
LEMMA SaveEndsType ==
    ASSUME TypeInv, pc \in {"save", "write"}, SaveEnds
    PROVE  /\ recorded' \in [SeqNo -> SUBSET Digest]
           /\ pc' \in {"idle", "down"}
           /\ pc' = "idle" => ~closing
<1>1. CASE closing
  BY <1>1 DEF SaveEnds, TypeInv, TypeOK
<1>2. CASE ~closing
  <2>1. cs.marker \in SeqNo /\ cs.markerDigest \in Digest
    BY <1>2 DEF TypeInv, CommitHasDigest, Committing
  <2>2. StoredDigest(cs, archive, cs.marker) \in Digest
    BY <2>1, StoredDigestType DEF TypeInv, TypeOK
  <2> QED
    BY <1>2, <2>1, <2>2 DEF SaveEnds, TypeInv, TypeOK
<1> QED
  BY <1>1, <1>2

\* A step is one of the node or leaves everything but the look-ups alone.
LEMMA StepKinds == [Next]_vars => NodeStep \/ UNCHANGED nodeVars
BY DEF Next, vars, Answer, AnswerRacing

\* Whatever is answered is a digest.
LEMMA AnswerType ==
    ASSUME TypeInv, [Next]_vars
    PROVE  served' \in [SeqNo -> SUBSET Digest] /\ unsettled' \subseteq SeqNo
<1> USE DEF TypeInv, TypeOK
<1>1. ASSUME NEW s \in SeqNo, Answer(s)
      PROVE  served' \in [SeqNo -> SUBSET Digest] /\ unsettled' \subseteq SeqNo
  <2>1. StoredDigest(cs, archive, s) \in Digest \cup {None}
    BY RingDigestType DEF StoredDigest, ArchiveOK, Store
  <2>2. StoredDigest(cs, archive, s) \in Digest
    BY <1>1, <2>1 DEF Answer
  <2> QED
    BY <1>1, <2>2 DEF Answer
<1>2. ASSUME NEW s \in SeqNo, AnswerRacing(s)
      PROVE  served' \in [SeqNo -> SUBSET Digest] /\ unsettled' \subseteq SeqNo
  BY <1>2 DEF AnswerRacing
<1>3. CASE Crash
  BY <1>3 DEF Crash
<1>4. CASE UNCHANGED clients
  BY <1>4 DEF clients
<1>5. CASE NodeStep /\ ~Crash
  BY <1>4, <1>5 DEF NodeStep, RecordQuorumCheckpoint, WriteArchive, TruncateSequence, SkipSave,
                   WriteSequence, Shutdown, Recover
<1> QED
  BY <1>1, <1>2, <1>3, <1>4, <1>5 DEF Next, vars

\* A node that starts on an empty data directory satisfies both invariants.
LEMMA InitInv == Init => TypeInv /\ RecordedInv
<1> SUFFICES ASSUME Init PROVE TypeInv /\ RecordedInv
  OBVIOUS
<1>1. EmptyStore \in Store /\ EmptyStore.marker = None
  BY SequenceAssumption DEF EmptyStore, Store, SeqNo
<1>2. TypeInv
  <2>1. ArchiveOK(<< >>)
    BY DEF ArchiveOK
  <2>2. faults \subseteq FaultKinds
    BY FaultAssumption DEF Init
  <2>3. /\ recorded \in [SeqNo -> SUBSET Digest] /\ served \in [SeqNo -> SUBSET Digest]
        /\ unsettled \subseteq SeqNo
    BY DEF Init
  <2> QED
    BY <1>1, <2>1, <2>2, <2>3, FileFacts DEF Init, TypeInv, TypeOK, CommitHasDigest, Committing
<1>3. RecordedInv
  BY <1>1, FileFacts
     DEF Init, RecordedInv, CounterFollows, RecordedBelow, Committing, RecordedOnce
<1> QED
  BY <1>2, <1>3

\* Every step keeps the types; the bound on the counter needs that it follows
\* the marker.
LEMMA TypeStep == TypeInv /\ CounterFollows(cs) /\ [Next]_vars => TypeInv'
<1> SUFFICES ASSUME TypeInv, CounterFollows(cs), [Next]_vars PROVE TypeInv'
  OBVIOUS
<1>0. served' \in [SeqNo -> SUBSET Digest] /\ unsettled' \subseteq SeqNo
  BY AnswerType
<1> USE DEF TypeInv
<1>1. ASSUME NEW d \in Digest, RecordQuorumCheckpoint(d) PROVE TypeInv'
  <2>1. /\ cs' \in Store /\ cs'.marker \in SeqNo /\ cs'.markerDigest \in Digest
        /\ ArchiveOK(archive)'
    BY <1>1, CommitFacts DEF TypeOK, Store
  <2> QED
    BY <1>0, <1>1, <2>1 DEF RecordQuorumCheckpoint, TypeOK, CommitHasDigest, Committing
<1>2. CASE WriteArchive
  BY <1>0, <1>2 DEF WriteArchive, TypeOK, ArchiveOK, CommitHasDigest, Committing
<1>3. CASE TruncateSequence
  BY <1>0, <1>3, FileFacts DEF TruncateSequence, TypeOK, ArchiveOK, CommitHasDigest, Committing
<1>4. CASE SkipSave
  BY <1>0, <1>4, SaveEndsType DEF SkipSave, TypeOK, ArchiveOK, CommitHasDigest, Committing
<1>5. CASE WriteSequence
  <2>1. sequenceFile' \in FileContents
    BY <1>5, FileFacts DEF WriteSequence, TypeOK
  <2> QED
    BY <1>0, <1>5, <2>1, SaveEndsType DEF WriteSequence, TypeOK, ArchiveOK, CommitHasDigest, Committing
<1>6. CASE Shutdown
  BY <1>0, <1>6 DEF Shutdown, TypeOK, ArchiveOK, CommitHasDigest, Committing
<1>7. CASE Crash
  <2>1. sequenceFile' \in FileContents
    BY <1>7, FileFacts DEF Crash, TypeOK
  <2> QED
    BY <1>0, <1>7, <2>1 DEF Crash, TypeOK, ArchiveOK, CommitHasDigest, Committing
<1>8. CASE Recover
  BY <1>0, <1>8, FileFacts DEF Recover, TypeOK, ArchiveOK, CommitHasDigest, Committing
<1>9. CASE UNCHANGED nodeVars
  BY <1>0, <1>9 DEF nodeVars, TypeOK, ArchiveOK, CommitHasDigest, Committing
<1> QED
  BY StepKinds, <1>1, <1>2, <1>3, <1>4, <1>5, <1>6, <1>7, <1>8, <1>9 DEF NodeStep

\* Every step keeps what was recorded below what will be issued next, in memory
\* and on disk.
LEMMA RecordedStep == TypeInv /\ RecordedInv /\ [Next]_vars => RecordedInv'
<1> SUFFICES ASSUME TypeInv, RecordedInv, [Next]_vars PROVE RecordedInv'
  OBVIOUS
<1>0. /\ cs \in Store /\ sequenceFile \in FileContents
      /\ cs.current \in Nat /\ sequenceFile.current \in Nat
      /\ recorded \in [SeqNo -> SUBSET Digest] /\ SeqNo \subseteq Nat
  BY DEF TypeInv, TypeOK, Store, FileContents, SeqNo
<1> USE DEF RecordedInv, RecordedBelow, Committing, SequenceWritten, RecordedOnce
<1>1. ASSUME NEW d \in Digest, RecordQuorumCheckpoint(d) PROVE RecordedInv'
  <2>1. /\ cs' \in Store /\ cs'.marker = cs.current /\ cs'.current = cs.current + 1
    BY <1>1, CommitFacts
  <2>2. /\ pc = "idle" /\ pc' \in {"archive", "save"} /\ ~closing
        /\ UNCHANGED <<faults, sequenceFile, closing, recorded>>
    BY <1>1 DEF RecordQuorumCheckpoint, TypeInv, CommitHasDigest
  <2>3. CounterFollows(cs)' /\ CounterFollows(sequenceFile)'
    BY <2>1, <2>2 DEF CounterFollows
  <2> QED
    BY <1>0, <2>1, <2>2, <2>3
<1>2. CASE WriteArchive
  BY <1>2 DEF WriteArchive, CounterFollows
<1>3. CASE TruncateSequence
  <2>1. CounterFollows(cs)' /\ CounterFollows(sequenceFile)'
    BY <1>3, FileFacts DEF TruncateSequence, CounterFollows
  <2> QED
    BY <1>3, <2>1 DEF TruncateSequence
<1>4. CASE SkipSave
  <2>1. CounterFollows(cs)' /\ CounterFollows(sequenceFile)'
    BY <1>4 DEF SkipSave, CounterFollows
  <2>2. ~SequenceWritten'
    BY <1>4 DEF SkipSave
  <2> QED
    BY <2>1, <2>2
<1>5. CASE WriteSequence
  <2>1. CounterFollows(cs)'
    BY <1>5 DEF WriteSequence, CounterFollows
  <2>2. CounterFollows(sequenceFile)'
    BY <1>0, <1>5, FileFacts DEF WriteSequence, CounterFollows
  <2>3. ASSUME SequenceWritten'
        PROVE  /\ pc' # "write" => RecordedBelow(sequenceFile.current)'
               /\ Committing' => RecordedBelow(cs.marker)'
               /\ ~Committing' /\ pc' # "down" => RecordedBelow(cs.current)'
               /\ RecordedOnce'
    <3>1. sequenceFile'.current = cs.current /\ UNCHANGED <<cs, closing>> /\ SequenceWritten
      BY <1>0, <1>5, <2>3, FileFacts DEF WriteSequence
    <3>2. CASE closing
      BY <1>5, <2>3, <3>1, <3>2 DEF WriteSequence, SaveEnds
    <3>3. CASE ~closing
      <4>1. /\ pc' = "idle"
            /\ recorded' = [recorded EXCEPT ![cs.marker] =
                             @ \cup {StoredDigest(cs, archive, cs.marker)}]
        BY <1>5, <3>3 DEF WriteSequence, SaveEnds
      <4>2. cs.marker \in SeqNo /\ cs.current = cs.marker + 1
        BY <1>5, <3>3, SequenceAssumption
           DEF WriteSequence, TypeInv, CommitHasDigest, CounterFollows, SeqNo
      <4>3. \A s \in SeqNo : recorded[s] # {} => s < cs.marker
        BY <1>5, <3>1, <3>3 DEF WriteSequence
      <4>4. recorded[cs.marker] = {}
        <5>1. \A n \in Nat : ~(n < n)
          OBVIOUS
        <5>2. cs.marker \in Nat
          BY <1>0, <4>2, Zenon
        <5> QED
          BY <4>2, <4>3, <5>1, <5>2, Zenon
      <4>5. /\ recorded'[cs.marker] = {StoredDigest(cs, archive, cs.marker)}
            /\ \A s \in SeqNo : s # cs.marker => recorded'[s] = recorded[s]
        BY <1>0, <4>1, <4>2, <4>4
      <4>6. \A s \in SeqNo : recorded'[s] # {} => s < cs.current
        <5>1. ASSUME NEW s \in SeqNo, recorded'[s] # {} PROVE s = cs.marker \/ s < cs.marker
          BY <4>3, <4>5, <5>1
        <5>2. \A m, s \in Nat : s = m \/ s < m => s < m + 1
          OBVIOUS
        <5>3. cs.marker \in Nat
          BY <1>0, <4>2, Zenon
        <5> QED
          BY <1>0, <4>2, <5>1, <5>2, <5>3, ZenonT(30)
      <4>7. RecordedOnce'
        BY <3>1, <4>5
      <4> QED
        BY <3>1, <3>3, <4>1, <4>6, <4>7
    <3> QED
      BY <3>2, <3>3
  <2> QED
    BY <2>1, <2>2, <2>3
<1>6. CASE Shutdown
  BY <1>6 DEF Shutdown, CounterFollows, TypeInv, CommitHasDigest
<1>7. CASE Crash
  <2>1. CounterFollows(cs)' /\ CounterFollows(sequenceFile)'
    BY <1>0, <1>7, FileFacts DEF Crash, CounterFollows
  <2> QED
    BY <1>7, <2>1 DEF Crash
<1>8. CASE Recover
  <2>1. CounterFollows(cs)' /\ CounterFollows(sequenceFile)'
    BY <1>0, <1>8, FileFacts DEF Recover, CounterFollows
  <2>2. cs'.current = sequenceFile.current
    BY <1>0, <1>8, FileFacts DEF Recover
  <2> QED
    BY <1>8, <2>1, <2>2 DEF Recover
<1>9. CASE UNCHANGED nodeVars
  BY <1>9 DEF nodeVars, CounterFollows
<1> QED
  BY StepKinds, <1>1, <1>2, <1>3, <1>4, <1>5, <1>6, <1>7, <1>8, <1>9 DEF NodeStep

\* The store, the files and the history keep their types through every fault,
\* crash and recovery.
THEOREM TypeCorrect == Spec => []TypeOK
<1>1. TypeInv /\ RecordedInv /\ [Next]_vars => (TypeInv /\ RecordedInv)'
  BY TypeStep, RecordedStep DEF RecordedInv
<1> QED
  BY InitInv, <1>1, PTL DEF Spec, TypeInv

----------------------------------------------------------------------------
(* The shape of a store, and of the contents of sequence.bin.              *)

\* StoreCoherent in closed form: entry i lies Len - i below the marker.
Consecutive(c) ==
    \A i \in 1..Len(c.ring) : c.ring[i].seq + Len(c.ring) = c.marker + i

Coherent(c) ==
    /\ c.marker = None => c.ring = << >>
    /\ c.marker # None =>
         /\ c.current = c.marker + 1
         /\ Len(c.ring) \in 1..RingCap
         /\ Consecutive(c)
         /\ c.ring[Len(c.ring)].digest = c.markerDigest

\* The ring of a coherent store holds the sequences just below its counter.
LEMMA RingRange ==
    ASSUME NEW c, c.ring \in Seq(Mark), c.marker \in SeqNo, Coherent(c)
    PROVE  /\ Len(c.ring) \in Nat \ {0}
           /\ \A i \in 1..Len(c.ring) :
                  /\ c.ring[i] \in Mark
                  /\ c.ring[i].seq \in SeqNo
                  /\ c.ring[i].digest \in Digest
                  /\ c.ring[i].seq = c.marker + i - Len(c.ring)
                  /\ c.ring[i].seq <= c.marker
           /\ c.ring[Len(c.ring)].seq = c.marker
           /\ c.markerDigest \in Digest
<1>0. c.marker \in Nat /\ c.marker # None
  BY SequenceAssumption DEF SeqNo
<1>1. Len(c.ring) \in Nat \ {0}
  BY <1>0, SequenceAssumption DEF Coherent
<1>2. ASSUME NEW i \in 1..Len(c.ring)
      PROVE  /\ c.ring[i] \in Mark
             /\ c.ring[i].seq \in SeqNo
             /\ c.ring[i].digest \in Digest
             /\ c.ring[i].seq = c.marker + i - Len(c.ring)
             /\ c.ring[i].seq <= c.marker
  <2>1. c.ring[i] \in Mark
    OBVIOUS
  <2>2. c.ring[i].seq \in SeqNo /\ c.ring[i].digest \in Digest
    BY <2>1 DEF Mark
  <2>3. c.ring[i].seq + Len(c.ring) = c.marker + i
    BY <1>0 DEF Coherent, Consecutive
  <2>4. c.ring[i].seq \in Nat
    BY <2>2 DEF SeqNo
  <2>5. i \in Nat /\ i <= Len(c.ring)
    BY <1>1
  <2>6. \A a, b, m, l \in Nat : a + l = m + b /\ b <= l => a = m + b - l /\ a <= m
    OBVIOUS
  <2>7. c.ring[i].seq = c.marker + i - Len(c.ring) /\ c.ring[i].seq <= c.marker
    BY <1>0, <1>1, <2>3, <2>4, <2>5, <2>6
  <2> QED
    BY <2>1, <2>2, <2>7
<1>3. Len(c.ring) \in 1..Len(c.ring)
  BY <1>1
<1>4. c.ring[Len(c.ring)].seq = c.marker
  BY <1>0, <1>1, <1>2, <1>3
<1>5. c.markerDigest \in Digest
  BY <1>0, <1>2, <1>3 DEF Coherent
<1> QED
  BY <1>1, <1>2, <1>4, <1>5

\* Its look-up finds the one slot of a sequence, if there is one.
LEMMA RingLookup ==
    ASSUME NEW c, c.ring \in Seq(Mark), c.marker \in SeqNo, Coherent(c)
    PROVE  /\ \A i \in 1..Len(c.ring) :
                  RingDigest(c, c.ring[i].seq) = c.ring[i].digest
           /\ \A s : (\A i \in 1..Len(c.ring) : c.ring[i].seq # s)
                         => RingDigest(c, s) = None
<1>0. c.marker \in Nat
  BY DEF SeqNo
<1>1. DOMAIN c.ring = 1..Len(c.ring)
  OBVIOUS
<1>2. ASSUME NEW i \in 1..Len(c.ring)
      PROVE  RingDigest(c, c.ring[i].seq) = c.ring[i].digest
  <2>1. i \in Slots(c, c.ring[i].seq)
    BY <1>1 DEF Slots
  <2>2. ASSUME NEW j \in Slots(c, c.ring[i].seq) PROVE j = i
    <3>1. j \in 1..Len(c.ring) /\ c.ring[j].seq = c.ring[i].seq
      BY <1>1 DEF Slots
    <3>2. /\ c.ring[i].seq = c.marker + i - Len(c.ring)
          /\ c.ring[j].seq = c.marker + j - Len(c.ring)
      BY <3>1, RingRange
    <3> QED
      BY <1>0, <3>1, <3>2
  <2>3. (CHOOSE j \in Slots(c, c.ring[i].seq) : TRUE) = i
    BY <2>1, <2>2
  <2> QED
    BY <2>1, <2>3 DEF RingDigest
<1>3. ASSUME NEW s, \A i \in 1..Len(c.ring) : c.ring[i].seq # s
      PROVE  RingDigest(c, s) = None
  BY <1>1, <1>3 DEF RingDigest, Slots
<1> QED
  BY <1>2, <1>3

\* The ring of a store without a marker finds nothing.
LEMMA EmptyLookup ==
    ASSUME NEW c, c.marker = None, Coherent(c), NEW s
    PROVE  RingDigest(c, s) = None
BY DEF Coherent, RingDigest, Slots

\* What a commit makes of a coherent store: the new mark at the end of the
\* ring, and the oldest evicted when the ring was full.
Pushed(c, d) ==
    IF Len(c.ring) < RingCap THEN Append(c.ring, [seq |-> c.current, digest |-> d])
    ELSE Append(Tail(c.ring), [seq |-> c.current, digest |-> d])

Evicts(c) == IF Len(c.ring) < RingCap THEN << >> ELSE <<Head(c.ring)>>

\* Entries the ring loses at its front.
Shift(c) == IF Len(c.ring) < RingCap THEN 0 ELSE 1

LEMMA PushedFacts ==
    ASSUME NEW c \in Store, Coherent(c), NEW d \in Digest
    PROVE  /\ Pushed(c, d) \in Seq(Mark)
           /\ Len(Pushed(c, d)) = Len(c.ring) + 1 - Shift(c)
           /\ Len(Pushed(c, d)) \in 1..RingCap
           /\ Pushed(c, d)[Len(Pushed(c, d))] = [seq |-> c.current, digest |-> d]
           /\ \A i \in 1..Len(Pushed(c, d)) - 1 :
                  /\ i + Shift(c) \in 1..Len(c.ring)
                  /\ Pushed(c, d)[i] = c.ring[i + Shift(c)]
<1> DEFINE mark == [seq |-> c.current, digest |-> d]
           r == Pushed(c, d)
<1>1. /\ c.ring \in Seq(Mark) /\ mark \in Mark /\ Len(c.ring) \in 0..RingCap
      /\ RingCap \in Nat \ {0} /\ Len(c.ring) \in Nat
  BY SequenceAssumption DEF Store, Mark, Coherent
<1>2. CASE Len(c.ring) < RingCap
  <2>1. r = Append(c.ring, mark) /\ Shift(c) = 0
    BY <1>2 DEF Pushed, Shift
  <2> HIDE DEF r, mark
  <2> QED
    BY <1>1, <1>2, <2>1 DEF r, mark
<1>3. CASE ~(Len(c.ring) < RingCap)
  <2>1. c.ring # << >> /\ Len(c.ring) = RingCap
    BY <1>1, <1>3
  <2>2. r = Append(Tail(c.ring), mark) /\ Shift(c) = 1
    BY <1>3 DEF Pushed, Shift
  <2>3. /\ Tail(c.ring) \in Seq(Mark) /\ Len(Tail(c.ring)) = Len(c.ring) - 1
        /\ \A i \in 1..Len(Tail(c.ring)) : Tail(c.ring)[i] = c.ring[i + 1]
    BY <1>1, <2>1
  <2> HIDE DEF r, mark
  <2>4. /\ r \in Seq(Mark) /\ Len(r) = Len(c.ring) /\ r[Len(r)] = mark
        /\ \A i \in 1..Len(r) - 1 : r[i] = Tail(c.ring)[i]
    BY <1>1, <2>1, <2>2, <2>3
  <2> QED
    BY <1>1, <2>1, <2>2, <2>3, <2>4 DEF r, mark
<1> QED
  BY <1>2, <1>3

LEMMA CommitShape ==
    ASSUME NEW c \in Store, Coherent(c), c.evicted = << >>, c.current + 1 \in SeqNo,
           NEW d \in Digest
    PROVE  HardenThrough(Advanced(c), c.current, d) =
               [ current |-> c.current + 1, marker |-> c.current, markerDigest |-> d,
                 head |-> c.head, ring |-> Pushed(c, d), evicted |-> Evicts(c) ]
<1> DEFINE s == c.current
           adv == Advanced(c)
           mark == [seq |-> s, digest |-> d]
           moved == [adv EXCEPT !.marker = s]
           kept == NoteDigest(moved, s, d)
           result == [ current |-> s + 1, marker |-> s, markerDigest |-> c.markerDigest,
                       head |-> c.head, ring |-> Pushed(c, d), evicted |-> Evicts(c) ]
<1>0. /\ s \in Nat /\ s \in SeqNo /\ d # None /\ None \notin Nat
      /\ c.ring \in Seq(Mark) /\ c.marker \in SeqNo \cup {None}
  BY SequenceAssumption DEF Store, SeqNo
<1>1. /\ adv = [c EXCEPT !.current = s + 1] /\ adv \in Store
      /\ adv.ring = c.ring /\ adv.marker = c.marker /\ adv.markerDigest = c.markerDigest
      /\ adv.evicted = << >> /\ adv.head = c.head /\ adv.current = s + 1
  BY <1>0 DEF Advanced, Store
<1>2. \A t : RingDigest(adv, t) = RingDigest(c, t) /\ RingDigest(moved, t) = RingDigest(c, t)
  BY <1>1 DEF RingDigest, Slots, Store
<1>3. c.marker # None => c.marker \in Nat /\ s = c.marker + 1
  BY <1>0 DEF Coherent, SeqNo
<1>4. adv.marker = None \/ s > adv.marker
  BY <1>0, <1>1, <1>3
<1>5. c.marker # None => NoteDigest(adv, adv.marker, adv.markerDigest) = adv
  <2> SUFFICES ASSUME c.marker # None PROVE RingDigest(c, c.marker) # None
    BY <1>1, <1>2 DEF NoteDigest
  <2>1. c.marker \in SeqNo
    BY <1>0
  <2>2. /\ Len(c.ring) \in 1..Len(c.ring) /\ c.ring[Len(c.ring)].seq = c.marker
        /\ c.ring[Len(c.ring)].digest \in Digest
    BY <1>0, <2>1, RingRange
  <2>3. RingDigest(c, c.marker) = c.ring[Len(c.ring)].digest
    BY <1>0, <2>1, <2>2, RingLookup
  <2> QED
    BY <2>2, <2>3, SequenceAssumption
<1>6. RingDigest(moved, s) = None
  <2>1. CASE c.marker = None
    BY <1>2, <2>1, EmptyLookup
  <2>2. CASE c.marker # None
    <3>1. \A i \in 1..Len(c.ring) : c.ring[i].seq <= c.marker /\ c.ring[i].seq \in SeqNo
      BY <1>0, <2>2, RingRange
    <3>2. \A i \in 1..Len(c.ring) : c.ring[i].seq # s
      BY <1>3, <2>2, <3>1 DEF SeqNo
    <3> QED
      BY <1>0, <1>2, <2>2, <3>2, RingLookup
  <2> QED
    BY <2>1, <2>2
<1>7. /\ moved.ring = c.ring /\ moved.marker = s /\ moved.current = s + 1
      /\ moved.evicted = << >> /\ moved.head = c.head /\ moved.markerDigest = c.markerDigest
      /\ moved = [ current |-> s + 1, marker |-> s, markerDigest |-> c.markerDigest,
                   head |-> c.head, ring |-> c.ring, evicted |-> << >> ]
  <2>1. adv = [ current |-> s + 1, marker |-> c.marker, markerDigest |-> c.markerDigest,
                head |-> c.head, ring |-> c.ring, evicted |-> << >> ]
    BY <1>0, <1>1 DEF Store
  <2> HIDE DEF adv
  <2> QED
    BY <2>1
<1>8. kept = result
  <2>1. Len(moved.evicted) < EvictedCap /\ Append(moved.evicted, Head(c.ring)) = <<Head(c.ring)>>
    <3> HIDE DEF moved
    <3>1. moved.evicted = << >>
      BY <1>7
    <3>2. Len(<< >>) = 0 /\ Append(<< >>, Head(c.ring)) = <<Head(c.ring)>>
      OBVIOUS
    <3> QED
      BY <3>1, <3>2 DEF EvictedCap
  <2> HIDE DEF moved
  <2>2. CASE Len(c.ring) < RingCap
    BY <1>6, <1>7, <2>2 DEF NoteDigest, Pushed, Evicts
  <2>3. CASE ~(Len(c.ring) < RingCap)
    BY <1>6, <1>7, <2>1, <2>3 DEF NoteDigest, Pushed, Evicts
  <2> QED
    BY <2>2, <2>3
<1>9. RingDigest(kept, s) = d
  <2> DEFINE r == Pushed(c, d)
  <2>1. /\ r \in Seq(Mark) /\ Len(r) \in Nat \ {0} /\ r[Len(r)] = mark
        /\ \A i \in 1..Len(r) - 1 : r[i].seq # s
    <3>1. \A i \in 1..Len(c.ring) : c.ring[i].seq # s
      <4>1. CASE c.marker = None
        BY <4>1 DEF Coherent
      <4>2. CASE c.marker # None
        <5>1. \A i \in 1..Len(c.ring) : c.ring[i].seq <= c.marker /\ c.ring[i].seq \in SeqNo
          BY <1>0, <4>2, RingRange
        <5> QED
          BY <1>3, <4>2, <5>1 DEF SeqNo
      <4> QED
        BY <4>1, <4>2
    <3> QED
      BY <3>1, PushedFacts
  <2>2. Slots(kept, s) = {Len(r)}
    <3>1. kept.ring = r
      BY <1>8
    <3> HIDE DEF r, kept, result
    <3> QED
      BY <2>1, <3>1 DEF Slots
  <2>3. kept.ring[Len(r)].digest = d
    BY <1>8, <2>1
  <2> HIDE DEF kept, r
  <2> QED
    BY <2>2, <2>3 DEF RingDigest
<1>10. HardenThrough(adv, s, d) = [kept EXCEPT !.markerDigest = d]
  <2>1. kept.marker = s
    BY <1>8
  <2> HIDE DEF kept, result
  <2> DEFINE noted == IF adv.marker # None /\ adv.markerDigest # None
                      THEN NoteDigest(adv, adv.marker, adv.markerDigest) ELSE adv
  <2>2. noted = adv
    BY <1>1, <1>5
  <2> QED
    BY <1>0, <1>4, <1>9, <2>1, <2>2 DEF HardenThrough, kept
<1> QED
  BY <1>8, <1>10

\* The store a commit leaves has the shape again.
LEMMA CommitCoherent ==
    ASSUME NEW c \in Store, Coherent(c), NEW d \in Digest, NEW n,
           n.marker = c.current, n.current = c.current + 1, n.markerDigest = d,
           n.ring = Pushed(c, d)
    PROVE  Coherent(n)
<1>1. /\ c.current \in Nat /\ c.current # None /\ Len(c.ring) \in Nat
      /\ RingCap \in Nat \ {0} /\ c.ring \in Seq(Mark)
      /\ c.marker \in SeqNo \cup {None} /\ SeqNo \subseteq Nat
  BY SequenceAssumption DEF Store, SeqNo
<1> DEFINE r == Pushed(c, d)
<1>0. /\ n.ring = r
      /\ r \in Seq(Mark) /\ Len(r) = Len(c.ring) + 1 - Shift(c) /\ Len(r) \in 1..RingCap
      /\ r[Len(r)] = [seq |-> c.current, digest |-> d]
      /\ \A i \in 1..Len(r) - 1 :
            /\ i + Shift(c) \in 1..Len(c.ring)
            /\ r[i] = c.ring[i + Shift(c)]
      /\ Shift(c) \in Nat
  BY PushedFacts DEF Shift
<1> HIDE DEF r
<1>2. ASSUME NEW i \in 1..Len(n.ring) PROVE n.ring[i].seq + Len(n.ring) = n.marker + i
  <2>1. CASE i = Len(n.ring)
    <3>1. n.ring[i].seq = c.current
      BY <1>0, <2>1
    <3> QED
      BY <1>0, <1>1, <2>1, <3>1
  <2>2. CASE i # Len(n.ring)
    <3>1. i \in 1..Len(r) - 1
      BY <1>0, <1>1, <2>2
    <3>2. /\ i + Shift(c) \in 1..Len(c.ring)
          /\ n.ring[i] = c.ring[i + Shift(c)]
          /\ Len(n.ring) = Len(c.ring) + 1 - Shift(c)
      BY <1>0, <3>1
    <3>3. c.marker # None
      <4>1. c.marker = None => Len(c.ring) = 0
        BY DEF Coherent
      <4> QED
        BY <1>1, <3>2, <4>1
    <3>4. c.marker \in SeqNo
      BY <1>1, <3>3
    <3>5. c.ring[i + Shift(c)].seq = c.marker + (i + Shift(c)) - Len(c.ring)
      BY <1>1, <3>2, <3>4, RingRange
    <3>6. c.current = c.marker + 1
      BY <3>3 DEF Coherent
    <3>7. Shift(c) \in Nat /\ i \in Nat /\ c.marker \in Nat
      <4>1. c.marker \in Nat
        BY <1>1, <3>4, Zenon
      <4>2. Len(n.ring) \in 1..RingCap
        BY <1>0, Zenon
      <4>3. Len(n.ring) \in Nat
        BY <1>1, <4>2
      <4>4. i \in Nat
        BY <4>3
      <4> QED
        BY <1>0, <4>1, <4>4, Zenon
    <3>8. n.ring[i].seq = c.marker + (i + Shift(c)) - Len(c.ring)
      BY <3>2, <3>5
    <3> DEFINE m == c.marker
               k == Shift(c)
               l == Len(c.ring)
               x == n.ring[i].seq
               y == Len(n.ring)
               z == n.marker
    <3>9. /\ m \in Nat /\ i \in Nat /\ k \in Nat /\ l \in Nat
          /\ x = m + (i + k) - l /\ y = l + 1 - k /\ z = m + 1
      BY <1>1, <3>2, <3>6, <3>7, <3>8
    <3> HIDE DEF m, k, l, x, y, z
    <3>10. x + y = z + i
      BY <3>9
    <3> QED
      BY <3>10 DEF x, y, z
  <2> QED
    BY <2>1, <2>2
<1>3. n.ring[Len(n.ring)].digest = d /\ Len(n.ring) \in 1..RingCap
  BY <1>0
<1> QED
  BY <1>1, <1>2, <1>3 DEF Coherent, Consecutive

----------------------------------------------------------------------------
(* Coherence is an invariant.                                              *)

CoherenceInv == Coherent(cs) /\ Coherent(sequenceFile) /\ cs.evicted = << >>

LEMMA CounterFromCoherence == CoherenceInv => CounterFollows(cs) /\ CounterFollows(sequenceFile)
BY DEF CoherenceInv, Coherent, CounterFollows

\* What a commit does to memory, in full.
LEMMA CommitEffect ==
    ASSUME TypeInv, CoherenceInv, NEW d \in Digest, RecordQuorumCheckpoint(d)
    PROVE  /\ cs' = [ current |-> cs.current + 1, marker |-> cs.current, markerDigest |-> d,
                      head |-> cs.head, ring |-> Pushed(cs, d), evicted |-> << >> ]
           /\ archive' = IF Len(cs.ring) < RingCap THEN archive
                         ELSE RetainOne(archive, Head(cs.ring))
           /\ cs.current \in SeqNo /\ cs.current + 1 \in SeqNo
           /\ cs' \in Store /\ Coherent(cs')
<1>1. cs \in Store /\ cs.current \in SeqNo /\ cs.current < MaxSeq
  BY DEF TypeInv, TypeOK, Store, RecordQuorumCheckpoint, CanAdvance
<1>2. cs.current + 1 \in SeqNo
  BY <1>1, SequenceAssumption DEF SeqNo
<1>3. Coherent(cs) /\ cs.evicted = << >>
  BY DEF CoherenceInv
<1> DEFINE after == HardenThrough(Advanced(cs), cs.current, d)
<1>4. after = [ current |-> cs.current + 1, marker |-> cs.current, markerDigest |-> d,
                head |-> cs.head, ring |-> Pushed(cs, d), evicted |-> Evicts(cs) ]
  BY <1>1, <1>2, <1>3, CommitShape
<1>5. cs' = Drained(after) /\ archive' = Retain(archive, after.evicted)
  BY DEF RecordQuorumCheckpoint
<1> HIDE DEF after
<1>6. cs' = [ current |-> cs.current + 1, marker |-> cs.current, markerDigest |-> d,
              head |-> cs.head, ring |-> Pushed(cs, d), evicted |-> << >> ]
  BY <1>4, <1>5 DEF Drained
<1>7. archive' = IF Len(cs.ring) < RingCap THEN archive
                 ELSE RetainOne(archive, Head(cs.ring))
  <2>1. after.evicted = Evicts(cs)
    BY <1>4
  <2>2. Len(<< >>) = 0 /\ \A x : Len(<<x>>) = 1 /\ <<x>>[1] = x
    OBVIOUS
  <2> QED
    BY <1>5, <2>1, <2>2 DEF Evicts, Retain
<1>8. cs' \in Store
  BY <1>1, <1>2, <1>3, <1>6, PushedFacts DEF Store
<1>9. Coherent(cs')
  BY <1>1, <1>3, <1>6, CommitCoherent
<1> QED
  BY <1>1, <1>2, <1>6, <1>7, <1>8, <1>9

LEMMA InitCoherent == Init => CoherenceInv
BY DEF Init, CoherenceInv, Coherent, EmptyStore, Blank, Encode

LEMMA CoherenceStep == TypeInv /\ CoherenceInv /\ [Next]_vars => CoherenceInv'
<1> SUFFICES ASSUME TypeInv, CoherenceInv, [Next]_vars PROVE CoherenceInv'
  OBVIOUS
<1>0. cs \in Store /\ sequenceFile \in FileContents
  BY DEF TypeInv, TypeOK
<1>1. ASSUME NEW d \in Digest, RecordQuorumCheckpoint(d) PROVE CoherenceInv'
  <2>1. Coherent(cs') /\ cs'.evicted = << >>
    BY <1>1, CommitEffect
  <2>2. UNCHANGED sequenceFile
    BY <1>1 DEF RecordQuorumCheckpoint
  <2> QED
    BY <2>1, <2>2 DEF CoherenceInv
<1>2. Coherent(Blank) /\ \A f \in TornContents(cs) : Coherent(f)
  BY DEF Blank, TornContents, Encode, EmptyStore, Coherent
<1>3. Coherent(Encode(cs))
  BY <1>0 DEF CoherenceInv, Coherent, Consecutive, Encode
<1>4. Coherent(Decode(sequenceFile)) /\ Decode(sequenceFile).evicted = << >>
  BY <1>0 DEF CoherenceInv, Coherent, Consecutive, Decode
<1>5. CASE WriteArchive
  BY <1>5 DEF WriteArchive, CoherenceInv
<1>6. CASE TruncateSequence
  BY <1>2, <1>6 DEF TruncateSequence, CoherenceInv
<1>7. CASE SkipSave
  BY <1>7 DEF SkipSave, CoherenceInv
<1>8. CASE WriteSequence
  BY <1>2, <1>3, <1>8 DEF WriteSequence, CoherenceInv
<1>9. CASE Shutdown
  BY <1>9 DEF Shutdown, CoherenceInv
<1>10. CASE Crash
  BY <1>2, <1>10 DEF Crash, CoherenceInv
<1>11. CASE Recover
  BY <1>4, <1>11 DEF Recover, CoherenceInv
<1>12. CASE UNCHANGED nodeVars
  BY <1>12 DEF nodeVars, CoherenceInv
<1> QED
  BY StepKinds, <1>1, <1>5, <1>6, <1>7, <1>8, <1>9, <1>10, <1>11, <1>12 DEF NodeStep

\* The closed form gives the invariant of the runs.
LEMMA CoherentIsStoreCoherent == TypeInv /\ CoherenceInv => StoreCoherent
<1> SUFFICES ASSUME TypeInv, CoherenceInv, cs.marker # None
             PROVE  /\ cs.current = cs.marker + 1
                    /\ cs.ring # << >>
                    /\ cs.ring[Len(cs.ring)] = [seq |-> cs.marker, digest |-> cs.markerDigest]
                    /\ \A i \in 1..Len(cs.ring) - 1 :
                           cs.ring[i + 1].seq = cs.ring[i].seq + 1
  BY DEF StoreCoherent, CoherenceInv, Coherent
<1>1. cs.ring \in Seq(Mark) /\ cs.marker \in SeqNo /\ Coherent(cs)
  BY DEF TypeInv, TypeOK, Store, CoherenceInv
<1>2. Len(cs.ring) \in Nat \ {0} /\ cs.marker \in Nat
  BY <1>1, RingRange DEF SeqNo
<1>3. Len(cs.ring) \in 1..Len(cs.ring)
  BY <1>2
<1>4. cs.ring[Len(cs.ring)] = [seq |-> cs.marker, digest |-> cs.markerDigest]
  BY <1>1, <1>3, RingRange DEF Coherent, Mark
<1>5. ASSUME NEW i \in 1..Len(cs.ring) - 1 PROVE cs.ring[i + 1].seq = cs.ring[i].seq + 1
  <2>1. i \in 1..Len(cs.ring) /\ i + 1 \in 1..Len(cs.ring)
    BY <1>2
  <2>2. /\ cs.ring[i].seq = cs.marker + i - Len(cs.ring)
        /\ cs.ring[i + 1].seq = cs.marker + (i + 1) - Len(cs.ring)
    BY <1>1, <2>1, RingRange
  <2>4. i \in Nat /\ Len(cs.ring) \in Nat
    BY <1>2
  <2> DEFINE m == cs.marker
             l == Len(cs.ring)
             x == cs.ring[i].seq
             y == cs.ring[i + 1].seq
  <2>5. m \in Nat /\ l \in Nat /\ i \in Nat /\ x = m + i - l /\ y = m + (i + 1) - l
    BY <1>2, <2>2, <2>4
  <2> HIDE DEF m, l, x, y
  <2>6. y = x + 1
    BY <2>5
  <2> QED
    BY <2>6 DEF x, y
<1> QED
  BY <1>1, <1>2, <1>4, <1>5 DEF Coherent

\* Whatever the disk does to the two files, the counter follows the marker, the
\* ring holds consecutive sequences that end at it and the marker's digest is
\* the newest of the ring.
THEOREM StoreCoherentAlways == Spec => []StoreCoherent
<1>1. TypeInv /\ CoherenceInv /\ [Next]_vars => (TypeInv /\ CoherenceInv)'
  BY TypeStep, CoherenceStep, CounterFromCoherence
<1> QED
  BY InitInv, InitCoherent, <1>1, CoherentIsStoreCoherent, PTL DEF Spec

----------------------------------------------------------------------------
(* What is stored is what was recorded.                                      *)

RingRecorded(c) == \A i \in 1..Len(c.ring) : recorded[c.ring[i].seq] = {c.ring[i].digest}

\* All but the newest entry.
OlderRecorded(c) == \A i \in 1..Len(c.ring) - 1 : recorded[c.ring[i].seq] = {c.ring[i].digest}

ArchiveRecorded(m) == \A s \in DOMAIN m : recorded[s] = {m[s]}

TruthInv ==
    SequenceWritten =>
      /\ ArchiveRecorded(archiveFile)
      /\ pc # "write" => RingRecorded(sequenceFile)
      /\ pc # "down" => ArchiveRecorded(archive)
      /\ pc # "down" /\ Committing => OlderRecorded(cs)
      /\ pc # "down" /\ ~Committing => RingRecorded(cs)

\* The three invariants so far.
ShapeInv == TypeInv /\ CoherenceInv /\ RecordedInv

LEMMA ShapeInit == Init => ShapeInv
BY InitInv, InitCoherent DEF ShapeInv

LEMMA ShapeStep == ShapeInv /\ [Next]_vars => ShapeInv'
BY TypeStep, CoherenceStep, RecordedStep, CounterFromCoherence DEF ShapeInv

\* Archiving a digest that was recorded.
LEMMA RetainRecorded ==
    ASSUME NEW a0, ArchiveRecorded(a0), NEW m, recorded[m.seq] = {m.digest}
    PROVE  ArchiveRecorded(RetainOne(a0, m))
<1>1. ASSUME NEW dom, dom \subseteq DOMAIN a0 PROVE ArchiveRecorded(Keep(a0, dom, m))
  BY <1>1 DEF ArchiveRecorded, Keep
<1> QED
  BY <1>1 DEF RetainOne

\* The look-up of a coherent store finds the marker's digest.
LEMMA MarkerLookup ==
    ASSUME NEW c \in Store, NEW a0, Coherent(c), c.marker \in SeqNo
    PROVE  StoredDigest(c, a0, c.marker) = c.markerDigest
<1>1. /\ c.ring \in Seq(Mark) /\ Len(c.ring) \in 1..Len(c.ring)
      /\ c.ring[Len(c.ring)].seq = c.marker /\ c.markerDigest \in Digest
      /\ c.ring[Len(c.ring)].digest = c.markerDigest
  <2>1. c.ring \in Seq(Mark) /\ c.marker # None
    BY SequenceAssumption DEF Store, SeqNo
  <2>2. Len(c.ring) \in Nat \ {0}
    BY <2>1, RingRange
  <2> QED
    BY <2>1, <2>2, RingRange DEF Coherent
<1>2. RingDigest(c, c.marker) = c.markerDigest
  BY <1>1, RingLookup
<1> QED
  BY <1>1, <1>2, SequenceAssumption DEF StoredDigest

\* The entries below the newest lie below the marker.
LEMMA OlderBelow ==
    ASSUME NEW c \in Store, Coherent(c), c.marker \in SeqNo,
           NEW i \in 1..Len(c.ring), i # Len(c.ring)
    PROVE  i \in 1..Len(c.ring) - 1 /\ c.ring[i].seq \in SeqNo /\ c.ring[i].seq < c.marker
<1>1. c.ring \in Seq(Mark) /\ c.marker \in Nat
  BY DEF Store, SeqNo
<1>2. /\ Len(c.ring) \in Nat \ {0} /\ c.ring[i].seq \in SeqNo
      /\ c.ring[i].seq = c.marker + i - Len(c.ring)
  BY <1>1, RingRange
<1>3. i \in 1..Len(c.ring) - 1
  BY <1>2
<1> DEFINE m == c.marker
           l == Len(c.ring)
           x == c.ring[i].seq
<1>4. m \in Nat /\ l \in Nat /\ i \in Nat /\ i < l /\ x = m + i - l
  BY <1>1, <1>2, <1>3
<1>5. x < m
  <2> HIDE DEF m, l, x
  <2> QED
    BY <1>4
<1> QED
  BY <1>2, <1>3, <1>5

\* A save that ends a commit serves the newest digest and touches nothing that
\* was served before.
LEMMA SaveRecords ==
    ASSUME ShapeInv, TruthInv, SequenceWritten, ~closing, pc \in {"save", "write"},
           recorded' = [recorded EXCEPT ![cs.marker] =
                         @ \cup {StoredDigest(cs, archive, cs.marker)}]
    PROVE  /\ \A i \in 1..Len(cs.ring) :
                  recorded'[cs.ring[i].seq] = {cs.ring[i].digest}
           /\ \A s \in SeqNo : recorded[s] # {} => recorded'[s] = recorded[s]
<1>1. /\ cs \in Store /\ Coherent(cs) /\ cs.marker \in SeqNo
      /\ recorded \in [SeqNo -> SUBSET Digest] /\ cs.ring \in Seq(Mark)
  BY DEF ShapeInv, TypeInv, TypeOK, CoherenceInv, CommitHasDigest, Committing, Store
<1>2. OlderRecorded(cs)
  BY DEF TruthInv, Committing
<1>3. recorded[cs.marker] = {}
  <2>1. recorded[cs.marker] # {} => cs.marker < cs.marker
    BY <1>1 DEF ShapeInv, RecordedInv, RecordedBelow, Committing
  <2>2. \A n \in Nat : ~(n < n)
    OBVIOUS
  <2>3. cs.marker \in Nat
    BY <1>1 DEF SeqNo
  <2> QED
    BY <2>1, <2>2, <2>3, Zenon
<1>4. recorded'[cs.marker] = {cs.markerDigest}
  BY <1>1, <1>3, MarkerLookup
<1>5. \A s \in SeqNo : s # cs.marker => recorded'[s] = recorded[s]
  BY <1>1
<1>6. ASSUME NEW i \in 1..Len(cs.ring)
      PROVE  recorded'[cs.ring[i].seq] = {cs.ring[i].digest}
  <2>1. CASE i = Len(cs.ring)
    <3>1. cs.ring[Len(cs.ring)].seq = cs.marker
      BY <1>1, RingRange
    <3>2. cs.ring[Len(cs.ring)].digest = cs.markerDigest
      BY <1>1, SequenceAssumption DEF Coherent, SeqNo
    <3> QED
      BY <1>4, <2>1, <3>1, <3>2
  <2>2. CASE i # Len(cs.ring)
    <3>1. i \in 1..Len(cs.ring) - 1 /\ cs.ring[i].seq \in SeqNo /\ cs.ring[i].seq < cs.marker
      BY <1>1, <2>2, OlderBelow
    <3>2. cs.ring[i].seq # cs.marker
      BY <1>1, <3>1 DEF SeqNo
    <3> QED
      BY <1>2, <1>5, <3>1, <3>2 DEF OlderRecorded
  <2> QED
    BY <2>1, <2>2
<1> QED
  BY <1>3, <1>5, <1>6

LEMMA TruthInit == Init => TruthInv
BY DEF Init, TruthInv, ArchiveRecorded, RingRecorded, Committing, EmptyStore, Blank, Encode

LEMMA TruthStep == ShapeInv /\ TruthInv /\ [Next]_vars => TruthInv'
<1> SUFFICES ASSUME ShapeInv, TruthInv, [Next]_vars, SequenceWritten'
             PROVE  TruthInv'
  BY DEF TruthInv
<1>0. /\ cs \in Store /\ sequenceFile \in FileContents /\ cs.ring \in Seq(Mark)
      /\ Coherent(cs) /\ Coherent(sequenceFile)
      /\ ArchiveOK(archive) /\ ArchiveOK(archiveFile)
      /\ SequenceWritten
      /\ closing => pc \in {"save", "write", "down"}
  <2>1. faults' = faults
    BY StepKinds DEF NodeStep, nodeVars, RecordQuorumCheckpoint, WriteArchive, TruncateSequence, SkipSave,
           WriteSequence, Shutdown, Crash, Recover
  <2> QED
    BY <2>1 DEF ShapeInv, TypeInv, TypeOK, CoherenceInv, CommitHasDigest, SequenceWritten, Store
<1>1. ASSUME NEW d \in Digest, RecordQuorumCheckpoint(d) PROVE TruthInv'
  <2>1. /\ pc = "idle" /\ pc' \in {"archive", "save"} /\ ~closing
        /\ UNCHANGED <<faults, sequenceFile, archiveFile, closing, recorded>>
    BY <1>0, <1>1 DEF RecordQuorumCheckpoint
  <2>2. RingRecorded(cs) /\ ArchiveRecorded(archive)
    BY <1>0, <2>1 DEF TruthInv, Committing
  <2>3. /\ cs'.ring = Pushed(cs, d)
        /\ archive' = IF Len(cs.ring) < RingCap THEN archive
                      ELSE RetainOne(archive, Head(cs.ring))
    BY <1>1, CommitEffect DEF ShapeInv
  <2>4. ArchiveRecorded(archive')
    <3>1. CASE Len(cs.ring) < RingCap
      BY <2>2, <2>3, <3>1
    <3>2. CASE ~(Len(cs.ring) < RingCap)
      <4>1. Head(cs.ring) = cs.ring[1] /\ 1 \in 1..Len(cs.ring)
        BY <1>0, <3>2, SequenceAssumption
      <4>2. recorded[cs.ring[1].seq] = {cs.ring[1].digest}
        BY <2>2, <4>1 DEF RingRecorded
      <4> QED
        BY <2>2, <2>3, <3>2, <4>1, <4>2, RetainRecorded
    <3> QED
      BY <3>1, <3>2
  <2>5. \A i \in 1..Len(cs'.ring) - 1 : recorded[cs'.ring[i].seq] = {cs'.ring[i].digest}
    <3>1. ASSUME NEW i \in 1..Len(Pushed(cs, d)) - 1
          PROVE  recorded[Pushed(cs, d)[i].seq] = {Pushed(cs, d)[i].digest}
      <4>1. i + Shift(cs) \in 1..Len(cs.ring) /\ Pushed(cs, d)[i] = cs.ring[i + Shift(cs)]
        BY <1>0, PushedFacts
      <4> QED
        BY <2>2, <4>1 DEF RingRecorded
    <3> QED
      BY <2>3, <3>1
  <2> QED
    BY <1>0, <2>1, <2>4, <2>5
       DEF TruthInv, ArchiveRecorded, RingRecorded, OlderRecorded, Committing
<1>2. CASE WriteArchive
  BY <1>0, <1>2 DEF WriteArchive, TruthInv, ArchiveRecorded, RingRecorded, OlderRecorded, Committing
<1>3. CASE TruncateSequence
  BY <1>0, <1>3 DEF TruncateSequence, TruthInv, ArchiveRecorded, RingRecorded, OlderRecorded, Committing
<1>4. CASE SkipSave
  BY <1>0, <1>4 DEF SkipSave, SequenceWritten
<1>5. CASE WriteSequence
  <2>1. /\ pc = "write" /\ sequenceFile' = Encode(cs) /\ SaveEnds
        /\ UNCHANGED <<faults, cs, archive, archiveFile, closing>>
    BY <1>0, <1>5 DEF WriteSequence, SequenceWritten
  <2>2. sequenceFile'.ring = cs.ring
    BY <1>0, <2>1 DEF Encode, Coherent
  <2>3. CASE closing
    BY <1>0, <2>1, <2>2, <2>3
       DEF SaveEnds, TruthInv, ArchiveRecorded, RingRecorded, Committing
  <2>4. CASE ~closing
    <3>1. /\ pc' = "idle"
          /\ recorded' = [recorded EXCEPT ![cs.marker] =
                           @ \cup {StoredDigest(cs, archive, cs.marker)}]
      BY <2>1, <2>4 DEF SaveEnds
    <3>2. /\ \A i \in 1..Len(cs.ring) :
                 recorded'[cs.ring[i].seq] = {cs.ring[i].digest}
          /\ \A s \in SeqNo : recorded[s] # {} => recorded'[s] = recorded[s]
      BY <1>0, <2>1, <2>4, <3>1, SaveRecords
    <3>3. /\ \A s \in DOMAIN archive : recorded'[s] = {archive[s]}
          /\ \A s \in DOMAIN archiveFile : recorded'[s] = {archiveFile[s]}
      BY <1>0, <2>1, <3>2 DEF TruthInv, ArchiveRecorded, ArchiveOK
    <3>4. /\ ArchiveRecorded(archiveFile)' /\ ArchiveRecorded(archive)'
      BY <2>1, <3>3 DEF ArchiveRecorded
    <3>5. RingRecorded(sequenceFile)' /\ RingRecorded(cs)'
      BY <2>1, <2>2, <3>2 DEF RingRecorded
    <3>6. ~Committing'
      BY <3>1 DEF Committing
    <3> QED
      BY <3>4, <3>5, <3>6 DEF TruthInv
  <2> QED
    BY <2>3, <2>4
<1>6. CASE Shutdown
  BY <1>0, <1>6 DEF Shutdown, TruthInv, ArchiveRecorded, RingRecorded, Committing
<1>7. CASE Crash
  <2>1. pc # "write" /\ UNCHANGED sequenceFile
    BY <1>0, <1>7 DEF Crash, SequenceWritten
  <2> QED
    BY <1>0, <1>7, <2>1 DEF Crash, TruthInv, ArchiveRecorded, RingRecorded, Committing
<1>8. CASE Recover
  BY <1>0, <1>8 DEF Recover, Decode, TruthInv, ArchiveRecorded, RingRecorded, Committing
<1>9. CASE UNCHANGED nodeVars
  BY <1>0, <1>9 DEF nodeVars, TruthInv, ArchiveRecorded, RingRecorded, OlderRecorded, Committing
<1> QED
  BY StepKinds, <1>1, <1>2, <1>3, <1>4, <1>5, <1>6, <1>7, <1>8, <1>9 DEF NodeStep

\* A running node stores what was recorded, and for the sequence of a commit
\* under way the marker's digest.
LEMMA StoredIsRecorded ==
    ASSUME ShapeInv, TruthInv, SequenceWritten, pc # "down", NEW s \in SeqNo,
           StoredDigest(cs, archive, s) # None
    PROVE  IF Committing /\ s = cs.marker
           THEN StoredDigest(cs, archive, s) = cs.markerDigest
           ELSE recorded[s] = {StoredDigest(cs, archive, s)}
<1>1. /\ cs \in Store /\ Coherent(cs) /\ cs.ring \in Seq(Mark)
      /\ cs.marker \in SeqNo \cup {None} /\ None \notin SeqNo
  BY SequenceAssumption DEF ShapeInv, TypeInv, TypeOK, CoherenceInv, Store, SeqNo
<1>2. CASE Committing /\ s = cs.marker
  BY <1>1, <1>2, MarkerLookup
<1>3. CASE ~(Committing /\ s = cs.marker)
  <2> SUFFICES recorded[s] = {StoredDigest(cs, archive, s)}
    BY <1>3
  <2>1. ArchiveRecorded(archive)
    BY DEF TruthInv
  <2>2. CASE RingDigest(cs, s) # None
    <3>1. PICK i \in 1..Len(cs.ring) : cs.ring[i].seq = s
      BY <1>1, <2>2 DEF RingDigest, Slots
    <3>2. cs.marker \in SeqNo
      <4>1. cs.marker = None => Len(cs.ring) = 0
        BY <1>1 DEF Coherent
      <4>2. Len(cs.ring) # 0
        BY <3>1
      <4> QED
        BY <1>1, <4>1, <4>2
    <3>3. RingDigest(cs, s) = cs.ring[i].digest
      BY <1>1, <3>1, <3>2, RingLookup
    <3>4. recorded[s] = {cs.ring[i].digest}
      <4>1. CASE Committing
        <5>1. cs.ring[Len(cs.ring)].seq = cs.marker
          BY <1>1, <3>2, RingRange
        <5>2. i # Len(cs.ring)
          BY <1>3, <3>1, <4>1, <5>1
        <5>3. i \in 1..Len(cs.ring) - 1
          BY <1>1, <3>2, <5>2, OlderBelow
        <5> QED
          BY <3>1, <4>1, <5>3 DEF TruthInv, OlderRecorded
      <4>2. CASE ~Committing
        BY <3>1, <4>2 DEF TruthInv, RingRecorded
      <4> QED
        BY <4>1, <4>2
    <3> QED
      BY <2>2, <3>3, <3>4 DEF StoredDigest
  <2>3. CASE RingDigest(cs, s) = None /\ s \in DOMAIN archive
    BY <2>1, <2>3 DEF ArchiveRecorded, StoredDigest
  <2>4. CASE RingDigest(cs, s) = None /\ s \notin DOMAIN archive
    <3>1. cs.marker = s
      BY <2>4 DEF StoredDigest
    <3>2. /\ Len(cs.ring) \in 1..Len(cs.ring) /\ cs.ring[Len(cs.ring)].seq = s
          /\ cs.ring[Len(cs.ring)].digest \in Digest
      BY <1>1, <3>1, RingRange
    <3>3. RingDigest(cs, s) = cs.ring[Len(cs.ring)].digest
      BY <1>1, <3>1, <3>2, RingLookup
    <3> QED
      BY <2>4, <3>2, <3>3, SequenceAssumption
  <2> QED
    BY <2>2, <2>3, <2>4
<1> QED
  BY <1>2, <1>3

----------------------------------------------------------------------------
(* What was answered is what was recorded.                                 *)

LEMMA ServedInit == Init => ServedInv
BY DEF Init, ServedInv

\* Every step keeps the answers within what is recorded or being committed.
LEMMA ServedStep == ShapeInv /\ TruthInv /\ ServedInv /\ [Next]_vars => ServedInv'
<1> SUFFICES ASSUME ShapeInv, TruthInv, ServedInv, [Next]_vars, SequenceWritten',
                    NEW s \in SeqNo \ unsettled'
             PROVE  served'[s] \subseteq
                        recorded'[s] \cup {d \in {cs'.markerDigest} : Committing' /\ s = cs'.marker}
  BY DEF ServedInv
<1>0. /\ SequenceWritten /\ s \in SeqNo
      /\ cs \in Store /\ cs.current \in SeqNo /\ SeqNo \subseteq Nat
      /\ recorded \in [SeqNo -> SUBSET Digest] /\ served \in [SeqNo -> SUBSET Digest]
      /\ closing => pc \in {"save", "write", "down"}
  <2>1. faults' = faults
    BY StepKinds DEF NodeStep, nodeVars, RecordQuorumCheckpoint, WriteArchive, TruncateSequence,
           SkipSave, WriteSequence, Shutdown, Crash, Recover
  <2> QED
    BY <2>1 DEF ShapeInv, TypeInv, TypeOK, CommitHasDigest, SequenceWritten, Store, SeqNo
<1>1. s \notin unsettled
  BY DEF Next, NodeStep, vars, clients, Answer, AnswerRacing, RecordQuorumCheckpoint, WriteArchive,
         TruncateSequence, SkipSave, WriteSequence, Shutdown, Crash, Recover
<1>2. served[s] \subseteq recorded[s] \cup {d \in {cs.markerDigest} : Committing /\ s = cs.marker}
  BY <1>0, <1>1 DEF ServedInv
<1>3. ASSUME NEW d \in Digest, RecordQuorumCheckpoint(d)
      PROVE  served'[s] \subseteq recorded'[s]
  BY <1>2, <1>3 DEF RecordQuorumCheckpoint, clients, Committing
<1>4. CASE WriteArchive
  BY <1>2, <1>4 DEF WriteArchive, clients, Committing
<1>5. CASE TruncateSequence
  BY <1>2, <1>5 DEF TruncateSequence, clients, Committing
<1>6. CASE SkipSave
  BY <1>0, <1>6 DEF SkipSave, SequenceWritten
<1>7. CASE WriteSequence
  <2>1. pc = "write" /\ SaveEnds /\ UNCHANGED <<cs, archive, closing, served>>
    BY <1>7 DEF WriteSequence, clients
  <2>2. CASE closing
    BY <1>2, <2>1, <2>2 DEF SaveEnds, Committing
  <2>3. CASE ~closing
    <3>1. /\ cs.marker \in SeqNo /\ Coherent(cs)
          /\ recorded' = [recorded EXCEPT ![cs.marker] =
                             @ \cup {StoredDigest(cs, archive, cs.marker)}]
      BY <2>1, <2>3
         DEF SaveEnds, ShapeInv, TypeInv, CoherenceInv, CommitHasDigest, Committing
    <3>2. StoredDigest(cs, archive, cs.marker) = cs.markerDigest
      BY <1>0, <3>1, MarkerLookup
    <3>3. CASE s = cs.marker
      BY <1>0, <1>2, <2>1, <3>1, <3>2, <3>3
    <3>4. CASE s # cs.marker
      BY <1>0, <1>2, <2>1, <3>1, <3>4
    <3> QED
      BY <3>3, <3>4
  <2> QED
    BY <2>2, <2>3
<1>8. CASE Shutdown
  BY <1>0, <1>2, <1>8 DEF Shutdown, clients, Committing
<1>9. CASE Crash
  <2>1. /\ pc' = "down" /\ UNCHANGED <<recorded, served>>
        /\ Committing /\ s = cs.marker => served[s] = {}
    BY <1>0, <1>9 DEF Crash
  <2> QED
    BY <1>2, <2>1
<1>10. CASE Recover
  BY <1>2, <1>10 DEF Recover, clients, Committing
<1>11. ASSUME NEW t \in SeqNo, Answer(t)
       PROVE  served'[s] \subseteq
                  recorded'[s] \cup {d \in {cs'.markerDigest} : Committing' /\ s = cs'.marker}
  <2>1. /\ pc # "down" /\ StoredDigest(cs, archive, t) # None
        /\ served' = [served EXCEPT ![t] = @ \cup {StoredDigest(cs, archive, t)}]
        /\ UNCHANGED <<cs, recorded, pc, closing>>
    BY <1>11 DEF Answer, nodeVars
  <2>2. Committing' = Committing
    BY <2>1 DEF Committing
  <2>3. CASE s # t
    BY <1>0, <1>2, <2>1, <2>2, <2>3
  <2>4. CASE s = t
    <3>1. served'[s] = served[s] \cup {StoredDigest(cs, archive, s)}
      BY <1>0, <2>1, <2>4
    <3>2. StoredDigest(cs, archive, s) \in
              recorded[s] \cup {d \in {cs.markerDigest} : Committing /\ s = cs.marker}
      BY <1>0, <2>1, <2>4, StoredIsRecorded
    <3> QED
      BY <1>2, <2>1, <2>2, <3>1, <3>2
  <2> QED
    BY <2>3, <2>4
<1>12. CASE UNCHANGED <<nodeVars, served>>
  BY <1>2, <1>12 DEF nodeVars, Committing
<1>13. ASSUME NEW t \in SeqNo, AnswerRacing(t) PROVE UNCHANGED <<nodeVars, served>>
  BY <1>13 DEF AnswerRacing
<1> QED
  BY <1>3, <1>4, <1>5, <1>6, <1>7, <1>8, <1>9, <1>10, <1>11, <1>12, <1>13
     DEF Next, NodeStep, vars, clients

\* All of it, preserved.
LEMMA AnswersInit == Init => ShapeInv /\ TruthInv /\ ServedInv
BY ShapeInit, TruthInit, ServedInit

LEMMA AnswersStep ==
    ShapeInv /\ TruthInv /\ ServedInv /\ [Next]_vars => (ShapeInv /\ TruthInv /\ ServedInv)'
BY ShapeStep, TruthStep, ServedStep

\* When only the archive may fail to be written, a node never answers with a
\* second digest for a hardened sequence it did not answer too early: an answer
\* is the recorded digest, or the one of the commit under way, and nothing is
\* recorded for that one yet.
THEOREM ServedOnceAlways == Spec => []ServedOnce
<1>1. ShapeInv /\ ServedInv => ServedOnce
  <2> SUFFICES ASSUME ShapeInv, ServedInv, SequenceWritten,
                      NEW s \in SeqNo \ unsettled, NEW d \in served[s], NEW e \in served[s]
               PROVE  d = e
    BY DEF ServedOnce, NoSilentDivergence
  <2>1. served[s] \subseteq
            recorded[s] \cup {x \in {cs.markerDigest} : Committing /\ s = cs.marker}
    BY DEF ServedInv
  <2>2. Committing /\ s = cs.marker => recorded[s] = {}
    <3> SUFFICES ASSUME Committing, s = cs.marker, recorded[s] # {} PROVE FALSE
      OBVIOUS
    <3>1. s < s /\ s \in Nat
      BY DEF ShapeInv, RecordedInv, RecordedBelow, SeqNo
    <3> QED
      BY <3>1
  <2>3. \A x, y \in recorded[s] : x = y
    BY DEF ShapeInv, RecordedInv, RecordedOnce
  <2> QED
    BY <2>1, <2>2, <2>3
<1> QED
  BY AnswersInit, AnswersStep, <1>1, PTL DEF Spec

\* As long as sequence.bin is written whole, every digest that a running node
\* would match a replay with is the one it has answered with for that sequence,
\* whatever crashes and failed archive writes lie between the ages of the files,
\* unless it answered too early.
THEOREM StoredIsServedAlways == Spec => []StoredIsServed
<1>1. ShapeInv /\ TruthInv /\ ServedInv => StoredIsServed
  <2> SUFFICES ASSUME ShapeInv, TruthInv, ServedInv, SequenceWritten, pc # "down",
                      NEW s \in SeqNo \ unsettled, StoredDigest(cs, archive, s) # None
               PROVE  served[s] \subseteq {StoredDigest(cs, archive, s)}
    BY DEF StoredIsServed
  <2>1. served[s] \subseteq
            recorded[s] \cup {x \in {cs.markerDigest} : Committing /\ s = cs.marker}
    BY DEF ServedInv
  <2>2. IF Committing /\ s = cs.marker
        THEN StoredDigest(cs, archive, s) = cs.markerDigest
        ELSE recorded[s] = {StoredDigest(cs, archive, s)}
    BY StoredIsRecorded
  <2>3. Committing /\ s = cs.marker => recorded[s] = {}
    <3> SUFFICES ASSUME Committing, s = cs.marker, recorded[s] # {} PROVE FALSE
      OBVIOUS
    <3>1. s < s /\ s \in Nat
      BY DEF ShapeInv, RecordedInv, RecordedBelow, SeqNo
    <3> QED
      BY <3>1
  <2> QED
    BY <2>1, <2>2, <2>3
<1> QED
  BY AnswersInit, AnswersStep, <1>1, PTL DEF Spec

----------------------------------------------------------------------------
(* What a ring and an archive together remember.                           *)

RingSeqs(c) == {c.ring[i].seq : i \in 1..Len(c.ring)}

View(c, m) ==
    [s \in {t \in SeqNo : StoredDigest(c, m, t) # None} |-> StoredDigest(c, m, s)]

LEMMA ViewFacts ==
    ASSUME NEW c \in Store, Coherent(c), NEW m, ArchiveOK(m)
    PROVE  /\ DOMAIN View(c, m) = RingSeqs(c) \cup DOMAIN m
           /\ \A i \in 1..Len(c.ring) : View(c, m)[c.ring[i].seq] = c.ring[i].digest
           /\ \A s \in DOMAIN m \ RingSeqs(c) : View(c, m)[s] = m[s]
<1>0. /\ c.ring \in Seq(Mark) /\ None \notin SeqNo /\ None \notin Digest
      /\ c.marker \in SeqNo \cup {None}
      /\ c.marker = None => Len(c.ring) = 0
  BY SequenceAssumption DEF Store, SeqNo, Coherent
<1>1. ASSUME NEW i \in 1..Len(c.ring)
      PROVE  /\ c.ring[i].seq \in SeqNo /\ c.ring[i].digest \in Digest
             /\ StoredDigest(c, m, c.ring[i].seq) = c.ring[i].digest
  <2>1. c.marker \in SeqNo
    <3>1. Len(c.ring) # 0
      OBVIOUS
    <3> QED
      BY <1>0, <3>1
  <2>2. RingDigest(c, c.ring[i].seq) = c.ring[i].digest
    BY <1>0, <2>1, RingLookup
  <2>3. c.ring[i].seq \in SeqNo /\ c.ring[i].digest \in Digest
    BY <1>0, <2>1, RingRange
  <2> QED
    BY <1>0, <2>2, <2>3 DEF StoredDigest
<1>2. ASSUME NEW s \in SeqNo, s \notin RingSeqs(c)
      PROVE  StoredDigest(c, m, s) = IF s \in DOMAIN m THEN m[s] ELSE None
  <2>1. RingDigest(c, s) = None
    <3>1. \A i \in 1..Len(c.ring) : c.ring[i].seq # s
      BY <1>2 DEF RingSeqs
    <3>2. CASE c.marker = None
      BY <3>2, EmptyLookup
    <3>3. CASE c.marker # None
      BY <1>0, <3>1, <3>3, RingLookup
    <3> QED
      BY <3>2, <3>3
  <2>2. c.marker # s
    <3> SUFFICES ASSUME c.marker \in SeqNo PROVE c.marker \in RingSeqs(c)
      BY <1>0, <1>2
    <3>1. Len(c.ring) \in Nat \ {0} /\ c.ring[Len(c.ring)].seq = c.marker
      BY <1>0, RingRange
    <3>2. Len(c.ring) \in 1..Len(c.ring)
      BY <3>1
    <3> QED
      BY <3>1, <3>2 DEF RingSeqs
  <2> QED
    BY <2>1, <2>2 DEF StoredDigest
<1>3. RingSeqs(c) \subseteq SeqNo /\ DOMAIN m \subseteq SeqNo /\ \A s \in DOMAIN m : m[s] # None
  BY <1>0, <1>1 DEF RingSeqs, ArchiveOK
<1>4. \A s \in RingSeqs(c) : StoredDigest(c, m, s) # None
  BY <1>0, <1>1 DEF RingSeqs
<1>5. DOMAIN View(c, m) = RingSeqs(c) \cup DOMAIN m
  BY <1>2, <1>3, <1>4 DEF View
<1>6. ASSUME NEW i \in 1..Len(c.ring) PROVE View(c, m)[c.ring[i].seq] = c.ring[i].digest
  <2>1. StoredDigest(c, m, c.ring[i].seq) # None
    BY <1>0, <1>1
  <2> QED
    BY <1>1, <2>1 DEF View
<1>7. \A s \in DOMAIN m \ RingSeqs(c) : View(c, m)[s] = m[s]
  BY <1>2, <1>3 DEF View
<1> QED
  BY <1>5, <1>6, <1>7

\* A store is seen through its ring and its marker only.
LEMMA ViewOf ==
    ASSUME NEW c, NEW e, NEW m, c.ring = e.ring, c.marker = e.marker,
           c.markerDigest = e.markerDigest
    PROVE  View(c, m) = View(e, m)
BY DEF View, StoredDigest, RingDigest, Slots

\* The sequences of a ring are as many as its entries.
LEMMA RingCount ==
    ASSUME NEW c \in Store, Coherent(c), c.marker \in SeqNo
    PROVE  /\ IsFiniteSet(RingSeqs(c))
           /\ Cardinality(RingSeqs(c)) = Len(c.ring)
           /\ \A s \in RingSeqs(c) : s \in SeqNo /\ c.ring[1].seq <= s /\ s <= c.marker
           /\ c.ring[1].seq \in RingSeqs(c)
<1> DEFINE l == Len(c.ring)
           f == [i \in 1..l |-> c.ring[i].seq]
<1>1. /\ c.ring \in Seq(Mark) /\ c.marker \in Nat /\ l \in Nat \ {0}
      /\ \A i \in 1..l : /\ f[i] = c.marker + i - l
                         /\ f[i] \in SeqNo
                         /\ f[i] <= c.marker
  <2>1. c.ring \in Seq(Mark) /\ c.marker \in Nat
    BY DEF Store, SeqNo
  <2> QED
    BY <2>1, RingRange
<1>2. f \in Bijection(1..l, RingSeqs(c))
  <2>1. RingSeqs(c) = {f[i] : i \in 1..l}
    BY DEF RingSeqs
  <2>2. \A i, j \in 1..l : f[i] = f[j] => i = j
    <3> DEFINE m == c.marker
    <3>1. m \in Nat /\ l \in Nat /\ \A i \in 1..l : f[i] = m + i - l
      BY <1>1
    <3> HIDE DEF f, l, m
    <3> QED
      BY <3>1
  <2>3. f \in Injection(1..l, RingSeqs(c))
    <3>1. f \in [1..l -> RingSeqs(c)]
      BY <2>1
    <3> HIDE DEF f
    <3> QED
      BY <2>2, <3>1 DEF Injection, IsInjective
  <2>4. f \in Surjection(1..l, RingSeqs(c))
    BY <2>1 DEF Surjection
  <2> QED
    BY <2>3, <2>4 DEF Bijection
<1>3. IsFiniteSet(1..l) /\ Cardinality(1..l) = l
  <2>1. l \in Int /\ 1 \in Int /\ ~(1 > l) /\ l - 1 + 1 = l
    BY <1>1
  <2> QED
    BY <2>1, FS_Interval
<1>4. IsFiniteSet(RingSeqs(c)) /\ Cardinality(RingSeqs(c)) = l
  <2>1. ExistsBijection(1..l, RingSeqs(c))
    BY <1>2 DEF ExistsBijection
  <2> QED
    BY <1>3, <2>1, FS_Bijection
<1>5. ASSUME NEW i \in 1..l PROVE c.ring[1].seq <= c.ring[i].seq
  <2> DEFINE m == c.marker
             x == c.ring[1].seq
             y == c.ring[i].seq
  <2>1. m \in Nat /\ l \in Nat \ {0} /\ i \in 1..l /\ x = m + 1 - l /\ y = m + i - l
    <3>1. 1 \in 1..l
      BY <1>1
    <3> QED
      BY <1>1, <3>1
  <2>2. x <= y
    <3> HIDE DEF l, m, x, y
    <3> QED
      BY <2>1
  <2> QED
    BY <2>2
<1>6. 1 \in 1..l
  BY <1>1
<1> QED
  BY <1>1, <1>4, <1>5, <1>6 DEF RingSeqs

----------------------------------------------------------------------------
(* The archive.                                                            *)

\* A set of natural numbers that is not empty has a least element.
LEMMA LeastExists ==
    ASSUME NEW S, S \subseteq Nat, S # {}
    PROVE  \E s \in S : \A t \in S : s <= t
<1>1. PICK x \in S : \A y \in S : ~(<<y, x>> \in OpToRel(<, Nat))
  BY NatLessThanWellFounded, WFMin
<1>2. ASSUME NEW y \in S PROVE x <= y
  <2>1. ~(y < x)
    BY <1>1 DEF OpToRel
  <2> QED
    BY <2>1
<1> QED
  BY <1>2

LEMMA LowestFacts ==
    ASSUME NEW m, ArchiveOK(m), DOMAIN m # {}
    PROVE  Lowest(m) \in DOMAIN m /\ \A t \in DOMAIN m : Lowest(m) <= t
<1>1. DOMAIN m \subseteq Nat
  BY DEF ArchiveOK, SeqNo
<1> QED
  BY <1>1, LeastExists DEF Lowest

\* An archive fits, and lies at or below the oldest entry of a full ring.
Fits(m) == IsFiniteSet(DOMAIN m) /\ Cardinality(DOMAIN m) <= ArchiveCap

Below(m, c) ==
    DOMAIN m # {} => /\ Len(c.ring) = RingCap
                     /\ \A s \in DOMAIN m : s <= c.ring[1].seq

\* Archiving the oldest entry of the ring: nothing changes when it is there,
\* and else it is added, at the price of the lowest when the archive is full.
LEMMA RetainShape ==
    ASSUME NEW m, ArchiveOK(m), Fits(m), NEW e \in Mark, \A s \in DOMAIN m : s <= e.seq
    PROVE  /\ e.seq \in DOMAIN m => RetainOne(m, e) = m
           /\ e.seq \notin DOMAIN m /\ Cardinality(DOMAIN m) < ArchiveCap =>
                RetainOne(m, e) = Keep(m, DOMAIN m, e)
           /\ e.seq \notin DOMAIN m /\ ~(Cardinality(DOMAIN m) < ArchiveCap) =>
                /\ DOMAIN m # {} /\ Cardinality(DOMAIN m) = ArchiveCap
                /\ RetainOne(m, e) = Keep(m, DOMAIN m \ {Lowest(m)}, e)
<1>1. Cardinality(DOMAIN m) \in Nat /\ ArchiveCap \in Nat \ {0}
  BY FS_CardinalityType, SequenceAssumption DEF Fits
<1>2. ASSUME e.seq \notin DOMAIN m, ~(Cardinality(DOMAIN m) < ArchiveCap)
      PROVE  /\ DOMAIN m # {} /\ Cardinality(DOMAIN m) = ArchiveCap
             /\ RetainOne(m, e) = Keep(m, DOMAIN m \ {Lowest(m)}, e)
  <2>1. Cardinality(DOMAIN m) = ArchiveCap
    BY <1>1, <1>2 DEF Fits
  <2>2. DOMAIN m # {}
    BY <1>1, <2>1, FS_EmptySet
  <2>3. Lowest(m) \in DOMAIN m /\ Lowest(m) <= e.seq /\ Lowest(m) # e.seq
    BY <1>2, <2>2, LowestFacts
  <2>4. Lowest(m) \in Nat /\ e.seq \in Nat
    BY <2>3 DEF ArchiveOK, SeqNo, Mark
  <2>5. ~(e.seq <= Lowest(m))
    BY <2>3, <2>4
  <2> QED
    BY <1>2, <2>1, <2>2, <2>5 DEF RetainOne
<1> QED
  BY <1>2 DEF RetainOne

LEMMA RetainFits ==
    ASSUME NEW m, ArchiveOK(m), Fits(m), NEW e \in Mark, \A s \in DOMAIN m : s <= e.seq
    PROVE  /\ Fits(RetainOne(m, e))
           /\ e.seq \in DOMAIN RetainOne(m, e)
           /\ \A s \in DOMAIN RetainOne(m, e) : s <= e.seq
           /\ e.seq \notin DOMAIN m => RetainOne(m, e) # m
<1>1. Cardinality(DOMAIN m) \in Nat /\ ArchiveCap \in Nat \ {0} /\ e.seq \in Nat
  BY FS_CardinalityType, SequenceAssumption DEF Fits, Mark, SeqNo
<1>2. \A dom : DOMAIN Keep(m, dom, e) = dom \cup {e.seq}
  BY DEF Keep
<1>3. CASE e.seq \in DOMAIN m
  BY <1>3, RetainShape
<1>4. CASE e.seq \notin DOMAIN m /\ Cardinality(DOMAIN m) < ArchiveCap
  <2>1. DOMAIN RetainOne(m, e) = DOMAIN m \cup {e.seq}
    BY <1>2, <1>4, RetainShape
  <2>2. /\ IsFiniteSet(DOMAIN m \cup {e.seq})
        /\ Cardinality(DOMAIN m \cup {e.seq}) = Cardinality(DOMAIN m) + 1
    BY <1>4, FS_AddElement DEF Fits
  <2> QED
    BY <1>1, <1>4, <2>1, <2>2 DEF Fits
<1>5. CASE e.seq \notin DOMAIN m /\ ~(Cardinality(DOMAIN m) < ArchiveCap)
  <2> DEFINE rest == DOMAIN m \ {Lowest(m)}
  <2>1. /\ DOMAIN RetainOne(m, e) = rest \cup {e.seq}
        /\ Lowest(m) \in DOMAIN m /\ Cardinality(DOMAIN m) = ArchiveCap
    BY <1>2, <1>5, RetainShape, LowestFacts
  <2>2. IsFiniteSet(rest) /\ Cardinality(rest) = Cardinality(DOMAIN m) - 1
    BY <2>1, FS_RemoveElement DEF Fits
  <2>3. /\ IsFiniteSet(rest \cup {e.seq})
        /\ Cardinality(rest \cup {e.seq}) = Cardinality(rest) + 1
    BY <1>5, <2>2, FS_AddElement
  <2> QED
    BY <1>1, <1>5, <2>1, <2>2, <2>3 DEF Fits
<1> QED
  BY <1>3, <1>4, <1>5

----------------------------------------------------------------------------
(* How memory and the two files relate without faults.                     *)

Same(c, e) ==
    /\ c.ring = e.ring /\ c.current = e.current
    /\ c.marker = e.marker /\ c.markerDigest = e.markerDigest

OnFile == Decode(sequenceFile)

\* Memory is one commit ahead of the file.
Ahead ==
    /\ cs.marker = OnFile.current
    /\ cs.ring = Pushed(OnFile, cs.markerDigest)

RefInv ==
    faults = {} =>
      /\ Fits(archiveFile)
      /\ pc # "write" => Below(archiveFile, OnFile)
      /\ pc # "down" /\ ~Committing => archive = archiveFile
      /\ pc = "idle" \/ (pc = "save" /\ closing) => Same(cs, OnFile)
      /\ pc = "archive" =>
           /\ Ahead /\ Len(OnFile.ring) = RingCap
           /\ archive = RetainOne(archiveFile, OnFile.ring[1])
           /\ OnFile.ring[1].seq \notin DOMAIN archiveFile
      /\ pc = "save" /\ ~closing =>
           /\ Ahead /\ archive = archiveFile
           /\ Len(OnFile.ring) = RingCap => OnFile.ring[1].seq \in DOMAIN archiveFile
      /\ pc = "write" => archive = archiveFile /\ Below(archiveFile, cs)

LEMMA OnFileFacts ==
    ASSUME ShapeInv
    PROVE  /\ OnFile \in Store /\ Coherent(OnFile)
           /\ OnFile.ring \in Seq(Mark) /\ OnFile.marker \in SeqNo \cup {None}
           /\ cs \in Store /\ Coherent(cs) /\ cs.ring \in Seq(Mark)
           /\ ArchiveOK(archive) /\ ArchiveOK(archiveFile)
<1>1. sequenceFile \in FileContents /\ Coherent(sequenceFile)
  BY DEF ShapeInv, TypeInv, TypeOK, CoherenceInv
<1>2. OnFile \in Store
  BY <1>1, FileFacts DEF OnFile
<1>3. Coherent(OnFile)
  BY <1>1 DEF OnFile, Decode, Coherent, Consecutive
<1> QED
  BY <1>2, <1>3 DEF ShapeInv, TypeInv, TypeOK, CoherenceInv, Store

\* A ring that is full has a marker and a first entry.
LEMMA FullRing ==
    ASSUME NEW c \in Store, Coherent(c), Len(c.ring) = RingCap
    PROVE  /\ c.marker \in SeqNo /\ c.ring \in Seq(Mark) /\ 1 \in 1..Len(c.ring)
           /\ Head(c.ring) = c.ring[1] /\ c.ring[1] \in Mark
<1>1. c.ring \in Seq(Mark) /\ c.marker \in SeqNo \cup {None} /\ RingCap \in Nat \ {0}
  BY SequenceAssumption DEF Store
<1>2. c.marker = None => Len(c.ring) = 0
  BY DEF Coherent
<1>3. 1 \in 1..Len(c.ring)
  BY <1>1
<1> QED
  BY <1>1, <1>2, <1>3

\* One commit raises the first entry of a full ring by one.
LEMMA PushedFirst ==
    ASSUME NEW c \in Store, Coherent(c), Len(c.ring) = RingCap,
           NEW e \in Store, Coherent(e), e.marker = c.current,
           NEW d \in Digest, e.ring = Pushed(c, d)
    PROVE  /\ Len(e.ring) = RingCap /\ e.marker \in SeqNo
           /\ e.ring[1].seq \in Nat /\ c.ring[1].seq \in Nat
           /\ e.ring[1].seq = c.ring[1].seq + 1
<1>1. /\ c.marker \in SeqNo /\ c.ring \in Seq(Mark) /\ 1 \in 1..Len(c.ring)
      /\ RingCap \in Nat \ {0} /\ SeqNo \subseteq Nat /\ None \notin SeqNo
  BY FullRing, SequenceAssumption DEF SeqNo
<1>2. Len(e.ring) = RingCap
  <2>1. Shift(c) = 1
    BY <1>1 DEF Shift
  <2>2. Len(Pushed(c, d)) = Len(c.ring) + 1 - Shift(c)
    BY PushedFacts
  <2>3. Len(Pushed(c, d)) = RingCap + 1 - 1
    BY <2>1, <2>2
  <2> QED
    BY <1>1, <2>3
<1>3. e.marker \in SeqNo /\ e.ring \in Seq(Mark) /\ 1 \in 1..Len(e.ring)
  BY <1>2, FullRing
<1> DEFINE m == c.marker
           l == RingCap
           x == c.ring[1].seq
           y == e.ring[1].seq
           n == e.marker
<1>4. /\ m \in Nat /\ l \in Nat /\ n = m + 1
      /\ x = m + 1 - l /\ y = n + 1 - l /\ x \in Nat /\ y \in Nat
  <2>1. c.ring[1].seq = c.marker + 1 - Len(c.ring) /\ c.ring[1].seq \in SeqNo
    BY <1>1, RingRange
  <2>2. e.ring[1].seq = e.marker + 1 - Len(e.ring) /\ e.ring[1].seq \in SeqNo
    BY <1>3, RingRange
  <2>3. c.current = c.marker + 1
    BY <1>1 DEF Coherent
  <2> QED
    BY <1>1, <1>2, <2>1, <2>2, <2>3
<1>5. y = x + 1
  <2> HIDE DEF m, l, x, y, n
  <2> QED
    BY <1>4
<1> QED
  BY <1>2, <1>3, <1>4, <1>5

LEMMA BelowAfterPush ==
    ASSUME NEW c \in Store, Coherent(c), NEW m, ArchiveOK(m), Below(m, c),
           NEW e \in Store, Coherent(e), e.marker = c.current,
           NEW d \in Digest, e.ring = Pushed(c, d)
    PROVE  Below(m, e)
<1> SUFFICES ASSUME DOMAIN m # {} PROVE /\ Len(e.ring) = RingCap
                                        /\ \A s \in DOMAIN m : s <= e.ring[1].seq
  BY DEF Below
<1>1. Len(c.ring) = RingCap /\ \A s \in DOMAIN m : s <= c.ring[1].seq
  BY DEF Below
<1>2. /\ Len(e.ring) = RingCap
      /\ e.ring[1].seq \in Nat /\ c.ring[1].seq \in Nat
      /\ e.ring[1].seq = c.ring[1].seq + 1
  BY <1>1, PushedFirst
<1>3. DOMAIN m \subseteq Nat
  BY DEF ArchiveOK, SeqNo
<1> QED
  BY <1>1, <1>2, <1>3

LEMMA RefInit == Init => RefInv
<1> SUFFICES ASSUME Init PROVE RefInv
  OBVIOUS
<1>1. archiveFile = << >> /\ archive = << >> /\ pc = "idle" /\ DOMAIN archiveFile = {}
  BY DEF Init
<1>2. Fits(archiveFile) /\ Below(archiveFile, OnFile)
  BY <1>1, FS_EmptySet, SequenceAssumption DEF Fits, Below
<1>3. Same(cs, OnFile)
  BY DEF Init, Same, OnFile, Decode, Blank, Encode, EmptyStore
<1> QED
  BY <1>1, <1>2, <1>3 DEF RefInv, Committing

LEMMA RefStep == ShapeInv /\ RefInv /\ [Next]_vars => RefInv'
<1> SUFFICES ASSUME ShapeInv, RefInv, [Next]_vars, faults' = {}
             PROVE  RefInv'
  BY DEF RefInv
<1>0. faults = {}
  BY StepKinds DEF NodeStep, nodeVars, RecordQuorumCheckpoint, WriteArchive, TruncateSequence, SkipSave,
         WriteSequence, Shutdown, Crash, Recover
<1>1. /\ OnFile \in Store /\ Coherent(OnFile) /\ cs \in Store /\ Coherent(cs)
      /\ ArchiveOK(archive) /\ ArchiveOK(archiveFile)
      /\ closing => pc \in {"save", "write", "down"}
      /\ Committing => cs.markerDigest \in Digest
  BY OnFileFacts DEF ShapeInv, TypeInv, CommitHasDigest
<1> USE <1>0 DEF RefInv, Committing
<1>2. ASSUME NEW d \in Digest, RecordQuorumCheckpoint(d) PROVE RefInv'
  <2>1. /\ pc = "idle" /\ ~closing /\ archive = archiveFile /\ Same(cs, OnFile)
        /\ Fits(archiveFile) /\ Below(archiveFile, OnFile)
        /\ UNCHANGED <<faults, sequenceFile, archiveFile, closing>>
        /\ pc' = IF archive' # archive THEN "archive" ELSE "save"
    BY <1>1, <1>2 DEF RecordQuorumCheckpoint
  <2>2. /\ cs'.ring = Pushed(cs, d) /\ cs'.marker = cs.current /\ cs'.markerDigest = d
        /\ archive' = IF Len(cs.ring) < RingCap THEN archive
                      ELSE RetainOne(archive, Head(cs.ring))
    BY <1>2, CommitEffect DEF ShapeInv
  <2>3. UNCHANGED OnFile
    BY <2>1 DEF OnFile
  <2>4. Ahead'
    BY <2>1, <2>2, <2>3 DEF Ahead, Same, Pushed
  <2>5. Len(OnFile.ring) \in 0..RingCap
    <3>1. Len(OnFile.ring) \in 1..RingCap \/ Len(OnFile.ring) = 0
      BY <1>1 DEF Coherent
    <3> QED
      BY <3>1, SequenceAssumption
  <2>6. CASE Len(OnFile.ring) < RingCap
    <3>1. archive' = archive /\ Len(OnFile.ring) # RingCap
      BY <2>1, <2>2, <2>5, <2>6, SequenceAssumption DEF Same
    <3> QED
      BY <2>1, <2>3, <2>4, <3>1
  <2>7. CASE Len(OnFile.ring) = RingCap
    <3> DEFINE e == OnFile.ring[1]
    <3>1. Head(cs.ring) = e /\ e \in Mark
      BY <1>1, <2>1, <2>7, FullRing DEF Same
    <3>2. archive' = RetainOne(archiveFile, e)
      BY <2>1, <2>2, <2>7, <3>1, SequenceAssumption DEF Same
    <3>3. \A s \in DOMAIN archiveFile : s <= e.seq
      BY <2>1 DEF Below
    <3>4. /\ e.seq \in DOMAIN archiveFile => RetainOne(archiveFile, e) = archiveFile
          /\ e.seq \notin DOMAIN archiveFile => RetainOne(archiveFile, e) # archiveFile
      BY <1>1, <2>1, <3>1, <3>3, RetainShape, RetainFits
    <3>5. CASE e.seq \in DOMAIN archiveFile
      BY <2>1, <2>3, <2>4, <3>2, <3>4, <3>5
    <3>6. CASE e.seq \notin DOMAIN archiveFile
      BY <2>1, <2>3, <2>4, <2>7, <3>2, <3>4, <3>6
    <3> QED
      BY <3>5, <3>6
  <2> QED
    BY <2>5, <2>6, <2>7, SequenceAssumption
<1>3. CASE WriteArchive
  <2>1. /\ pc = "archive" /\ pc' = "save" /\ archiveFile' = archive
        /\ UNCHANGED <<faults, cs, archive, sequenceFile, closing>>
    BY <1>3 DEF WriteArchive
  <2>2. UNCHANGED OnFile /\ UNCHANGED Ahead
    BY <2>1 DEF OnFile, Ahead
  <2> DEFINE e == OnFile.ring[1]
  <2>3. /\ ~closing /\ Ahead /\ Len(OnFile.ring) = RingCap
        /\ archive = RetainOne(archiveFile, e) /\ Fits(archiveFile)
        /\ Below(archiveFile, OnFile)
    BY <1>1, <2>1
  <2>4. e \in Mark
    BY <1>1, <2>3, FullRing
  <2>5. \A s \in DOMAIN archiveFile : s <= e.seq
    BY <2>3 DEF Below
  <2>6. /\ Fits(archive) /\ e.seq \in DOMAIN archive
        /\ \A s \in DOMAIN archive : s <= e.seq
    BY <1>1, <2>3, <2>4, <2>5, RetainFits
  <2>7. Below(archive, OnFile)
    BY <2>3, <2>6 DEF Below
  <2>8. Fits(archiveFile)' /\ Below(archiveFile, OnFile)'
    BY <2>1, <2>2, <2>6, <2>7 DEF Fits, Below
  <2> QED
    BY <2>1, <2>2, <2>3, <2>6, <2>8
<1>4. CASE TruncateSequence
  <2>1. /\ pc = "save" /\ pc' = "write"
        /\ UNCHANGED <<faults, cs, archive, archiveFile, closing>>
    BY <1>4 DEF TruncateSequence
  <2>2. archive = archiveFile /\ Fits(archiveFile) /\ Below(archiveFile, OnFile)
    BY <2>1
  <2>3. Below(archiveFile, cs)
    <3>1. CASE closing
      BY <2>1, <2>2, <3>1 DEF Same, Below
    <3>2. CASE ~closing
      <4>1. Ahead /\ cs.markerDigest \in Digest
        BY <1>1, <2>1, <3>2
      <4> QED
        BY <1>1, <2>2, <4>1, BelowAfterPush DEF Ahead
    <3> QED
      BY <3>1, <3>2
  <2> QED
    BY <2>1, <2>2, <2>3 DEF Below, Fits
<1>5. CASE SkipSave
  BY <1>5 DEF SkipSave
<1>6. CASE WriteSequence
  <2>1. /\ pc = "write" /\ sequenceFile' = Encode(cs) /\ SaveEnds
        /\ UNCHANGED <<faults, cs, archive, archiveFile, closing>>
    BY <1>6 DEF WriteSequence
  <2>2. /\ OnFile' = Decode(Encode(cs)) /\ OnFile'.ring = cs.ring
        /\ OnFile'.current = cs.current /\ OnFile'.marker = cs.marker
        /\ cs.marker # None => OnFile'.markerDigest = cs.markerDigest
    BY <1>1, <2>1 DEF OnFile, Decode, Encode, Coherent
  <2>3. Below(archiveFile, cs) /\ archive = archiveFile /\ Fits(archiveFile)
    BY <2>1
  <2>4. Below(archiveFile, OnFile)' /\ Fits(archiveFile)'
    BY <2>1, <2>2, <2>3 DEF Below, Fits
  <2>5. CASE closing
    BY <2>1, <2>3, <2>4, <2>5 DEF SaveEnds
  <2>6. CASE ~closing
    <3>1. pc' = "idle" /\ cs.marker # None
      BY <2>1, <2>6, SequenceAssumption
         DEF SaveEnds, ShapeInv, TypeInv, CommitHasDigest, SeqNo
    <3>2. Same(cs, OnFile)'
      BY <2>1, <2>2, <3>1 DEF Same
    <3> QED
      BY <2>1, <2>3, <2>4, <3>1, <3>2
  <2> QED
    BY <2>5, <2>6
<1>7. CASE Shutdown
  <2>1. UNCHANGED <<OnFile, Same(cs, OnFile), Fits(archiveFile), Below(archiveFile, OnFile)>>
    BY <1>7 DEF Shutdown, OnFile, Same, Fits, Below
  <2> QED
    BY <1>1, <1>7, <2>1 DEF Shutdown
<1>8. CASE Crash
  <2>1. pc # "write" /\ pc' = "down" /\ UNCHANGED <<faults, sequenceFile, archiveFile>>
    BY <1>8 DEF Crash
  <2>2. UNCHANGED <<OnFile, Fits(archiveFile), Below(archiveFile, OnFile)>>
    BY <2>1 DEF OnFile, Fits, Below
  <2> QED
    BY <2>1, <2>2
<1>9. CASE Recover
  <2>1. /\ pc = "down" /\ pc' = "idle" /\ cs' = OnFile /\ archive' = archiveFile
        /\ UNCHANGED <<faults, sequenceFile, archiveFile>>
    BY <1>9 DEF Recover, OnFile
  <2>2. UNCHANGED <<OnFile, Fits(archiveFile), Below(archiveFile, OnFile)>>
    BY <2>1 DEF OnFile, Fits, Below
  <2>3. Same(cs, OnFile)'
    BY <2>1, <2>2 DEF Same
  <2> QED
    BY <2>1, <2>2, <2>3
<1>10. CASE UNCHANGED nodeVars
  <2>1. UNCHANGED <<faults, cs, archive, sequenceFile, archiveFile, pc, closing>>
    BY <1>10 DEF nodeVars
  <2> QED
    BY <2>1 DEF OnFile, Same, Ahead, Fits, Below
<1> QED
  BY StepKinds, <1>2, <1>3, <1>4, <1>5, <1>6, <1>7, <1>8, <1>9, <1>10 DEF NodeStep

----------------------------------------------------------------------------
(* The refinement.                                                         *)

\* The abstract module's own copy of an operator of FiniteSets.
LEMMA SameCardinality == \A S : Abstract!Cardinality(S) = Cardinality(S)
BY DEF Abstract!Cardinality, Cardinality

LEMMA HistoryIsView ==
    /\ faults = {} => DurableHistory = View(IF pc = "write" THEN cs ELSE OnFile, archiveFile)
    /\ faults # {} => DurableHistory = << >>
<1>1. ASSUME faults = {}
      PROVE  DurableHistory = View(IF pc = "write" THEN cs ELSE OnFile, archiveFile)
  BY <1>1 DEF DurableHistory, DurableDigest, View, OnFile
<1>2. ASSUME faults # {} PROVE DurableHistory = << >>
  <2>1. {t \in SeqNo : faults = {} /\ DurableDigest(t) # None} = {}
    BY <1>2
  <2> QED
    BY <2>1 DEF DurableHistory
<1> QED
  BY <1>1, <1>2

\* A step that leaves what is on disk alone, and does not enter or leave the
\* rewriting of sequence.bin, changes no history.
LEMMA Stutter ==
    ASSUME UNCHANGED <<faults, sequenceFile, archiveFile>>, pc # "write", pc' # "write"
    PROVE  UNCHANGED DurableHistory
BY DEF DurableHistory, DurableDigest

\* Writing the archive forgets its lowest entry when it is full, and else adds
\* what the ring on file still holds.
LEMMA ArchiveRefines ==
    ASSUME ShapeInv, TruthInv, RefInv, faults = {}, faults' = {}, WriteArchive
    PROVE  [Abstract!Next]_DurableHistory
<1> DEFINE e == OnFile.ring[1]
<1>1. /\ pc = "archive" /\ pc' = "save" /\ archiveFile' = archive
      /\ UNCHANGED OnFile
  BY DEF WriteArchive, OnFile
<1>2. /\ OnFile \in Store /\ Coherent(OnFile) /\ ArchiveOK(archiveFile) /\ ArchiveOK(archive)
  BY OnFileFacts
<1>3. /\ Len(OnFile.ring) = RingCap /\ archive = RetainOne(archiveFile, e)
      /\ e.seq \notin DOMAIN archiveFile
      /\ Fits(archiveFile) /\ \A s \in DOMAIN archiveFile : s <= e.seq
  BY <1>1 DEF RefInv, Below
<1>4. OnFile.marker \in SeqNo /\ 1 \in 1..Len(OnFile.ring) /\ e \in Mark
  BY <1>2, <1>3, FullRing
<1>0. /\ Cardinality(DOMAIN archiveFile) < ArchiveCap =>
            archive = Keep(archiveFile, DOMAIN archiveFile, e)
      /\ ~(Cardinality(DOMAIN archiveFile) < ArchiveCap) =>
            /\ DOMAIN archiveFile # {} /\ Cardinality(DOMAIN archiveFile) = ArchiveCap
            /\ archive = Keep(archiveFile, DOMAIN archiveFile \ {Lowest(archiveFile)}, e)
  BY <1>2, <1>3, <1>4, RetainShape
<1>5. /\ DurableHistory = View(OnFile, archiveFile)
      /\ DurableHistory' = View(OnFile, archive)
  <2>1. DurableHistory' = View(IF pc' = "write" THEN cs' ELSE OnFile', archiveFile')
    BY DEF DurableHistory, DurableDigest, View, OnFile
  <2> QED
    BY <1>1, <2>1, HistoryIsView
<1>6. /\ e.seq \in RingSeqs(OnFile)
      /\ IsFiniteSet(RingSeqs(OnFile)) /\ Cardinality(RingSeqs(OnFile)) = RingCap
      /\ \A s \in RingSeqs(OnFile) : s \in SeqNo /\ e.seq <= s
  BY <1>2, <1>3, <1>4, RingCount
<1>7. /\ DOMAIN DurableHistory = RingSeqs(OnFile) \cup DOMAIN archiveFile
      /\ DOMAIN DurableHistory' = RingSeqs(OnFile) \cup DOMAIN archive
  BY <1>2, <1>5, ViewFacts
<1>8. \A s \in RingSeqs(OnFile) : DurableHistory'[s] = DurableHistory[s]
  <2>1. \A m : ArchiveOK(m) => \A i \in 1..Len(OnFile.ring) :
                View(OnFile, m)[OnFile.ring[i].seq] = OnFile.ring[i].digest
    BY <1>2, ViewFacts, ZenonT(40)
  <2> QED
    BY <1>2, <1>5, <2>1 DEF RingSeqs
<1>9. \A s \in DOMAIN archive \ RingSeqs(OnFile) :
         s \in DOMAIN archiveFile /\ DurableHistory'[s] = DurableHistory[s]
  <2>1. \A s \in DOMAIN archive : s = e.seq \/ (s \in DOMAIN archiveFile /\ archive[s] = archiveFile[s])
    BY <1>0 DEF Keep
  <2>2. /\ \A s \in DOMAIN archiveFile \ RingSeqs(OnFile) :
               View(OnFile, archiveFile)[s] = archiveFile[s]
        /\ \A s \in DOMAIN archive \ RingSeqs(OnFile) :
               View(OnFile, archive)[s] = archive[s]
    BY <1>2, ViewFacts
  <2> QED
    BY <1>5, <1>6, <2>1, <2>2
<1>10. CASE Cardinality(DOMAIN archiveFile) < ArchiveCap
  <2>1. DOMAIN archive = DOMAIN archiveFile \cup {e.seq}
    BY <1>0, <1>10 DEF Keep
  <2>2. DOMAIN DurableHistory' = DOMAIN DurableHistory
    BY <1>6, <1>7, <2>1
  <2>3. \A s \in DOMAIN DurableHistory : DurableHistory'[s] = DurableHistory[s]
    BY <1>7, <1>8, <1>9, <2>1, <2>2
  <2>4. DurableHistory' = DurableHistory
    BY <1>5, <2>2, <2>3 DEF View
  <2> QED
    BY <2>4
<1>11. CASE ~(Cardinality(DOMAIN archiveFile) < ArchiveCap)
  <2> DEFINE low == Lowest(archiveFile)
  <2>1. /\ DOMAIN archiveFile # {} /\ Cardinality(DOMAIN archiveFile) = ArchiveCap
        /\ DOMAIN archive = (DOMAIN archiveFile \ {low}) \cup {e.seq}
    BY <1>0, <1>11 DEF Keep
  <2>2. low \in DOMAIN archiveFile /\ \A t \in DOMAIN archiveFile : low <= t
    BY <1>2, <2>1, LowestFacts
  <2>3. DOMAIN archiveFile \subseteq Nat /\ RingSeqs(OnFile) \subseteq Nat /\ e.seq \in Nat
    BY <1>2, <1>4, <1>6 DEF ArchiveOK, SeqNo, Mark
  <2>4. \A s \in DOMAIN archiveFile : s < e.seq
    BY <1>3, <2>3
  <2>5. DOMAIN archiveFile \cap RingSeqs(OnFile) = {}
    BY <1>6, <2>3, <2>4
  <2>6. Cardinality(DOMAIN DurableHistory) = RingCap + ArchiveCap
    <3>1. Cardinality(RingSeqs(OnFile) \cup DOMAIN archiveFile)
             = Cardinality(RingSeqs(OnFile)) + Cardinality(DOMAIN archiveFile)
               - Cardinality(RingSeqs(OnFile) \cap DOMAIN archiveFile)
      BY <1>3, <1>6, FS_Union DEF Fits
    <3>2. Cardinality(RingSeqs(OnFile) \cap DOMAIN archiveFile) = 0
      BY <2>5, FS_EmptySet
    <3>3. RingCap \in Nat /\ ArchiveCap \in Nat
      BY SequenceAssumption
    <3> QED
      BY <1>6, <1>7, <2>1, <3>1, <3>2, <3>3
  <2>7. \A t \in DOMAIN DurableHistory : low <= t
    <3>1. \A t \in RingSeqs(OnFile) : low <= t
      BY <1>6, <2>2, <2>3, <2>4
    <3> QED
      BY <1>7, <2>2, <3>1
  <2>8. DOMAIN DurableHistory' = DOMAIN DurableHistory \ {low}
    BY <1>6, <1>7, <2>1, <2>2, <2>5
  <2>9. \A s \in DOMAIN DurableHistory' : DurableHistory'[s] = DurableHistory[s]
    BY <1>7, <1>8, <1>9
  <2>10. Abstract!Forget
    BY <1>7, <2>2, <2>6, <2>7, <2>8, <2>9, SameCardinality
       DEF Abstract!Forget, Abstract!Agree
  <2> QED
    BY <2>10 DEF Abstract!Next
<1> QED
  BY <1>10, <1>11

\* Starting to rewrite sequence.bin after a commit hardens the new sequence: what
\* the ring lost at its front is in the archive file by then.
LEMMA TruncateRefines ==
    ASSUME ShapeInv, TruthInv, RefInv, faults = {}, faults' = {}, TruncateSequence
    PROVE  [Abstract!Next]_DurableHistory
<1>1. /\ pc = "save" /\ pc' = "write" /\ UNCHANGED <<cs, archiveFile>>
  BY DEF TruncateSequence
<1>2. /\ OnFile \in Store /\ Coherent(OnFile) /\ cs \in Store /\ Coherent(cs)
      /\ ArchiveOK(archiveFile)
  BY OnFileFacts
<1>3. /\ DurableHistory = View(OnFile, archiveFile)
      /\ DurableHistory' = View(cs, archiveFile)
  <2>1. DurableHistory' = View(IF pc' = "write" THEN cs' ELSE OnFile', archiveFile')
    BY DEF DurableHistory, DurableDigest, View, OnFile
  <2> QED
    BY <1>1, <2>1, HistoryIsView
<1>3a. \A s \in DOMAIN archiveFile \ RingSeqs(OnFile) :
          View(OnFile, archiveFile)[s] = archiveFile[s]
  BY <1>2, ViewFacts
<1>4. CASE closing
  <2>1. Same(cs, OnFile)
    BY <1>1, <1>4 DEF RefInv
  <2> QED
    BY <1>3, <2>1, ViewOf DEF Same
<1>5. CASE ~closing
  <2>1. /\ Ahead /\ cs.markerDigest \in Digest /\ cs.marker \in SeqNo
        /\ Len(OnFile.ring) = RingCap => OnFile.ring[1].seq \in DOMAIN archiveFile
    BY <1>1, <1>5 DEF RefInv, ShapeInv, TypeInv, CommitHasDigest, Committing
  <2> DEFINE r == OnFile.ring
             s0 == cs.marker
  <2>2. cs.ring = Pushed(OnFile, cs.markerDigest) /\ s0 = OnFile.current
    BY <2>1 DEF Ahead
  <2>3. /\ DOMAIN DurableHistory = RingSeqs(OnFile) \cup DOMAIN archiveFile
        /\ DOMAIN DurableHistory' = RingSeqs(cs) \cup DOMAIN archiveFile
    BY <1>2, <1>3, ViewFacts
  <2>4. /\ Len(cs.ring) \in 1..Len(cs.ring) /\ cs.ring[Len(cs.ring)].seq = s0
        /\ Len(cs.ring) = Len(r) + 1 - Shift(OnFile)
        /\ \A i \in 1..Len(cs.ring) - 1 :
              i + Shift(OnFile) \in 1..Len(r) /\ cs.ring[i] = r[i + Shift(OnFile)]
    <3>1. cs.ring \in Seq(Mark) /\ Len(cs.ring) \in Nat \ {0} /\ cs.ring[Len(cs.ring)].seq = s0
      <4>1. cs.ring \in Seq(Mark)
        BY <1>2 DEF Store
      <4> QED
        BY <1>2, <2>1, <4>1, RingRange
    <3>2. Len(cs.ring) \in 1..Len(cs.ring)
      BY <3>1
    <3>3. /\ Len(Pushed(OnFile, cs.markerDigest)) = Len(r) + 1 - Shift(OnFile)
          /\ \A i \in 1..Len(Pushed(OnFile, cs.markerDigest)) - 1 :
                /\ i + Shift(OnFile) \in 1..Len(r)
                /\ Pushed(OnFile, cs.markerDigest)[i] = r[i + Shift(OnFile)]
      BY <1>2, <2>1, PushedFacts
    <3> QED
      BY <2>2, <3>1, <3>2, <3>3
  <2>5. Len(r) \in Nat /\ Len(r) \in 0..RingCap
    <3>1. OnFile.ring \in Seq(Mark)
      BY <1>2 DEF Store
    <3>2. Len(OnFile.ring) \in 1..RingCap \/ Len(OnFile.ring) = 0
      BY <1>2 DEF Coherent
    <3> QED
      BY <3>1, <3>2, SequenceAssumption
  <2>6. \A t \in DOMAIN DurableHistory : t \in SeqNo /\ t < s0
    <3>1. \A t \in RingSeqs(OnFile) : t \in SeqNo /\ t < s0
      <4> SUFFICES ASSUME NEW i \in 1..Len(r) PROVE r[i].seq \in SeqNo /\ r[i].seq < s0
        BY DEF RingSeqs
      <4>1. OnFile.marker \in SeqNo
        <5>1. OnFile.marker = None => Len(r) = 0
          BY <1>2 DEF Coherent
        <5> QED
          BY <1>2, <5>1 DEF Store
      <4>2. r[i].seq \in SeqNo /\ r[i].seq <= OnFile.marker
        <5>1. OnFile.ring \in Seq(Mark)
          BY <1>2 DEF Store
        <5> QED
          BY <1>2, <4>1, <5>1, RingRange
      <4>3. s0 = OnFile.marker + 1
        BY <1>2, <2>2, <4>1, SequenceAssumption DEF Coherent, SeqNo
      <4>4. OnFile.marker \in Nat /\ r[i].seq \in Nat
        BY <4>1, <4>2 DEF SeqNo
      <4> QED
        BY <4>2, <4>3, <4>4
    <3>2. ASSUME NEW t \in DOMAIN archiveFile PROVE t \in SeqNo /\ t < s0
      <4>1. /\ Len(r) = RingCap /\ t <= r[1].seq /\ t \in SeqNo
        BY <1>1, <1>2, <3>2 DEF RefInv, Below, ArchiveOK
      <4>2. r[1].seq \in RingSeqs(OnFile)
        BY <1>2, <4>1, FullRing DEF RingSeqs
      <4>3. r[1].seq \in SeqNo /\ r[1].seq < s0
        BY <3>1, <4>2
      <4> QED
        BY <2>1, <4>1, <4>3 DEF SeqNo
    <3> QED
      BY <2>3, <3>1, <3>2
  <2>7. RingSeqs(cs) \subseteq RingSeqs(OnFile) \cup {s0} /\ s0 \in RingSeqs(cs)
    <3>1. ASSUME NEW i \in 1..Len(cs.ring) PROVE cs.ring[i].seq \in RingSeqs(OnFile) \cup {s0}
      <4>1. CASE i = Len(cs.ring)
        BY <2>4, <4>1
      <4>2. CASE i # Len(cs.ring)
        <5>1. i \in 1..Len(cs.ring) - 1
          BY <2>4, <4>2
        <5> QED
          BY <2>4, <5>1 DEF RingSeqs
      <4> QED
        BY <4>1, <4>2
    <3> QED
      BY <2>4, <3>1 DEF RingSeqs
  <2>8. ASSUME NEW j \in 1..Len(r)
        PROVE  \/ /\ j = 1 /\ Len(r) = RingCap
                  /\ r[1].seq \in DOMAIN archiveFile \ RingSeqs(cs)
               \/ \E i \in 1..Len(cs.ring) : cs.ring[i] = r[j]
    <3>1. CASE Len(r) = RingCap /\ j = 1
      <4>1. r[1].seq \in Nat /\ cs.ring[1].seq \in Nat /\ cs.ring[1].seq = r[1].seq + 1
        BY <1>2, <2>1, <2>2, <3>1, PushedFirst
      <4>2. \A t \in RingSeqs(cs) : t \in Nat /\ cs.ring[1].seq <= t
        BY <1>2, <2>1, RingCount DEF SeqNo
      <4>3. r[1].seq \notin RingSeqs(cs)
        BY <4>1, <4>2
      <4> QED
        BY <2>1, <3>1, <4>3
    <3>2. CASE ~(Len(r) = RingCap /\ j = 1)
      <4>1. Shift(OnFile) \in {0, 1} /\ (Len(r) = RingCap => Shift(OnFile) = 1)
                /\ (Len(r) # RingCap => Shift(OnFile) = 0)
        BY <2>5, SequenceAssumption DEF Shift
      <4>2. j - Shift(OnFile) \in 1..Len(cs.ring) - 1
        BY <2>4, <2>5, <3>2, <4>1
      <4>3. (j - Shift(OnFile)) + Shift(OnFile) = j
        BY <2>5, <4>1
      <4>4. cs.ring[j - Shift(OnFile)] = r[j]
        BY <2>4, <4>2, <4>3
      <4>5. j - Shift(OnFile) \in 1..Len(cs.ring)
        BY <2>4, <4>2
      <4> QED
        BY <4>4, <4>5
    <3> QED
      BY <3>1, <3>2
  <2>9. ASSUME NEW t \in RingSeqs(OnFile)
        PROVE  t \in DOMAIN DurableHistory' /\ DurableHistory'[t] = DurableHistory[t]
    <3>1. PICK j \in 1..Len(r) : t = r[j].seq
      BY DEF RingSeqs
    <3>2. DurableHistory[t] = r[j].digest
      BY <1>2, <1>3, <3>1, ViewFacts
    <3>3. CASE \E i \in 1..Len(cs.ring) : cs.ring[i] = r[j]
      <4>1. PICK i \in 1..Len(cs.ring) : cs.ring[i] = r[j]
        BY <3>3
      <4>2. View(cs, archiveFile)[cs.ring[i].seq] = cs.ring[i].digest
        BY <1>2, ViewFacts, ZenonT(40)
      <4>3. t \in RingSeqs(cs)
        BY <3>1, <4>1 DEF RingSeqs
      <4> QED
        BY <1>3, <2>3, <3>1, <3>2, <4>1, <4>2, <4>3
    <3>4. CASE /\ j = 1 /\ Len(r) = RingCap
               /\ r[1].seq \in DOMAIN archiveFile \ RingSeqs(cs)
      <4>1. View(cs, archiveFile)[t] = archiveFile[t]
        <5>1. \A s \in DOMAIN archiveFile \ RingSeqs(cs) :
                 View(cs, archiveFile)[s] = archiveFile[s]
          BY <1>2, ViewFacts
        <5> QED
          BY <3>1, <3>4, <5>1
      <4>2. archiveFile[t] = r[j].digest
        <5>1. ArchiveRecorded(archiveFile) /\ RingRecorded(sequenceFile)
          BY <1>1 DEF TruthInv, SequenceWritten
        <5>2. sequenceFile.ring = r
          BY DEF OnFile, Decode
        <5>3. recorded[t] = {archiveFile[t]} /\ recorded[t] = {r[j].digest}
          BY <3>1, <3>4, <5>1, <5>2 DEF ArchiveRecorded, RingRecorded
        <5> QED
          BY <5>3
      <4> QED
        BY <1>3, <2>3, <3>1, <3>2, <3>4, <4>1, <4>2
    <3> QED
      BY <2>8, <3>3, <3>4
  <2>10. ASSUME NEW t \in DOMAIN archiveFile \ RingSeqs(OnFile)
         PROVE  t \in DOMAIN DurableHistory' /\ DurableHistory'[t] = DurableHistory[t]
    <3>1. t < s0 /\ t \in SeqNo
      BY <2>3, <2>6
    <3>2. t # s0
      BY <2>1, <3>1 DEF SeqNo
    <3>3. t \notin RingSeqs(cs)
      BY <2>7, <3>2
    <3>4. View(cs, archiveFile)[t] = archiveFile[t]
      <4>1. \A s \in DOMAIN archiveFile \ RingSeqs(cs) : View(cs, archiveFile)[s] = archiveFile[s]
        BY <1>2, ViewFacts, ZenonT(40)
      <4> QED
        BY <3>3, <4>1
    <3>5. View(OnFile, archiveFile)[t] = archiveFile[t]
      BY <1>3a
    <3> QED
      BY <1>3, <2>3, <3>4, <3>5
  <2>11. DOMAIN DurableHistory' = DOMAIN DurableHistory \cup {s0}
    BY <2>3, <2>7, <2>9, <2>10
  <2>12. s0 \notin DOMAIN DurableHistory
    BY <2>1, <2>6 DEF SeqNo
  <2>13. Abstract!Harden
    BY <2>3, <2>6, <2>9, <2>10, <2>11, <2>12 DEF Abstract!Harden, Abstract!Agree
  <2> QED
    BY <2>13 DEF Abstract!Next
<1> QED
  BY <1>4, <1>5

\* Finishing the rewrite leaves on file what was being written.
LEMMA WriteRefines ==
    ASSUME ShapeInv, faults = {}, faults' = {}, WriteSequence
    PROVE  UNCHANGED DurableHistory
<1>1. /\ pc = "write" /\ pc' # "write" /\ sequenceFile' = Encode(cs)
      /\ UNCHANGED <<cs, archiveFile>>
  BY DEF WriteSequence, SaveEnds
<1>2. cs \in Store /\ Coherent(cs)
  BY OnFileFacts
<1>3. /\ DurableHistory = View(cs, archiveFile)
      /\ DurableHistory' = View(Decode(Encode(cs)), archiveFile)
  <2>1. DurableHistory' = View(IF pc' = "write" THEN cs' ELSE OnFile', archiveFile')
    BY DEF DurableHistory, DurableDigest, View, OnFile
  <2> QED
    BY <1>1, <2>1, HistoryIsView DEF OnFile
<1>4. /\ Decode(Encode(cs)).ring = cs.ring /\ Decode(Encode(cs)).marker = cs.marker
      /\ cs.marker # None => Decode(Encode(cs)).markerDigest = cs.markerDigest
  BY <1>2 DEF Decode, Encode, Coherent
<1>5. CASE cs.marker # None
  BY <1>3, <1>4, <1>5, ViewOf
<1>6. CASE cs.marker = None
  <2>1. \A s \in SeqNo : s # None
    BY SequenceAssumption DEF SeqNo
  <2> DEFINE x == Decode(Encode(cs))
  <2>2. x.ring = cs.ring /\ x.marker = None
    BY <1>4, <1>6
  <2> HIDE DEF x
  <2>3. \A s : RingDigest(x, s) = RingDigest(cs, s)
    BY <2>2 DEF RingDigest, Slots
  <2>4. \A s \in SeqNo : StoredDigest(x, archiveFile, s) = StoredDigest(cs, archiveFile, s)
    BY <1>6, <2>1, <2>2, <2>3 DEF StoredDigest
  <2>5. View(x, archiveFile) = View(cs, archiveFile)
    BY <2>4 DEF View
  <2> QED
    BY <1>3, <2>5 DEF x
<1> QED
  BY <1>5, <1>6

LEMMA HistoryInit == Init => Abstract!Init
<1> SUFFICES ASSUME Init PROVE DurableHistory = << >>
  BY DEF Abstract!Init
<1>1. CASE faults # {}
  BY <1>1, HistoryIsView
<1>2. CASE faults = {}
  <2>1. DurableHistory = View(OnFile, archiveFile)
    BY <1>2, HistoryIsView DEF Init
  <2>2. /\ OnFile \in Store /\ Coherent(OnFile) /\ ArchiveOK(archiveFile)
        /\ Len(OnFile.ring) = 0 /\ DOMAIN archiveFile = {}
    <3>1. ShapeInv
      BY ShapeInit
    <3>2. OnFile.ring = << >>
      BY DEF Init, OnFile, Decode, Blank, Encode, EmptyStore
    <3> QED
      BY <3>1, <3>2, OnFileFacts DEF Init
  <2>3. DOMAIN View(OnFile, archiveFile) = {}
    <3>1. RingSeqs(OnFile) = {}
      BY <2>2 DEF RingSeqs
    <3> QED
      BY <2>2, <3>1, ViewFacts
  <2> QED
    BY <2>1, <2>3 DEF View
<1> QED
  BY <1>1, <1>2

LEMMA HistoryStep ==
    ShapeInv /\ TruthInv /\ RefInv /\ [Next]_vars => [Abstract!Next]_DurableHistory
<1> SUFFICES ASSUME ShapeInv, TruthInv, RefInv, [Next]_vars
             PROVE  [Abstract!Next]_DurableHistory
  OBVIOUS
<1>1. faults' = faults
  BY StepKinds DEF NodeStep, nodeVars, RecordQuorumCheckpoint, WriteArchive, TruncateSequence, SkipSave,
         WriteSequence, Shutdown, Crash, Recover
<1>2. CASE faults # {}
  <2>1. DurableHistory' = << >>
    <3>1. {t \in SeqNo : faults' = {} /\ DurableDigest(t)' # None} = {}
      BY <1>1, <1>2
    <3> QED
      BY <3>1 DEF DurableHistory
  <2> QED
    BY <1>2, <2>1, HistoryIsView
<1>3. CASE faults = {}
  <2>1. ASSUME NEW d \in Digest, RecordQuorumCheckpoint(d) PROVE UNCHANGED DurableHistory
    BY <2>1, Stutter DEF RecordQuorumCheckpoint
  <2>2. CASE WriteArchive
    BY <1>1, <1>3, <2>2, ArchiveRefines
  <2>3. CASE TruncateSequence
    BY <1>1, <1>3, <2>3, TruncateRefines
  <2>4. CASE SkipSave
    BY <1>3, <2>4 DEF SkipSave
  <2>5. CASE WriteSequence
    BY <1>1, <1>3, <2>5, WriteRefines
  <2>6. CASE Shutdown
    BY <2>6, Stutter DEF Shutdown
  <2>7. CASE Crash
    BY <1>3, <2>7, Stutter DEF Crash
  <2>8. CASE Recover
    BY <2>8, Stutter DEF Recover
  <2>9. CASE UNCHANGED nodeVars
    BY <2>9 DEF nodeVars, DurableHistory, DurableDigest
  <2> QED
    BY StepKinds, <2>1, <2>2, <2>3, <2>4, <2>5, <2>6, <2>7, <2>8, <2>9 DEF NodeStep
<1> QED
  BY <1>2, <1>3

\* Without faults, the durable checkpoints of a node implement the abstract
\* history: every step of commit, save, shutdown, crash and recovery hardens the
\* next sequence, forgets the oldest of a full history, or changes nothing.
THEOREM HistoryRefinedAlways == Spec => HistoryRefined
<1>1. /\ Init => ShapeInv /\ TruthInv /\ RefInv
      /\ ShapeInv /\ TruthInv /\ RefInv /\ [Next]_vars => (ShapeInv /\ TruthInv /\ RefInv)'
  BY ShapeInit, ShapeStep, TruthInit, TruthStep, RefInit, RefStep
<1> QED
  BY <1>1, HistoryInit, HistoryStep, PTL DEF Spec, HistoryRefined, Abstract!Spec
=============================================================================
