--------------------------- MODULE PeerTableProofs ---------------------------
(***************************************************************************)
(* Theorems about PeerTable, for every finite set of connections, every    *)
(* assignment of keys and prefixes and every limit.                        *)
(***************************************************************************)
EXTENDS PeerTable, FiniteSetTheorems, TLAPS

\* The connection the main thread is accepting or dialling is in nobody else's
\* hands, and no worker has one that was not handed to it.
Accepting ==
    /\ pc \in {"ratio", "load", "subnet", "spawn", "counted"} =>
           conn \in Conn /\ life[conn] = "new"
    /\ pc = "counted" => conn \notin Outbound
    /\ \A c \in Conn : life[c] = "new" => worker[c] = "none"

IInv ==
    /\ TypeOK
    /\ Accepting
    /\ OneOwner
    /\ InflightIsLiveInbound
    /\ NothingOutlivesTheServer

\* The steps that touch neither the table, nor a connection, nor a worker.
Bookkeeping ==
    /\ \/ BroadcastBegins \/ BroadcastEnds \/ \E k \in Key : Send(k)
       \/ DropPeers \/ RotateBegins \/ RotateSnapshot \/ Stop
       \/ ReadDirections
       \/ UNCHANGED vars

\* What Next is made of.
LEMMA NextCases ==
    ASSUME [Next]_vars
    PROVE  \/ \E c \in Conn : Begin(c)
           \/ LoadInflight \/ CheckSubnet \/ RaiseInflight \/ Spawn \/ SpawnFails
           \/ \E k \in Key : RemovePeer(k)
           \/ Deinit
           \/ \E c \in Conn : WorkerSteps(c)
           \/ Bookkeeping
BY DEF Next, MainContinues, Bookkeeping

\* Bookkeeping leaves what the invariants speak of alone.
LEMMA BookkeepingFrame ==
    ASSUME Bookkeeping
    PROVE  UNCHANGED <<peers, life, worker, inflight, replaced>>
BY DEF Bookkeeping, BroadcastBegins, BroadcastEnds, Send, DropPeers, RotateBegins,
       RotateSnapshot, Stop, ReadDirections, vars

\* A refused connection was new, so it is in nobody's hands.
LEMMA RefuseFacts ==
    ASSUME IInv, pc \in {"ratio", "load", "subnet", "spawn", "counted"}, Refuse
    PROVE  /\ conn \in Conn /\ life[conn] = "new"
           /\ life' = [life EXCEPT ![conn] = "freed"]
           /\ pc' = "loop"
BY DEF IInv, Accepting, Refuse

----------------------------------------------------------------------------
(* Ownership.                                                              *)

\* If no connection changes hands or comes back to life, ownership stands: the
\* connections whose life changes had no owner.
LEMMA OwnerKept ==
    ASSUME IInv, UNCHANGED <<peers, worker, replaced>>,
           NEW c \in Conn, life[c] = "new",
           life' = [life EXCEPT ![c] = "freed"]
    PROVE  OneOwner'
BY DEF IInv, TypeOK, OneOwner

\* No step frees, publishes or drops a connection that another owner still has.
LEMMA OwnerStep == IInv /\ [Next]_vars => OneOwner'
<1> SUFFICES ASSUME IInv, [Next]_vars PROVE OneOwner'
  OBVIOUS
<1>0. TypeOK /\ OneOwner
  BY DEF IInv
<1>1. ASSUME NEW c \in Conn, Begin(c) PROVE OneOwner'
  <2>1. UNCHANGED <<peers, worker, replaced>> /\ life[c] = "new"
    BY <1>1 DEF Begin
  <2>2. life' = life \/ life' = [life EXCEPT ![c] = "freed"]
    BY <1>1 DEF Begin
  <2> QED
    BY <1>0, <2>1, <2>2, OwnerKept DEF OneOwner
<1>2. ASSUME LoadInflight \/ CheckSubnet \/ RaiseInflight \/ SpawnFails PROVE OneOwner'
  <2>1. UNCHANGED <<peers, worker, replaced>>
    BY <1>2 DEF LoadInflight, CheckSubnet, RaiseInflight, SpawnFails
  <2>2. pc \in {"load", "subnet", "spawn", "counted"} /\ (Refuse \/ life' = life)
    BY <1>2 DEF LoadInflight, CheckSubnet, RaiseInflight, SpawnFails, Spawning
  <2> QED
    BY <1>0, <2>1, <2>2, OwnerKept, RefuseFacts DEF OneOwner
<1>3. CASE Spawn
  <2>1. conn \in Conn /\ life[conn] = "new"
    BY <1>3 DEF Spawn, Spawning, IInv, Accepting
  <2> QED
    BY <1>0, <1>3, <2>1 DEF Spawn, TypeOK, OneOwner
<1>4. ASSUME NEW k \in Key, RemovePeer(k) PROVE OneOwner'
  <2>1. /\ life' = [c \in Conn |-> IF c = peers[k] THEN "freed" ELSE life[c]]
        /\ peers' = [peers EXCEPT ![k] = None]
        /\ UNCHANGED <<worker, replaced>>
    BY <1>4 DEF RemovePeer
  <2>2. ASSUME NEW c \in Conn, c = peers[k]
        PROVE  /\ ~(worker[c] \in {"handshake", "publish"})
               /\ {j \in Key : peers'[j] = c} = {}
    BY <1>0, <2>1, <2>2, PeerAssumption DEF TypeOK, OneOwner
  <2>3. ASSUME NEW c \in Conn, c # peers[k]
        PROVE  {j \in Key : peers'[j] = c} = {j \in Key : peers[j] = c}
    BY <1>0, <2>1, <2>3, PeerAssumption DEF TypeOK
  <2> QED
    BY <1>0, <2>1, <2>2, <2>3 DEF TypeOK, OneOwner
<1>5. CASE Deinit
  <2>1. /\ life' = [c \in Conn |-> IF c \in Published THEN "freed" ELSE life[c]]
        /\ peers' = [k \in Key |-> None]
        /\ UNCHANGED <<worker, replaced>>
        /\ \A c \in Conn : worker[c] = "none"
    BY <1>5 DEF Deinit, Destroy
  <2>2. \A c \in Conn : {k \in Key : peers'[k] = c} = {}
    BY <2>1, PeerAssumption
  <2>3. ASSUME NEW c \in Conn, life'[c] = "open" PROVE c \in replaced
    <3>1. life[c] = "open" /\ c \notin Published /\ c # None
      BY <2>1, <2>3, PeerAssumption
    <3>2. {k \in Key : peers[k] = c} = {}
      BY <3>1 DEF Published
    <3>3. worker[c] = "none"
      BY <2>1
    <3> QED
      BY <1>0, <3>1, <3>2, <3>3 DEF OneOwner
  <2> QED
    BY <2>1, <2>2, <2>3 DEF OneOwner
<1>6. ASSUME NEW c \in Conn, WorkerSteps(c) PROVE OneOwner'
  <2>1. CASE HandshakeDone(c)
    BY <1>0, <2>1 DEF HandshakeDone, TypeOK, OneOwner
  <2>2. CASE HandshakeFails(c)
    BY <1>0, <2>2 DEF HandshakeFails, GiveUp, TypeOK, OneOwner
  <2>3. CASE Publish(c)
    <3> DEFINE old == peers[KeyOf[c]]
    <3>1. /\ peers' = [peers EXCEPT ![KeyOf[c]] = c]
          /\ replaced' = replaced \cup ({old} \ {None})
          /\ worker' = [worker EXCEPT ![c] = "leaving"]
          /\ life' = life /\ worker[c] = "publish"
      BY <2>3 DEF Publish, SetEntry
    <3>2. KeyOf[c] \in Key /\ {k \in Key : peers[k] = c} = {} /\ life[c] = "open"
      BY <1>0, <3>1, PeerAssumption DEF OneOwner
    <3>3. {k \in Key : peers'[k] = c} = {KeyOf[c]}
      BY <1>0, <3>1, <3>2 DEF TypeOK
    <3>4. ASSUME NEW d \in Conn, d # c, d # old
          PROVE  {k \in Key : peers'[k] = d} = {k \in Key : peers[k] = d}
      BY <1>0, <3>1, <3>2, <3>4 DEF TypeOK
    <3>5. ASSUME NEW d \in Conn, d = old
          PROVE  /\ d # c /\ d \in replaced' /\ worker[d] \notin {"handshake", "publish"}
                 /\ {k \in Key : peers'[k] = d} = {}
      BY <1>0, <3>1, <3>2, <3>5, PeerAssumption DEF TypeOK, OneOwner
    <3> HIDE DEF old
    <3> QED
      BY <1>0, <3>1, <3>2, <3>3, <3>4, <3>5 DEF TypeOK, OneOwner
  <2>4. CASE PublishFails(c)
    <3> DEFINE old == peers[KeyOf[c]]
    <3>1. /\ life' = [life EXCEPT ![c] = "freed"]
          /\ worker' = [worker EXCEPT ![c] = IF c \in Outbound THEN "none" ELSE "leaving"]
          /\ worker[c] = "publish"
          /\ \/ UNCHANGED <<peers, replaced>>
             \/ /\ peers' = [peers EXCEPT ![KeyOf[c]] = None]
                /\ replaced' = replaced \cup ({old} \ {None})
      BY <2>4 DEF PublishFails, GiveUp, SetEntry
    <3>2. KeyOf[c] \in Key /\ {k \in Key : peers[k] = c} = {} /\ life[c] = "open"
      BY <1>0, <3>1, PeerAssumption DEF OneOwner
    <3>3. {k \in Key : peers'[k] = c} = {}
      BY <1>0, <3>1, <3>2, PeerAssumption DEF TypeOK
    <3>4. ASSUME NEW d \in Conn, d # c, d # old \/ peers' = peers
          PROVE  {k \in Key : peers'[k] = d} = {k \in Key : peers[k] = d}
      BY <1>0, <3>1, <3>2, <3>4, PeerAssumption DEF TypeOK
    <3>5. ASSUME NEW d \in Conn, d = old, peers' # peers
          PROVE  /\ d # c /\ d \in replaced' /\ worker[d] \notin {"handshake", "publish"}
                 /\ {k \in Key : peers'[k] = d} = {}
      BY <1>0, <3>1, <3>2, <3>5, PeerAssumption DEF TypeOK, OneOwner
    <3>6. replaced \subseteq replaced'
      BY <3>1
    <3> HIDE DEF old
    <3> QED
      BY <1>0, <3>1, <3>2, <3>3, <3>4, <3>5, <3>6 DEF TypeOK, OneOwner
  <2>5. CASE Leave(c)
    BY <1>0, <2>5 DEF Leave, TypeOK, OneOwner
  <2> QED
    BY <1>6, <2>1, <2>2, <2>3, <2>4, <2>5 DEF WorkerSteps
<1>7. CASE Bookkeeping
  BY <1>0, <1>7, BookkeepingFrame DEF OneOwner
<1> QED
  BY <1>1, <1>2, <1>3, <1>4, <1>5, <1>6, <1>7, NextCases

\* The main thread keeps the connection it is working on to itself.
LEMMA AcceptingStep == IInv /\ [Next]_vars => Accepting'
<1> SUFFICES ASSUME IInv, [Next]_vars PROVE Accepting'
  OBVIOUS
<1>0. TypeOK /\ Accepting /\ OneOwner
  BY DEF IInv
<1> USE DEF Accepting
<1>1. ASSUME NEW c \in Conn, Begin(c) PROVE Accepting'
  BY <1>0, <1>1 DEF Begin, TypeOK
<1>2. CASE LoadInflight
  BY <1>0, <1>2 DEF LoadInflight, Refuse, TypeOK
<1>3. CASE CheckSubnet
  BY <1>0, <1>3 DEF CheckSubnet, Refuse, TypeOK
<1>10. CASE RaiseInflight
  BY <1>0, <1>10 DEF RaiseInflight, TypeOK
<1>4. CASE Spawn
  BY <1>0, <1>4 DEF Spawn, Spawning, TypeOK
<1>5. CASE SpawnFails
  BY <1>0, <1>5 DEF SpawnFails, Spawning, Refuse, TypeOK
<1>6. CASE Deinit
  BY <1>0, <1>6 DEF Deinit, Destroy
<1>7. ASSUME NEW k \in Key, RemovePeer(k) PROVE Accepting'
  BY <1>0, <1>7 DEF RemovePeer
<1>8. ASSUME NEW c \in Conn, WorkerSteps(c) PROVE Accepting'
  <2>1. worker[c] # "none" /\ life[c] # "new"
    BY <1>0, <1>8
       DEF WorkerSteps, HandshakeDone, HandshakeFails, Publish, PublishFails, Leave
  <2>2. life' = life \/ life' = [life EXCEPT ![c] = "freed"]
    BY <1>8
       DEF WorkerSteps, HandshakeDone, HandshakeFails, Publish, PublishFails, GiveUp, Leave
  <2>3. UNCHANGED <<pc, conn>> /\ \A d \in Conn \ {c} : worker'[d] = worker[d]
    BY <1>0, <1>8
       DEF WorkerSteps, HandshakeDone, HandshakeFails, Publish, PublishFails, GiveUp, Leave, TypeOK
  <2> QED
    BY <1>0, <2>1, <2>2, <2>3 DEF TypeOK
<1>9. CASE Bookkeeping
  BY <1>0, <1>9 DEF Bookkeeping, BroadcastBegins, BroadcastEnds, Send, DropPeers, RotateBegins,
       RotateSnapshot, Stop, ReadDirections, vars
<1> QED
  BY <1>1, <1>2, <1>3, <1>4, <1>5, <1>6, <1>7, <1>8, <1>9, <1>10, NextCases

\* Once the table is torn down nothing runs, and only overwritten connections
\* were never freed.
LEMMA DownStep == IInv /\ [Next]_vars => NothingOutlivesTheServer'
<1> SUFFICES ASSUME IInv, [Next]_vars, pc' = "down"
             PROVE  /\ \A c \in Conn : worker'[c] = "none"
                    /\ \A c \in Conn : life'[c] = "open" => c \in replaced'
  BY DEF NothingOutlivesTheServer
<1>1. CASE Deinit
  <2>1. \A c \in Conn : worker'[c] = "none"
    BY <1>1 DEF Deinit, Destroy
  <2>2. OneOwner' /\ \A k \in Key : peers'[k] = None
    BY <1>1, OwnerStep DEF Deinit, Destroy
  <2>3. \A c \in Conn : {k \in Key : peers'[k] = c} = {}
    BY <2>2, PeerAssumption
  <2> QED
    BY <2>1, <2>2, <2>3 DEF OneOwner
<1>2. CASE ~Deinit
  <2>1. pc = "down"
    <3>1. \A c \in Conn : ~Begin(c) \/ pc' = pc \/ pc' \in {"ratio", "subnet"}
      BY DEF Begin
    <3>2. \A c \in Conn : ~WorkerSteps(c) \/ pc' = pc
      BY DEF WorkerSteps, HandshakeDone, HandshakeFails, Publish, PublishFails, GiveUp, Leave
    <3>3. \A k \in Key : ~RemovePeer(k) \/ pc' = pc \/ pc' = "loop"
      BY DEF RemovePeer
    <3>4. ~(LoadInflight \/ CheckSubnet \/ RaiseInflight \/ Spawn \/ SpawnFails)
      BY DEF LoadInflight, CheckSubnet, RaiseInflight, Spawn, SpawnFails, Refuse
    <3>5. ~Bookkeeping \/ pc' = pc
      BY DEF Bookkeeping, BroadcastBegins, BroadcastEnds, Send, DropPeers, RotateBegins,
             RotateSnapshot, Stop, ReadDirections, vars
    <3> QED
      BY <1>2, <3>1, <3>2, <3>3, <3>4, <3>5, NextCases
  <2>2. /\ \A c \in Conn : worker[c] = "none"
        /\ \A c \in Conn : life[c] = "open" => c \in replaced
    BY <2>1 DEF IInv, NothingOutlivesTheServer
  <2>3. \A c \in Conn : ~WorkerSteps(c)
    BY <2>2 DEF WorkerSteps, HandshakeDone, HandshakeFails, Publish, PublishFails, Leave
  <2>4. Bookkeeping
    BY <1>2, <2>1, <2>3, NextCases
       DEF Begin, LoadInflight, CheckSubnet, RaiseInflight, Spawn, SpawnFails, Spawning,
           RemovePeer
  <2> QED
    BY <2>2, <2>4, BookkeepingFrame
<1> QED
  BY <1>1, <1>2

----------------------------------------------------------------------------
(* Counting.                                                               *)

\* The inbound workers that have not exited, and the one about to be started.
Live == {c \in Conn \ Outbound : worker[c] # "none" \/ (pc = "counted" /\ c = conn)}

\* Every step changes the count with the set of live inbound workers.
LEMMA InflightStep == IInv /\ [Next]_vars => InflightIsLiveInbound'
<1> SUFFICES ASSUME IInv, [Next]_vars PROVE InflightIsLiveInbound'
  OBVIOUS
<1>0. /\ TypeOK /\ OneOwner /\ inflight = Cardinality(Live)
      /\ IsFiniteSet(Live) /\ Cardinality(Live) \in Nat
  <2>1. Live \in SUBSET Conn
    BY DEF Live
  <2> QED
    BY <2>1, FS_Subset, FS_CardinalityType, PeerAssumption
       DEF IInv, InflightIsLiveInbound, Live
<1>1. SUFFICES inflight' = Cardinality(Live')
  BY DEF InflightIsLiveInbound, Live
<1>2. ASSUME UNCHANGED <<worker, inflight>>,
             (pc # "counted" /\ pc' # "counted") \/ UNCHANGED <<pc, conn>>
      PROVE  inflight' = Cardinality(Live')
  BY <1>0, <1>2 DEF Live
<1>3. CASE Spawn \/ SpawnFails
  <2>1. /\ conn \in Conn /\ worker[conn] = "none"
        /\ pc = "spawn" => conn \in Outbound
        /\ pc = "counted" => conn \notin Outbound
        /\ pc \in {"spawn", "counted"} /\ pc' = "loop"
    BY <1>3 DEF Spawn, SpawnFails, Spawning, Refuse, IInv, Accepting
  <2>2. CASE conn \in Outbound
    <3>1. Live' = Live
      BY <1>0, <1>3, <2>1, <2>2 DEF Spawn, SpawnFails, Live, TypeOK
    <3>2. UNCHANGED inflight
      BY <1>3, <2>2 DEF Spawn, SpawnFails
    <3> QED
      BY <1>0, <3>1, <3>2
  <2>3. CASE conn \notin Outbound /\ Spawn
    <3>1. Live' = Live
      BY <1>0, <2>1, <2>3 DEF Spawn, Live, TypeOK
    <3> QED
      BY <1>0, <2>3, <3>1 DEF Spawn
  <2>4. CASE conn \notin Outbound /\ SpawnFails
    <3>1. conn \in Live /\ Live' = Live \ {conn} /\ inflight' = inflight - 1
      BY <1>0, <2>1, <2>4 DEF SpawnFails, Live, TypeOK
    <3> QED
      BY <1>0, <3>1, FS_RemoveElement
  <2> QED
    BY <1>3, <2>2, <2>3, <2>4
<1>8. CASE RaiseInflight
  <2>1. conn \in Conn \ Outbound /\ worker[conn] = "none" /\ pc = "spawn"
    BY <1>8 DEF RaiseInflight, IInv, Accepting
  <2>2. Live' = Live \cup {conn} /\ conn \notin Live /\ inflight' = inflight + 1
    BY <1>8, <2>1 DEF RaiseInflight, Live
  <2> QED
    BY <1>0, <2>2, FS_AddElement
<1>4. ASSUME NEW c \in Conn, WorkerSteps(c) PROVE inflight' = Cardinality(Live')
  <2>0. /\ UNCHANGED <<pc, conn>>
        /\ worker[c] # "none" /\ ~(pc = "counted" /\ c = conn)
    BY <1>4
       DEF WorkerSteps, HandshakeDone, HandshakeFails, Publish, PublishFails, GiveUp, Leave,
           IInv, Accepting
  <2>1. CASE UNCHANGED inflight /\ worker[c] # "none"
             /\ (c \in Outbound \/ worker'[c] # "none")
             /\ \A d \in Conn \ {c} : worker'[d] = worker[d]
    <3>1. Live' = Live
      BY <2>0, <2>1 DEF Live
    <3> QED
      BY <1>0, <2>1, <3>1
  <2>2. CASE Leave(c) /\ c \notin Outbound
    <3>1. c \in Live /\ Live' = Live \ {c} /\ inflight' = inflight - 1
      BY <1>0, <1>4, <2>0, <2>2 DEF Leave, Live, TypeOK
    <3> QED
      BY <1>0, <3>1, FS_RemoveElement
  <2> QED
    BY <1>0, <1>4, <2>1, <2>2
       DEF WorkerSteps, HandshakeDone, HandshakeFails, Publish, PublishFails, GiveUp, Leave, TypeOK
<1>5. ASSUME \/ \E c \in Conn : Begin(c)
             \/ \E k \in Key : RemovePeer(k)
             \/ LoadInflight \/ CheckSubnet \/ Deinit
      PROVE  UNCHANGED <<worker, inflight>> /\ pc # "counted" /\ pc' # "counted"
  BY <1>5 DEF Begin, RemovePeer, LoadInflight, CheckSubnet, Refuse, Deinit, Destroy
<1>6. ASSUME Bookkeeping
      PROVE  (pc # "counted" /\ pc' # "counted") \/ UNCHANGED <<pc, conn>>
  BY <1>6 DEF Bookkeeping, BroadcastBegins, BroadcastEnds, Send, DropPeers, RotateBegins,
              RotateSnapshot, Stop, ReadDirections, vars
<1> QED
  BY <1>2, <1>3, <1>4, <1>5, <1>6, <1>8, NextCases, BookkeepingFrame

----------------------------------------------------------------------------
(* Types.                                                                  *)

\* Both counts of the table are at most the number of connections.
LEMMA CountsType ==
    ASSUME peers \in [Key -> Conn \cup {None}]
    PROVE  /\ Counts \in [inbound : 0..Cardinality(Conn), outbound : 0..Cardinality(Conn)]
           /\ Nothing \in [inbound : 0..Cardinality(Conn), outbound : 0..Cardinality(Conn)]
<1>1. IsFiniteSet(Conn) /\ Cardinality(Conn) \in Nat
  BY PeerAssumption, FS_CardinalityType
<1>2. ASSUME NEW S \in SUBSET Conn PROVE Count(S) \in 0..Cardinality(Conn)
  <2>1. IsFiniteSet(S) /\ Cardinality(S) <= Cardinality(Conn)
    BY <1>1, FS_Subset
  <2>2. Cardinality(S) \in Nat
    BY <2>1, FS_CardinalityType
  <2> QED
    BY <1>1, <2>1, <2>2 DEF Count
<1>3. Published \in SUBSET Conn
  BY DEF Published
<1>4. Published \ Outbound \in SUBSET Conn /\ Published \cap Outbound \in SUBSET Conn
  BY <1>3
<1>5. /\ Count(Published \ Outbound) \in 0..Cardinality(Conn)
      /\ Count(Published \cap Outbound) \in 0..Cardinality(Conn)
  BY <1>2, <1>4
<1> QED
  BY <1>1, <1>5 DEF Counts, Nothing

\* Every step keeps the types; that the counter stays within the connections is
\* that it counts some of them.
LEMMA TypeStep == IInv /\ [Next]_vars => TypeOK'
<1> SUFFICES ASSUME IInv, [Next]_vars PROVE TypeOK'
  OBVIOUS
<1>0. TypeOK /\ Accepting
  BY DEF IInv
<1>1. inflight' \in 0..Cardinality(Conn)
  <2>1. inflight' = Cardinality(Live')
    BY InflightStep DEF InflightIsLiveInbound, Live
  <2>2. Live' \in SUBSET Conn
    BY DEF Live
  <2>3. IsFiniteSet(Live') /\ Cardinality(Live') <= Cardinality(Conn)
    BY <2>2, FS_Subset, PeerAssumption
  <2>4. Cardinality(Live') \in Nat /\ Cardinality(Conn) \in Nat
    BY <2>3, FS_CardinalityType, PeerAssumption
  <2> QED
    BY <2>1, <2>3, <2>4
<1>2. /\ Counts \in [inbound : 0..Cardinality(Conn), outbound : 0..Cardinality(Conn)]
      /\ Nothing \in [inbound : 0..Cardinality(Conn), outbound : 0..Cardinality(Conn)]
  BY <1>0, CountsType DEF TypeOK
<1> HIDE DEF Counts, Nothing
<1>3. ASSUME NEW c \in Conn, Begin(c) PROVE TypeOK'
  BY <1>0, <1>1, <1>3 DEF Begin, TypeOK
<1>4. CASE LoadInflight \/ CheckSubnet \/ RaiseInflight \/ Spawn \/ SpawnFails
  BY <1>0, <1>1, <1>2, <1>4
     DEF LoadInflight, CheckSubnet, RaiseInflight, Spawn, SpawnFails, Spawning, Refuse, TypeOK,
         Accepting
<1>5. ASSUME NEW k \in Key, RemovePeer(k) PROVE TypeOK'
  BY <1>0, <1>1, <1>5 DEF RemovePeer, TypeOK
<1>6. CASE Deinit
  BY <1>0, <1>1, <1>6 DEF Deinit, Destroy, TypeOK
<1>7. ASSUME NEW c \in Conn, WorkerSteps(c) PROVE TypeOK'
  BY <1>0, <1>1, <1>7, PeerAssumption
     DEF WorkerSteps, HandshakeDone, HandshakeFails, Publish, PublishFails, SetEntry, GiveUp,
         Leave, TypeOK
<1>8. CASE Bookkeeping
  <2>1. CASE RotateSnapshot
    BY <1>0, <1>1, <1>2, <2>1 DEF RotateSnapshot, Victims, TypeOK
  <2> QED
    BY <1>0, <1>1, <1>2, <1>8, <2>1
       DEF Bookkeeping, BroadcastBegins, BroadcastEnds, Send, DropPeers, RotateBegins,
           Stop, ReadDirections, vars, TypeOK
<1> QED
  BY <1>3, <1>4, <1>5, <1>6, <1>7, <1>8, NextCases

----------------------------------------------------------------------------
\* A server with an empty table satisfies the invariant.
LEMMA InitInv == Init => IInv
<1> SUFFICES ASSUME Init PROVE IInv
  OBVIOUS
<1>1. Cardinality(Conn) \in Nat
  BY PeerAssumption, FS_CardinalityType
<1>2. TypeOK
  <2>1. peers \in [Key -> Conn \cup {None}]
    BY DEF Init
  <2>2. seen \in [inbound : 0..Cardinality(Conn), outbound : 0..Cardinality(Conn)]
    BY <2>1, CountsType DEF Init
  <2>3. inflight \in 0..Cardinality(Conn)
    BY <1>1 DEF Init
  <2> QED
    BY <2>1, <2>2, <2>3 DEF Init, TypeOK
<1>3. Accepting /\ NothingOutlivesTheServer
  BY DEF Init, Accepting, NothingOutlivesTheServer
<1>4. OneOwner
  BY PeerAssumption DEF Init, OneOwner
<1>5. InflightIsLiveInbound
  <2>1. Live = {}
    BY DEF Init, Live
  <2> QED
    BY <2>1, FS_EmptySet DEF Init, InflightIsLiveInbound, Live
<1> QED
  BY <1>2, <1>3, <1>4, <1>5 DEF IInv

\* The invariant is inductive.
LEMMA InvStep == IInv /\ [Next]_vars => IInv'
<1> SUFFICES ASSUME IInv, [Next]_vars PROVE IInv'
  OBVIOUS
<1>1. TypeOK' /\ Accepting' /\ OneOwner' /\ InflightIsLiveInbound' /\ NothingOutlivesTheServer'
  BY TypeStep, AcceptingStep, OwnerStep, InflightStep, DownStep
<1> QED
  BY <1>1 DEF IInv

\* The table, the workers and the main thread keep their types.
THEOREM TypeCorrect == Spec => []TypeOK
<1>1. IInv => TypeOK
  BY DEF IInv
<1> QED
  BY InitInv, InvStep, <1>1, PTL DEF Spec

\* No interleaving of handshakes, publishing, failed publishing, broadcasts,
\* removals, rotation and shutdown leaves a connection with two owners, or a
\* freed one in the table.
THEOREM OneOwnerAlways == Spec => []OneOwner
<1>1. IInv => OneOwner
  BY DEF IInv
<1> QED
  BY InitInv, InvStep, <1>1, PTL DEF Spec

\* The in-flight counter is always the number of live inbound workers, whatever
\* spawns, handshakes and publishes fail, and of the one handleConnection has
\* counted and not yet spawned.
THEOREM InflightExact == Spec => []InflightIsLiveInbound
<1>1. IInv => InflightIsLiveInbound
  BY DEF IInv
<1> QED
  BY InitInv, InvStep, <1>1, PTL DEF Spec

\* After the teardown no worker runs and only overwritten connections leak.
THEOREM CleanTeardown == Spec => []NothingOutlivesTheServer
<1>1. IInv => NothingOutlivesTheServer
  BY DEF IInv
<1> QED
  BY InitInv, InvStep, <1>1, PTL DEF Spec

----------------------------------------------------------------------------
(* Rotation.                                                               *)

\* While a victim waits for its removal and no entry was ever overwritten, it is
\* an inbound peer or another outbound peer is in the table.
VictimSpare ==
    pc = "evict" /\ Bootstrap /\ replaced = {} =>
        \E k \in Key :
            /\ victims = {k}
            /\ \/ peers[k] \in Conn \ Outbound
               \/ \E j \in Key \ {k} : peers[j] \in Outbound

\* A victim is only picked when it can be spared.
LEMMA VictimsSpare ==
    ASSUME IInv, Bootstrap, NEW k \in Victims
    PROVE  /\ k \in Key
           /\ \/ peers[k] \in Conn \ Outbound
              \/ \E j \in Key \ {k} : peers[j] \in Outbound
<1> DEFINE outbound == {j \in Key : peers[j] \in Outbound}
<1>1. CASE {j \in Key : peers[j] \in Conn \ Outbound} # {}
  BY <1>1 DEF Victims
<1>2. CASE {j \in Key : peers[j] \in Conn \ Outbound} = {}
  <2>1. k \in outbound /\ ~(Cardinality(outbound) <= 1)
    BY <1>2 DEF Victims
  <2>2. ASSUME outbound \subseteq {k} PROVE FALSE
    <3>1. IsFiniteSet({k}) /\ Cardinality({k}) = 1
      BY FS_Singleton
    <3>2. Cardinality(outbound) <= Cardinality({k})
      BY <2>2, <3>1, FS_Subset
    <3> QED
      BY <2>1, <3>1, <3>2
  <2> QED
    BY <2>1, <2>2
<1> QED
  BY <1>1, <1>2

\* Workers only add entries while nothing is overwritten, so the spare peer
\* stays until the removal.
LEMMA VictimStep == IInv /\ VictimSpare /\ [Next]_vars => VictimSpare'
<1> SUFFICES ASSUME IInv, VictimSpare, [Next]_vars,
                    pc' = "evict", Bootstrap, replaced' = {}
             PROVE  \E k \in Key :
                       /\ victims' = {k}
                       /\ \/ peers'[k] \in Conn \ Outbound
                          \/ \E j \in Key \ {k} : peers'[j] \in Outbound
  BY DEF VictimSpare
<1>0. TypeOK
  BY DEF IInv
<1>1. CASE RotateSnapshot
  <2>1. PICK k \in Victims : victims' = {k}
    BY <1>1 DEF RotateSnapshot
  <2>2. UNCHANGED peers
    BY <1>1 DEF RotateSnapshot
  <2> QED
    BY <2>1, <2>2, VictimsSpare
<1>2. ASSUME NEW c \in Conn, WorkerSteps(c)
      PROVE  /\ UNCHANGED <<pc, victims>> /\ replaced = {}
             /\ \A k \in Key : peers[k] # None => peers'[k] = peers[k]
  <2>1. UNCHANGED <<pc, victims>> /\ replaced \subseteq replaced'
    BY <1>2 DEF WorkerSteps, HandshakeDone, HandshakeFails, Publish, PublishFails, SetEntry,
                GiveUp, Leave
  <2>2. CASE UNCHANGED peers
    BY <2>1, <2>2
  <2>3. CASE SetEntry(KeyOf[c], c) \/ SetEntry(KeyOf[c], None)
    <3>1. peers[KeyOf[c]] = None
      BY <2>3 DEF SetEntry
    <3> QED
      BY <1>0, <2>1, <2>3, <3>1, PeerAssumption DEF SetEntry, TypeOK
  <2> QED
    BY <1>2, <2>2, <2>3
       DEF WorkerSteps, HandshakeDone, HandshakeFails, Publish, PublishFails, Leave
<1>3. CASE \E c \in Conn : WorkerSteps(c)
  <2>1. /\ pc = "evict" /\ UNCHANGED victims /\ replaced = {}
        /\ \A k \in Key : peers[k] # None => peers'[k] = peers[k]
    BY <1>2, <1>3
  <2>2. PICK k \in Key : /\ victims = {k}
                         /\ \/ peers[k] \in Conn \ Outbound
                            \/ \E j \in Key \ {k} : peers[j] \in Outbound
    BY <2>1 DEF VictimSpare
  <2> QED
    BY <2>1, <2>2, PeerAssumption
<1>4. CASE UNCHANGED vars
  BY <1>4 DEF vars, VictimSpare
<1>5. ASSUME NEW k \in Key, RemovePeer(k) PROVE FALSE
  <2>1. pc = "evict" /\ replaced = {} /\ victims # {k} /\ k \in victims
    BY <1>5 DEF RemovePeer
  <2> QED
    BY <2>1 DEF VictimSpare
<1>6. ASSUME NEW c \in Conn, Begin(c) PROVE FALSE
  BY <1>6 DEF Begin
<1>7. ASSUME LoadInflight \/ CheckSubnet \/ RaiseInflight \/ Spawn \/ SpawnFails \/ Deinit
      PROVE  FALSE
  BY <1>7 DEF LoadInflight, CheckSubnet, RaiseInflight, Spawn, SpawnFails, Refuse, Deinit, Destroy
<1>8. ASSUME NEW k \in Key, Send(k) PROVE FALSE
  BY <1>8 DEF Send
<1>9. ASSUME BroadcastBegins \/ BroadcastEnds \/ DropPeers \/ RotateBegins \/ Stop
             \/ ReadDirections
      PROVE  FALSE
  BY <1>9 DEF BroadcastBegins, BroadcastEnds, DropPeers, RotateBegins, Stop, ReadDirections
<1> QED
  BY <1>1, <1>3, <1>4, <1>5, <1>6, <1>7, <1>8, <1>9, NextCases DEF Bookkeeping

\* Rotation never removes the last outbound peer while bootstrap peers are
\* configured, whatever workers publish between the snapshot and the removal
\* (as long as no connection overwrote the entry of another).
THEOREM RotationSafe == Spec => RotationKeepsOutbound
<1> DEFINE Kept == /\ pc = "evict" /\ pc' = "loop" /\ Bootstrap /\ replaced = {}
                   /\ Published \cap Outbound # {}
                   => Published' \cap Outbound # {}
<1>1. Init => VictimSpare
  BY DEF Init, VictimSpare
<1>2. IInv /\ VictimSpare /\ [Next]_vars => (IInv /\ VictimSpare)'
  BY InvStep, VictimStep
<1>3. ASSUME IInv, VictimSpare, [Next]_vars PROVE Kept
  <2> SUFFICES ASSUME pc = "evict", pc' = "loop", Bootstrap, replaced = {},
                      Published \cap Outbound # {}
               PROVE  Published' \cap Outbound # {}
    OBVIOUS
  <2>1. PICK k \in Key : RemovePeer(k)
    <3>1. \A c \in Conn : WorkerSteps(c) => UNCHANGED pc
      BY DEF WorkerSteps, HandshakeDone, HandshakeFails, Publish, PublishFails, GiveUp, Leave
    <3>2. \A c \in Conn : ~Begin(c)
      BY DEF Begin
    <3>3. ~(LoadInflight \/ CheckSubnet \/ RaiseInflight \/ Spawn \/ SpawnFails \/ Deinit)
      BY DEF LoadInflight, CheckSubnet, RaiseInflight, Spawn, SpawnFails, Spawning, Deinit
    <3>4. ~Bookkeeping
      BY DEF Bookkeeping, BroadcastBegins, BroadcastEnds, Send, DropPeers, RotateBegins,
             RotateSnapshot, Stop, ReadDirections, vars
    <3> QED
      BY <1>3, <3>1, <3>2, <3>3, <3>4, NextCases
  <2>2. victims = {k} /\ peers' = [peers EXCEPT ![k] = None]
    BY <2>1 DEF RemovePeer
  <2>3. PICK j \in Key \ {k} : peers[j] \in Outbound
    <3>1. peers[k] \in Conn \ Outbound \/ \E j \in Key \ {k} : peers[j] \in Outbound
      BY <1>3, <2>2 DEF VictimSpare
    <3> QED
      BY <3>1 DEF Published
  <2>4. peers'[j] = peers[j] /\ peers[j] # None
    BY <1>3, <2>2, <2>3, PeerAssumption DEF IInv, TypeOK
  <2> QED
    BY <2>3, <2>4 DEF Published
<1> QED
  BY InitInv, <1>1, <1>2, <1>3, PTL DEF Spec, RotationKeepsOutbound
=============================================================================
