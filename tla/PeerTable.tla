------------------------------ MODULE PeerTable ------------------------------
(***************************************************************************)
(* The table of TCP peers (src/src/form/network/P2PServer.zig) between the *)
(* main thread, which accepts, dials, broadcasts, rotates, drops and       *)
(* finally stops, and one worker thread per connection, which runs the     *)
(* handshake and publishes the peer.                                       *)
(*                                                                         *)
(* A critical section under peers_mutex is one step; only broadcast calls  *)
(* out while it holds the mutex, so only that holder is a state (locked).  *)
(* Allocation failures are left out but for the one publishPeer undoes.    *)
(***************************************************************************)
EXTENDS Naturals, FiniteSets

CONSTANTS
    Conn,           \* connections the process may see; each is opened once
    Outbound,       \* those this node dials
    Key,            \* peer keys
    KeyOf,          \* the key a connection's handshake establishes
    Prefix,         \* address prefixes
    PrefixOf,       \* the prefix of a connection's remote address
    None,
    MaxConnections, \* config.max_connections
    Reserved,       \* effectiveReservedOutbound
    RatioLimit,     \* config.inbound_ratio_limit, in percent; 0 disables
    RatioMinTotal,  \* INBOUND_RATIO_MIN_TOTAL
    PrefixCap,      \* max_peers_per_16
    Bootstrap,      \* whether bootstrap peers are configured
    Protected       \* keys that hash from a bootstrap address

ASSUME PeerAssumption ==
    /\ IsFiniteSet(Conn) /\ IsFiniteSet(Key)
    /\ Outbound \subseteq Conn
    /\ KeyOf \in [Conn -> Key]
    /\ PrefixOf \in [Conn -> Prefix]
    /\ None \notin Conn
    /\ Reserved \in 0..MaxConnections
    /\ MaxConnections \in Nat /\ RatioLimit \in Nat
    /\ RatioMinTotal \in Nat /\ PrefixCap \in Nat
    /\ Bootstrap \in BOOLEAN
    /\ Protected \subseteq Key

VARIABLES
    peers,    \* the table: a connection or None for every key
    life,     \* of the connection: "new", "open" (allocated) or "freed" (closed)
    worker,   \* of the connection: "none", "handshake", "publish", "leaving"
    inflight, \* inflight_inbound
    locked,   \* the main thread holds peers_mutex in broadcast
    pc,       \* where the main thread is
    conn,     \* the connection it is accepting or dialling
    seen,     \* the counts it has read from the table
    todo,     \* keys it still has to send to
    victims,  \* keys it is about to remove
    replaced  \* history: connections whose entry another one took

vars == <<peers, life, worker, inflight, locked, pc, conn, seen, todo,
          victims, replaced>>

Published == {peers[k] : k \in Key} \ {None}

Count(cs) == Cardinality(cs)

Counts == [ inbound  |-> Count(Published \ Outbound),
            outbound |-> Count(Published \cap Outbound) ]

Nothing == [inbound |-> 0, outbound |-> 0]

Init ==
    /\ peers = [k \in Key |-> None]
    /\ life = [c \in Conn |-> "new"]
    /\ worker = [c \in Conn |-> "none"]
    /\ inflight = 0
    /\ locked = FALSE
    /\ pc = "loop"
    /\ conn = None
    /\ seen = Nothing
    /\ todo = {}
    /\ victims = {}
    /\ replaced = {}

----------------------------------------------------------------------------
(* Main thread: accept and dial.                                          *)

\* The connection is closed and the call returns an error.
Refuse ==
    /\ pc' = "loop"
    /\ conn' = None
    /\ seen' = Nothing
    /\ life' = [life EXCEPT ![conn] = "freed"]

inboundAdmissionAllowed(total) == total < MaxConnections - Reserved

outboundAdmissionAllowed(total) == total < MaxConnections

inboundRatioSuspicious(inbound, outbound) ==
    /\ RatioLimit # 0
    /\ inbound + outbound >= RatioMinTotal
    /\ inbound * 100 > (inbound + outbound) * RatioLimit

\* handleConnection, and dial: the admission check on peerCount(); a refused
\* connection is not tried again.
Begin(c) ==
    LET total == Count(Published)
        admitted == IF c \in Outbound THEN outboundAdmissionAllowed(total)
                    ELSE inboundAdmissionAllowed(total)
    IN /\ pc = "loop" /\ life[c] = "new"
       /\ IF admitted
          THEN /\ pc' = IF c \in Outbound THEN "subnet" ELSE "ratio"
               /\ conn' = c
               /\ UNCHANGED life
          ELSE /\ life' = [life EXCEPT ![c] = "freed"]
               /\ UNCHANGED <<pc, conn>>
       /\ UNCHANGED <<peers, worker, inflight, locked, seen, todo, victims, replaced>>

\* inboundRatioPaused: peerDirectionCounts(), under the mutex ...
ReadDirections ==
    /\ pc = "ratio"
    /\ seen' = Counts
    /\ pc' = "load"
    /\ UNCHANGED <<peers, life, worker, inflight, locked, conn, todo, victims, replaced>>

\* ... and then, without it, the in-flight handshakes.
LoadInflight ==
    /\ pc = "load"
    /\ IF inboundRatioSuspicious(seen.inbound + inflight, seen.outbound)
       THEN Refuse
       ELSE pc' = "subnet" /\ seen' = Nothing /\ UNCHANGED <<conn, life>>
    /\ UNCHANGED <<peers, worker, inflight, locked, todo, victims, replaced>>

\* subnetAllowed; a dial connects after it.
CheckSubnet ==
    LET neighbours == {c \in Published : PrefixOf[c] = PrefixOf[conn]} IN
    /\ pc = "subnet"
    /\ IF PrefixCap # 0 /\ Count(neighbours) >= PrefixCap
       THEN Refuse
       ELSE pc' = "spawn" /\ UNCHANGED <<conn, life, seen>>
    /\ UNCHANGED <<peers, worker, inflight, locked, todo, victims, replaced>>

\* An accept counts the handshake before there is a worker; a dial never does.
RaiseInflight ==
    /\ pc = "spawn" /\ conn \notin Outbound
    /\ inflight' = inflight + 1
    /\ pc' = "counted"
    /\ UNCHANGED <<peers, life, worker, locked, conn, seen, todo, victims, replaced>>

Spawning == pc = IF conn \in Outbound THEN "spawn" ELSE "counted"

\* The worker is started.
Spawn ==
    /\ Spawning
    /\ life' = [life EXCEPT ![conn] = "open"]
    /\ worker' = [worker EXCEPT ![conn] = "handshake"]
    /\ pc' = "loop" /\ conn' = None
    /\ UNCHANGED <<peers, inflight, locked, seen, todo, victims, replaced>>

\* (mutant: the count is not rolled back)
SpawnFailsCounted ==
    /\ Spawning
    /\ Refuse
    /\ UNCHANGED <<peers, worker, inflight, locked, todo, victims, replaced>>

\* Connecting or spawning fails; the count of an accept is rolled back.
SpawnFails ==
    /\ Spawning
    /\ Refuse
    /\ inflight' = IF conn \in Outbound THEN inflight ELSE inflight - 1
    /\ UNCHANGED <<peers, worker, locked, todo, victims, replaced>>

----------------------------------------------------------------------------
(* Main thread: broadcast and removal.                                    *)

\* broadcast takes the mutex and keeps it.
BroadcastBegins ==
    /\ pc = "loop"
    /\ locked' = TRUE
    /\ todo' = {k \in Key : peers[k] # None}
    /\ pc' = "send"
    /\ UNCHANGED <<peers, life, worker, inflight, conn, seen, victims, replaced>>

\* sendMessage to one peer; one that fails is remembered.
Send(k) ==
    /\ pc = "send" /\ k \in todo
    /\ todo' = todo \ {k}
    /\ victims' \in {victims, victims \cup {k}}
    /\ UNCHANGED <<peers, life, worker, inflight, locked, pc, conn, seen, replaced>>

\* The peers that failed are removed, still under the mutex; else it is freed.
BroadcastEnds ==
    /\ pc = "send" /\ todo = {}
    /\ IF victims = {}
       THEN pc' = "loop" /\ locked' = FALSE
       ELSE pc' = "remove" /\ UNCHANGED locked
    /\ UNCHANGED <<peers, life, worker, inflight, conn, seen, todo, victims, replaced>>

\* processPeerMessages: peers whose connection died, and (disconnectPeer) the
\* ones found equivocating, are removed once the scan is over.
DropPeers ==
    /\ pc = "loop"
    /\ victims' \in SUBSET {k \in Key : peers[k] # None} \ {{}}
    /\ pc' = "remove"
    /\ UNCHANGED <<peers, life, worker, inflight, locked, conn, seen, todo, replaced>>

\* removePeer locks the mutex itself; it is not recursive.
RemovePeer(k) ==
    /\ pc \in {"remove", "evict"} /\ k \in victims
    /\ ~locked
    /\ life' = [c \in Conn |-> IF c = peers[k] THEN "freed" ELSE life[c]]
    /\ peers' = [peers EXCEPT ![k] = None]
    /\ victims' = victims \ {k}
    /\ pc' = IF victims = {k} THEN "loop" ELSE pc
    /\ UNCHANGED <<worker, inflight, locked, conn, seen, todo, replaced>>

----------------------------------------------------------------------------
(* Main thread: rotation and shutdown.                                    *)

\* maybeRotatePeers: room for as many candidates as the table holds now.
RotateBegins ==
    /\ pc = "loop"
    /\ Published # {}
    /\ seen' = Counts
    /\ pc' = "snapshot"
    /\ UNCHANGED <<peers, life, worker, inflight, locked, conn, todo, victims, replaced>>

\* (mutant: the last outbound peer is not protected)
VictimsAnyOutbound ==
    LET inbound == {k \in Key : peers[k] \in Conn \ Outbound}
        outbound == {k \in Key : peers[k] \in Outbound}
    IN IF inbound # {} THEN inbound ELSE outbound \ Protected

\* pickPeerRotationVictim: any inbound peer before any outbound one; never the
\* last outbound one when bootstrap peers are configured.  (Which one of a
\* class depends on quality and age: any.)
Victims ==
    LET inbound == {k \in Key : peers[k] \in Conn \ Outbound}
        outbound == {k \in Key : peers[k] \in Outbound}
    IN IF inbound # {} THEN inbound
       ELSE IF Bootstrap /\ Cardinality(outbound) <= 1 THEN {}
       ELSE outbound \ Protected

\* The snapshot, under the mutex: more entries than there is room for is an
\* index out of bounds; then the victim is picked without the mutex.
RotateSnapshot ==
    /\ pc = "snapshot"
    /\ seen' = Nothing
    /\ IF Count(Published) > seen.inbound + seen.outbound
       THEN pc' = "panic" /\ UNCHANGED victims
       ELSE IF Victims = {}
            THEN pc' = "loop" /\ UNCHANGED victims
            ELSE pc' = "evict" /\ \E k \in Victims : victims' = {k}
    /\ UNCHANGED <<peers, life, worker, inflight, locked, conn, todo, replaced>>

\* (mutant: stop takes the mutex before it joins)
StopLocked ==
    /\ pc = "loop"
    /\ pc' = "join"
    /\ locked' = TRUE
    /\ UNCHANGED <<peers, life, worker, inflight, conn, seen, todo, victims, replaced>>

\* stop(): the workers are joined one by one.
Stop ==
    /\ pc = "loop"
    /\ pc' = "join"
    /\ UNCHANGED <<peers, life, worker, inflight, locked, conn, seen, todo, victims, replaced>>

\* deinit: every connection in the table is freed, then the table.
Destroy ==
    /\ pc' = "down"
    /\ life' = [c \in Conn |-> IF c \in Published THEN "freed" ELSE life[c]]
    /\ peers' = [k \in Key |-> None]
    /\ UNCHANGED <<worker, inflight, locked, conn, seen, todo, victims, replaced>>

\* (mutant: the tables go before the workers have been joined)
DeinitUnjoined == pc = "join" /\ Destroy

\* stop joins every worker, then deinit frees the table.
Deinit ==
    /\ pc = "join"
    /\ \A c \in Conn : worker[c] = "none"
    /\ Destroy

----------------------------------------------------------------------------
(* Worker threads.                                                        *)

HandshakeDone(c) ==
    /\ worker[c] = "handshake"
    /\ worker' = [worker EXCEPT ![c] = "publish"]
    /\ UNCHANGED <<peers, life, inflight, locked, pc, conn, seen, todo, victims, replaced>>

\* The worker frees its connection; a responder's count is still to go down.
GiveUp(c) ==
    /\ life' = [life EXCEPT ![c] = "freed"]
    /\ worker' = [worker EXCEPT ![c] = IF c \in Outbound THEN "none" ELSE "leaving"]
    /\ UNCHANGED <<inflight, locked, pc, conn, seen, todo, victims>>

HandshakeFails(c) ==
    /\ worker[c] = "handshake"
    /\ GiveUp(c)
    /\ UNCHANGED <<peers, replaced>>

\* The entry changes without a look at the connection it held.
SetEntry(k, c) ==
    /\ peers' = [peers EXCEPT ![k] = c]
    /\ replaced' = replaced \cup ({peers[k]} \ {None})

\* publishPeer: put under the mutex; an older entry of the key is overwritten.
Publish(c) ==
    /\ worker[c] = "publish" /\ ~locked
    /\ SetEntry(KeyOf[c], c)
    /\ worker' = [worker EXCEPT ![c] = "leaving"]
    /\ UNCHANGED <<life, inflight, locked, pc, conn, seen, todo, victims>>

\* (mutant: the entry is not taken back)
PublishFailsKept(c) ==
    /\ worker[c] = "publish" /\ ~locked
    /\ SetEntry(KeyOf[c], c)
    /\ GiveUp(c)

\* One of the two puts fails for memory: the first changes nothing, after the
\* second the key's entry is removed again, whoever had it before.
PublishFails(c) ==
    /\ worker[c] = "publish" /\ ~locked
    /\ \/ UNCHANGED <<peers, replaced>>
       \/ SetEntry(KeyOf[c], None)
    /\ GiveUp(c)

\* (mutant: a dialling worker takes one off the count too)
LeaveCounted(c) ==
    /\ worker[c] = "leaving"
    /\ worker' = [worker EXCEPT ![c] = "none"]
    /\ inflight' = inflight - 1
    /\ UNCHANGED <<peers, life, locked, pc, conn, seen, todo, victims, replaced>>

\* A responder's defer decrements the count; an initiator logs and returns.
Leave(c) ==
    /\ worker[c] = "leaving"
    /\ worker' = [worker EXCEPT ![c] = "none"]
    /\ inflight' = IF c \in Outbound THEN inflight ELSE inflight - 1
    /\ UNCHANGED <<peers, life, locked, pc, conn, seen, todo, victims, replaced>>

----------------------------------------------------------------------------
MainContinues ==
    \/ ReadDirections \/ LoadInflight \/ CheckSubnet
    \/ RaiseInflight \/ Spawn \/ SpawnFails
    \/ \E k \in Key : Send(k) \/ RemovePeer(k)
    \/ BroadcastEnds
    \/ RotateSnapshot
    \/ Deinit

WorkerSteps(c) ==
    \/ HandshakeDone(c) \/ HandshakeFails(c)
    \/ Publish(c) \/ PublishFails(c)
    \/ Leave(c)

Next ==
    \/ \E c \in Conn : Begin(c)
    \/ BroadcastBegins \/ DropPeers \/ RotateBegins \/ Stop
    \/ MainContinues
    \/ \E c \in Conn : WorkerSteps(c)

Spec == Init /\ [][Next]_vars

\* No step of the main thread waits for anything but the mutex and the join,
\* and socket timeouts end every handshake.
FairSpec ==
    /\ Spec
    /\ WF_vars(MainContinues)
    /\ \A c \in Conn : WF_vars(WorkerSteps(c))
----------------------------------------------------------------------------
TypeOK ==
    /\ peers \in [Key -> Conn \cup {None}]
    /\ life \in [Conn -> {"new", "open", "freed"}]
    /\ worker \in [Conn -> {"none", "handshake", "publish", "leaving"}]
    /\ inflight \in 0..Cardinality(Conn)
    /\ locked \in BOOLEAN
    /\ pc \in {"loop", "ratio", "load", "subnet", "spawn", "counted", "send",
               "remove", "evict", "snapshot", "panic", "join", "down"}
    /\ conn \in Conn \cup {None}
    /\ seen \in [inbound : 0..Cardinality(Conn), outbound : 0..Cardinality(Conn)]
    /\ todo \subseteq Key
    /\ victims \subseteq Key
    /\ replaced \subseteq Conn

\* An open connection has exactly one owner, the worker that has not handed it
\* over or the table entry of its key, unless a later connection of that key
\* took the entry; nothing freed is in the table or in a handshake.  So no
\* interleaving of publishing, a failed publish, removal and rotation frees a
\* connection twice or sends on a freed one.
OneOwner ==
    \A c \in Conn :
        LET working == worker[c] \in {"handshake", "publish"}
            entries == {k \in Key : peers[k] = c}
        IN /\ life[c] # "open" => ~working /\ entries = {}
           /\ entries \subseteq {KeyOf[c]}
           /\ life[c] = "open" /\ c \notin replaced => (working <=> entries = {})
           /\ working => entries = {}

\* "only a live inbound worker stays in `inflight_inbound`" (handleConnection):
\* through failed spawns, failed handshakes and failed publishes the counter
\* is the number of inbound workers that have not exited, and of the one that is
\* counted but not started yet.
InflightIsLiveInbound ==
    inflight = Cardinality({c \in Conn \ Outbound :
                               \/ worker[c] # "none"
                               \/ pc = "counted" /\ c = conn})

\* "Joined in `deinit` so shared state is not torn down while a handshake is
\* still reading from it": after the teardown no worker runs, and every
\* connection was freed but those whose entry was overwritten.
NothingOutlivesTheServer ==
    pc = "down" =>
        /\ \A c \in Conn : worker[c] = "none"
        /\ \A c \in Conn : life[c] = "open" => c \in replaced

\* "never rotate the last outbound" (pickPeerRotationVictim), although workers
\* publish between the snapshot and the removal.  (Only if no entry was ever
\* overwritten: a victim's key may have been taken over in between.)
RotationKeepsOutbound ==
    [][/\ pc = "evict" /\ pc' = "loop" /\ Bootstrap /\ replaced = {}
       /\ Published \cap Outbound # {}
       => Published' \cap Outbound # {}]_vars

\* stop() returns: the workers it joins never wait for something it holds.
StopEnds == pc = "join" ~> pc = "down"

\* "the removals below call removePeer, which takes the same mutex"
\* (maybeRotatePeers): whoever removes peers has released the mutex.
RemovalsOutsideLock == pc \in {"remove", "evict"} => ~locked
=============================================================================
