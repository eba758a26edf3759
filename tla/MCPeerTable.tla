----------------------------- MODULE MCPeerTable -----------------------------
(* Instance of PeerTable for TLC: two inbound connections and two dials,  *)
(* of which an inbound one and a dial lead to the same peer.                *)
EXTENDS PeerTable, TLC

CONSTANTS in1, in2, out1, out2, k1, k2, k3, near, far

Keys == in1 :> k1 @@ in2 :> k2 @@ out1 :> k2 @@ out2 :> k3

Prefixes == in1 :> near @@ in2 :> near @@ out1 :> far @@ out2 :> far
=============================================================================
