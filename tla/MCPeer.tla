------------------------------- MODULE MCPeer -------------------------------
(* Peer for TLC: the constants are given in the cfg files. *)
EXTENDS Peer
=============================================================================
