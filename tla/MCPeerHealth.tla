---------------------------- MODULE MCPeerHealth ----------------------------
(* Small instances of PeerHealth. *)
EXTENDS PeerHealth

CONSTANTS a1, a2
=============================================================================
