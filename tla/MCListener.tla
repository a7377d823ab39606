----------------------------- MODULE MCListener -----------------------------
(* Two peers (4-tuples) as model values for Listener.                     *)
EXTENDS Listener

CONSTANTS p1, p2

MCPeers == {p1, p2}
=============================================================================
