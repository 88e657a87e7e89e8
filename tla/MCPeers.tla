------------------------------ MODULE MCPeers ------------------------------
(* Peers for TLC: transfer callbacks are model values.                     *)
EXTENDS Peers
CONSTANTS t1, t2
=============================================================================
