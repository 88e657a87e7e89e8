------------------------------ MODULE MCRedial ------------------------------
(* RedialPacketConn for TLC.                                               *)
EXTENDS RedialPacketConn
=============================================================================
