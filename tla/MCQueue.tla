------------------------------ MODULE MCQueue ------------------------------
(* QueuePacketConn for TLC: clients, WriteTo calls and WebSockets are model *)
(* values.                                                                  *)
EXTENDS QueuePacketConn
CONSTANTS a, b, w1, s1, s2
=============================================================================
