------------------------------ MODULE MCServer ------------------------------
(* Server for TLC: bind addresses, clients, addresses, sessions and streams *)
(* are model values.                                                        *)
EXTENDS Server
CONSTANT l1
OneBindaddr == <<l1>>
=============================================================================
