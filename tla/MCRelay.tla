------------------------------ MODULE MCRelay ------------------------------
(* One session, with and without a capacity. *)
EXTENDS Relay
=============================================================================
