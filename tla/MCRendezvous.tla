---------------------------- MODULE MCRendezvous ----------------------------
(* Rendezvous for TLC: every endpoint, with a fingerprint that the bridge   *)
(* list knows and ones that it does not or that is malformed.               *)
EXTENDS Rendezvous
SomeConfigs == {[method |-> "http", fingerprint |-> "default"],
                [method |-> "http", fingerprint |-> "other"],
                [method |-> "http", fingerprint |-> "malformed"],
                [method |-> "amp", fingerprint |-> "default"],
                [method |-> "legacy", fingerprint |-> "none"]}
=============================================================================
