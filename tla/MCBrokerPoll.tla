---------------------------- MODULE MCBrokerPoll ----------------------------
(* BrokerPoll for TLC.                                                     *)
EXTENDS BrokerPoll
=============================================================================
