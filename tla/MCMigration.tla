---------------------------- MODULE MCMigration ----------------------------
(* Two proxies and one client, which starts at the first of them. *)
EXTENDS Migration

CONSTANTS p1, p2

MCProxies == {p1, p2}
=============================================================================
