------------------------------ MODULE MCTasks ------------------------------
(* ProxyTasks for TLC: the goroutines are model values.                    *)
EXTENDS ProxyTasks
=============================================================================
