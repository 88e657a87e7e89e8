----------------------------- MODULE MCUpstream -----------------------------
(* Upstream for TLC: lengths, padding and budgets on both sides of the      *)
(* sizes at which a prefix grows.                                           *)
EXTENDS Upstream
=============================================================================
