------------------------------ MODULE MCFront ------------------------------
(* Front for TLC: connections and option values are model values.          *)
EXTENDS Front
=============================================================================
