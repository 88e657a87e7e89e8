---------------------------- MODULE ExpiringMap ----------------------------
(***************************************************************************)
(* What ClientMap promises (iceball/common/turbotunnel/clientmap.go): a map *)
(* from addresses to the time they were last used.  Using an address puts   *)
(* it in the map; a sweep removes every address that has not been used for  *)
(* Timeout and no other.  Abstract: how the map is stored is not said.      *)
(***************************************************************************)
EXTENDS Integers

CONSTANTS Addrs, Timeout

VARIABLES clock,   \* the time
          used,    \* last use of each address in the map, -1 for the others
          begun    \* when the sweep under way began, -1 when there is none

None == -1

Init == clock = 0 /\ used = [a \in Addrs |-> None] /\ begun = None

Tick == clock' = clock + 1 /\ UNCHANGED <<used, begun>>

Use(a) == used' = [used EXCEPT ![a] = clock] /\ UNCHANGED <<clock, begun>>

SweepBegins == begun = None /\ begun' = clock /\ UNCHANGED <<clock, used>>

Expired(a) == used[a] # None /\ begun - used[a] >= Timeout

SweepEnds ==
    /\ begun # None /\ begun' = None
    /\ used' = [a \in Addrs |-> IF Expired(a) THEN None ELSE used[a]]
    /\ UNCHANGED clock

Next == Tick \/ (\E a \in Addrs : Use(a)) \/ SweepBegins \/ SweepEnds

Spec == Init /\ [][Next]_<<clock, used, begun>>
=============================================================================
