----------------------------- MODULE ProxyPool -----------------------------
(***************************************************************************)
(* What the broker's pool promises, without heaps: proxies join, leave and  *)
(* are matched, and a match goes to an eligible proxy serving no more       *)
(* clients than any other of its pool.                                      *)
(***************************************************************************)
EXTENDS Integers

CONSTANTS Proxies, NATs

VARIABLES open, closed,   \* unrestricted proxies in the pool, and the others
          load            \* clients matched to each proxy

pvars == <<open, closed, load>>

PInit == open = {} /\ closed = {} /\ load = [x \in Proxies |-> 0]

Join(x) ==
    /\ x \notin open \cup closed
    /\ \/ open' = open \cup {x} /\ UNCHANGED closed
       \/ closed' = closed \cup {x} /\ UNCHANGED open
    /\ UNCHANGED load

Leave(X) ==
    /\ open' = open \ X
    /\ closed' = closed \ X
    /\ UNCHANGED load

\* Unrestricted clients spare the unrestricted proxies; others need one.
Eligible(natType) == IF natType = "unrestricted" /\ closed # {} THEN closed ELSE open

Match(natType) ==
    \E x \in Eligible(natType) :
        /\ \A y \in Eligible(natType) : load[x] <= load[y]
        /\ load' = [load EXCEPT ![x] = @ + 1]
        /\ UNCHANGED <<open, closed>>

PNext ==
    \/ \E x \in Proxies : Join(x)
    \/ \E X \in SUBSET Proxies : Leave(X)
    \/ \E natType \in NATs : Match(natType)

PSpec == PInit /\ [][PNext]_pvars
=============================================================================
