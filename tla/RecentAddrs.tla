---------------------------- MODULE RecentAddrs ----------------------------
(***************************************************************************)
(* What the server's clientIDMap promises, without its representation: the *)
(* last Capacity calls of Set are remembered in order, and a lookup        *)
(* answers with the newest remembered call for the ClientID.               *)
(***************************************************************************)
EXTENDS Integers

CONSTANTS ClientIDs,   \* turbotunnel.ClientID values
          Addrs,       \* net.Addr values of WebSocket connections
          NoAddr,      \* the nil net.Addr
          ZeroID,      \* the zero ClientID of a fresh buffer entry
          Capacity     \* fixed number of remembered calls

VARIABLES recent,      \* recent[1] is the oldest remembered call, recent[Capacity] the newest
          addrOf       \* the answer of a lookup for each ClientID

rvars == <<recent, addrOf>>

\* The window before any call: Capacity unused places.
RInit ==
    /\ recent = [i \in 1..Capacity |-> [clientID |-> ZeroID, addr |-> NoAddr]]
    /\ addrOf = [c \in ClientIDs |-> NoAddr]

\* d has a remembered call other than the oldest one.
RememberedLater(d) ==
    \E i \in 2..Capacity : recent[i].clientID = d /\ recent[i].addr # NoAddr

(***************************************************************************)
(* Set replaces the mapping of c and forgets at most one other mapping,    *)
(* the one whose only remembered call is the oldest.                       *)
(***************************************************************************)
RSet(c, a) ==
    /\ Capacity > 0
    /\ recent' = [i \in 1..Capacity |->
                    IF i = Capacity THEN [clientID |-> c, addr |-> a] ELSE recent[i + 1]]
    /\ addrOf' = [d \in ClientIDs |->
                    IF d = c THEN a
                    ELSE IF d = recent[1].clientID /\ ~RememberedLater(d) THEN NoAddr
                    ELSE addrOf[d]]

RNext == \E c \in ClientIDs, a \in Addrs : RSet(c, a)

RSpec == RInit /\ [][RNext]_rvars
=============================================================================
