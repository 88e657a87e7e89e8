---------------------------- MODULE ClientIDMap ----------------------------
(***************************************************************************)
(* The server's clientIDMap (iceball/server/lib/turbotunnel.go): a circular *)
(* buffer of (ClientID, addr) pairs with a quick-lookup map into it.  Every *)
(* method runs under the map's lock, so each is one step.                  *)
(***************************************************************************)
EXTENDS Integers

CONSTANTS ClientIDs, Addrs, NoAddr, ZeroID, Capacity

ASSUME CapacityNat == Capacity \in Nat
ASSUME ZeroIsID == ZeroID \in ClientIDs
ASSUME NilIsNoAddr == NoAddr \notin Addrs

VARIABLES entries,   \* the circular buffer, indexed from 0
          oldest,    \* the entry the next Set overwrites
          current    \* newest entry of each ClientID, NoIndex when absent from the Go map

vars == <<entries, oldest, current>>

Slots == 0..Capacity-1
NoIndex == -1

newClientIDMap ==
    /\ entries = [i \in Slots |-> [clientID |-> ZeroID, addr |-> NoAddr]]
    /\ oldest = 0
    /\ current = [c \in ClientIDs |-> NoIndex]

\* Mutants of Forget: drop the deletion; drop its condition i == m.oldest.
ForgetNothing == current
ForgetAlways == [current EXCEPT ![entries[oldest].clientID] = NoIndex]

\* current without the ClientID whose newest entry is about to be overwritten.
Forget ==
    IF current[entries[oldest].clientID] = oldest
    THEN [current EXCEPT ![entries[oldest].clientID] = NoIndex]
    ELSE current

\* Mutant of Set: a known ClientID is updated in place.
SetInPlace(c, a) ==
    LET i == IF current[c] = NoIndex THEN oldest ELSE current[c]
    IN /\ Capacity > 0
       /\ entries' = [entries EXCEPT ![i] = [clientID |-> c, addr |-> a]]
       /\ current' = IF i = oldest THEN [Forget EXCEPT ![c] = i] ELSE current
       /\ oldest' = IF i = oldest THEN (oldest + 1) % Capacity ELSE oldest

\* With Capacity = 0 the method returns at once and changes nothing.
Set(c, a) ==
    /\ Capacity > 0
    /\ entries' = [entries EXCEPT ![oldest] = [clientID |-> c, addr |-> a]]
    /\ current' = [Forget EXCEPT ![c] = oldest]
    /\ oldest' = (oldest + 1) % Capacity

\* Get: the second result of the method is whether the answer is not NoAddr.
Get(c) == IF current[c] = NoIndex THEN NoAddr ELSE entries[current[c]].addr

Init == newClientIDMap

Next == \E c \in ClientIDs, a \in Addrs : Set(c, a)

Spec == Init /\ [][Next]_vars
-----------------------------------------------------------------------------
(* Every variable stays in its Go type.                                    *)
TypeOK ==
    /\ entries \in [Slots -> [clientID : ClientIDs, addr : Addrs \cup {NoAddr}]]
    /\ oldest \in IF Capacity = 0 THEN {0} ELSE Slots
    /\ current \in [ClientIDs -> Slots \cup {NoIndex}]

\* How many Sets after the oldest remembered one the entry in slot i was written.
Rank(i) == IF i >= oldest THEN i - oldest ELSE i - oldest + Capacity

(* The quick-lookup map never leads Get to a slot reused for another       *)
(* ClientID, nor to a slot never written.                                  *)
CurrentPointsHome ==
    \A c \in ClientIDs : current[c] # NoIndex =>
        /\ entries[current[c]].clientID = c
        /\ entries[current[c]].addr # NoAddr

(* A ClientID with a remembered Set is in the quick-lookup map, at its most *)
(* recent entry: overwriting an older duplicate of it forgets nothing.     *)
CurrentIsNewest ==
    \A c \in ClientIDs, i \in Slots :
        (entries[i].clientID = c /\ entries[i].addr # NoAddr)
            => current[c] # NoIndex /\ Rank(i) <= Rank(current[c])

Inv == TypeOK /\ CurrentPointsHome /\ CurrentIsNewest

(* Set "may also cause the clientIDMap to forget at most one other mapping, *)
(* the oldest one": nobody else's answer changes, and the one that is       *)
(* forgotten was in the overwritten slot.                                  *)
ForgetStep ==
    \A c \in ClientIDs :
        (entries'[oldest].clientID # c /\ Get(c) # NoAddr /\ Get(c)' # Get(c))
            => Get(c)' = NoAddr /\ current[c] = oldest
ForgetsOnlyTheOldest == [][ForgetStep]_vars

\* The slot that holds the i-th oldest remembered Set.
SlotOf(i) == IF oldest + i - 1 < Capacity THEN oldest + i - 1 ELSE oldest + i - 1 - Capacity

Recent == INSTANCE RecentAddrs
    WITH recent <- [i \in 1..Capacity |-> entries[SlotOf(i)]],
         addrOf <- [c \in ClientIDs |-> Get(c)]

(* The circular buffer and its lookup map implement the window of the last *)
(* Capacity Sets.                                                          *)
ImplementsRecentAddrs == Recent!RSpec
=============================================================================
