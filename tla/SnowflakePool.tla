--------------------------- MODULE SnowflakePool ---------------------------
(***************************************************************************)
(* The two heaps of BrokerContext and the operations on them that hold      *)
(* snowflakeLock: registering a polling proxy, matching a client, removing  *)
(* rescaled proxies.  Each operator is one critical section.                *)
(***************************************************************************)
EXTENDS SnowflakeHeap, FiniteSets

CONSTANTS MaxFlakes,    \* bound: Snowflake structs allocated in a behaviour
          MaxClients,   \* bound: clients offered to one Snowflake
          NATs          \* natType values that proxies and clients report

NATUnrestricted == "unrestricted"
ASSUME PoolBounds == MaxFlakes \in Nat /\ MaxClients \in Nat /\ NATUnrestricted \in NATs

VARIABLES
    nats,                  \* natType of each allocated Snowflake, in order of allocation
    clients, index,        \* mutable fields of the Snowflake structs
    snowflakes, restrictedSnowflakes   \* the heaps, as slices of Snowflakes

poolVars == <<nats, clients, index, snowflakes, restrictedSnowflakes>>

Flakes == 1..MaxFlakes
Allocated == 1..Len(nats)
NoFlake == 0

PoolInit ==
    /\ nats = <<>>
    /\ clients = [x \in Flakes |-> 0]
    /\ index = [x \in Flakes |-> -1]
    /\ snowflakes = <<>>
    /\ restrictedSnowflakes = <<>>

HeapOf(nat) ==
    [flakes |-> IF nat = NATUnrestricted THEN snowflakes ELSE restrictedSnowflakes,
     index  |-> index]

SetHeap(nat, sh) ==
    /\ index' = sh.index
    /\ IF nat = NATUnrestricted
       THEN snowflakes' = sh.flakes /\ UNCHANGED restrictedSnowflakes
       ELSE restrictedSnowflakes' = sh.flakes /\ UNCHANGED snowflakes

\* A new Snowflake x = Len(nats) + 1 enters the heap of its NAT type.  Proxies
\* poll before they serve anyone, so the clients they report is 0.
Register(nat) ==
    LET x == Len(nats) + 1
    IN  /\ x \in Flakes
        /\ nats' = Append(nats, nat)
        /\ SetHeap(nat, HeapPush(clients, HeapOf(nat), x))
        /\ UNCHANGED clients

\* matchSnowflake prefers restricted Snowflakes for unrestricted clients.
PoolFor(natType) ==
    IF natType = NATUnrestricted /\ restrictedSnowflakes # <<>> THEN "restricted" ELSE NATUnrestricted

\* The Snowflake that matchSnowflake returns, NoFlake for nil.
Matched(natType) ==
    LET f == HeapOf(PoolFor(natType)).flakes IN IF f = <<>> THEN NoFlake ELSE Head(f)

\* Bound: clients are matched while the counter of their proxy is below MaxClients.
WithinBound(natType) == Matched(natType) # NoFlake => clients[Matched(natType)] < MaxClients

\* Mutant of TakeMatch: clients is raised where the Snowflake is.
TakeMatchInPlace(natType) ==
    LET x == Matched(natType)
    IN  /\ x # NoFlake
        /\ clients' = [clients EXCEPT ![x] = @ + 1]
        /\ UNCHANGED <<nats, index, snowflakes, restrictedSnowflakes>>

\* matchSnowflake: pop, push back, then raise clients of the re-pushed Snowflake.
TakeMatch(natType) ==
    LET h == PoolFor(natType)
        x == Matched(natType)
    IN  /\ x # NoFlake
        /\ SetHeap(h, HeapPush(clients, HeapPop(clients, HeapOf(h)), x))
        /\ clients' = [clients EXCEPT ![x] = @ + 1]
        /\ UNCHANGED nats

\* Rescale's first loop: SnowflakeHeap.Remove for each of the old proxies xs in turn.
SliceRemoveAll(sh, xs) ==
    LET left[k \in 0..Len(xs)] == IF k = 0 THEN sh ELSE SliceRemove(left[k - 1], xs[k])
    IN  left[Len(xs)]

\* Rescale under the lock: the old proxies are removed from snowflakes only.
RemoveOld(xs) ==
    /\ snowflakes' = SliceRemoveAll(HeapOf(NATUnrestricted), xs).flakes
    /\ UNCHANGED <<nats, clients, index, restrictedSnowflakes>>
-----------------------------------------------------------------------------
(* Every variable stays in its Go type.                                    *)
PoolTypeOK ==
    /\ nats \in Seq(NATs) /\ Len(nats) <= MaxFlakes
    /\ clients \in [Flakes -> Nat]
    /\ index \in [Flakes -> -1..MaxFlakes-1]
    /\ snowflakes \in Seq(Allocated)
    /\ restrictedSnowflakes \in Seq(Allocated)

(* A Snowflake sits in at most one heap, once, and in the heap of its NAT  *)
(* type: pop, re-push and removal never misplace a proxy.                  *)
PoolsSeparate ==
    /\ IsInjective(snowflakes) /\ IsInjective(restrictedSnowflakes)
    /\ \A x \in ToSet(snowflakes) : nats[x] = NATUnrestricted
    /\ \A x \in ToSet(restrictedSnowflakes) : nats[x] # NATUnrestricted

\* The heap condition on the clients counters.
Ordered(f) == \A i \in 2..Len(f) : clients[f[i \div 2]] <= clients[f[i]]

(* Raising clients after heap.Push keeps the heap condition: the re-pushed *)
(* Snowflake rose only past strictly busier ones.                          *)
HeapsOrdered == Ordered(snowflakes) /\ Ordered(restrictedSnowflakes)

(* The index field that the timeout of Broker() passes to heap.Remove is   *)
(* the position of the Snowflake.                                          *)
IndexTracksHeap ==
    \A x \in Allocated :
        LET f == HeapOf(nats[x]).flakes
        IN  IF x \in ToSet(f) THEN index[x] + 1 \in DOMAIN f /\ f[index[x] + 1] = x
            ELSE index[x] = -1
=============================================================================
