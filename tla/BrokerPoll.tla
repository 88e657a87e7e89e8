----------------------------- MODULE BrokerPoll -----------------------------
(***************************************************************************)
(* The polling half of iceball/broker/broker.go: RequestOffer hands a       *)
(* ProxyPoll to the Broker() goroutine, which adds a Snowflake and starts a *)
(* goroutine that waits for an offer or for ProxyTimeout.  No code sends on *)
(* offerChannel any more (ClientOffers posts to the proxy instead), so every*)
(* request ends with its timeout.  Proxies that poll through IPC.ProxyPolls *)
(* share the heaps and have no timeout.                                     *)
(***************************************************************************)
EXTENDS SnowflakePool

CONSTANT Rescales    \* whether Rescale removes proxies from the shared heap

ASSUME RescalesBool == Rescales \in BOOLEAN

VARIABLES request,    \* per Snowflake: the ProxyPoll that waits on it
          panicked    \* heap.Remove indexed past the slice: the process died

vars == <<poolVars, request, panicked>>

Init ==
    /\ PoolInit
    /\ request = [x \in Flakes |-> "none"]
    /\ panicked = FALSE

\* IPC.ProxyPolls: a Snowflake that nobody waits on.
ProxyPolls(nat) == Register(nat) /\ UNCHANGED request

\* RequestOffer and AddSnowflake: the caller blocks on request.offerChannel.
AddSnowflake(nat) ==
    /\ Register(nat)
    /\ request' = [request EXCEPT ![Len(nats) + 1] = "waiting"]

MatchSnowflake(natType) == WithinBound(natType) /\ TakeMatch(natType) /\ UNCHANGED request

\* Mutants of Timeout: the heap.Remove is missing; the slice is cut at the end.
TimeoutKeeps(x) ==
    /\ request[x] = "waiting"
    /\ request' = [request EXCEPT ![x] = "closed"]
    /\ UNCHANGED <<poolVars, panicked>>
TimeoutCuts(x) ==
    /\ request[x] = "waiting"
    /\ SetHeap(nats[x], SliceRemove(HeapOf(nats[x]), x))
    /\ request' = [request EXCEPT ![x] = "closed"]
    /\ UNCHANGED <<nats, clients, panicked>>

\* ProxyTimeout of a waiting request: heap.Remove at the index field, then
\* close(offerChannel); with index -1 the goroutine ends without closing it.
Timeout(x) ==
    LET sh == HeapOf(nats[x])
        i  == index[x] + 1
    IN  /\ request[x] = "waiting"
        /\ UNCHANGED <<nats, clients>>
        /\ \/ /\ i = 0
              /\ request' = [request EXCEPT ![x] = "stuck"]
              /\ UNCHANGED <<index, snowflakes, restrictedSnowflakes, panicked>>
           \/ /\ i \in DOMAIN sh.flakes
              /\ SetHeap(nats[x], HeapRemove(clients, sh, i))
              /\ request' = [request EXCEPT ![x] = "closed"]
              /\ UNCHANGED panicked
           \/ /\ i > Len(sh.flakes)
              /\ panicked' = TRUE
              /\ UNCHANGED <<index, snowflakes, restrictedSnowflakes, request>>

RescaleRemove(x) == Rescales /\ RemoveOld(<<x>>) /\ UNCHANGED request

Next ==
    /\ ~panicked
    /\ \/ \E nat \in NATs : (ProxyPolls(nat) \/ AddSnowflake(nat) \/ MatchSnowflake(nat))
            /\ UNCHANGED panicked
       \/ \E x \in Allocated : Timeout(x)
       \/ \E x \in Allocated : RescaleRemove(x) /\ UNCHANGED panicked

Spec == Init /\ [][Next]_vars
-----------------------------------------------------------------------------
(* Every variable stays in its Go type.                                    *)
TypeOK ==
    /\ PoolTypeOK
    /\ request \in [Flakes -> {"none", "waiting", "closed", "stuck"}]
    /\ panicked \in BOOLEAN

(* A Snowflake whose poll timed out "is no longer available to serve       *)
(* clients", one that still waits is available, and no timeout indexes     *)
(* past the heap.                                                          *)
TimedOutLeaves ==
    ~panicked /\ \A x \in Allocated :
        /\ request[x] \in {"closed", "stuck"} => x \notin ToSet(HeapOf(nats[x]).flakes)
        /\ request[x] = "waiting" => x \in ToSet(HeapOf(nats[x]).flakes)

Pool == INSTANCE ProxyPool
    WITH Proxies <- Flakes, open <- ToSet(snowflakes), closed <- ToSet(restrictedSnowflakes),
         load <- clients

(* The heaps implement a pool that hands out a least loaded proxy:         *)
(* "Snowflakes serving less clients should sort earlier."                  *)
LeastLoadedFirst == Pool!PSpec

(* Every Snowflake sits in the heap of its NAT class, both heaps keep their *)
(* order and every index field its position, although matchSnowflake raises *)
(* clients after the push (ipc.go:371) and a timeout removes by index.      *)
PoolIntact == TypeOK /\ PoolsSeparate /\ HeapsOrdered /\ IndexTracksHeap
=============================================================================
