----------------------------- MODULE ClientMap -----------------------------
(***************************************************************************)
(* The server's map of live clients to send queues (iceball/common/         *)
(* turbotunnel/clientmap.go): a container/heap of records ordered by        *)
(* LastSeen (byAge) with the position of each address (byAddr).  A record   *)
(* is named by its address, of which the map holds one at a time; its       *)
(* SendQueue is a channel, numbered in the order of make.  The heap         *)
(* operators are the ones of SnowflakeHeap, with LastSeen for the order.    *)
(***************************************************************************)
EXTENDS SnowflakeHeap, FiniteSets

CONSTANTS Addrs,      \* addresses of clients (ClientIDs)
          Timeout,    \* clientMapTimeout, in ticks
          MaxTime,    \* bound: ticks of the clock
          MaxQueues   \* bound: send queues made

ASSUME ClientMapBounds == Timeout \in Nat \ {0} /\ MaxTime \in Nat /\ MaxQueues \in Nat

VARIABLES
    now,        \* time.Now(), in ticks
    inner,      \* byAge (flakes) and byAddr (index, -1 when absent)
    LastSeen,   \* per record
    SendQueue,  \* per record: its channel
    queues,     \* channels made so far
    sweep       \* the expiry goroutine: the time it read before it takes the lock, or Asleep

mapVars == <<now, inner, LastSeen, SendQueue, queues, sweep>>
Asleep == -1

MapInit ==
    /\ now = 0
    /\ inner = [flakes |-> <<>>, index |-> [a \in Addrs |-> -1]]
    /\ LastSeen = [a \in Addrs |-> 0]
    /\ SendQueue = [a \in Addrs |-> 0]
    /\ queues = 0
    /\ sweep = Asleep
-----------------------------------------------------------------------------
\* container/heap Fix at position i.
HeapFix(seen, h, i) ==
    LET down == Down(seen, h, i, Len(h.flakes))
    IN  IF down.pos = i THEN Up(seen, h, i) ELSE down.sh

Found(a) == inner.index[a] >= 0

\* Mutant of RecordOf: the position is not looked up, the heap's root is taken.
RecordOfRoot(a) == inner.flakes[1]

\* The record that byAddr leads to; it is a's own while byAddr is right.
RecordOf(a) == inner.flakes[inner.index[a] + 1]

\* The channel SendQueue(a) returns: the record's, or a new one.
QueueOf(a) == IF Found(a) THEN SendQueue[RecordOf(a)] ELSE queues + 1

\* Mutant of Touch: LastSeen is updated and the heap is not fixed.
TouchWithoutFix(a) ==
    /\ IF Found(a)
         THEN /\ LastSeen' = [LastSeen EXCEPT ![RecordOf(a)] = now]
              /\ UNCHANGED <<inner, SendQueue, queues>>
         ELSE /\ queues < MaxQueues
              /\ LastSeen' = [LastSeen EXCEPT ![a] = now]
              /\ SendQueue' = [SendQueue EXCEPT ![a] = queues + 1]
              /\ queues' = queues + 1
              /\ inner' = HeapPush(LastSeen', inner, a)
    /\ UNCHANGED <<now, sweep>>

\* clientMapInner.SendQueue, under the lock.
Touch(a) ==
    /\ IF Found(a)
         THEN /\ LastSeen' = [LastSeen EXCEPT ![RecordOf(a)] = now]
              /\ inner' = HeapFix(LastSeen', inner, inner.index[a] + 1)
              /\ UNCHANGED <<SendQueue, queues>>
         ELSE /\ queues < MaxQueues
              /\ LastSeen' = [LastSeen EXCEPT ![a] = now]
              /\ SendQueue' = [SendQueue EXCEPT ![a] = queues + 1]
              /\ queues' = queues + 1
              /\ inner' = HeapPush(LastSeen', inner, a)
    /\ UNCHANGED <<now, sweep>>

Expired(t, a) == t - LastSeen[a] >= Timeout

\* removeExpired: the oldest record is popped, and its channel closed, while
\* it is too old.
SweepRound(t, h) ==
    IF h.flakes # <<>> /\ Expired(t, Head(h.flakes)) THEN HeapPop(LastSeen, h) ELSE h

AfterSweep(t) ==
    LET round[k \in 0..Len(inner.flakes)] == IF k = 0 THEN inner ELSE SweepRound(t, round[k - 1])
    IN  round[Len(inner.flakes)]

\* The goroutine wakes up and reads the clock, then waits for the lock.
SweepReadsClock ==
    /\ sweep = Asleep
    /\ sweep' = now
    /\ UNCHANGED <<now, inner, LastSeen, SendQueue, queues>>

\* The records that were popped are gone, fields included.
Kept(field) == [a \in Addrs |-> IF a \in Range(inner'.flakes) THEN field[a] ELSE 0]

RemoveExpired ==
    /\ sweep # Asleep
    /\ inner' = AfterSweep(sweep)
    /\ sweep' = Asleep
    /\ LastSeen' = Kept(LastSeen) /\ SendQueue' = Kept(SendQueue)
    /\ UNCHANGED <<now, queues>>

Tick ==
    /\ now < MaxTime
    /\ now' = now + 1
    /\ UNCHANGED <<inner, LastSeen, SendQueue, queues, sweep>>

MapNext == Tick \/ SweepReadsClock \/ RemoveExpired \/ \E a \in Addrs : Touch(a)

MapSpec == MapInit /\ [][MapNext]_mapVars
-----------------------------------------------------------------------------
Present == Range(inner.flakes)

MapTypeOK ==
    /\ now \in 0..MaxTime /\ queues \in 0..MaxQueues /\ sweep \in Asleep..MaxTime
    /\ inner.flakes \in Seq(Addrs) /\ inner.index \in [Addrs -> -1..(Len(inner.flakes) - 1)]
    /\ LastSeen \in [Addrs -> 0..MaxTime] /\ SendQueue \in [Addrs -> 0..MaxQueues]

(* Through any sequence of uses and sweeps byAddr gives the position of     *)
(* every record, so that Len never panics with "inconsistent clientMap" and *)
(* Push never with "duplicate address in clientMap".                        *)
ByAddrConsistent ==
    \A a \in Addrs :
        {i \in DOMAIN inner.flakes : inner.flakes[i] = a} =
            IF inner.index[a] >= 0 THEN {inner.index[a] + 1} ELSE {}

(* The map behaves as one that expires exactly the clients unused for       *)
(* Timeout: the heap order makes removeExpired stop at the right record.    *)
Abstract == INSTANCE ExpiringMap WITH
                clock <- now, begun <- sweep,
                used <- [a \in Addrs |-> IF a \in Present THEN LastSeen[a] ELSE -1]
ExpiresExactly == Abstract!Spec
=============================================================================
