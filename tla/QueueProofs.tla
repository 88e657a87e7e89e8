---------------------------- MODULE QueueProofs ----------------------------
(***************************************************************************)
(* The client map and the queues of the server, for any number of clients,  *)
(* WebSockets, writers and packets, any queue size and timeout: the map     *)
(* implements ExpiringMap, and packets reach their own client although      *)
(* WriteTo and the write loops use channels after the lock is released.     *)
(***************************************************************************)
EXTENDS QueuePacketConn, HeapProofs

-----------------------------------------------------------------------------
(* heap.Fix                                                                *)

(* heap.Fix after the key of the element at position i has changed: the    *)
(* heap is in order again and holds what it held.                          *)
LEMMA HeapFixOK ==
    ASSUME NEW X, NEW c, c \in [X -> Int], NEW sh, Good(c, sh, X),
           NEW i \in 1..Len(sh.flakes), NEW d, d \in [X -> Int],
           \A y \in X : y # sh.flakes[i] => d[y] = c[y]
    PROVE  LET th == HeapFix(d, sh, i)
           IN  /\ Good(d, th, X) /\ \A y \in X : In(th, y) <=> In(sh, y)
               /\ \A y \in X : ~In(sh, y) => th.index[y] = sh.index[y]
<1> DEFINE n == Len(sh.flakes)
           f == sh.flakes
           x == f[i]
           e == Down(d, sh, i, n)
           th == HeapFix(d, sh, i)
<1>1. n \in Nat /\ Heap(sh, X) /\ i \in 1..n /\ f \in [1..n -> X] /\ \A k, l \in 1..n : f[k] = f[l] => k = l
  BY HeapFields DEF Good
<1>2. x \in X /\ d \in [X -> Int] /\ \A y \in X : y # x => d[y] = c[y]
  BY <1>1
<1>3. \A k \in 2..n : c[f[k \div 2]] <= c[f[k]]
  BY DEF Good, OrderedTo
<1>4. th = IF e.pos = i THEN Up(d, sh, i) ELSE e.sh
  BY DEF HeapFix
<1> HIDE DEF n, f, th
<1>5. \A k \in 2..n : k \in 1..n /\ k \div 2 \in 1..n /\ k \div 2 < k
  BY <1>1, Half
<1>6. \A k \in 1..n : k # i => d[f[k]] = c[f[k]]
  BY <1>1, <1>2
<1>7. OrderedAround(d, f, n, i)
  <2>1. \A k \in 2..n : k # i /\ k \div 2 # i => d[f[k \div 2]] <= d[f[k]]
    BY <1>3, <1>5, <1>6
  <2>2. ASSUME NEW k \in 2..n, k \div 2 = i, i > 1 PROVE d[f[i \div 2]] <= d[f[k]]
    <3>1. i \in 2..n /\ k # i /\ i \div 2 # i /\ i \div 2 \in 1..n
      BY <1>1, <1>5, <2>2
    <3>2. d[f[k]] = c[f[k]] /\ d[f[i \div 2]] = c[f[i \div 2]]
      BY <1>5, <1>6, <3>1
    <3>3. c[f[i \div 2]] <= c[f[i]] /\ c[f[i]] <= c[f[k]]
      BY <1>3, <2>2, <3>1
    <3>4. c[f[i \div 2]] \in Int /\ c[f[i]] \in Int /\ c[f[k]] \in Int
      BY <1>1, <1>5, <3>1
    <3> QED BY <3>2, <3>3, <3>4
  <2> QED BY <2>1, <2>2 DEF OrderedAround
<1>8. /\ Permuted(sh, e.sh, X)
      /\ e.pos # i => OrderedTo(d, e.sh.flakes, n)
      /\ e.pos = i => e.sh = sh /\ OrderedAbove(d, f, n, i)
  <2>1. n \in 0..Len(sh.flakes) /\ i \in 1..Len(sh.flakes) /\ OrderedAround(d, sh.flakes, n, i)
    BY <1>1, <1>7 DEF n, f
  <2> QED BY <1>1, <1>2, <2>1, DownOK DEF f
<1> HIDE DEF e
<1>9. Permuted(sh, th, X) /\ OrderedTo(d, th.flakes, n)
  <2>1. CASE e.pos # i
    BY <1>4, <1>8, <2>1
  <2>2. CASE e.pos = i
    <3>1. n \in 1..Len(sh.flakes) /\ i \in 1..n /\ OrderedAbove(d, sh.flakes, n, i)
      BY <1>1, <1>8, <2>2 DEF n, f
    <3>2. Permuted(sh, Up(d, sh, i), X) /\ OrderedTo(d, Up(d, sh, i).flakes, n)
      BY <1>1, <1>2, <3>1, UpOK
    <3> QED BY <1>4, <2>2, <3>2
  <2> QED BY <2>1, <2>2
<1> QED BY <1>9 DEF Good, Permuted, n, f, th

-----------------------------------------------------------------------------
(* removeExpired                                                           *)

\* The loop of removeExpired as a sequence of rounds.
SweepRun(r, t, n) == r = [k \in 0..n |-> IF k = 0 THEN inner ELSE SweepRound(t, r[k - 1])]

LEMMA SweepRuns ==
    ASSUME NEW t, Len(inner.flakes) \in Nat
    PROVE  \E r : SweepRun(r, t, Len(inner.flakes)) /\ AfterSweep(t) = r[Len(inner.flakes)]
<1> DEFINE m == Len(inner.flakes)
           P(n) == \E r : SweepRun(r, t, n)
           T == {n \in Nat : P(n)}
           R == CHOOSE r : SweepRun(r, t, m)
<1>1. P(0)
  <2> DEFINE r == [k \in 0..0 |-> inner]
  <2>1. SweepRun(r, t, 0)
    BY DEF SweepRun
  <2> QED BY <2>1
<1>2. ASSUME NEW n \in Nat, P(n) PROVE P(n + 1)
  <2>1. PICK r : SweepRun(r, t, n)
    BY <1>2
  <2> DEFINE q == [k \in 0..(n + 1) |-> IF k <= n THEN r[k] ELSE SweepRound(t, r[n])]
  <2>2. r = [k \in 0..n |-> IF k = 0 THEN inner ELSE SweepRound(t, r[k - 1])]
    BY <2>1 DEF SweepRun
  <2>3. ASSUME NEW k \in 0..(n + 1) PROVE q[k] = IF k = 0 THEN inner ELSE SweepRound(t, q[k - 1])
    <3>1. CASE k = 0
      BY <2>2, <3>1
    <3>2. CASE k # 0
      <4>1. k - 1 \in 0..n /\ q[k - 1] = r[k - 1]
        BY <3>2
      <4> QED BY <2>2, <3>2, <4>1
    <3> QED BY <3>1, <3>2
  <2>4. q = [k \in 0..(n + 1) |-> q[k]]
    OBVIOUS
  <2> HIDE DEF q
  <2>5. [k \in 0..(n + 1) |-> q[k]] = [k \in 0..(n + 1) |-> IF k = 0 THEN inner ELSE SweepRound(t, q[k - 1])]
    BY <2>3
  <2>6. SweepRun(q, t, n + 1)
    BY <2>4, <2>5 DEF SweepRun
  <2> QED BY <2>6
<1>3. 0 \in T /\ \A n \in Nat : n \in T => n + 1 \in T
  <2> HIDE DEF P
  <2> QED BY <1>1, <1>2
<1>4. Nat \subseteq T
  <2> HIDE DEF T
  <2> QED BY <1>3, SetInduction
<1>5. P(m)
  <2> HIDE DEF P
  <2> QED BY <1>4
<1>6. SweepRun(R, t, m)
  BY <1>5, Zenon
<1>7. AfterSweep(t) = R[m]
  BY DEF AfterSweep, SweepRun
<1> HIDE DEF R
<1> QED BY <1>6, <1>7

\* The addresses that a heap does not hold have no position.
AbsentMarked(h) == \A a \in Addrs : ~In(h, a) => h.index[a] = -1

\* What every round of removeExpired keeps.
SweepKeeps(t, h) ==
    /\ Good(LastSeen, h, Addrs) /\ AbsentMarked(h)
    /\ \A a \in Addrs : In(h, a) => In(inner, a)
    /\ \A a \in Addrs : In(inner, a) /\ ~In(h, a) => Expired(t, a)

TooOld(t, h) == h.flakes # <<>> /\ Expired(t, Head(h.flakes))

LEMMA SweepRoundOK ==
    ASSUME LastSeen \in [Addrs -> Int], NEW t, NEW h, SweepKeeps(t, h)
    PROVE  /\ SweepKeeps(t, SweepRound(t, h))
           /\ TooOld(t, h) => Len(SweepRound(t, h).flakes) = Len(h.flakes) - 1
           /\ ~TooOld(t, h) => SweepRound(t, h) = h
<1>1. CASE ~TooOld(t, h)
  BY <1>1 DEF TooOld, SweepRound
<1>2. CASE TooOld(t, h)
  <2> DEFINE g == HeapPop(LastSeen, h)
             x == Head(h.flakes)
  <2>1. SweepRound(t, h) = g /\ h.flakes # <<>> /\ Expired(t, x)
    BY <1>2 DEF TooOld, SweepRound
  <2>2. Good(LastSeen, g, Addrs) /\ Len(g.flakes) = Len(h.flakes) - 1 /\ Without(h, g, x, Addrs)
    BY <2>1, HeapPopOK DEF SweepKeeps
  <2> HIDE DEF g, x
  <2>3. SweepKeeps(t, g)
    BY <2>1, <2>2 DEF SweepKeeps, Without, AbsentMarked
  <2> QED BY <1>2, <2>1, <2>2, <2>3
<1> QED BY <1>1, <1>2

(* removeExpired removes the expired records and no other: the heap order  *)
(* makes it stop at the right one.                                         *)
LEMMA SweepOK ==
    ASSUME LastSeen \in [Addrs -> Int], NEW t \in Int, Timeout \in Int,
           Good(LastSeen, inner, Addrs), AbsentMarked(inner)
    PROVE  /\ Good(LastSeen, AfterSweep(t), Addrs) /\ AbsentMarked(AfterSweep(t))
           /\ \A a \in Addrs : In(AfterSweep(t), a) <=> In(inner, a) /\ ~Expired(t, a)
<1> DEFINE m == Len(inner.flakes)
<1>0. m \in Nat
  BY HeapFields DEF Good
<1>1. PICK r : SweepRun(r, t, m) /\ AfterSweep(t) = r[m]
  BY <1>0, SweepRuns
<1> DEFINE K(k) == SweepKeeps(t, r[k]) /\ (TooOld(t, r[k]) => Len(r[k].flakes) + k <= m)
           T == {k \in Nat : k <= m => K(k)}
<1> HIDE DEF m
<1>2. r[0] = inner /\ \A k \in 0..m : k # 0 => r[k] = SweepRound(t, r[k - 1])
  BY <1>0, <1>1 DEF SweepRun
<1>3. K(0)
  BY <1>0, <1>2 DEF SweepKeeps, m
<1>4. ASSUME NEW k \in Nat, k + 1 <= m, K(k) PROVE K(k + 1)
  <2>1. k + 1 \in 0..m /\ r[k + 1] = SweepRound(t, r[k])
    BY <1>0, <1>2, <1>4
  <2>2. /\ SweepKeeps(t, r[k + 1])
        /\ TooOld(t, r[k]) => Len(r[k + 1].flakes) = Len(r[k].flakes) - 1
        /\ ~TooOld(t, r[k]) => r[k + 1] = r[k]
    BY <1>4, <2>1, SweepRoundOK
  <2>3. Len(r[k].flakes) \in Nat /\ Len(r[k + 1].flakes) \in Nat
    BY <1>4, <2>2, HeapFields DEF SweepKeeps, Good
  <2>4. TooOld(t, r[k + 1]) => TooOld(t, r[k])
    BY <2>2
  <2>5. TooOld(t, r[k + 1]) => Len(r[k].flakes) + k <= m /\ Len(r[k + 1].flakes) = Len(r[k].flakes) - 1
    BY <1>4, <2>2, <2>4
  <2>6. TooOld(t, r[k + 1]) => Len(r[k + 1].flakes) + (k + 1) <= m
    <3>1. \A u, v \in Nat : u + k <= m /\ v = u - 1 => v + (k + 1) <= m
      BY <1>0
    <3> QED BY <2>3, <2>5, <3>1
  <2> QED BY <2>2, <2>6
<1>5. Nat \subseteq T
  <2> HIDE DEF K
  <2>1. 0 \in T /\ \A k \in Nat : k \in T => k + 1 \in T
    BY <1>0, <1>3, <1>4
  <2> HIDE DEF T
  <2> QED BY <2>1, SetInduction
<1>6. K(m)
  <2> HIDE DEF K
  <2> QED BY <1>0, <1>5
<1> DEFINE h == r[m]
<1>7. Good(LastSeen, h, Addrs) /\ Heap(h, Addrs) /\ Len(h.flakes) \in Nat /\ h.flakes \in [1..Len(h.flakes) -> Addrs]
  BY <1>6, HeapFields DEF SweepKeeps, Good
<1>8. ~TooOld(t, h)
  <2>1. TooOld(t, h) => Len(h.flakes) > 0
    <3>1. h.flakes \in Seq(Addrs)
      BY <1>7 DEF Heap
    <3> QED BY <3>1 DEF TooOld
  <2> QED BY <1>0, <1>6, <1>7, <2>1
<1> HIDE DEF h
<1>9. ASSUME NEW a \in Addrs, In(h, a) PROVE ~Expired(t, a)
  <2>1. PICK i \in 1..Len(h.flakes) : h.flakes[i] = a
    BY <1>9 DEF In
  <2>2. h.flakes # <<>> /\ Head(h.flakes) = h.flakes[1] /\ 1 \in 1..Len(h.flakes)
    <3>1. h.flakes \in Seq(Addrs)
      BY <1>7 DEF Heap
    <3> QED BY <2>1, <3>1
  <2>3. ~(t - LastSeen[h.flakes[1]] >= Timeout)
    BY <1>8, <2>2 DEF TooOld, Expired
  <2>4. LastSeen[h.flakes[1]] <= LastSeen[a]
    BY <1>7, <2>1, HeadIsLeast
  <2>5. LastSeen[h.flakes[1]] \in Int /\ LastSeen[a] \in Int
    BY <1>7, <2>2
  <2> QED BY <2>3, <2>4, <2>5 DEF Expired
<1>10. SweepKeeps(t, h) /\ AfterSweep(t) = h
  BY <1>1, <1>6 DEF h
<1> QED BY <1>9, <1>10 DEF SweepKeeps

-----------------------------------------------------------------------------
(* The client map                                                          *)

\* The map is a heap in order; every position is right; times and channels
\* lie in the past.
MapSound ==
    /\ now \in 0..MaxTime /\ queues \in 0..MaxQueues /\ sweep \in -1..now
    /\ LastSeen \in [Addrs -> 0..now] /\ SendQueue \in [Addrs -> 0..queues]
    /\ Good(LastSeen, inner, Addrs) /\ AbsentMarked(inner)

LEMMA MapNumbers ==
    ASSUME MapSound
    PROVE  /\ now \in Nat /\ queues \in Nat /\ sweep \in Int /\ Timeout \in Int /\ Timeout \in Nat
           /\ LastSeen \in [Addrs -> Int] /\ MaxTime \in Nat /\ MaxQueues \in Nat
<1>1. now \in Nat /\ queues \in Nat /\ sweep \in Int /\ MaxTime \in Nat /\ MaxQueues \in Nat /\ Timeout \in Nat
  BY ClientMapBounds DEF MapSound
<1> QED BY <1>1 DEF MapSound

(* byAddr leads to the record of the address.                              *)
LEMMA FoundIsIn ==
    ASSUME MapSound, NEW a \in Addrs
    PROVE  /\ Found(a) <=> In(inner, a)
           /\ Found(a) => inner.index[a] + 1 \in 1..Len(inner.flakes) /\ RecordOf(a) = a
<1>1. Heap(inner, Addrs) /\ Len(inner.flakes) \in Nat
  BY HeapFields DEF MapSound, Good
<1>2. ASSUME In(inner, a) PROVE Found(a) /\ inner.index[a] + 1 \in 1..Len(inner.flakes) /\ RecordOf(a) = a
  <2>1. PICK i \in 1..Len(inner.flakes) : inner.flakes[i] = a
    BY <1>2 DEF In
  <2>2. inner.index[a] = i - 1
    BY <1>1, <2>1 DEF Heap
  <2> QED BY <1>1, <2>1, <2>2 DEF Found, RecordOf
<1>3. ASSUME ~In(inner, a) PROVE ~Found(a)
  BY <1>3 DEF MapSound, AbsentMarked, Found
<1> QED BY <1>2, <1>3

LEMMA PresentIsIn ==
    ASSUME NEW h, Heap(h, Addrs)
    PROVE  \A a : a \in Range(h.flakes) <=> a \in Addrs /\ In(h, a)
<1>1. h.flakes \in [1..Len(h.flakes) -> Addrs]
  BY HeapFields
<1> QED BY <1>1 DEF In, Range

(* SendQueue: afterwards the address is in the map, used now, with the     *)
(* channel returned; nothing else changed.                                 *)
LEMMA TouchOK ==
    ASSUME MapSound, NEW a \in Addrs, Touch(a)
    PROVE  /\ MapSound'
           /\ \A b \in Addrs : In(inner', b) <=> In(inner, b) \/ b = a
           /\ LastSeen' = [LastSeen EXCEPT ![a] = now] /\ UNCHANGED <<now, sweep>>
           /\ In(inner, a) => QueueOf(a) = SendQueue[a] /\ UNCHANGED <<SendQueue, queues>>
           /\ ~In(inner, a) => /\ QueueOf(a) = queues + 1 /\ queues' = queues + 1
                               /\ SendQueue' = [SendQueue EXCEPT ![a] = queues + 1]
<1> USE DEF Touch
<1>1. now \in Nat /\ queues \in Nat /\ LastSeen \in [Addrs -> Int] /\ MaxQueues \in Nat /\ UNCHANGED <<now, sweep>>
  BY MapNumbers
<1>2. Good(LastSeen, inner, Addrs) /\ Heap(inner, Addrs) /\ AbsentMarked(inner)
  BY DEF MapSound, Good
<1>3. LastSeen' = [LastSeen EXCEPT ![a] = now]
  BY FoundIsIn
<1>4. LastSeen' \in [Addrs -> 0..now]
  BY <1>1, <1>3 DEF MapSound
<1>5. CASE In(inner, a)
  <2> DEFINE i == inner.index[a] + 1
  <2>1. Found(a) /\ i \in 1..Len(inner.flakes) /\ inner.flakes[i] = a
    BY <1>5, FoundIsIn DEF RecordOf
  <2>2. inner' = HeapFix(LastSeen', inner, i) /\ UNCHANGED <<SendQueue, queues>>
    BY <2>1
  <2> HIDE DEF i
  <2> DEFINE d == [LastSeen EXCEPT ![inner.flakes[i]] = now]
             th == HeapFix(d, inner, i)
  <2>3. /\ Good(d, th, Addrs)
        /\ \A y \in Addrs : In(th, y) <=> In(inner, y)
        /\ \A y \in Addrs : ~In(inner, y) => th.index[y] = inner.index[y]
    <3>1. i \in 1..Len(inner.flakes) /\ inner.flakes[i] \in Addrs
      BY <2>1
    <3>2. LastSeen \in [Addrs -> Int] /\ d \in [Addrs -> Int] /\ \A y \in Addrs : y # inner.flakes[i] => d[y] = LastSeen[y]
      BY <1>1, <3>1
    <3> HIDE DEF d
    <3> QED BY <1>2, <3>1, <3>2, HeapFixOK
  <2>4. inner' = th /\ d = LastSeen'
    BY <1>3, <2>1, <2>2
  <2> HIDE DEF th, d
  <2>5. Good(LastSeen', inner', Addrs) /\ AbsentMarked(inner')
    BY <1>2, <2>3, <2>4 DEF AbsentMarked
  <2>6. MapSound'
    BY <1>1, <1>4, <2>2, <2>5 DEF MapSound, AbsentMarked
  <2>7. QueueOf(a) = SendQueue[a]
    BY <2>1, FoundIsIn DEF QueueOf
  <2> QED BY <1>1, <1>3, <1>5, <2>2, <2>3, <2>4, <2>6, <2>7
<1>6. CASE ~In(inner, a)
  <2>1. ~Found(a)
    BY <1>6, FoundIsIn
  <2>2. /\ inner' = HeapPush(LastSeen', inner, a) /\ queues < MaxQueues
        /\ queues' = queues + 1 /\ SendQueue' = [SendQueue EXCEPT ![a] = queues + 1]
    BY <2>1
  <2> DEFINE d == [LastSeen EXCEPT ![a] = now]
  <2>3. d \in [Addrs -> Int] /\ \A y \in Addrs : In(inner, y) => d[y] = LastSeen[y]
    BY <1>1, <1>6
  <2> HIDE DEF d
  <2>4. Good(d, inner, Addrs)
    <3>1. inner = [flakes |-> inner.flakes, index |-> inner.index] /\ inner.index \in [Addrs -> Int]
      BY <1>2 DEF Heap
    <3> QED BY <1>2, <2>3, <3>1, Frame
  <2> DEFINE th == HeapPush(d, inner, a)
  <2>5. /\ Good(d, th, Addrs)
        /\ \A y \in Addrs : In(th, y) <=> In(inner, y) \/ y = a
        /\ \A y \in Addrs : ~In(inner, y) /\ y # a => th.index[y] = inner.index[y]
    BY <1>6, <2>3, <2>4, HeapPushOK
  <2>6. inner' = th /\ LastSeen' = d
    BY <1>3, <2>2 DEF d
  <2> HIDE DEF th
  <2>7. Good(LastSeen', inner', Addrs) /\ AbsentMarked(inner')
    BY <1>2, <2>5, <2>6 DEF AbsentMarked
  <2>8. queues' \in 0..MaxQueues /\ SendQueue' \in [Addrs -> 0..queues']
    <3>1. queues' \in 0..MaxQueues /\ queues + 1 \in 0..queues' /\ \A q \in 0..queues : q \in 0..queues'
      BY <1>1, <2>2
    <3> QED BY <2>2, <3>1 DEF MapSound
  <2>9. MapSound'
    BY <1>1, <1>4, <2>7, <2>8 DEF MapSound, AbsentMarked
  <2>10. QueueOf(a) = queues + 1
    BY <2>1 DEF QueueOf
  <2> QED BY <1>1, <1>3, <1>6, <2>2, <2>5, <2>6, <2>9, <2>10
<1> QED BY <1>5, <1>6

(* removeExpired: the expired records leave, the others keep their fields. *)
LEMMA RemoveExpiredOK ==
    ASSUME MapSound, RemoveExpired
    PROVE  /\ MapSound'
           /\ \A a \in Addrs : In(inner', a) <=> In(inner, a) /\ ~Expired(sweep, a)
           /\ \A a \in Addrs : LastSeen'[a] = IF In(inner', a) THEN LastSeen[a] ELSE 0
           /\ \A a \in Addrs : SendQueue'[a] = IF In(inner', a) THEN SendQueue[a] ELSE 0
           /\ sweep \in 0..now /\ sweep' = -1 /\ UNCHANGED <<now, queues>>
<1> DEFINE h == AfterSweep(sweep)
<1>1. /\ inner' = h /\ sweep' = -1 /\ sweep # -1 /\ UNCHANGED <<now, queues>>
      /\ LastSeen' = Kept(LastSeen) /\ SendQueue' = Kept(SendQueue)
  BY DEF RemoveExpired, Asleep
<1>2. now \in Nat /\ queues \in Nat /\ sweep \in Int /\ Timeout \in Int /\ LastSeen \in [Addrs -> Int]
  BY MapNumbers
<1>3. /\ Good(LastSeen, h, Addrs) /\ AbsentMarked(h)
      /\ \A a \in Addrs : In(h, a) <=> In(inner, a) /\ ~Expired(sweep, a)
  BY <1>2, SweepOK DEF MapSound
<1> HIDE DEF h
<1>4. \A a \in Addrs : a \in Range(inner'.flakes) <=> In(inner', a)
  BY <1>1, <1>3, PresentIsIn DEF Good
<1>5. /\ LastSeen' = [a \in Addrs |-> IF In(inner', a) THEN LastSeen[a] ELSE 0]
      /\ SendQueue' = [a \in Addrs |-> IF In(inner', a) THEN SendQueue[a] ELSE 0]
  BY <1>1, <1>4 DEF Kept
<1>6. /\ \A a \in Addrs : LastSeen'[a] = IF In(inner', a) THEN LastSeen[a] ELSE 0
      /\ \A a \in Addrs : SendQueue'[a] = IF In(inner', a) THEN SendQueue[a] ELSE 0
  BY <1>5
<1>7. LastSeen' \in [Addrs -> 0..now] /\ SendQueue' \in [Addrs -> 0..queues]
  <2>1. 0 \in 0..now /\ 0 \in 0..queues
    BY <1>2
  <2> QED BY <1>5, <2>1 DEF MapSound
<1>8. Good(LastSeen', inner', Addrs)
  <2>1. LastSeen' \in [Addrs -> Int] /\ h = [flakes |-> h.flakes, index |-> h.index] /\ h.index \in [Addrs -> Int]
    BY <1>2, <1>3, <1>7 DEF Good, Heap
  <2>2. \A y \in Addrs : In(h, y) => h.index[y] = h.index[y] /\ LastSeen'[y] = LastSeen[y]
    BY <1>1, <1>6
  <2> QED BY <1>1, <1>3, <2>1, <2>2, Frame
<1>9. now' \in 0..MaxTime /\ queues' \in 0..MaxQueues /\ sweep' \in -1..now' /\ sweep \in 0..now
  BY <1>1, <1>2 DEF MapSound
<1>10. MapSound'
  BY <1>1, <1>3, <1>7, <1>8, <1>9 DEF MapSound, AbsentMarked
<1> QED BY <1>1, <1>3, <1>6, <1>9, <1>10

(* The clock and the goroutine that reads it leave the map alone.          *)
LEMMA TimeOK ==
    ASSUME MapSound, Tick \/ SweepReadsClock
    PROVE  MapSound' /\ now' \in Nat /\ now <= now' /\ UNCHANGED <<inner, LastSeen, SendQueue, queues>>
<1>1. now \in Nat /\ MaxTime \in Nat
  BY MapNumbers
<1>2. UNCHANGED <<inner, LastSeen, SendQueue, queues>>
  BY DEF Tick, SweepReadsClock
<1>3. now' \in 0..MaxTime /\ sweep' \in -1..now' /\ now <= now' /\ now' \in Nat
  BY <1>1 DEF MapSound, Tick, SweepReadsClock
<1>4. LastSeen' \in [Addrs -> 0..now']
  <2>1. \A t \in 0..now : t \in 0..now'
    BY <1>1, <1>3
  <2> QED BY <1>2, <2>1 DEF MapSound
<1> QED BY <1>2, <1>3, <1>4 DEF MapSound, AbsentMarked

-----------------------------------------------------------------------------
(* The inductive invariant                                                 *)

Calls == [pc : {"idle", "send"}, addr : Addrs \cup {NoAddr}, ch : 0..queues]
Loops == [pc : {"new", "loop", "wait", "done"}, addr : Addrs \cup {NoAddr}, ch : 0..queues, since : 0..now]

\* The variables in their types, and what each pc has set.
TypesSound ==
    /\ chan \in [1..MaxQueues -> Seq(Addrs)] /\ closed \subseteq 1..queues
    /\ writeTo \in [Writers -> Calls] /\ conn \in [Conns -> Loops]
    /\ \A w \in Writers : writeTo[w].pc = "send" => writeTo[w].addr \in Addrs /\ writeTo[w].ch \in 1..queues
    /\ \A s \in Conns : conn[s].pc \in {"loop", "wait"} => conn[s].addr \in Addrs
    /\ \A s \in Conns : conn[s].pc = "wait" => conn[s].ch \in 1..queues
    /\ readEnded \subseteq Conns /\ sent \in 0..MaxPackets /\ astray = FALSE /\ panicked \in BOOLEAN

\* The channels in use hold at most QueueSize packets, the others none.
ChannelsSound ==
    \A q \in 1..MaxQueues : Len(chan[q]) <= QueueSize /\ (q > queues => chan[q] = <<>>)

\* The map holds the channels that are open, and those only.
OpenSound ==
    /\ \A a \in Addrs : In(inner, a) => SendQueue[a] \in 1..queues /\ SendQueue[a] \notin closed
    /\ \A q \in 1..queues : q \in closed \/ \E a \in Addrs : In(inner, a) /\ SendQueue[a] = q

\* Every channel has one client for good, whoever still holds the channel.
Owned(own) ==
    /\ own \in [1..MaxQueues -> Addrs \cup {NoAddr}]
    /\ \A a \in Addrs : In(inner, a) => own[SendQueue[a]] = a
    /\ \A w \in Writers : writeTo[w].pc = "send" => own[writeTo[w].ch] = writeTo[w].addr
    /\ \A s \in Conns : conn[s].pc = "wait" => own[conn[s].ch] = conn[s].addr
    /\ \A q \in 1..MaxQueues : \A i \in 1..Len(chan[q]) : chan[q][i] = own[q]

\* A write loop that waits on the open channel of its client used the map.
WaitersSeen ==
    \A s \in Conns : conn[s].pc = "wait" =>
        /\ In(inner, conn[s].addr) /\ SendQueue[conn[s].addr] = conn[s].ch
                => conn[s].since <= LastSeen[conn[s].addr]
        /\ conn[s].ch \in closed => now - conn[s].since >= Timeout

\* The conjuncts that follow from each other only together.
QueueInv ==
    /\ MapSound /\ TypesSound /\ ChannelsSound /\ OpenSound /\ WaitersSeen
    /\ \E own \in [1..MaxQueues -> Addrs \cup {NoAddr}] : Owned(own)

\* What SendQueue(a) leaves behind: the channel it returns is open and a's.
LookedUp(a, own, new) ==
    /\ MapSound' /\ OpenSound' /\ ChannelsSound'
    /\ now' = now /\ queues' \in Nat /\ queues <= queues'
    /\ QueueOf(a) \in 1..queues' /\ QueueOf(a) \in 1..MaxQueues /\ QueueOf(a) \notin closed
    /\ SendQueue'[a] = QueueOf(a) /\ LastSeen'[a] = now
    /\ new \in [1..MaxQueues -> Addrs \cup {NoAddr}] /\ new[QueueOf(a)] = a
    /\ \A q \in 1..queues : new[q] = own[q]
    /\ \A b \in Addrs : In(inner', b) => new[SendQueue'[b]] = b
    /\ \A q \in 1..MaxQueues : \A i \in 1..Len(chan[q]) : chan[q][i] = new[q]
    /\ \A b \in Addrs : b # a => LastSeen'[b] = LastSeen[b] /\ SendQueue'[b] = SendQueue[b]
                                 /\ (In(inner', b) <=> In(inner, b))
    /\ SendQueue'[a] \in 1..queues => SendQueue'[a] = SendQueue[a] /\ In(inner, a)

LEMMA LookupOK ==
    ASSUME MapSound, TypesSound, ChannelsSound, OpenSound,
           NEW own, Owned(own), NEW a \in Addrs, Touch(a), UNCHANGED <<chan, closed>>
    PROVE  \E new : LookedUp(a, own, new)
<1>1. /\ now \in Nat /\ queues \in Nat /\ MaxQueues \in Nat /\ LastSeen \in [Addrs -> Int]
      /\ queues <= MaxQueues /\ SendQueue \in [Addrs -> 0..queues]
  BY MapNumbers DEF MapSound
<1>2. /\ MapSound' /\ \A b \in Addrs : In(inner', b) <=> In(inner, b) \/ b = a
      /\ LastSeen' = [LastSeen EXCEPT ![a] = now] /\ UNCHANGED <<now, sweep>>
      /\ In(inner, a) => QueueOf(a) = SendQueue[a] /\ UNCHANGED <<SendQueue, queues>>
      /\ ~In(inner, a) => /\ QueueOf(a) = queues + 1 /\ queues' = queues + 1
                          /\ SendQueue' = [SendQueue EXCEPT ![a] = queues + 1]
  BY TouchOK
<1>3. LastSeen'[a] = now /\ \A b \in Addrs : b # a => LastSeen'[b] = LastSeen[b]
  BY <1>1, <1>2
<1>4. CASE In(inner, a)
  <2>1. QueueOf(a) = SendQueue[a] /\ UNCHANGED <<SendQueue, queues>> /\ \A b \in Addrs : In(inner', b) <=> In(inner, b)
    BY <1>2, <1>4
  <2>2. QueueOf(a) \in 1..queues /\ QueueOf(a) \in 1..MaxQueues /\ QueueOf(a) \notin closed
    BY <1>1, <1>4, <2>1 DEF OpenSound
  <2>3. OpenSound' /\ ChannelsSound'
    BY <2>1 DEF OpenSound, ChannelsSound
  <2>4. own[QueueOf(a)] = a /\ \A b \in Addrs : In(inner', b) => own[SendQueue'[b]] = b
    BY <1>4, <2>1 DEF Owned
  <2>5. /\ own \in [1..MaxQueues -> Addrs \cup {NoAddr}]
        /\ \A q \in 1..MaxQueues : \A i \in 1..Len(chan[q]) : chan[q][i] = own[q]
    BY DEF Owned
  <2>6. queues' \in Nat /\ queues <= queues'
    BY <1>1, <2>1
  <2>7. LookedUp(a, own, own)
    BY <1>2, <1>3, <1>4, <2>1, <2>2, <2>3, <2>4, <2>5, <2>6 DEF LookedUp
  <2> QED BY <2>7
<1>5. CASE ~In(inner, a)
  <2> DEFINE q == queues + 1
             new == [own EXCEPT ![q] = a]
  <2>1. QueueOf(a) = q /\ queues' = q /\ SendQueue' = [SendQueue EXCEPT ![a] = q]
    BY <1>2, <1>5
  <2>2. queues' <= MaxQueues /\ q \in Nat /\ q > queues /\ q \in 1..MaxQueues /\ q \in 1..queues'
    <3>1. queues' \in 0..MaxQueues
      BY <1>2 DEF MapSound
    <3> QED BY <1>1, <2>1, <3>1
  <2>3. SendQueue'[a] = q /\ \A b \in Addrs : b # a => SendQueue'[b] = SendQueue[b]
    BY <1>1, <2>1
  <2>4. \A k \in 1..queues : k \in 1..queues' /\ k # q /\ k \in 1..MaxQueues
    BY <1>1, <2>1, <2>2
  <2>5. \A k \in 1..queues' : k \in 1..queues \/ k = q
    BY <1>1, <2>1
  <2>6. q \notin closed /\ q \notin 1..queues
    BY <1>1, <2>2 DEF TypesSound
  <2>7. new \in [1..MaxQueues -> Addrs \cup {NoAddr}] /\ new[q] = a /\ \A k \in 1..MaxQueues : k # q => new[k] = own[k]
    BY <2>2 DEF Owned
  <2> HIDE DEF new, q
  <2>8. OpenSound'
    <3>1. \A b \in Addrs : In(inner', b) => SendQueue'[b] \in 1..queues' /\ SendQueue'[b] \notin closed
      BY <1>2, <2>2, <2>3, <2>4, <2>6 DEF OpenSound
    <3>2. ASSUME NEW k \in 1..queues' PROVE k \in closed \/ \E b \in Addrs : In(inner', b) /\ SendQueue'[b] = k
      <4>1. CASE k = q
        BY <1>2, <2>3, <4>1
      <4>2. CASE k \in 1..queues
        <5>1. CASE k \in closed
          BY <5>1
        <5>2. CASE k \notin closed
          <6>1. PICK b \in Addrs : In(inner, b) /\ SendQueue[b] = k
            BY <4>2, <5>2 DEF OpenSound
          <6>2. b # a
            BY <1>5, <6>1
          <6> QED BY <1>2, <2>3, <6>1, <6>2
        <5> QED BY <5>1, <5>2
      <4> QED BY <2>5, <4>1, <4>2
    <3> QED BY <3>1, <3>2 DEF OpenSound
  <2>9. ChannelsSound' /\ Len(chan[q]) = 0
    <3>1. chan[q] = <<>>
      BY <2>2 DEF ChannelsSound
    <3>2. \A k \in 1..MaxQueues : k > queues' => k > queues
      BY <1>1, <2>1, <2>2
    <3> QED BY <3>1, <3>2 DEF ChannelsSound
  <2>10. \A b \in Addrs : In(inner', b) => new[SendQueue'[b]] = b
    <3>1. ASSUME NEW b \in Addrs, In(inner', b), b # a PROVE new[SendQueue'[b]] = b
      <4>1. In(inner, b) /\ SendQueue'[b] = SendQueue[b]
        BY <1>2, <2>3, <3>1
      <4>2. SendQueue[b] \in 1..queues /\ own[SendQueue[b]] = b
        BY <4>1 DEF OpenSound, Owned
      <4> QED BY <2>4, <2>7, <4>1, <4>2
    <3> QED BY <2>3, <2>7, <3>1
  <2>11. \A k \in 1..MaxQueues : \A i \in 1..Len(chan[k]) : chan[k][i] = new[k]
    <3>1. ASSUME NEW k \in 1..MaxQueues, NEW i \in 1..Len(chan[k]) PROVE chan[k][i] = new[k]
      <4>1. k # q
        BY <2>9, <3>1
      <4> QED BY <2>7, <4>1 DEF Owned
    <3> QED BY <3>1
  <2>12. queues' \in Nat /\ queues <= queues'
    BY <1>1, <2>1, <2>2
  <2>13. \A b \in Addrs : b # a => (In(inner', b) <=> In(inner, b))
    BY <1>2
  <2>14. SendQueue'[a] \notin 1..queues
    BY <2>3, <2>6
  <2>15. LookedUp(a, own, new)
    BY <1>2, <1>3, <2>1, <2>2, <2>3, <2>4, <2>6, <2>7, <2>8, <2>9, <2>10, <2>11, <2>12, <2>13, <2>14 DEF LookedUp
  <2> QED BY <2>15
<1> QED BY <1>4, <1>5

(* A call of SendQueue takes nothing from those who hold a channel already *)
LEMMA LookupKeeps ==
    ASSUME MapSound, TypesSound, WaitersSeen, NEW own, Owned(own), NEW a \in Addrs, NEW new, LookedUp(a, own, new)
    PROVE  /\ Calls \subseteq Calls' /\ Loops \subseteq Loops' /\ 1..queues \subseteq 1..queues'
           /\ \A w \in Writers : writeTo[w].pc = "send" => new[writeTo[w].ch] = writeTo[w].addr
           /\ \A s \in Conns : conn[s].pc = "wait" => new[conn[s].ch] = conn[s].addr
           /\ \A s \in Conns : conn[s].pc = "wait" =>
                /\ In(inner', conn[s].addr) /\ SendQueue'[conn[s].addr] = conn[s].ch
                        => conn[s].since <= LastSeen'[conn[s].addr]
                /\ conn[s].ch \in closed => now' - conn[s].since >= Timeout
<1>1. now \in Nat /\ queues \in Nat /\ queues' \in Nat /\ queues <= queues' /\ now' = now
  BY MapNumbers DEF LookedUp
<1>2. 0..queues \subseteq 0..queues' /\ 1..queues \subseteq 1..queues'
  BY <1>1
<1>3. Calls \subseteq Calls' /\ Loops \subseteq Loops'
  BY <1>1, <1>2 DEF Calls, Loops
<1>4. \A w \in Writers : writeTo[w].pc = "send" => new[writeTo[w].ch] = writeTo[w].addr
  BY DEF LookedUp, TypesSound, Owned
<1>5. \A s \in Conns : conn[s].pc = "wait" => new[conn[s].ch] = conn[s].addr
  BY DEF LookedUp, TypesSound, Owned
<1>6. ASSUME NEW s \in Conns, conn[s].pc = "wait", In(inner', conn[s].addr), SendQueue'[conn[s].addr] = conn[s].ch
      PROVE  conn[s].since <= LastSeen'[conn[s].addr]
  <2>1. conn[s].addr \in Addrs /\ conn[s].ch \in 1..queues /\ conn[s] \in Loops
    BY <1>6 DEF TypesSound
  <2>2. CASE conn[s].addr = a
    <3>1. LastSeen'[conn[s].addr] = now
      BY <2>2 DEF LookedUp
    <3>2. conn[s].since \in 0..now
      BY <2>1 DEF Loops
    <3> QED BY <1>1, <3>1, <3>2
  <2>3. CASE conn[s].addr # a
    <3>1. /\ In(inner, conn[s].addr) /\ SendQueue[conn[s].addr] = conn[s].ch
          /\ LastSeen'[conn[s].addr] = LastSeen[conn[s].addr]
      BY <1>6, <2>1, <2>3 DEF LookedUp
    <3> QED BY <1>6, <3>1 DEF WaitersSeen
  <2> QED BY <2>2, <2>3
<1>7. \A s \in Conns : conn[s].pc = "wait" => (conn[s].ch \in closed => now' - conn[s].since >= Timeout)
  BY <1>1 DEF WaitersSeen
<1> QED BY <1>2, <1>3, <1>4, <1>5, <1>6, <1>7

-----------------------------------------------------------------------------
(* One lemma for each action                                               *)

LEMMA WriteToLooksUpOK ==
    ASSUME QueueInv, NEW w \in Writers, NEW a \in Addrs, WriteToLooksUp(w, a)
    PROVE  QueueInv'
<1> USE DEF QueueInv
<1>1. /\ Touch(a) /\ UNCHANGED <<chan, closed, conn, readEnded, astray, sent, panicked>>
      /\ writeTo' = [writeTo EXCEPT ![w] = [pc |-> "send", addr |-> a, ch |-> QueueOf(a)]]
  BY DEF WriteToLooksUp
<1>2. PICK own : Owned(own)
  OBVIOUS
<1>3. PICK new : LookedUp(a, own, new)
  BY <1>1, <1>2, LookupOK
<1>4. /\ Calls \subseteq Calls' /\ Loops \subseteq Loops' /\ 1..queues \subseteq 1..queues'
      /\ \A v \in Writers : writeTo[v].pc = "send" => new[writeTo[v].ch] = writeTo[v].addr
      /\ \A s \in Conns : conn[s].pc = "wait" => new[conn[s].ch] = conn[s].addr
      /\ \A s \in Conns : conn[s].pc = "wait" =>
                /\ In(inner', conn[s].addr) /\ SendQueue'[conn[s].addr] = conn[s].ch
                        => conn[s].since <= LastSeen'[conn[s].addr]
                /\ conn[s].ch \in closed => now' - conn[s].since >= Timeout
  BY <1>2, <1>3, LookupKeeps
<1>5. QueueOf(a) \in 1..queues' /\ QueueOf(a) \in 0..queues' /\ new[QueueOf(a)] = a
  <2>1. queues' \in Nat /\ QueueOf(a) \in 1..queues' /\ new[QueueOf(a)] = a
    BY <1>3 DEF LookedUp
  <2> QED BY <2>1
<1>6. /\ writeTo'[w].pc = "send" /\ writeTo'[w].addr = a /\ writeTo'[w].ch = QueueOf(a)
      /\ \A v \in Writers : v # w => writeTo'[v] = writeTo[v]
  BY <1>1 DEF TypesSound
<1>7. TypesSound'
  <2>1. writeTo' \in [Writers -> Calls']
    <3>1. [pc |-> "send", addr |-> a, ch |-> QueueOf(a)] \in Calls'
      BY <1>5 DEF Calls
    <3>2. writeTo \in [Writers -> Calls']
      BY <1>4 DEF TypesSound
    <3> QED BY <1>1, <3>1, <3>2
  <2>2. conn' \in [Conns -> Loops'] /\ closed' \subseteq 1..queues'
    BY <1>1, <1>4 DEF TypesSound
  <2>3. \A v \in Writers : writeTo'[v].pc = "send" => writeTo'[v].addr \in Addrs /\ writeTo'[v].ch \in 1..queues'
    BY <1>4, <1>5, <1>6 DEF TypesSound
  <2>4. \A s \in Conns : conn[s].pc = "wait" => conn[s].ch \in 1..queues'
    BY <1>4 DEF TypesSound
  <2> QED BY <1>1, <2>1, <2>2, <2>3, <2>4 DEF TypesSound
<1>8. Owned(new)'
  BY <1>1, <1>3, <1>4, <1>5, <1>6 DEF Owned, LookedUp
<1>9. WaitersSeen'
  BY <1>1, <1>4 DEF WaitersSeen
<1>10. MapSound' /\ ChannelsSound' /\ OpenSound' /\ new \in [1..MaxQueues -> Addrs \cup {NoAddr}]
  BY <1>3 DEF LookedUp
<1> QED BY <1>7, <1>8, <1>9, <1>10

LEMMA LoopLooksUpOK ==
    ASSUME QueueInv, NEW s \in Conns, LoopLooksUp(s)
    PROVE  QueueInv'
<1> USE DEF QueueInv
<1> DEFINE a == conn[s].addr
           c == ConnAt("wait", a, QueueOf(a), now)
<1>1. /\ Touch(a) /\ UNCHANGED <<chan, closed, writeTo, readEnded, astray, sent, panicked>>
      /\ conn' = [conn EXCEPT ![s] = c] /\ a \in Addrs
  BY DEF LoopLooksUp, TypesSound
<1>2. PICK own : Owned(own)
  OBVIOUS
<1>3. PICK new : LookedUp(a, own, new)
  BY <1>1, <1>2, LookupOK
<1>4. /\ Calls \subseteq Calls' /\ Loops \subseteq Loops' /\ 1..queues \subseteq 1..queues'
      /\ \A v \in Writers : writeTo[v].pc = "send" => new[writeTo[v].ch] = writeTo[v].addr
      /\ \A r \in Conns : conn[r].pc = "wait" => new[conn[r].ch] = conn[r].addr
      /\ \A r \in Conns : conn[r].pc = "wait" =>
                /\ In(inner', conn[r].addr) /\ SendQueue'[conn[r].addr] = conn[r].ch
                        => conn[r].since <= LastSeen'[conn[r].addr]
                /\ conn[r].ch \in closed => now' - conn[r].since >= Timeout
  BY <1>1, <1>2, <1>3, LookupKeeps
<1>5. /\ QueueOf(a) \in 1..queues' /\ QueueOf(a) \in 0..queues' /\ new[QueueOf(a)] = a
      /\ now' = now /\ now \in 0..now' /\ LastSeen'[a] = now /\ QueueOf(a) \notin closed
  <2>1. /\ queues' \in Nat /\ QueueOf(a) \in 1..queues' /\ new[QueueOf(a)] = a
        /\ now' = now /\ LastSeen'[a] = now /\ QueueOf(a) \notin closed /\ now \in Nat
    BY <1>3, MapNumbers DEF LookedUp
  <2> QED BY <2>1
<1> HIDE DEF a
<1>6. c.pc = "wait" /\ c.addr = a /\ c.ch = QueueOf(a) /\ c.since = now /\ c \in Loops'
  BY <1>1, <1>5 DEF ConnAt, Loops
<1> HIDE DEF c
<1>7. conn'[s] = c /\ \A r \in Conns : r # s => conn'[r] = conn[r]
  BY <1>1 DEF TypesSound
<1>8. TypesSound'
  <2>1. conn' \in [Conns -> Loops']
    <3>1. conn \in [Conns -> Loops']
      BY <1>4 DEF TypesSound
    <3> QED BY <1>1, <1>6, <3>1
  <2>2. writeTo' \in [Writers -> Calls'] /\ closed' \subseteq 1..queues'
    BY <1>1, <1>4 DEF TypesSound
  <2>3. \A v \in Writers : writeTo[v].pc = "send" => writeTo[v].addr \in Addrs /\ writeTo[v].ch \in 1..queues'
    BY <1>4 DEF TypesSound
  <2>4. \A r \in Conns : conn'[r].pc \in {"loop", "wait"} => conn'[r].addr \in Addrs
    BY <1>1, <1>6, <1>7 DEF TypesSound
  <2>5. \A r \in Conns : conn'[r].pc = "wait" => conn'[r].ch \in 1..queues'
    BY <1>4, <1>5, <1>6, <1>7 DEF TypesSound
  <2> QED BY <1>1, <2>1, <2>2, <2>3, <2>4, <2>5 DEF TypesSound
<1>9. Owned(new)'
  BY <1>1, <1>3, <1>4, <1>5, <1>6, <1>7 DEF Owned, LookedUp
<1>10. WaitersSeen'
  <2>1. now <= now /\ c.since <= LastSeen'[c.addr] /\ c.ch \notin closed
    <3>1. now \in Nat
      BY MapNumbers
    <3> QED BY <1>5, <1>6, <3>1
  <2> QED BY <1>1, <1>4, <1>7, <2>1 DEF WaitersSeen
<1>11. MapSound' /\ ChannelsSound' /\ OpenSound' /\ new \in [1..MaxQueues -> Addrs \cup {NoAddr}]
  BY <1>3 DEF LookedUp
<1> QED BY <1>8, <1>9, <1>10, <1>11

LEMMA MapStill ==
    ASSUME MapSound, UNCHANGED mapVars
    PROVE  MapSound'
BY DEF MapSound, mapVars, AbsentMarked

LEMMA WriteToSendsOK ==
    ASSUME QueueInv, NEW w \in Writers, WriteToSends(w)
    PROVE  QueueInv'
<1> USE DEF QueueInv
<1> DEFINE q == writeTo[w].ch
           x == writeTo[w].addr
<1>1. /\ writeTo[w].pc = "send" /\ writeTo' = [writeTo EXCEPT ![w] = IdleCall]
      /\ UNCHANGED <<mapVars, closed, conn, readEnded, astray>>
      /\ \/ panicked' = TRUE /\ UNCHANGED <<chan, sent>>
         \/ HasRoom(q) /\ sent < MaxPackets /\ sent' = sent + 1 /\ chan' = [chan EXCEPT ![q] = Append(@, x)] /\ UNCHANGED panicked
         \/ UNCHANGED <<chan, sent, panicked>>
  BY DEF WriteToSends
<1>2. UNCHANGED <<now, inner, LastSeen, SendQueue, queues>> /\ queues \in Nat /\ MaxQueues \in Nat /\ queues <= MaxQueues
  BY <1>1, MapNumbers DEF mapVars, MapSound
<1>3. q \in 1..queues /\ x \in Addrs /\ q \in 1..MaxQueues
  <2>1. q \in 1..queues /\ x \in Addrs
    BY <1>1 DEF TypesSound
  <2> QED BY <1>2, <2>1
<1>4. PICK own \in [1..MaxQueues -> Addrs \cup {NoAddr}] : Owned(own)
  OBVIOUS
<1>5. own[q] = x
  BY <1>1, <1>4 DEF Owned
<1> HIDE DEF q, x
<1>6. /\ chan' \in [1..MaxQueues -> Seq(Addrs)] /\ sent' \in 0..MaxPackets
      /\ \A k \in 1..MaxQueues : Len(chan'[k]) <= QueueSize /\ (k > queues => chan'[k] = <<>>)
      /\ \A k \in 1..MaxQueues : \A i \in 1..Len(chan'[k]) : chan'[k][i] = own[k]
  <2>1. CASE UNCHANGED <<chan, sent>>
    BY <1>4, <2>1 DEF TypesSound, ChannelsSound, Owned
  <2>2. CASE HasRoom(q) /\ sent < MaxPackets /\ sent' = sent + 1 /\ chan' = [chan EXCEPT ![q] = Append(@, x)]
    <3>1. sent' \in 0..MaxPackets
      BY <2>2, QueueBounds DEF TypesSound
    <3>2. chan[q] \in Seq(Addrs) /\ Len(chan[q]) \in Nat
      BY <1>3 DEF TypesSound
    <3>3. /\ Append(chan[q], x) \in Seq(Addrs) /\ Len(Append(chan[q], x)) = Len(chan[q]) + 1
          /\ \A i \in 1..(Len(chan[q]) + 1) : (i \in 1..Len(chan[q]) /\ Append(chan[q], x)[i] = chan[q][i]) \/ Append(chan[q], x)[i] = x
      BY <1>3, <3>2
    <3>4. chan' \in [1..MaxQueues -> Seq(Addrs)] /\ chan'[q] = Append(chan[q], x) /\ \A k \in 1..MaxQueues : k # q => chan'[k] = chan[k]
      BY <1>3, <2>2, <3>3 DEF TypesSound
    <3>5. Len(chan'[q]) <= QueueSize
      <4>1. \A n \in Nat : n < QueueSize => n + 1 <= QueueSize
        BY QueueBounds
      <4> QED BY <2>2, <3>2, <3>3, <3>4, <4>1 DEF HasRoom
    <3>6. ~(q > queues)
      BY <1>2, <1>3
    <3>7. \A i \in 1..Len(chan'[q]) : chan'[q][i] = own[q]
      BY <1>3, <1>4, <1>5, <3>3, <3>4 DEF Owned
    <3> QED BY <1>4, <3>1, <3>4, <3>5, <3>6, <3>7, SMTT(20) DEF ChannelsSound, Owned
  <2> QED BY <1>1, <2>1, <2>2
<1>7. /\ writeTo' \in [Writers -> Calls] /\ writeTo'[w].pc = "idle"
      /\ \A v \in Writers : v # w => writeTo'[v] = writeTo[v]
  <2>1. IdleCall \in Calls /\ IdleCall.pc = "idle"
    BY <1>2 DEF IdleCall, Calls
  <2> QED BY <1>1, <2>1 DEF TypesSound
<1>8. TypesSound'
  <2>1. panicked' \in BOOLEAN
    BY <1>1 DEF TypesSound
  <2>2. \A v \in Writers : writeTo'[v].pc = "send" => writeTo'[v].addr \in Addrs /\ writeTo'[v].ch \in 1..queues
    BY <1>7 DEF TypesSound
  <2> QED BY <1>1, <1>2, <1>6, <1>7, <2>1, <2>2 DEF TypesSound, Calls, Loops
<1>9. ChannelsSound' /\ OpenSound' /\ WaitersSeen'
  BY <1>1, <1>2, <1>6 DEF ChannelsSound, OpenSound, WaitersSeen
<1>10. Owned(own)'
  BY <1>1, <1>2, <1>4, <1>6, <1>7 DEF Owned
<1> QED BY <1>1, <1>8, <1>9, <1>10, MapStill

(* A write loop that does not wait afterwards, having received at most one *)
(* packet.                                                                 *)
LEMMA LoopStepOK ==
    ASSUME QueueInv, NEW s \in Conns, NEW c \in Loops, c.pc # "wait", c.pc = "loop" => c.addr \in Addrs,
           conn' = [conn EXCEPT ![s] = c], UNCHANGED <<mapVars, closed, writeTo, sent, panicked>>,
           chan' \in [1..MaxQueues -> Seq(Addrs)],
           \A q \in 1..MaxQueues : chan'[q] = chan[q] \/ (chan[q] # <<>> /\ chan'[q] = Tail(chan[q])),
           readEnded' \subseteq Conns, astray' = FALSE
    PROVE  QueueInv'
<1> USE DEF QueueInv
<1>1. UNCHANGED <<now, inner, LastSeen, SendQueue, queues>>
  BY DEF mapVars
<1>2. conn' \in [Conns -> Loops] /\ conn'[s] = c /\ \A r \in Conns : r # s => conn'[r] = conn[r]
  BY DEF TypesSound
<1>3. PICK own \in [1..MaxQueues -> Addrs \cup {NoAddr}] : Owned(own)
  OBVIOUS
<1>4. ASSUME NEW q \in 1..MaxQueues
      PROVE  /\ Len(chan'[q]) <= QueueSize /\ (chan[q] = <<>> => chan'[q] = <<>>)
             /\ \A i \in 1..Len(chan'[q]) : chan'[q][i] = own[q]
  <2>1. chan[q] \in Seq(Addrs) /\ Len(chan[q]) \in Nat /\ Len(chan[q]) <= QueueSize
        /\ \A i \in 1..Len(chan[q]) : chan[q][i] = own[q]
    BY <1>3 DEF TypesSound, ChannelsSound, Owned
  <2>2. CASE chan'[q] = chan[q]
    BY <2>1, <2>2
  <2>3. CASE chan[q] # <<>> /\ chan'[q] = Tail(chan[q])
    <3>1. Len(chan'[q]) = Len(chan[q]) - 1 /\ \A i \in 1..(Len(chan[q]) - 1) : chan'[q][i] = chan[q][i + 1]
      BY <2>1, <2>3
    <3>2. \A i \in 1..(Len(chan[q]) - 1) : i + 1 \in 1..Len(chan[q])
      BY <2>1
    <3>3. Len(chan'[q]) <= QueueSize
      <4>1. \A n \in Nat : n <= QueueSize => n - 1 <= QueueSize
        BY QueueBounds
      <4> QED BY <2>1, <3>1, <4>1
    <3> QED BY <2>1, <2>3, <3>1, <3>2, <3>3
  <2> QED BY <2>2, <2>3
<1>5. TypesSound'
  BY <1>1, <1>2 DEF TypesSound, Calls, Loops
<1>6. ChannelsSound'
  BY <1>1, <1>4 DEF ChannelsSound
<1>7. OpenSound' /\ WaitersSeen'
  BY <1>1, <1>2 DEF OpenSound, WaitersSeen
<1>8. Owned(own)'
  BY <1>1, <1>2, <1>3, <1>4 DEF Owned
<1> QED BY <1>5, <1>6, <1>7, <1>8, MapStill

LEMMA ConnOK ==
    ASSUME QueueInv, NEW s \in Conns,
           LoopWrites(s) \/ LoopWriteFails(s) \/ LoopEnds(s) \/ ReadLoopEnds(s) \/ \E a \in Addrs : Accepts(s, a)
    PROVE  QueueInv'
<1> USE DEF QueueInv
<1>1. now \in Nat /\ queues \in Nat /\ MaxQueues \in Nat /\ queues <= MaxQueues
  BY MapNumbers DEF MapSound
<1>2. ConnDone \in Loops /\ ConnDone.pc = "done"
  BY <1>1 DEF ConnDone, ConnAt, Loops
<1>3. \A a \in Addrs : ConnAt("loop", a, 0, 0) \in Loops /\ ConnAt("loop", a, 0, 0).pc = "loop" /\ ConnAt("loop", a, 0, 0).addr = a
  BY <1>1 DEF ConnAt, Loops
<1>4. chan \in [1..MaxQueues -> Seq(Addrs)] /\ readEnded \subseteq Conns /\ readEnded \cup {s} \subseteq Conns /\ astray = FALSE
  BY DEF TypesSound
<1>5. ASSUME Receives(s)
      PROVE  /\ UNCHANGED <<mapVars, closed, writeTo, sent, panicked>>
             /\ chan' \in [1..MaxQueues -> Seq(Addrs)]
             /\ \A q \in 1..MaxQueues : chan'[q] = chan[q] \/ (chan[q] # <<>> /\ chan'[q] = Tail(chan[q]))
             /\ Head(chan[conn[s].ch]) = conn[s].addr /\ conn[s].addr \in Addrs
  <2> DEFINE q == conn[s].ch
  <2>1. conn[s].pc = "wait" /\ chan[q] # <<>> /\ chan' = [chan EXCEPT ![q] = Tail(@)] /\ UNCHANGED <<mapVars, closed, writeTo, sent, panicked>>
    BY <1>5 DEF Receives
  <2>2. q \in 1..queues /\ conn[s].addr \in Addrs
    BY <2>1 DEF TypesSound
  <2>3. q \in 1..MaxQueues
    BY <1>1, <2>2
  <2> HIDE DEF q
  <2>4. chan[q] \in Seq(Addrs) /\ Tail(chan[q]) \in Seq(Addrs) /\ 1 \in 1..Len(chan[q]) /\ Head(chan[q]) = chan[q][1]
    BY <1>4, <2>1, <2>3
  <2>5. chan' \in [1..MaxQueues -> Seq(Addrs)] /\ \A k \in 1..MaxQueues : chan'[k] = chan[k] \/ (k = q /\ chan'[k] = Tail(chan[k]))
    <3>1. \A k \in 1..MaxQueues : chan'[k] = IF k = q THEN Tail(chan[q]) ELSE chan[k]
      BY <1>4, <2>1, <2>3
    <3>2. chan' \in [1..MaxQueues -> Seq(Addrs)]
      BY <1>4, <2>1, <2>4
    <3>3. ASSUME NEW k \in 1..MaxQueues PROVE chan'[k] = chan[k] \/ (k = q /\ chan'[k] = Tail(chan[k]))
      <4>1. CASE k = q
        BY <3>1, <4>1
      <4>2. CASE k # q
        BY <3>1, <4>2
      <4> QED BY <4>1, <4>2
    <3> QED BY <3>2, <3>3
  <2>6. Head(chan[q]) = conn[s].addr
    <3>1. PICK own : Owned(own)
      OBVIOUS
    <3>2. own[q] = conn[s].addr /\ chan[q][1] = own[q]
      BY <2>1, <2>3, <2>4, <3>1 DEF Owned, q
    <3> QED BY <2>4, <3>2
  <2> QED BY <2>1, <2>2, <2>5, <2>6 DEF q
<1>6. CASE LoopWrites(s)
  <2> DEFINE c == ConnAt("loop", conn[s].addr, 0, 0)
  <2>1. Receives(s) /\ conn' = [conn EXCEPT ![s] = c] /\ UNCHANGED readEnded /\ astray' = (astray \/ Head(chan[conn[s].ch]) # conn[s].addr)
    BY <1>6 DEF LoopWrites
  <2>2. c \in Loops /\ c.pc = "loop" /\ c.addr \in Addrs
    BY <1>3, <1>5, <2>1
  <2> HIDE DEF c
  <2>3. astray' = FALSE /\ readEnded' \subseteq Conns
    BY <1>4, <1>5, <2>1
  <2> QED BY <1>5, <2>1, <2>2, <2>3, LoopStepOK
<1>7. CASE LoopWriteFails(s)
  <2>1. Receives(s) /\ conn' = [conn EXCEPT ![s] = ConnDone] /\ readEnded' \subseteq Conns /\ astray' = FALSE
    BY <1>4, <1>7 DEF LoopWriteFails
  <2> QED BY <1>2, <1>5, <2>1, LoopStepOK
<1>8. CASE LoopEnds(s)
  <2>1. /\ conn' = [conn EXCEPT ![s] = ConnDone] /\ readEnded' \subseteq Conns /\ astray' = FALSE
        /\ UNCHANGED <<mapVars, closed, writeTo, sent, panicked>>
    BY <1>4, <1>8 DEF LoopEnds
  <2>2. chan' \in [1..MaxQueues -> Seq(Addrs)] /\ \A q \in 1..MaxQueues : chan'[q] = chan[q]
    BY <1>4, <1>8 DEF LoopEnds
  <2> QED BY <1>2, <2>1, <2>2, LoopStepOK
<1>9. ASSUME NEW a \in Addrs, Accepts(s, a) PROVE QueueInv'
  <2> DEFINE c == ConnAt("loop", a, 0, 0)
  <2>1. /\ conn' = [conn EXCEPT ![s] = c] /\ readEnded' \subseteq Conns /\ astray' = FALSE
        /\ UNCHANGED <<mapVars, closed, writeTo, sent, panicked>>
    BY <1>4, <1>9 DEF Accepts
  <2>2. c \in Loops /\ c.pc = "loop" /\ c.addr \in Addrs
    BY <1>3
  <2> HIDE DEF c
  <2>3. chan' \in [1..MaxQueues -> Seq(Addrs)] /\ \A q \in 1..MaxQueues : chan'[q] = chan[q]
    BY <1>4, <1>9 DEF Accepts
  <2> QED BY <2>1, <2>2, <2>3, LoopStepOK
<1>10. CASE ReadLoopEnds(s)
  <2>1. /\ UNCHANGED <<mapVars, chan, closed, writeTo, conn, astray, sent, panicked>> /\ readEnded' \subseteq Conns
        /\ UNCHANGED <<now, inner, LastSeen, SendQueue, queues>>
    BY <1>4, <1>10 DEF ReadLoopEnds, mapVars
  <2>2. TypesSound' /\ ChannelsSound' /\ OpenSound' /\ WaitersSeen'
    BY <2>1 DEF TypesSound, ChannelsSound, OpenSound, WaitersSeen, Calls, Loops
  <2>3. PICK own \in [1..MaxQueues -> Addrs \cup {NoAddr}] : Owned(own)
    OBVIOUS
  <2>4. Owned(own)'
    BY <2>1, <2>3 DEF Owned
  <2> QED BY <2>1, <2>2, <2>4, MapStill
<1> QED BY <1>6, <1>7, <1>8, <1>9, <1>10

LEMMA SweepsOK ==
    ASSUME QueueInv, Sweeps
    PROVE  QueueInv'
<1> USE DEF QueueInv
<1>1. /\ RemoveExpired /\ closed' = closed \cup {SendQueue[a] : a \in Present \ Range(inner'.flakes)}
      /\ UNCHANGED <<chan, writeTo, conn, readEnded, astray, sent, panicked>>
  BY DEF Sweeps
<1>2. /\ MapSound' /\ \A a \in Addrs : In(inner', a) <=> In(inner, a) /\ ~Expired(sweep, a)
      /\ \A a \in Addrs : LastSeen'[a] = IF In(inner', a) THEN LastSeen[a] ELSE 0
      /\ \A a \in Addrs : SendQueue'[a] = IF In(inner', a) THEN SendQueue[a] ELSE 0
      /\ sweep \in 0..now /\ UNCHANGED <<now, queues>>
  BY <1>1, RemoveExpiredOK
<1>3. now \in Nat /\ sweep \in Int /\ sweep <= now /\ Timeout \in Nat /\ LastSeen \in [Addrs -> Int]
  BY <1>2, MapNumbers
<1>4. \A q : q \in closed' <=> q \in closed \/ \E a \in Addrs : In(inner, a) /\ Expired(sweep, a) /\ SendQueue[a] = q
  <2>1. Heap(inner, Addrs) /\ Heap(inner', Addrs)
    BY <1>2 DEF MapSound, Good
  <2>2. \A a : a \in Present \ Range(inner'.flakes) <=> a \in Addrs /\ In(inner, a) /\ ~In(inner', a)
    BY <2>1, PresentIsIn DEF Present
  <2>3. \A a : a \in Present \ Range(inner'.flakes) <=> a \in Addrs /\ In(inner, a) /\ Expired(sweep, a)
    BY <1>2, <2>2
  <2> QED BY <1>1, <2>3
<1>5. PICK own \in [1..MaxQueues -> Addrs \cup {NoAddr}] : Owned(own)
  OBVIOUS
<1>6. \A a, b \in Addrs : In(inner, a) /\ In(inner, b) /\ SendQueue[a] = SendQueue[b] => a = b
  BY <1>5 DEF Owned
<1>7. TypesSound'
  <2>1. closed' \subseteq 1..queues
    BY <1>4 DEF TypesSound, OpenSound
  <2> QED BY <1>1, <1>2, <2>1 DEF TypesSound, Calls, Loops
<1>8. OpenSound'
  <2>1. \A a \in Addrs : In(inner', a) => SendQueue'[a] \in 1..queues /\ SendQueue'[a] \notin closed'
    BY <1>2, <1>4, <1>6 DEF OpenSound
  <2>2. ASSUME NEW q \in 1..queues PROVE q \in closed' \/ \E a \in Addrs : In(inner', a) /\ SendQueue'[a] = q
    <3>1. CASE q \in closed
      BY <1>4, <3>1
    <3>2. CASE q \notin closed
      <4>1. PICK a \in Addrs : In(inner, a) /\ SendQueue[a] = q
        BY <3>2 DEF OpenSound
      <4>2. CASE Expired(sweep, a)
        BY <1>4, <4>1, <4>2
      <4>3. CASE ~Expired(sweep, a)
        BY <1>2, <4>1, <4>3
      <4> QED BY <4>2, <4>3
    <3> QED BY <3>1, <3>2
  <2> QED BY <1>2, <2>1, <2>2 DEF OpenSound
<1>9. ChannelsSound'
  BY <1>1, <1>2 DEF ChannelsSound
<1>10. WaitersSeen'
  <2>1. ASSUME NEW s \in Conns, conn[s].pc = "wait", In(inner', conn[s].addr), SendQueue'[conn[s].addr] = conn[s].ch
        PROVE  conn[s].since <= LastSeen'[conn[s].addr]
    <3>1. conn[s].addr \in Addrs
      BY <2>1 DEF TypesSound
    <3>2. In(inner, conn[s].addr) /\ SendQueue[conn[s].addr] = conn[s].ch /\ LastSeen'[conn[s].addr] = LastSeen[conn[s].addr]
      BY <1>2, <2>1, <3>1
    <3> QED BY <2>1, <3>2 DEF WaitersSeen
  <2>2. ASSUME NEW s \in Conns, conn[s].pc = "wait", conn[s].ch \in closed'
        PROVE  now - conn[s].since >= Timeout
    <3>1. CASE conn[s].ch \in closed
      BY <2>2, <3>1 DEF WaitersSeen
    <3>2. CASE conn[s].ch \notin closed
      <4>1. PICK a \in Addrs : In(inner, a) /\ Expired(sweep, a) /\ SendQueue[a] = conn[s].ch
        BY <1>4, <2>2, <3>2
      <4>2. conn[s].addr = a
        BY <1>5, <2>2, <4>1 DEF Owned
      <4>3. conn[s].since <= LastSeen[a] /\ sweep - LastSeen[a] >= Timeout
        BY <2>2, <4>1, <4>2 DEF WaitersSeen, Expired
      <4>4. LastSeen[a] \in Int /\ conn[s].since \in Int
        <5>1. conn[s].since \in 0..now
          BY DEF TypesSound, Loops
        <5> QED BY <1>3, <5>1
      <4>5. \A l, c \in Int : c <= l /\ sweep - l >= Timeout => now - c >= Timeout
        BY <1>3
      <4> QED BY <4>3, <4>4, <4>5
    <3> QED BY <3>1, <3>2
  <2> QED BY <1>1, <1>2, <2>1, <2>2 DEF WaitersSeen
<1>11. Owned(own)'
  <2>1. \A a \in Addrs : In(inner', a) => own[SendQueue'[a]] = a
    BY <1>2, <1>5 DEF Owned
  <2> QED BY <1>1, <1>5, <2>1 DEF Owned
<1> QED BY <1>2, <1>7, <1>8, <1>9, <1>10, <1>11

LEMMA TimePassesOK ==
    ASSUME QueueInv, TimePasses
    PROVE  QueueInv'
<1> USE DEF QueueInv
<1>1. UNCHANGED <<chan, closed, writeTo, conn, readEnded, astray, sent, panicked>>
  BY DEF TimePasses
<1>2. MapSound' /\ now' \in Nat /\ now <= now' /\ UNCHANGED <<inner, LastSeen, SendQueue, queues>>
  BY TimeOK DEF TimePasses
<1>3. now \in Nat /\ Timeout \in Nat
  BY MapNumbers
<1>4. TypesSound'
  <2>1. 0..now \subseteq 0..now'
    BY <1>2, <1>3
  <2>2. Calls' = Calls /\ Loops \subseteq Loops'
    BY <1>2, <2>1 DEF Calls, Loops
  <2>3. conn' \in [Conns -> Loops']
    BY <1>1, <2>2 DEF TypesSound
  <2> QED BY <1>1, <1>2, <2>2, <2>3 DEF TypesSound
<1>5. ChannelsSound' /\ OpenSound'
  BY <1>1, <1>2 DEF ChannelsSound, OpenSound
<1>6. WaitersSeen'
  <2>1. \A s \in Conns : conn[s].since \in Int
    <3>1. \A s \in Conns : conn[s].since \in 0..now
      BY DEF TypesSound, Loops
    <3> QED BY <1>3, <3>1
  <2>2. \A c \in Int : now - c >= Timeout => now' - c >= Timeout
    <3>1. \A m, n, t \in Nat : \A c \in Int : m <= n /\ m - c >= t => n - c >= t
      OBVIOUS
    <3> QED BY <1>2, <1>3, <3>1
  <2>3. \A s \in Conns : now - conn[s].since >= Timeout => now' - conn[s].since >= Timeout
    BY <2>1, <2>2
  <2> QED BY <1>1, <1>2, <2>3 DEF WaitersSeen
<1>7. PICK own \in [1..MaxQueues -> Addrs \cup {NoAddr}] : Owned(own)
  OBVIOUS
<1>8. Owned(own)'
  BY <1>1, <1>2, <1>7 DEF Owned
<1> QED BY <1>2, <1>4, <1>5, <1>6, <1>8

-----------------------------------------------------------------------------
(* The theorems                                                            *)

LEMMA InitOK ==
    ASSUME Init
    PROVE  QueueInv
<1>1. /\ now = 0 /\ queues = 0 /\ sweep = -1 /\ inner = [flakes |-> <<>>, index |-> [a \in Addrs |-> -1]]
      /\ LastSeen = [a \in Addrs |-> 0] /\ SendQueue = [a \in Addrs |-> 0]
      /\ chan = [q \in 1..MaxQueues |-> <<>>] /\ closed = {}
      /\ writeTo = [w \in Writers |-> IdleCall] /\ conn = [s \in Conns |-> ConnAt("new", NoAddr, 0, 0)]
      /\ readEnded = {} /\ astray = FALSE /\ sent = 0 /\ panicked = FALSE
  BY DEF Init, MapInit, Asleep
<1>2. inner.flakes = <<>> /\ inner.index = [a \in Addrs |-> -1] /\ Len(inner.flakes) = 0 /\ inner.flakes \in Seq(Addrs)
  BY <1>1
<1>3. \A a : ~In(inner, a)
  BY <1>2 DEF In
<1>4. MapSound
  <2>1. Good(LastSeen, inner, Addrs)
    BY <1>1, <1>2 DEF Good, Heap, OrderedTo
  <2>2. AbsentMarked(inner)
    BY <1>2 DEF AbsentMarked
  <2>3. 0 \in 0..MaxTime /\ 0 \in 0..MaxQueues /\ -1 \in -1..0 /\ 0 \in 0..0
    BY ClientMapBounds
  <2> QED BY <1>1, <2>1, <2>2, <2>3 DEF MapSound
<1>5. TypesSound
  <2>1. <<>> \in Seq(Addrs) /\ 0 \in 0..MaxPackets /\ 0 \in 0..0
    BY QueueBounds
  <2>2. IdleCall \in Calls /\ IdleCall.pc = "idle" /\ \A w \in Writers : writeTo[w] = IdleCall
    BY <1>1, <2>1 DEF IdleCall, Calls
  <2>3. ConnAt("new", NoAddr, 0, 0) \in Loops /\ ConnAt("new", NoAddr, 0, 0).pc = "new"
    BY <1>1, <2>1 DEF ConnAt, Loops
  <2>4. \A s \in Conns : conn[s].pc = "new"
    BY <1>1, <2>3
  <2> QED BY <1>1, <2>1, <2>2, <2>3, <2>4 DEF TypesSound
<1>6. ChannelsSound
  <2>1. Len(<<>>) = 0 /\ 0 <= QueueSize
    BY QueueBounds
  <2> QED BY <1>1, <2>1 DEF ChannelsSound
<1>7. OpenSound
  BY <1>1, <1>3 DEF OpenSound
<1>8. /\ \A w \in Writers : writeTo[w].pc # "send"
      /\ \A s \in Conns : conn[s].pc # "wait"
  BY <1>1 DEF IdleCall, ConnAt
<1>9. WaitersSeen
  BY <1>8 DEF WaitersSeen
<1> DEFINE own == [q \in 1..MaxQueues |-> NoAddr]
<1>10. own \in [1..MaxQueues -> Addrs \cup {NoAddr}]
  OBVIOUS
<1>11. \A q \in 1..MaxQueues : Len(chan[q]) = 0
  BY <1>1
<1> HIDE DEF own
<1>12. Owned(own)
  BY <1>3, <1>8, <1>10, <1>11 DEF Owned
<1> QED BY <1>4, <1>5, <1>6, <1>7, <1>9, <1>10, <1>12 DEF QueueInv

LEMMA StepOK ==
    ASSUME QueueInv, [Next]_vars
    PROVE  QueueInv'
<1>1. ASSUME NEW w \in Writers, WriteToSends(w) PROVE QueueInv'
  BY <1>1, WriteToSendsOK
<1>2. ASSUME NEW w \in Writers, NEW a \in Addrs, WriteToLooksUp(w, a) PROVE QueueInv'
  BY <1>2, WriteToLooksUpOK
<1>3. ASSUME NEW s \in Conns, LoopLooksUp(s) PROVE QueueInv'
  BY <1>3, LoopLooksUpOK
<1>4. ASSUME NEW s \in Conns,
             LoopWrites(s) \/ LoopWriteFails(s) \/ LoopEnds(s) \/ ReadLoopEnds(s) \/ \E a \in Addrs : Accepts(s, a)
      PROVE  QueueInv'
  BY <1>4, ConnOK
<1>5. CASE Sweeps
  BY <1>5, SweepsOK
<1>6. CASE TimePasses
  BY <1>6, TimePassesOK
<1>7. CASE UNCHANGED vars
  <2> USE DEF QueueInv
  <2>1. /\ UNCHANGED <<mapVars, chan, closed, writeTo, conn, readEnded, astray, sent, panicked>>
        /\ UNCHANGED <<now, inner, LastSeen, SendQueue, queues>>
    BY <1>7 DEF vars, mapVars
  <2>2. TypesSound' /\ ChannelsSound' /\ OpenSound' /\ WaitersSeen'
    BY <2>1 DEF TypesSound, ChannelsSound, OpenSound, WaitersSeen, Calls, Loops
  <2>3. PICK own \in [1..MaxQueues -> Addrs \cup {NoAddr}] : Owned(own)
    OBVIOUS
  <2>4. Owned(own)'
    BY <2>1, <2>3 DEF Owned
  <2> QED BY <2>1, <2>2, <2>4, MapStill
<1> QED BY <1>1, <1>2, <1>3, <1>4, <1>5, <1>6, <1>7 DEF Next, ConnNext

LEMMA QueueInvImplies ==
    ASSUME QueueInv
    PROVE  QueuesServeOwners
<1> USE DEF QueueInv
<1>1. /\ now \in Nat /\ queues \in Nat /\ MaxTime \in Nat /\ MaxQueues \in Nat /\ now <= MaxTime /\ queues <= MaxQueues
  BY MapNumbers DEF MapSound
<1>2. Heap(inner, Addrs) /\ Len(inner.flakes) \in Nat /\ inner.flakes \in [1..Len(inner.flakes) -> Addrs]
  BY HeapFields DEF MapSound, Good
<1>3. \A i \in 1..Len(inner.flakes) : inner.index[inner.flakes[i]] = i - 1
  BY <1>2 DEF Heap
<1>4. \A a : a \in Present <=> a \in Addrs /\ In(inner, a)
  BY <1>2, PresentIsIn DEF Present
<1>5. ASSUME NEW a \in Addrs
      PROVE  /\ inner.index[a] \in -1..(Len(inner.flakes) - 1)
             /\ {i \in DOMAIN inner.flakes : inner.flakes[i] = a} =
                    IF inner.index[a] >= 0 THEN {inner.index[a] + 1} ELSE {}
  <2>0. DOMAIN inner.flakes = 1..Len(inner.flakes)
    BY <1>2
  <2>1. CASE In(inner, a)
    <3>1. PICK i \in 1..Len(inner.flakes) : inner.flakes[i] = a
      BY <2>1 DEF In
    <3>2. inner.index[a] = i - 1
      BY <1>3, <3>1
    <3>3. \A k \in 1..Len(inner.flakes) : inner.flakes[k] = a => k = i
      BY <1>3, <3>1, <3>2
    <3>4. inner.index[a] >= 0 /\ inner.index[a] + 1 = i /\ inner.index[a] \in -1..(Len(inner.flakes) - 1)
      BY <1>2, <3>2
    <3> QED BY <2>0, <3>1, <3>3, <3>4
  <2>2. CASE ~In(inner, a)
    <3>1. inner.index[a] = -1
      BY <2>2 DEF MapSound, AbsentMarked
    <3>2. inner.index[a] \in -1..(Len(inner.flakes) - 1) /\ ~(inner.index[a] >= 0)
      BY <1>2, <3>1
    <3> QED BY <2>0, <2>2, <3>2 DEF In
  <2> QED BY <2>1, <2>2
<1>6. ByAddrConsistent
  BY <1>5 DEF ByAddrConsistent
<1>7. MapTypeOK
  <2>1. inner.flakes \in Seq(Addrs) /\ inner.index \in [Addrs -> -1..(Len(inner.flakes) - 1)]
    BY <1>2, <1>5 DEF Heap
  <2>2. 0..now \subseteq 0..MaxTime /\ 0..queues \subseteq 0..MaxQueues /\ -1..now \subseteq -1..MaxTime
    BY <1>1
  <2>3. LastSeen \in [Addrs -> 0..MaxTime] /\ SendQueue \in [Addrs -> 0..MaxQueues]
    BY <2>2 DEF MapSound
  <2> QED BY <2>1, <2>2, <2>3 DEF MapSound, MapTypeOK, Asleep
<1>8. TypeOK
  <2>1. \A w \in Writers : writeTo[w].pc \in {"idle", "send"} /\ writeTo[w].ch \in 0..queues
    BY DEF TypesSound, Calls
  <2>2. \A s \in Conns : conn[s].pc \in {"new", "loop", "wait", "done"} /\ conn[s].ch \in 0..queues
    BY DEF TypesSound, Loops
  <2> QED BY <1>7, <2>1, <2>2 DEF TypeOK, TypesSound, ChannelsSound
<1>9. OnlyIdleAreCut
  BY DEF OnlyIdleAreCut, WaitersSeen
<1>10. ForgottenAreClosed
  BY <1>4 DEF ForgottenAreClosed, OpenSound
<1> QED BY <1>6, <1>8, <1>9, <1>10 DEF QueuesServeOwners, DeliveredToOwner, TypesSound

(* Packets reach their own client, no client that is served is cut off and *)
(* every forgotten queue is closed, whatever happens between the lookup of *)
(* a channel and its use (clientmap.go:86, queuepacketconn.go:113).        *)
THEOREM QueuesServeOwnersHolds == Spec => []QueuesServeOwners
<1>1. Init => QueueInv
  BY InitOK
<1>2. QueueInv /\ [Next]_vars => QueueInv'
  BY StepOK
<1>3. QueueInv => QueuesServeOwners
  BY QueueInvImplies
<1> QED BY <1>1, <1>2, <1>3, PTL DEF Spec

-----------------------------------------------------------------------------
(* The refinement                                                          *)

\* The last use of each address in the map: used of ExpiringMap.
Used == [a \in Addrs |-> IF a \in Present THEN LastSeen[a] ELSE -1]

UsedRight == \A a \in Addrs : Used[a] = IF In(inner, a) THEN LastSeen[a] ELSE -1

LEMMA UsedIs == MapSound => UsedRight
<1> SUFFICES ASSUME MapSound PROVE UsedRight
  OBVIOUS
<1>1. \A a \in Addrs : a \in Present <=> In(inner, a)
  BY PresentIsIn DEF Present, MapSound, Good
<1> QED BY <1>1 DEF Used, UsedRight

LEMMA TouchRefines ==
    ASSUME MapSound, NEW a \in Addrs, Touch(a)
    PROVE  Used' = [Used EXCEPT ![a] = now] /\ UNCHANGED <<now, sweep>>
<1>1. /\ MapSound' /\ \A b \in Addrs : In(inner', b) <=> In(inner, b) \/ b = a
      /\ LastSeen' = [LastSeen EXCEPT ![a] = now] /\ UNCHANGED <<now, sweep>>
  BY TouchOK
<1>2. /\ \A b \in Addrs : Used[b] = IF In(inner, b) THEN LastSeen[b] ELSE -1
      /\ \A b \in Addrs : Used'[b] = IF In(inner', b) THEN LastSeen'[b] ELSE -1
  <2>1. UsedRight
    BY UsedIs
  <2>2. UsedRight'
    BY <1>1, UsedIs, PTL
  <2> QED BY <2>1, <2>2 DEF UsedRight
<1>3. LastSeen'[a] = now /\ \A b \in Addrs : b # a => LastSeen'[b] = LastSeen[b]
  BY <1>1 DEF MapSound
<1>4. \A b \in Addrs : Used'[b] = [Used EXCEPT ![a] = now][b]
  <2>1. Used'[a] = now /\ \A b \in Addrs : b # a => Used'[b] = Used[b]
    BY <1>1, <1>2, <1>3
  <2>2. DOMAIN Used = Addrs
    BY DEF Used
  <2> QED BY <2>1, <2>2
<1>5. Used' = [b \in Addrs |-> Used'[b]] /\ Used = [b \in Addrs |-> Used[b]]
  BY DEF Used
<1> QED BY <1>1, <1>4, <1>5

LEMMA SweepRefines ==
    ASSUME MapSound, RemoveExpired
    PROVE  /\ sweep # -1 /\ sweep' = -1 /\ now' = now
           /\ Used' = [a \in Addrs |-> IF Used[a] # -1 /\ sweep - Used[a] >= Timeout THEN -1 ELSE Used[a]]
<1>1. /\ MapSound' /\ \A a \in Addrs : In(inner', a) <=> In(inner, a) /\ ~Expired(sweep, a)
      /\ \A a \in Addrs : LastSeen'[a] = IF In(inner', a) THEN LastSeen[a] ELSE 0
      /\ sweep \in 0..now /\ sweep' = -1 /\ UNCHANGED <<now, queues>>
  BY RemoveExpiredOK
<1>2. /\ \A b \in Addrs : Used[b] = IF In(inner, b) THEN LastSeen[b] ELSE -1
      /\ \A b \in Addrs : Used'[b] = IF In(inner', b) THEN LastSeen'[b] ELSE -1
  <2>1. UsedRight
    BY UsedIs
  <2>2. UsedRight'
    BY <1>1, UsedIs, PTL
  <2> QED BY <2>1, <2>2 DEF UsedRight
<1>3. now \in Nat /\ sweep # -1 /\ \A a \in Addrs : LastSeen[a] # -1
  <2>1. now \in Nat /\ \A a \in Addrs : LastSeen[a] \in 0..now
    BY MapNumbers DEF MapSound
  <2> QED BY <1>1, <2>1
<1>4. ASSUME NEW a \in Addrs
      PROVE  Used'[a] = IF Used[a] # -1 /\ sweep - Used[a] >= Timeout THEN -1 ELSE Used[a]
  <2>1. CASE ~In(inner, a)
    BY <1>1, <1>2, <2>1
  <2>2. CASE In(inner, a) /\ Expired(sweep, a)
    BY <1>1, <1>2, <1>3, <2>2 DEF Expired
  <2>3. CASE In(inner, a) /\ ~Expired(sweep, a)
    BY <1>1, <1>2, <1>3, <2>3 DEF Expired
  <2> QED BY <2>1, <2>2, <2>3
<1>5. Used' = [a \in Addrs |-> Used'[a]]
  BY DEF Used
<1> QED BY <1>1, <1>3, <1>4, <1>5

LEMMA RefinesInit ==
    ASSUME Init
    PROVE  Abstract!Init
<1>1. now = 0 /\ sweep = -1 /\ inner.flakes = <<>>
  BY DEF Init, MapInit, Asleep
<1>2. Present = {}
  BY <1>1 DEF Present, Range
<1> QED BY <1>1, <1>2 DEF Abstract!Init, Abstract!None

LEMMA RefinesStep ==
    ASSUME QueueInv, [Next]_vars
    PROVE  [Abstract!Next]_<<now, Used, sweep>>
<1>0. MapSound
  BY DEF QueueInv
<1>1. ASSUME NEW a \in Addrs, Touch(a) PROVE Abstract!Use(a)
  BY <1>0, <1>1, TouchRefines DEF Abstract!Use, Used
<1>2. ASSUME NEW w \in Writers, NEW a \in Addrs, WriteToLooksUp(w, a) PROVE Abstract!Next
  BY <1>1, <1>2 DEF WriteToLooksUp, Abstract!Next
<1>3. ASSUME NEW s \in Conns, LoopLooksUp(s) PROVE Abstract!Next
  <2>1. conn[s].addr \in Addrs /\ Touch(conn[s].addr)
    BY <1>3 DEF LoopLooksUp, QueueInv, TypesSound
  <2> QED BY <1>1, <2>1 DEF Abstract!Next
<1>4. CASE Sweeps
  <2>1. Abstract!SweepEnds
    BY <1>0, <1>4, SweepRefines DEF Sweeps, Abstract!SweepEnds, Abstract!None, Abstract!Expired, Used
  <2> QED BY <2>1 DEF Abstract!Next
<1>5. CASE TimePasses
  <2>1. CASE Tick
    BY <2>1 DEF Tick, Present, Used, Abstract!Tick, Abstract!Next
  <2>2. CASE SweepReadsClock
    BY <2>2 DEF SweepReadsClock, Asleep, Present, Used, Abstract!SweepBegins, Abstract!None, Abstract!Next
  <2> QED BY <1>5, <2>1, <2>2 DEF TimePasses
<1>6. CASE UNCHANGED mapVars
  BY <1>6 DEF mapVars, Used, Present
<1>7. ASSUME NEW w \in Writers, WriteToSends(w) PROVE UNCHANGED mapVars
  BY <1>7 DEF WriteToSends
<1>8. ASSUME NEW s \in Conns,
             LoopWrites(s) \/ LoopWriteFails(s) \/ LoopEnds(s) \/ ReadLoopEnds(s) \/ \E a \in Addrs : Accepts(s, a)
      PROVE  UNCHANGED mapVars
  BY <1>8 DEF LoopWrites, LoopWriteFails, Receives, LoopEnds, ReadLoopEnds, Accepts
<1>9. CASE UNCHANGED vars
  BY <1>6, <1>9 DEF vars
<1> QED BY <1>2, <1>3, <1>4, <1>5, <1>6, <1>7, <1>8, <1>9 DEF Next, ConnNext

(* The map of heap and positions expires exactly the clients unused for    *)
(* Timeout, also under the WriteTo calls and WebSockets that use it        *)
(* concurrently (clientmap.go:97).                                         *)
THEOREM ExpiresExactlyHolds == Spec => ExpiresExactly
<1>1. Init => QueueInv /\ Abstract!Init
  BY InitOK, RefinesInit
<1>2. QueueInv /\ [Next]_vars => QueueInv'
  BY StepOK
<1>3. QueueInv /\ [Next]_vars => [Abstract!Next]_<<now, Used, sweep>>
  BY RefinesStep
<1> QED BY <1>1, <1>2, <1>3, PTL DEF Spec, ExpiresExactly, Abstract!Spec, Used
=============================================================================
