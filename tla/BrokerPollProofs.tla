-------------------------- MODULE BrokerPollProofs --------------------------
(***************************************************************************)
(* BrokerPoll without the removals of Rescale, for every number of proxies  *)
(* and clients: both heaps stay in order, every index field is a position,  *)
(* every timeout finds its Snowflake, and the heaps implement ProxyPool.    *)
(* What heap.Push, heap.Pop and heap.Remove compute comes from HeapProofs.  *)
(***************************************************************************)
EXTENDS BrokerPoll, HeapProofs, FiniteSetTheorems

-----------------------------------------------------------------------------
(* The two heaps share the index fields                                    *)

(* Raising the counter of an element that lies above strictly greater ones *)
(* only keeps the order.                                                   *)
LEMMA Raise ==
    ASSUME NEW X, NEW c, c \in [X -> Int], NEW sh, Good(c, sh, X), NEW x \in X,
           \A i \in 2..Len(sh.flakes) : sh.flakes[i \div 2] = x => c[x] < c[sh.flakes[i]]
    PROVE  Good([c EXCEPT ![x] = @ + 1], sh, X)
<1> DEFINE n == Len(sh.flakes)
           f == sh.flakes
           d == [c EXCEPT ![x] = @ + 1]
<1>1. n \in Nat /\ f \in [1..n -> X]
  BY HeapFields DEF Good
<1>2. \A y \in X : d[y] = IF y = x THEN c[y] + 1 ELSE c[y]
  OBVIOUS
<1> HIDE DEF d, f, n
<1>3. OrderedTo(d, f, n)
  <2> SUFFICES ASSUME NEW i \in 2..n PROVE d[f[i \div 2]] <= d[f[i]]
    BY DEF OrderedTo
  <2>1. f[i] \in X /\ f[i \div 2] \in X /\ c[f[i]] \in Int /\ c[f[i \div 2]] \in Int
    <3>1. i \in 1..n /\ i \div 2 \in 1..n
      BY <1>1, Half
    <3> QED BY <1>1, <3>1
  <2>2. c[f[i \div 2]] <= c[f[i]] /\ (f[i \div 2] = x => c[x] < c[f[i]])
    BY DEF Good, OrderedTo, f, n
  <2> QED BY <1>2, <2>1, <2>2
<1> QED BY <1>3 DEF Good, d, f, n

-----------------------------------------------------------------------------
(* The inductive invariant                                                 *)

Restricted == "restricted"
Kinds == {NATUnrestricted, Restricted}
Kind(nat) == IF nat = NATUnrestricted THEN NATUnrestricted ELSE Restricted

Typed ==
    /\ nats \in Seq(NATs) /\ Len(nats) <= MaxFlakes
    /\ clients \in [Flakes -> Nat]
    /\ request \in [Flakes -> {"none", "waiting", "closed", "stuck"}]
    /\ panicked = FALSE

\* Both heaps are in order and hold Snowflakes of their kind; the index field
\* of any other Snowflake is -1.
HeapsSound ==
    /\ \A k \in Kinds : Good(clients, HeapOf(k), Flakes)
    /\ \A k \in Kinds : \A x \in Flakes :
          In(HeapOf(k), x) => x \in Allocated /\ Kind(nats[x]) = k
    /\ \A x \in Flakes : (\A k \in Kinds : ~In(HeapOf(k), x)) => index[x] = -1

\* A Snowflake that is waited on is in its heap, one that timed out is not.
RequestsSound ==
    \A x \in Flakes :
        /\ request[x] = "waiting" => \A k \in Kinds : Kind(nats[x]) = k => In(HeapOf(k), x)
        /\ request[x] = "closed" => \A k \in Kinds : ~In(HeapOf(k), x)
        /\ request[x] # "none" => x \in Allocated
        /\ request[x] # "stuck"

IInv == Typed /\ HeapsSound /\ RequestsSound

LEMMA KindOf ==
    /\ \A nat : HeapOf(nat) = HeapOf(Kind(nat)) /\ Kind(nat) \in Kinds
    /\ \A k \in Kinds : Kind(k) = k
    /\ NATUnrestricted # Restricted
BY DEF HeapOf, Kind, Kinds, NATUnrestricted, Restricted

\* What an operation on the heap of kind k may do: the elements of the heap
\* become E, and only index fields and counters of Snowflakes off the other
\* heap change.
HeapStep(k, th, E) ==
    /\ k \in Kinds /\ SetHeap(k, th) /\ Good(clients', th, Flakes)
    /\ clients' \in [Flakes -> Nat]
    /\ \A y \in Flakes : In(th, y) <=> y \in E
    /\ \A y \in Flakes : (\A l \in Kinds \ {k} : In(HeapOf(l), y)) =>
                            th.index[y] = index[y] /\ clients'[y] = clients[y]
    /\ \A y \in Flakes : y \notin E /\ (\A l \in Kinds \ {k} : ~In(HeapOf(l), y)) => th.index[y] = -1

\* The Snowflakes in the heap of kind k.
Elems(k) == {y \in Flakes : In(HeapOf(k), y)}

LEMMA HeapStepOK ==
    ASSUME Typed, HeapsSound, NEW k, NEW th, NEW E, HeapStep(k, th, E)
    PROVE  /\ \A l \in Kinds : Good(clients', HeapOf(l)', Flakes)
           /\ \A y \in Flakes : In(HeapOf(k)', y) <=> y \in E
           /\ \A l \in Kinds : l # k => \A y \in Flakes : In(HeapOf(l)', y) <=> In(HeapOf(l), y)
           /\ index' = th.index
<1>1. k \in Kinds /\ SetHeap(k, th)
  BY DEF HeapStep
<1>2. index' = th.index
  BY <1>1 DEF SetHeap
<1>3. HeapOf(k)' = th
  <2>1. th = [flakes |-> th.flakes, index |-> th.index]
    BY DEF HeapStep, Good, Heap
  <2>2. HeapOf(k)' = [flakes |-> th.flakes, index |-> th.index]
    BY <1>1 DEF HeapOf, SetHeap
  <2> QED BY <2>1, <2>2
<1>4. ASSUME NEW l \in Kinds, l # k
      PROVE  Good(clients', HeapOf(l)', Flakes) /\ \A y \in Flakes : In(HeapOf(l)', y) <=> In(HeapOf(l), y)
  <2> DEFINE sh == HeapOf(l)
             uh == HeapOf(l)'
  <2>1. Kinds \ {k} = {l}
    BY <1>1, <1>4 DEF Kinds
  <2>2. uh.flakes = sh.flakes /\ uh.index = th.index /\ sh.index = index
        /\ uh = [flakes |-> uh.flakes, index |-> uh.index]
    BY <1>1, <1>2, <1>4 DEF HeapOf, SetHeap, Kinds
  <2>3. Good(clients, sh, Flakes)
    BY DEF HeapsSound
  <2>4. th.index \in [Flakes -> Int]
    BY DEF HeapStep, Good, Heap
  <2>5. clients' \in [Flakes -> Int]
    BY DEF HeapStep
  <2>6. \A y \in Flakes : In(sh, y) => uh.index[y] = sh.index[y] /\ clients'[y] = clients[y]
    BY <2>1, <2>2 DEF HeapStep
  <2> HIDE DEF sh, uh
  <2>7. uh.index \in [Flakes -> Int]
    BY <2>2, <2>4
  <2>8. Good(clients', uh, Flakes) /\ \A y \in Flakes : In(uh, y) <=> In(sh, y)
    BY <2>2, <2>3, <2>5, <2>6, <2>7, Frame
  <2> QED BY <2>8 DEF sh, uh
<1>5. Good(clients', HeapOf(k)', Flakes) /\ \A y \in Flakes : In(HeapOf(k)', y) <=> y \in E
  BY <1>3 DEF HeapStep
<1> QED BY <1>2, <1>4, <1>5

LEMMA HeapStepSound ==
    ASSUME Typed, HeapsSound, NEW k, NEW th, NEW E, HeapStep(k, th, E),
           \A y \in Allocated : y \in Allocated' /\ nats'[y] = nats[y],
           \A y \in E : y \in Allocated' /\ Kind(nats'[y]) = k
    PROVE  HeapsSound'
<1>1. /\ \A l \in Kinds : Good(clients', HeapOf(l)', Flakes)
      /\ \A y \in Flakes : In(HeapOf(k)', y) <=> y \in E
      /\ \A l \in Kinds : l # k => \A y \in Flakes : In(HeapOf(l)', y) <=> In(HeapOf(l), y)
      /\ index' = th.index
  BY HeapStepOK
<1>2. ASSUME NEW l \in Kinds, NEW y \in Flakes, In(HeapOf(l)', y)
      PROVE  y \in Allocated' /\ Kind(nats'[y]) = l
  <2>1. CASE l = k
    BY <1>1, <1>2, <2>1
  <2>2. CASE l # k
    BY <1>1, <1>2, <2>2 DEF HeapsSound
  <2> QED BY <2>1, <2>2
<1>3. ASSUME NEW y \in Flakes, \A l \in Kinds : ~In(HeapOf(l)', y) PROVE index'[y] = -1
  BY <1>1, <1>3 DEF HeapStep
<1> QED BY <1>1, <1>2, <1>3 DEF HeapsSound, Kind

-----------------------------------------------------------------------------
(* The operations                                                          *)

(* The index field of a Snowflake in a heap is its position.               *)
LEMMA IndexOf ==
    ASSUME HeapsSound, NEW k \in Kinds, NEW x \in Flakes, In(HeapOf(k), x)
    PROVE  index[x] + 1 \in 1..Len(HeapOf(k).flakes) /\ HeapOf(k).flakes[index[x] + 1] = x
<1> DEFINE sh == HeapOf(k)
<1>1. Heap(sh, Flakes) /\ sh.index = index /\ Len(sh.flakes) \in Nat
  BY HeapFields DEF HeapsSound, Good, HeapOf
<1> HIDE DEF sh
<1>2. PICK i \in 1..Len(sh.flakes) : sh.flakes[i] = x
  BY DEF In, sh
<1>3. index[x] = i - 1
  BY <1>1, <1>2 DEF Heap
<1> QED BY <1>1, <1>2, <1>3 DEF sh

LEMMA RegisterStep ==
    ASSUME Typed, HeapsSound, NEW nat \in NATs, Register(nat)
    PROVE  LET k == Kind(nat)
               x == Len(nats) + 1
           IN  /\ HeapStep(k, HeapPush(clients, HeapOf(k), x), Elems(k) \cup {x})
               /\ x \in Flakes /\ x \notin Allocated /\ nats' = Append(nats, nat) /\ clients' = clients
               /\ \A l \in Kinds : ~In(HeapOf(l), x)
<1> DEFINE k == Kind(nat)
           x == Len(nats) + 1
           sh == HeapOf(k)
           th == HeapPush(clients, sh, x)
<1>1. k \in Kinds /\ HeapOf(nat) = sh
  BY KindOf
<1>2. /\ x \in Flakes /\ nats' = Append(nats, nat) /\ clients' = clients /\ SetHeap(nat, th)
  BY <1>1 DEF Register
<1>3. SetHeap(k, th)
  BY <1>2 DEF SetHeap, Kind, NATUnrestricted, Restricted
<1>4. x \notin Allocated
  <2>1. Len(nats) \in Nat
    BY DEF Typed
  <2> QED BY <2>1 DEF Allocated
<1>5. \A l \in Kinds : ~In(HeapOf(l), x)
  BY <1>2, <1>4 DEF HeapsSound
<1>6. Good(clients, sh, Flakes) /\ clients \in [Flakes -> Int] /\ clients \in [Flakes -> Nat]
  BY <1>1 DEF HeapsSound, Typed
<1> HIDE DEF x, k, sh
<1>7. /\ Good(clients, th, Flakes)
      /\ \A y \in Flakes : In(th, y) <=> In(sh, y) \/ y = x
      /\ \A y \in Flakes : ~In(sh, y) /\ y # x => th.index[y] = sh.index[y]
  BY <1>1, <1>2, <1>5, <1>6, HeapPushOK DEF sh
<1>8. sh.index = index
  BY DEF sh, HeapOf
<1> HIDE DEF th
<1>9. \A y \in Flakes : In(th, y) <=> y \in Elems(k) \cup {x}
  BY <1>7 DEF Elems, sh
<1>10. ASSUME NEW y \in Flakes, \A l \in Kinds \ {k} : In(HeapOf(l), y) PROVE ~In(sh, y) /\ y # x
  <2>1. PICK l \in Kinds \ {k} : TRUE
    BY KindOf DEF Kinds
  <2>2. In(HeapOf(l), y)
    BY <1>10
  <2> QED BY <1>1, <1>5, <2>1, <2>2 DEF HeapsSound, sh
<1>11. ASSUME NEW y \in Flakes, y \notin Elems(k) \cup {x}, \A l \in Kinds \ {k} : ~In(HeapOf(l), y)
       PROVE  th.index[y] = -1
  <2>1. ~In(sh, y) /\ y # x
    BY <1>11 DEF Elems, sh
  <2>2. index[y] = -1
    BY <1>11, <2>1 DEF HeapsSound, sh
  <2> QED BY <1>7, <1>8, <2>1, <2>2
<1>12. HeapStep(k, th, Elems(k) \cup {x})
  BY <1>1, <1>2, <1>3, <1>6, <1>7, <1>8, <1>9, <1>10, <1>11 DEF HeapStep
<1> QED BY <1>2, <1>4, <1>5, <1>12 DEF x, k, th, sh

LEMMA TakeMatchStep ==
    ASSUME Typed, HeapsSound, NEW natType, TakeMatch(natType)
    PROVE  LET k == PoolFor(natType)
               x == Matched(natType)
           IN  /\ HeapStep(k, HeapPush(clients, HeapPop(clients, HeapOf(k)), x), Elems(k))
               /\ x \in Elems(k) /\ nats' = nats /\ clients' = [clients EXCEPT ![x] = @ + 1]
               /\ \A y \in Elems(k) : clients[x] <= clients[y]
<1> DEFINE k == PoolFor(natType)
           x == Matched(natType)
           sh == HeapOf(k)
           uh == HeapPop(clients, sh)
           th == HeapPush(clients, uh, x)
<1>1. k \in Kinds
  BY DEF PoolFor, Kinds, Restricted
<1>2. x # NoFlake /\ SetHeap(k, th) /\ nats' = nats /\ clients' = [clients EXCEPT ![x] = @ + 1]
  BY DEF TakeMatch
<1>3. Good(clients, sh, Flakes) /\ clients \in [Flakes -> Int] /\ clients \in [Flakes -> Nat]
  BY <1>1 DEF HeapsSound, Typed
<1>4. sh.flakes # <<>> /\ x = Head(sh.flakes)
  BY <1>2 DEF Matched
<1> HIDE DEF k, sh, x
<1>5. /\ Good(clients, uh, Flakes)
      /\ Head(sh.flakes) = sh.flakes[1] /\ 1 \in 1..Len(sh.flakes)
      /\ Without(sh, uh, Head(sh.flakes), Flakes)
  BY <1>3, <1>4, HeapPopOK
<1>6. x \in Flakes /\ In(sh, x)
  <2>1. sh.flakes \in [1..Len(sh.flakes) -> Flakes]
    BY <1>3, HeapFields DEF Good
  <2> QED BY <1>4, <1>5, <2>1 DEF In
<1> HIDE DEF uh
<1>7. ~In(uh, x)
  BY <1>4, <1>5, <1>6 DEF Without
<1>8. /\ Good(clients, th, Flakes)
      /\ \A y \in Flakes : In(th, y) <=> In(uh, y) \/ y = x
      /\ \A y \in Flakes : ~In(uh, y) /\ y # x => th.index[y] = uh.index[y]
      /\ \A i \in 2..Len(th.flakes) : th.flakes[i \div 2] = x => clients[x] < clients[th.flakes[i]]
  BY <1>3, <1>5, <1>6, <1>7, HeapPushOK
<1> HIDE DEF th
<1>9. \A y \in Flakes : In(th, y) <=> y \in Elems(k)
  BY <1>4, <1>5, <1>6, <1>8 DEF Without, Elems, sh
<1>10. \A y \in Flakes : ~In(sh, y) => th.index[y] = index[y]
  <2>1. sh.index = index
    BY DEF sh, HeapOf
  <2> QED BY <1>4, <1>5, <1>6, <1>8, <2>1 DEF Without
<1>11. Good(clients', th, Flakes) /\ clients' \in [Flakes -> Nat]
       /\ \A y \in Flakes : y # x => clients'[y] = clients[y]
  <2>1. Good([clients EXCEPT ![x] = @ + 1], th, Flakes)
    BY <1>3, <1>6, <1>8, Raise
  <2> QED BY <1>2, <1>3, <1>6, <2>1
<1>12. ASSUME NEW y \in Flakes, \A l \in Kinds \ {k} : In(HeapOf(l), y) PROVE ~In(sh, y) /\ y # x
  <2>1. PICK l \in Kinds \ {k} : TRUE
    BY KindOf DEF Kinds
  <2>2. In(HeapOf(l), y)
    BY <1>12
  <2> QED BY <1>1, <1>6, <2>1, <2>2 DEF HeapsSound, sh
<1>13. ASSUME NEW y \in Flakes, y \notin Elems(k), \A l \in Kinds \ {k} : ~In(HeapOf(l), y)
       PROVE  th.index[y] = -1
  <2>1. ~In(sh, y)
    BY <1>13 DEF Elems, sh
  <2>2. index[y] = -1
    BY <1>13, <2>1 DEF HeapsSound, sh
  <2> QED BY <1>10, <2>1, <2>2
<1>14. HeapStep(k, th, Elems(k))
  BY <1>1, <1>2, <1>9, <1>10, <1>11, <1>12, <1>13 DEF HeapStep
<1>15. \A y \in Elems(k) : clients[x] <= clients[y]
  <2>1. \A i \in 1..Len(sh.flakes) : clients[sh.flakes[1]] <= clients[sh.flakes[i]]
    BY <1>3, HeadIsLeast
  <2> QED BY <1>4, <1>5, <2>1 DEF Elems, In, sh
<1>16. x \in Elems(k)
  BY <1>6 DEF Elems, sh
<1> QED BY <1>2, <1>14, <1>15, <1>16 DEF k, x, sh, uh, th

LEMMA TimeoutStep ==
    ASSUME IInv, NEW x \in Allocated, Timeout(x)
    PROVE  LET k == Kind(nats[x])
           IN  /\ HeapStep(k, HeapRemove(clients, HeapOf(k), index[x] + 1), Elems(k) \ {x})
               /\ request[x] = "waiting" /\ x \in Flakes /\ x \in Elems(k) /\ nats' = nats /\ clients' = clients
               /\ request' = [request EXCEPT ![x] = "closed"] /\ panicked' = panicked
<1> USE DEF IInv
<1> DEFINE k == Kind(nats[x])
           sh == HeapOf(k)
           i == index[x] + 1
           th == HeapRemove(clients, sh, i)
<1>1. k \in Kinds /\ HeapOf(nats[x]) = sh
  BY KindOf
<1>2. x \in Flakes /\ request[x] = "waiting" /\ nats' = nats /\ clients' = clients
  <2>1. Len(nats) \in Nat /\ Len(nats) <= MaxFlakes /\ MaxFlakes \in Nat
    BY PoolBounds DEF Typed
  <2> QED BY <2>1 DEF Timeout, Allocated, Flakes
<1>3. In(sh, x)
  BY <1>1, <1>2 DEF RequestsSound
<1>4. i \in 1..Len(sh.flakes) /\ sh.flakes[i] = x
  BY <1>1, <1>2, <1>3, IndexOf
<1>5. i \in DOMAIN sh.flakes /\ i # 0 /\ ~(i > Len(sh.flakes))
  <2>1. Heap(sh, Flakes)
    BY <1>1 DEF HeapsSound, Good
  <2>2. sh.flakes \in [1..Len(sh.flakes) -> Flakes] /\ Len(sh.flakes) \in Nat
    BY <2>1, HeapFields
  <2> HIDE DEF i
  <2> QED BY <1>4, <2>2
<1>6. SetHeap(nats[x], th) /\ request' = [request EXCEPT ![x] = "closed"] /\ panicked' = panicked
  BY <1>1, <1>5 DEF Timeout
<1>7. SetHeap(k, th)
  BY <1>6 DEF SetHeap, Kind, NATUnrestricted, Restricted
<1>8. Good(clients, sh, Flakes) /\ clients \in [Flakes -> Int] /\ clients \in [Flakes -> Nat]
  BY <1>1 DEF HeapsSound, Typed
<1> HIDE DEF k, sh, i
<1>9. Good(clients, th, Flakes) /\ Without(sh, th, x, Flakes)
  BY <1>4, <1>8, HeapRemoveOK
<1> HIDE DEF th
<1>10. sh.index = index
  BY DEF sh, HeapOf
<1>11. \A y \in Flakes : In(th, y) <=> y \in Elems(k) \ {x}
  BY <1>9 DEF Elems, Without, sh
<1>12. ASSUME NEW y \in Flakes, \A l \in Kinds \ {k} : In(HeapOf(l), y) PROVE ~In(sh, y)
  <2>1. PICK l \in Kinds \ {k} : TRUE
    BY KindOf DEF Kinds
  <2>2. In(HeapOf(l), y)
    BY <1>12
  <2> QED BY <1>1, <2>1, <2>2 DEF HeapsSound, sh
<1>13. ASSUME NEW y \in Flakes, y \notin Elems(k) \ {x}, \A l \in Kinds \ {k} : ~In(HeapOf(l), y)
       PROVE  th.index[y] = -1
  <2>1. CASE y = x
    BY <1>9, <2>1 DEF Without
  <2>2. CASE ~In(sh, y)
    <3>1. index[y] = -1
      BY <1>13, <2>2 DEF HeapsSound, sh
    <3> QED BY <1>9, <1>10, <2>2, <3>1 DEF Without
  <2> QED BY <1>13, <2>1, <2>2 DEF Elems, sh
<1>14. HeapStep(k, th, Elems(k) \ {x})
  BY <1>1, <1>2, <1>7, <1>8, <1>9, <1>10, <1>11, <1>12, <1>13 DEF HeapStep, Without
<1>15. x \in Elems(k)
  BY <1>2, <1>3 DEF Elems, sh
<1> QED BY <1>2, <1>6, <1>14, <1>15 DEF k, sh, i, th

-----------------------------------------------------------------------------
(* The invariants                                                          *)

LEMMA InitOK == Init => IInv
<1> SUFFICES ASSUME Init PROVE IInv
  OBVIOUS
<1> USE DEF Init, PoolInit
<1>1. Typed
  BY PoolBounds DEF Typed, Flakes
<1>2. ASSUME NEW k \in Kinds PROVE Good(clients, HeapOf(k), Flakes) /\ \A x : ~In(HeapOf(k), x)
  <2>1. HeapOf(k) = [flakes |-> <<>>, index |-> index] /\ index \in [Flakes -> Int]
    BY DEF HeapOf
  <2> QED BY <2>1 DEF Good, Heap, OrderedTo, In
<1>3. HeapsSound
  BY <1>2 DEF HeapsSound
<1>4. RequestsSound
  BY DEF RequestsSound
<1> QED BY <1>1, <1>3, <1>4 DEF IInv

LEMMA RegisterOK ==
    ASSUME IInv, NEW nat \in NATs, Register(nat), UNCHANGED panicked,
           UNCHANGED request \/ request' = [request EXCEPT ![Len(nats) + 1] = "waiting"]
    PROVE  IInv'
<1> USE DEF IInv
<1> DEFINE k == Kind(nat)
           x == Len(nats) + 1
           th == HeapPush(clients, HeapOf(k), x)
           E == Elems(k) \cup {x}
<1>1. /\ HeapStep(k, th, E)
      /\ x \in Flakes /\ x \notin Allocated /\ nats' = Append(nats, nat) /\ clients' = clients
      /\ \A l \in Kinds : ~In(HeapOf(l), x)
  BY RegisterStep
<1>2. nats' \in Seq(NATs) /\ Len(nats') = x /\ nats'[x] = nat /\ Len(nats') <= MaxFlakes
      /\ x \in Allocated' /\ \A y \in Allocated : y \in Allocated' /\ nats'[y] = nats[y]
  BY <1>1, PoolBounds DEF Typed, Allocated, Flakes
<1> HIDE DEF x, th, k
<1>3. Typed'
  <2>1. request' \in [Flakes -> {"none", "waiting", "closed", "stuck"}]
    BY <1>1 DEF Typed, x
  <2> QED BY <1>1, <1>2, <2>1 DEF Typed
<1>4. \A y \in E : y \in Allocated' /\ Kind(nats'[y]) = k
  <2>1. k \in Kinds
    BY KindOf DEF k
  <2>2. \A y \in Elems(k) : y \in Allocated /\ Kind(nats[y]) = k
    BY <2>1 DEF Elems, HeapsSound
  <2> QED BY <1>2, <2>2 DEF k
<1>5. HeapsSound'
  BY <1>1, <1>2, <1>4, HeapStepSound
<1>6. /\ \A y \in Flakes : In(HeapOf(k)', y) <=> y \in E
      /\ \A l \in Kinds : l # k => \A y \in Flakes : In(HeapOf(l)', y) <=> In(HeapOf(l), y)
  BY <1>1, HeapStepOK
<1>7. \A l \in Kinds : \A y \in Flakes : y # x => (In(HeapOf(l)', y) <=> In(HeapOf(l), y))
  BY <1>6 DEF Elems
<1>8. In(HeapOf(k)', x)
  BY <1>1, <1>6
<1>9. RequestsSound'
  <2> SUFFICES ASSUME NEW y \in Flakes
               PROVE  /\ request'[y] = "waiting" =>
                              \A l \in Kinds : Kind(nats'[y]) = l => In(HeapOf(l)', y)
                      /\ request'[y] = "closed" => \A l \in Kinds : ~In(HeapOf(l)', y)
                      /\ request'[y] # "none" => y \in Allocated'
                      /\ request'[y] # "stuck"
    BY DEF RequestsSound, Kind
  <2>1. CASE y = x
    <3>1. request[x] = "none"
      BY <1>1 DEF RequestsSound
    <3>2. request'[x] = "none" \/ request'[x] = "waiting"
      BY <1>1, <3>1 DEF Typed, x
    <3> QED BY <1>2, <1>8, <2>1, <3>2 DEF k
  <2>2. CASE y # x
    <3>1. request'[y] = request[y]
      BY <2>2 DEF Typed, x
    <3>2. request[y] # "none" => y \in Allocated /\ y \in Allocated' /\ nats'[y] = nats[y]
      BY <1>2 DEF RequestsSound
    <3> QED BY <1>7, <2>2, <3>1, <3>2 DEF RequestsSound
  <2> QED BY <2>1, <2>2
<1> QED BY <1>3, <1>5, <1>9

LEMMA MatchOK ==
    ASSUME IInv, NEW natType \in NATs, TakeMatch(natType), UNCHANGED <<panicked, request>>
    PROVE  IInv'
<1> USE DEF IInv
<1> DEFINE k == PoolFor(natType)
           x == Matched(natType)
           th == HeapPush(clients, HeapPop(clients, HeapOf(k)), x)
<1>1. HeapStep(k, th, Elems(k)) /\ nats' = nats
  BY TakeMatchStep
<1> HIDE DEF k, th
<1>2. k \in Kinds /\ clients' \in [Flakes -> Nat]
  BY <1>1 DEF HeapStep
<1>3. Typed' /\ Allocated' = Allocated
  BY <1>1, <1>2 DEF Typed, Allocated
<1>4. \A y \in Elems(k) : y \in Allocated' /\ Kind(nats'[y]) = k
  BY <1>1, <1>2, <1>3 DEF Elems, HeapsSound
<1>5. HeapsSound'
  BY <1>1, <1>3, <1>4, HeapStepSound
<1>6. \A l \in Kinds : \A y \in Flakes : In(HeapOf(l)', y) <=> In(HeapOf(l), y)
  BY <1>1, HeapStepOK DEF Elems
<1>7. RequestsSound'
  BY <1>1, <1>3, <1>6 DEF RequestsSound, Kind
<1> QED BY <1>3, <1>5, <1>7

LEMMA TimeoutOK ==
    ASSUME IInv, NEW x \in Allocated, Timeout(x)
    PROVE  IInv'
<1> USE DEF IInv
<1>0. PICK k \in Kinds : k = Kind(nats[x])
  BY KindOf
<1> DEFINE th == HeapRemove(clients, HeapOf(k), index[x] + 1)
           E == Elems(k) \ {x}
<1>1. /\ HeapStep(k, th, E) /\ request[x] = "waiting" /\ x \in Flakes /\ x \in Elems(k)
      /\ nats' = nats /\ clients' = clients
      /\ request' = [request EXCEPT ![x] = "closed"] /\ panicked' = panicked
  BY <1>0, TimeoutStep
<1> HIDE DEF th
<1>2. k \in Kinds /\ k = Kind(nats[x])
  BY <1>0
<1>3. Typed' /\ Allocated' = Allocated
  BY <1>1 DEF Typed, Allocated
<1>4. \A y \in E : y \in Allocated' /\ Kind(nats'[y]) = k
  BY <1>1, <1>2, <1>3 DEF Elems, HeapsSound
<1>5. HeapsSound'
  BY <1>1, <1>3, <1>4, HeapStepSound
<1>6. /\ \A y \in Flakes : In(HeapOf(k)', y) <=> y \in E
      /\ \A l \in Kinds : l # k => \A y \in Flakes : In(HeapOf(l)', y) <=> In(HeapOf(l), y)
  BY <1>1, HeapStepOK
<1>7. \A l \in Kinds : \A y \in Flakes : y # x => (In(HeapOf(l)', y) <=> In(HeapOf(l), y))
  BY <1>6 DEF Elems
<1>8. \A l \in Kinds : ~In(HeapOf(l)', x)
  <2>1. \A l \in Kinds : l # k => ~In(HeapOf(l), x)
    BY <1>1, <1>2 DEF HeapsSound
  <2> QED BY <1>1, <1>6, <2>1
<1>9. RequestsSound'
  <2> SUFFICES ASSUME NEW y \in Flakes
               PROVE  /\ request'[y] = "waiting" =>
                              \A l \in Kinds : Kind(nats'[y]) = l => In(HeapOf(l)', y)
                      /\ request'[y] = "closed" => \A l \in Kinds : ~In(HeapOf(l)', y)
                      /\ request'[y] # "none" => y \in Allocated'
                      /\ request'[y] # "stuck"
    BY DEF RequestsSound, Kind
  <2>1. CASE y = x
    <3>1. request'[x] = "closed"
      BY <1>1 DEF Typed
    <3> QED BY <1>3, <1>8, <2>1, <3>1
  <2>2. CASE y # x
    <3>1. request'[y] = request[y]
      BY <1>1, <2>2 DEF Typed
    <3> QED BY <1>1, <1>3, <1>7, <2>2, <3>1 DEF RequestsSound
  <2> QED BY <2>1, <2>2
<1> QED BY <1>3, <1>5, <1>9

LEMMA Stutter == IInv /\ UNCHANGED vars => IInv'
<1> SUFFICES ASSUME IInv, UNCHANGED vars PROVE IInv'
  OBVIOUS
<1>1. UNCHANGED <<nats, clients, index, snowflakes, restrictedSnowflakes, request, panicked>>
  BY DEF vars, poolVars
<1>2. \A nat : HeapOf(nat)' = HeapOf(nat)
  BY <1>1 DEF HeapOf
<1>3. Typed' /\ Allocated' = Allocated
  BY <1>1 DEF IInv, Typed, Allocated
<1>4. HeapsSound'
  BY <1>1, <1>2, <1>3 DEF IInv, HeapsSound, Kind, HeapOf
<1>5. RequestsSound'
  BY <1>1, <1>2, <1>3 DEF IInv, RequestsSound, HeapOf
<1> QED BY <1>3, <1>4, <1>5 DEF IInv

(* Every step of a broker that never rescales keeps the inductive          *)
(* invariant.                                                              *)
LEMMA NextOK ==
    ASSUME Rescales = FALSE, IInv, [Next]_vars
    PROVE  IInv'
<1>1. ASSUME NEW nat \in NATs, ProxyPolls(nat), UNCHANGED panicked PROVE IInv'
  BY <1>1, RegisterOK DEF ProxyPolls
<1>2. ASSUME NEW nat \in NATs, AddSnowflake(nat), UNCHANGED panicked PROVE IInv'
  BY <1>2, RegisterOK DEF AddSnowflake
<1>3. ASSUME NEW nat \in NATs, MatchSnowflake(nat), UNCHANGED panicked PROVE IInv'
  BY <1>3, MatchOK DEF MatchSnowflake
<1>4. ASSUME NEW x \in Allocated, Timeout(x) PROVE IInv'
  BY <1>4, TimeoutOK
<1>5. ASSUME NEW x \in Allocated, RescaleRemove(x) PROVE FALSE
  BY <1>5 DEF RescaleRemove
<1>6. CASE UNCHANGED vars
  BY <1>6, Stutter
<1> QED BY <1>1, <1>2, <1>3, <1>4, <1>5, <1>6 DEF Next

LEMMA IInvHolds == Rescales = FALSE => (Spec => []IInv)
<1> SUFFICES ASSUME Rescales = FALSE PROVE Spec => []IInv
  OBVIOUS
<1>1. IInv /\ [Next]_vars => IInv'
  BY NextOK
<1> QED BY <1>1, InitOK, PTL DEF Spec

-----------------------------------------------------------------------------
(* What the invariant says of the slices                                   *)

(* The slice of a heap that is in order.                                   *)
LEMMA Slices ==
    ASSUME IInv, NEW k \in Kinds
    PROVE  LET f == HeapOf(k).flakes
           IN  /\ Len(f) \in Nat /\ Len(f) <= MaxFlakes /\ f \in [1..Len(f) -> Flakes]
               /\ f \in Seq(Allocated) /\ IsInjective(f)
               /\ \A i \in 2..Len(f) : clients[f[i \div 2]] <= clients[f[i]]
               /\ ToSet(f) = Elems(k)
<1> DEFINE sh == HeapOf(k)
           f == sh.flakes
           n == Len(f)
<1>1. Heap(sh, Flakes) /\ \A i \in 2..n : clients[f[i \div 2]] <= clients[f[i]]
  BY DEF IInv, HeapsSound, Good, OrderedTo
<1>2. n \in Nat /\ f \in [1..n -> Flakes] /\ \A i, j \in 1..n : f[i] = f[j] => i = j
  BY <1>1, HeapFields
<1>3. \A x : In(sh, x) <=> \E i \in 1..n : f[i] = x
  BY DEF In
<1>4. \A i \in 1..n : f[i] \in Allocated
  BY <1>2, <1>3 DEF IInv, HeapsSound
<1> HIDE DEF f, n
<1>5. f \in Seq(Allocated)
  <2>1. f \in [1..n -> Allocated]
    BY <1>2, <1>4
  <2> QED BY <1>2, <2>1, IsSeq
<1>6. IsInjective(f)
  BY <1>2 DEF IsInjective
<1>7. n <= MaxFlakes
  <2>1. f \in Injection(1..n, Flakes)
    BY <1>2, <1>6 DEF Injection
  <2>2. IsFiniteSet(Flakes) /\ Cardinality(Flakes) = MaxFlakes /\ Cardinality(1..n) = n
    <3>1. MaxFlakes \in Nat /\ 1 \in Int /\ MaxFlakes \in Int /\ n \in Int
      BY <1>2, PoolBounds
    <3>2. /\ IsFiniteSet(1..MaxFlakes)
          /\ Cardinality(1..MaxFlakes) = IF 1 > MaxFlakes THEN 0 ELSE MaxFlakes - 1 + 1
          /\ Cardinality(1..n) = IF 1 > n THEN 0 ELSE n - 1 + 1
      BY <3>1, FS_Interval
    <3> QED BY <1>2, <3>1, <3>2 DEF Flakes
  <2> QED BY <2>1, <2>2, FS_Injection
<1>8. ToSet(f) = Elems(k)
  <2>1. ToSet(f) = {f[i] : i \in 1..n}
    BY <1>2 DEF ToSet
  <2>2. Elems(k) = {y \in Flakes : \E i \in 1..n : f[i] = y}
    BY <1>3 DEF Elems
  <2> QED BY <1>2, <2>1, <2>2
<1> QED BY <1>1, <1>2, <1>5, <1>6, <1>7, <1>8 DEF f, n

(* The slices by their names in the code.                                  *)
LEMMA Names ==
    /\ HeapOf(NATUnrestricted).flakes = snowflakes
    /\ HeapOf(Restricted).flakes = restrictedSnowflakes
    /\ NATUnrestricted \in Kinds /\ Restricted \in Kinds /\ NATUnrestricted # Restricted
    /\ \A nat : Kind(nat) = NATUnrestricted <=> nat = NATUnrestricted
BY DEF HeapOf, Kinds, Kind, NATUnrestricted, Restricted

LEMMA IntactOK == IInv => PoolIntact
<1> SUFFICES ASSUME IInv PROVE PoolIntact
  OBVIOUS
<1>1. /\ snowflakes \in Seq(Allocated) /\ restrictedSnowflakes \in Seq(Allocated)
      /\ IsInjective(snowflakes) /\ IsInjective(restrictedSnowflakes)
      /\ Ordered(snowflakes) /\ Ordered(restrictedSnowflakes)
      /\ ToSet(snowflakes) = Elems(NATUnrestricted) /\ ToSet(restrictedSnowflakes) = Elems(Restricted)
  BY Slices, Names DEF Ordered
<1>2. \A k \in Kinds : \A x \in Elems(k) : x \in Flakes /\ x \in Allocated /\ Kind(nats[x]) = k
  BY DEF Elems, IInv, HeapsSound
<1>3. PoolsSeparate
  BY <1>1, <1>2, Names DEF PoolsSeparate
<1>4. \A x \in Allocated : x \in Flakes
  BY PoolBounds DEF IInv, Typed, Allocated, Flakes
<1>5. ASSUME NEW x \in Flakes
      PROVE  /\ index[x] \in -1..(MaxFlakes - 1)
             /\ \A k \in Kinds : IF x \in Elems(k)
                                THEN /\ index[x] + 1 \in DOMAIN HeapOf(k).flakes
                                     /\ HeapOf(k).flakes[index[x] + 1] = x
                                ELSE Kind(nats[x]) = k => index[x] = -1
  <2>1. ASSUME NEW k \in Kinds, x \in Elems(k)
        PROVE  /\ index[x] + 1 \in DOMAIN HeapOf(k).flakes /\ HeapOf(k).flakes[index[x] + 1] = x
               /\ index[x] \in -1..(MaxFlakes - 1)
    <3> DEFINE f == HeapOf(k).flakes
    <3>1. index[x] + 1 \in 1..Len(f) /\ f[index[x] + 1] = x
      BY <2>1, IndexOf DEF IInv, Elems
    <3>2. Len(f) \in Nat /\ Len(f) <= MaxFlakes /\ f \in [1..Len(f) -> Flakes]
      BY Slices
    <3>3. index \in [Flakes -> Int]
      BY DEF IInv, HeapsSound, Good, Heap, HeapOf
    <3> HIDE DEF f
    <3>4. index[x] \in -1..(MaxFlakes - 1)
      <4>1. index[x] \in Int
        BY <3>3
      <4> QED BY <3>1, <3>2, <4>1, PoolBounds
    <3> QED BY <3>1, <3>2, <3>4 DEF f
  <2>2. ASSUME \A k \in Kinds : x \notin Elems(k) PROVE index[x] = -1
    BY <2>2 DEF Elems, IInv, HeapsSound
  <2>3. -1 \in -1..(MaxFlakes - 1)
    BY PoolBounds
  <2>4. ASSUME NEW k \in Kinds, x \notin Elems(k), Kind(nats[x]) = k PROVE index[x] = -1
    BY <1>2, <2>2, <2>4
  <2> QED BY <2>1, <2>2, <2>3, <2>4
<1>6. index \in [Flakes -> -1..(MaxFlakes - 1)]
  <2>1. index \in [Flakes -> Int]
    BY Names DEF IInv, HeapsSound, Good, Heap, HeapOf
  <2> QED BY <1>5, <2>1
<1>7. IndexTracksHeap
  <2> SUFFICES ASSUME NEW x \in Allocated
               PROVE  LET f == HeapOf(nats[x]).flakes
                      IN  IF x \in ToSet(f) THEN index[x] + 1 \in DOMAIN f /\ f[index[x] + 1] = x
                          ELSE index[x] = -1
    BY DEF IndexTracksHeap
  <2> DEFINE k == Kind(nats[x])
  <2>1. k \in Kinds /\ HeapOf(nats[x]) = HeapOf(k)
    BY KindOf
  <2>2. ToSet(HeapOf(k).flakes) = Elems(k)
    BY <2>1, Slices
  <2> QED BY <1>4, <1>5, <2>1, <2>2
<1>8. TypeOK
  BY <1>1, <1>6 DEF TypeOK, PoolTypeOK, IInv, Typed
<1> QED BY <1>1, <1>3, <1>7, <1>8 DEF PoolIntact, HeapsOrdered

(* Every Snowflake sits in the heap of its NAT class, both heaps keep      *)
(* their order and every index field its position, for any number of       *)
(* proxies and of clients, as long as Rescale removes nothing.             *)
THEOREM PoolIntactHolds == Rescales = FALSE => (Spec => []PoolIntact)
<1> SUFFICES ASSUME Rescales = FALSE PROVE Spec => []PoolIntact
  OBVIOUS
<1>1. Spec => []IInv
  BY IInvHolds
<1> QED BY <1>1, IntactOK, PTL

LEMMA LeavesOK == IInv => TimedOutLeaves
<1> SUFFICES ASSUME IInv, NEW x \in Allocated
             PROVE  /\ request[x] \in {"closed", "stuck"} => x \notin ToSet(HeapOf(nats[x]).flakes)
                    /\ request[x] = "waiting" => x \in ToSet(HeapOf(nats[x]).flakes)
  BY DEF TimedOutLeaves, IInv, Typed
<1> DEFINE k == Kind(nats[x])
<1>1. k \in Kinds /\ HeapOf(nats[x]) = HeapOf(k)
  BY KindOf
<1>2. ToSet(HeapOf(k).flakes) = Elems(k)
  BY <1>1, Slices
<1>3. x \in Flakes
  BY PoolBounds DEF IInv, Typed, Allocated, Flakes
<1> QED BY <1>1, <1>2, <1>3 DEF IInv, RequestsSound, Elems

(* A Snowflake whose poll timed out has left its heap, one that still      *)
(* waits is in it, and heap.Remove never indexes past the slice.           *)
THEOREM TimedOutLeavesHolds == Rescales = FALSE => (Spec => []TimedOutLeaves)
<1> SUFFICES ASSUME Rescales = FALSE PROVE Spec => []TimedOutLeaves
  OBVIOUS
<1>1. Spec => []IInv
  BY IInvHolds
<1> QED BY <1>1, LeavesOK, PTL

-----------------------------------------------------------------------------
(* Refinement                                                              *)

(* The refinement mapping yields the elements of the two heaps.            *)
LEMMA Mapped ==
    IInv => ToSet(snowflakes) = Elems(NATUnrestricted) /\ ToSet(restrictedSnowflakes) = Elems(Restricted)
BY Slices, Names

(* The heaps implement a pool that hands out a least loaded proxy: every   *)
(* step of the broker is a Join, a Leave or a Match of ProxyPool.          *)
THEOREM LeastLoadedFirstHolds == Rescales = FALSE => (Spec => LeastLoadedFirst)
<1> SUFFICES ASSUME Rescales = FALSE PROVE Spec => LeastLoadedFirst
  OBVIOUS
<1> DEFINE open == ToSet(snowflakes)
           closed == ToSet(restrictedSnowflakes)
<1>1. Init => Pool!PInit
  BY DEF Init, PoolInit, Pool!PInit, ToSet
<1>2. ASSUME IInv, IInv', [Next]_vars PROVE [Pool!PNext]_(Pool!pvars)
  <2>1. open = Elems(NATUnrestricted) /\ closed = Elems(Restricted)
    BY <1>2, Mapped
  <2>2. open' = Elems(NATUnrestricted)' /\ closed' = Elems(Restricted)'
    <3>1. (ToSet(snowflakes) = Elems(NATUnrestricted) /\ ToSet(restrictedSnowflakes) = Elems(Restricted))'
      BY <1>2, Mapped, PTL
    <3> QED BY <3>1
  <2>3. Typed /\ HeapsSound
    BY <1>2 DEF IInv
  <2> HIDE DEF open, closed
  <2>4. ASSUME NEW k \in Kinds, NEW th, NEW E, E \subseteq Flakes, HeapStep(k, th, E)
        PROVE  /\ k = NATUnrestricted => open' = E /\ closed' = closed
               /\ k = Restricted => open' = open /\ closed' = E
    <3>1. /\ \A y \in Flakes : In(HeapOf(k)', y) <=> y \in E
          /\ \A l \in Kinds : l # k => \A y \in Flakes : In(HeapOf(l)', y) <=> In(HeapOf(l), y)
      BY <2>3, <2>4, HeapStepOK
    <3>2. Elems(k)' = E /\ \A l \in Kinds : l # k => Elems(l)' = Elems(l)
      BY <2>4, <3>1 DEF Elems
    <3> QED BY <2>1, <2>2, <3>2, Names
  <2>5. \A k : Elems(k) \subseteq Flakes
    BY DEF Elems
  <2>6. ASSUME NEW nat \in NATs, Register(nat) PROVE Pool!PNext
    <3> DEFINE x == Len(nats) + 1
               k == Kind(nat)
    <3>1. /\ HeapStep(k, HeapPush(clients, HeapOf(k), x), Elems(k) \cup {x})
          /\ x \in Flakes /\ clients' = clients /\ \A l \in Kinds : ~In(HeapOf(l), x)
      BY <2>3, <2>6, RegisterStep
    <3>2. k \in Kinds
      BY KindOf
    <3>3. x \notin open \cup closed
      BY <2>1, <3>1, Names DEF Elems
    <3> HIDE DEF x, k
    <3>4. /\ k = NATUnrestricted => open' = open \cup {x} /\ closed' = closed
          /\ k = Restricted => open' = open /\ closed' = closed \cup {x}
      BY <2>1, <2>4, <2>5, <3>1, <3>2
    <3>5. Pool!Join(x)
      BY <3>1, <3>2, <3>3, <3>4 DEF Pool!Join, Kinds, open, closed
    <3> QED BY <3>1, <3>5 DEF Pool!PNext
  <2>7. ASSUME NEW natType \in NATs, TakeMatch(natType) PROVE Pool!PNext
    <3> DEFINE x == Matched(natType)
               k == PoolFor(natType)
    <3>1. /\ HeapStep(k, HeapPush(clients, HeapPop(clients, HeapOf(k)), x), Elems(k))
          /\ x \in Elems(k) /\ clients' = [clients EXCEPT ![x] = @ + 1]
          /\ \A y \in Elems(k) : clients[x] <= clients[y]
      BY <2>3, <2>7, TakeMatchStep
    <3>2. k \in Kinds
      BY <3>1 DEF HeapStep
    <3>3. closed = {} <=> restrictedSnowflakes = <<>>
      <4>1. restrictedSnowflakes \in Seq(Allocated)
        BY <1>2, Slices, Names
      <4> QED BY <4>1 DEF closed, ToSet
    <3>4. Pool!Eligible(natType) = Elems(k)
      BY <2>1, <3>3 DEF Pool!Eligible, PoolFor, NATUnrestricted, Restricted, open, closed
    <3> HIDE DEF x, k
    <3>5. open' = open /\ closed' = closed
      BY <2>1, <2>4, <2>5, <3>1, <3>2 DEF Kinds
    <3>6. Pool!Match(natType)
      BY <3>1, <3>4, <3>5 DEF Pool!Match, open, closed
    <3> QED BY <3>6 DEF Pool!PNext
  <2>8. ASSUME NEW x \in Allocated, Timeout(x) PROVE Pool!PNext
    <3> DEFINE k == Kind(nats[x])
    <3>1. /\ HeapStep(k, HeapRemove(clients, HeapOf(k), index[x] + 1), Elems(k) \ {x})
          /\ x \in Flakes /\ x \in Elems(k) /\ clients' = clients
      BY <1>2, <2>8, TimeoutStep
    <3>2. k \in Kinds
      BY KindOf
    <3>3. \A l \in Kinds : l # k => x \notin Elems(l)
      BY <2>3 DEF Elems, HeapsSound
    <3> HIDE DEF k
    <3>4. /\ k = NATUnrestricted => open' = open \ {x} /\ closed' = closed
          /\ k = Restricted => open' = open /\ closed' = closed \ {x}
      BY <2>1, <2>4, <2>5, <3>1, <3>2
    <3>5. Pool!Leave({x})
      BY <2>1, <3>1, <3>2, <3>3, <3>4, Names DEF Pool!Leave, Kinds, open, closed
    <3> QED BY <3>1, <3>5 DEF Pool!PNext
  <2>9. CASE UNCHANGED vars
    BY <2>9 DEF vars, poolVars, Pool!pvars, ToSet
  <2> QED BY <1>2, <2>6, <2>7, <2>8, <2>9
       DEF Next, ProxyPolls, AddSnowflake, MatchSnowflake, RescaleRemove
<1>3. Spec => []IInv
  BY IInvHolds
<1> QED BY <1>1, <1>2, <1>3, PTL DEF Spec, LeastLoadedFirst, Pool!PSpec
=============================================================================
