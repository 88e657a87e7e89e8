----------------------------- MODULE HeapProofs -----------------------------
(***************************************************************************)
(* What the operations of container/heap compute on the slices of          *)
(* SnowflakeHeap, for heaps of every size: they keep the elements and the  *)
(* index fields together and restore the heap order.  The loops are        *)
(* recursive functions; the induction over their rounds rests on the       *)
(* well-foundedness of < on Nat.                                           *)
(***************************************************************************)
EXTENDS SnowflakeHeap, WellFoundedInduction, TLAPS

(* Every set of naturals that is not empty has a least element.            *)
LEMMA Least ==
    ASSUME NEW T, T \subseteq Nat, T # {}
    PROVE  \E x \in T : \A y \in T : x <= y
<1>1. PICK x \in T : \A y \in T : ~(<<y, x>> \in OpToRel(<, Nat))
  BY NatLessThanWellFounded, WFMin, Zenon
<1>2. \A y \in T : y < x => <<y, x>> \in OpToRel(<, Nat)
  BY DEF OpToRel
<1>3. \A y \in T : ~(y < x)
  BY <1>1, <1>2, Zenon
<1> HIDE <1>1, <1>2
<1> QED BY <1>3, SMT

(* Induction: a set with 0 that is closed under successor holds Nat.       *)
LEMMA SetInduction ==
    ASSUME NEW T, 0 \in T, \A n \in Nat : n \in T => n + 1 \in T
    PROVE  Nat \subseteq T
<1> SUFFICES ASSUME Nat \ T # {} PROVE FALSE
  OBVIOUS
<1>1. PICK x \in Nat \ T : \A y \in Nat \ T : x <= y
  BY Least
<1>2. x # 0 /\ x - 1 \in Nat
  BY <1>1
<1>3. x - 1 \in T
  BY <1>1, <1>2
<1>4. x \in T
  BY <1>2, <1>3
<1> QED BY <1>4
-----------------------------------------------------------------------------
(* Elements and index fields                                               *)

\* A slice of elements of X in which each element knows its position.
Heap(sh, X) ==
    /\ sh = [flakes |-> sh.flakes, index |-> sh.index]
    /\ sh.flakes \in Seq(X) /\ sh.index \in [X -> Int]
    /\ \A i \in 1..Len(sh.flakes) : sh.index[sh.flakes[i]] = i - 1

In(sh, x) == \E i \in 1..Len(sh.flakes) : sh.flakes[i] = x

\* th has the elements of sh, and no other index field was touched.
Permuted(sh, th, X) ==
    /\ Heap(th, X) /\ Len(th.flakes) = Len(sh.flakes)
    /\ \A x \in X : (In(th, x) <=> In(sh, x)) /\ (~In(sh, x) => th.index[x] = sh.index[x])

(* A function on 1..n is a sequence.                                       *)
LEMMA IsSeq ==
    ASSUME NEW X, NEW n \in Nat, NEW f, f \in [1..n -> X]
    PROVE  f \in Seq(X) /\ Len(f) = n
OBVIOUS

LEMMA HeapFields ==
    ASSUME NEW X, NEW sh, Heap(sh, X)
    PROVE  /\ Len(sh.flakes) \in Nat /\ sh.flakes \in [1..Len(sh.flakes) -> X]
           /\ \A i, j \in 1..Len(sh.flakes) : sh.flakes[i] = sh.flakes[j] => i = j
<1>1. Len(sh.flakes) \in Nat /\ sh.flakes \in [1..Len(sh.flakes) -> X]
  BY DEF Heap
<1>2. ASSUME NEW i \in 1..Len(sh.flakes), NEW j \in 1..Len(sh.flakes), sh.flakes[i] = sh.flakes[j]
      PROVE  i = j
  <2>1. sh.index[sh.flakes[i]] = i - 1 /\ sh.index[sh.flakes[j]] = j - 1
    BY DEF Heap
  <2> QED BY <1>1, <1>2, <2>1
<1> QED BY <1>1, <1>2

(* Swap exchanges two positions and keeps the index fields right.          *)
LEMMA SwapOK ==
    ASSUME NEW X, NEW sh, Heap(sh, X), NEW i \in 1..Len(sh.flakes), NEW j \in 1..Len(sh.flakes)
    PROVE  /\ Permuted(sh, Swap(sh, i, j), X)
           /\ Swap(sh, i, j).flakes[i] = sh.flakes[j] /\ Swap(sh, i, j).flakes[j] = sh.flakes[i]
           /\ \A k \in 1..Len(sh.flakes) : k # i /\ k # j => Swap(sh, i, j).flakes[k] = sh.flakes[k]
<1> DEFINE n == Len(sh.flakes)
           f == sh.flakes
           g == [f EXCEPT ![i] = f[j], ![j] = f[i]]
           h == [sh.index EXCEPT ![g[i]] = i - 1, ![g[j]] = j - 1]
           th == Swap(sh, i, j)
<1>1. n \in Nat /\ f \in [1..n -> X] /\ sh.index \in [X -> Int]
      /\ \A k \in 1..n : sh.index[f[k]] = k - 1
  BY HeapFields DEF Heap
<1>2. \A k, l \in 1..n : f[k] = f[l] => k = l
  BY HeapFields
<1>3. th = [flakes |-> g, index |-> h]
  BY DEF Swap
<1> HIDE DEF f, n
<1>4. g \in [1..n -> X] /\ g[i] = f[j] /\ g[j] = f[i] /\ \A k \in 1..n : k # i /\ k # j => g[k] = f[k]
  BY <1>1 DEF n
<1> HIDE DEF g
<1>5. h \in [X -> Int] /\ h[g[i]] = i - 1 /\ h[g[j]] = j - 1
      /\ \A x \in X : x # g[i] /\ x # g[j] => h[x] = sh.index[x]
  <2>1. i \in 1..n /\ j \in 1..n
    BY DEF n
  <2>2. i - 1 \in Int /\ j - 1 \in Int /\ g[i] \in X /\ g[j] \in X
    BY <1>1, <1>4, <2>1
  <2>3. g[i] = g[j] => i = j
    BY <1>2, <1>4, <2>1
  <2> QED BY <1>1, <2>2, <2>3
<1> HIDE DEF h, th
<1>6. th.flakes = g /\ th.index = h /\ th = [flakes |-> th.flakes, index |-> th.index]
  BY <1>3
<1>7. g \in Seq(X) /\ Len(g) = n
  BY <1>1, <1>4, IsSeq
<1>8. \A k \in 1..n : h[g[k]] = k - 1
  <2>1. i \in 1..n /\ j \in 1..n
    BY DEF n
  <2>2. ASSUME NEW k \in 1..n, k # i, k # j PROVE h[g[k]] = k - 1
    <3>1. g[k] = f[k] /\ f[k] # f[i] /\ f[k] # f[j] /\ f[k] \in X
      BY <1>1, <1>2, <1>4, <2>1, <2>2
    <3> QED BY <1>1, <1>4, <1>5, <3>1
  <2> QED BY <1>5, <2>2
<1>9. Heap(th, X)
  BY <1>5, <1>6, <1>7, <1>8 DEF Heap
<1>10. \A x \in X : In(th, x) <=> In(sh, x)
  <2>1. i \in 1..n /\ j \in 1..n
    BY DEF n
  <2>2. \A x \in X : In(th, x) <=> \E k \in 1..n : g[k] = x
    BY <1>6, <1>7 DEF In
  <2>3. \A x \in X : In(sh, x) <=> \E k \in 1..n : f[k] = x
    BY DEF In, f, n
  <2> QED BY <1>4, <2>1, <2>2, <2>3
<1>11. \A x \in X : ~In(sh, x) => th.index[x] = sh.index[x]
  <2>1. i \in 1..n /\ j \in 1..n
    BY DEF n
  <2>2. In(sh, g[i]) /\ In(sh, g[j])
    BY <1>4, <2>1 DEF In, f, n
  <2> QED BY <1>5, <1>6, <2>2
<1> QED BY <1>4, <1>6, <1>7, <1>9, <1>10, <1>11 DEF Permuted, th, f, n

-----------------------------------------------------------------------------
(* Order                                                                   *)

(* The parent of a position, counted from 1, and its two children.         *)
LEMMA Half ==
    /\ \A i \in Nat : i >= 2 => i \div 2 \in 1..(i - 1)
    /\ \A i, p \in Nat : i \div 2 = p <=> i = 2 * p \/ i = 2 * p + 1
OBVIOUS

\* The heap condition on the first m positions.
OrderedTo(c, f, m) == \A i \in 2..m : c[f[i \div 2]] <= c[f[i]]

\* The first m positions are in order but for position p and its parent.
OrderedAbove(c, f, m, p) ==
    /\ \A i \in 2..m : i # p => c[f[i \div 2]] <= c[f[i]]
    /\ \A i \in 2..m : i \div 2 = p /\ p > 1 => c[f[p \div 2]] <= c[f[i]]

\* The children of position p are strictly greater.
StrictAt(c, f, m, p) == \A i \in 2..m : i \div 2 = p => c[f[p]] < c[f[i]]

\* What every round of up keeps: th is at position p, and began as sh at j.
UpKeeps(c, X, sh, j, m, th, p) ==
    /\ Permuted(sh, th, X) /\ p \in 1..j /\ th.flakes[p] = sh.flakes[j]
    /\ OrderedAbove(c, th.flakes, m, p)
    /\ \A i \in (m + 1)..Len(sh.flakes) : th.flakes[i] = sh.flakes[i]
    /\ StrictAt(c, sh.flakes, m, j) => StrictAt(c, th.flakes, m, p)

Rises(c, s) == s.pos > 1 /\ Less(c, s.sh.flakes[s.pos], s.sh.flakes[s.pos \div 2])

LEMMA PermutedTransitive ==
    ASSUME NEW X, NEW sh, NEW th, NEW uh, Permuted(sh, th, X), Permuted(th, uh, X)
    PROVE  Permuted(sh, uh, X)
BY DEF Permuted

(* One round of up.                                                        *)
LEMMA UpRoundOK ==
    ASSUME NEW X, NEW c, c \in [X -> Int], NEW sh, Heap(sh, X),
           NEW m \in 1..Len(sh.flakes), NEW j \in 1..m,
           NEW s, UpKeeps(c, X, sh, j, m, s.sh, s.pos)
    PROVE  LET t == UpRound(c, s)
           IN  /\ UpKeeps(c, X, sh, j, m, t.sh, t.pos)
               /\ IF Rises(c, s) THEN t.pos < s.pos ELSE t = s
<1> DEFINE p == s.pos
           q == s.pos \div 2
           f == s.sh.flakes
           t == UpRound(c, s)
           g == t.sh.flakes
           n == Len(sh.flakes)
<1>1. CASE ~Rises(c, s)
  <2>1. t = s
    BY <1>1 DEF UpRound, Rises
  <2> QED BY <1>1, <2>1
<1>2. CASE Rises(c, s)
  <2>0. n \in Nat /\ m \in 1..n /\ j \in 1..m /\ m \in Nat /\ j \in Nat
    BY HeapFields
  <2>1. p \in 1..j /\ p > 1 /\ p \in 1..n /\ p \in Nat
    BY <1>2, <2>0 DEF Rises, UpKeeps
  <2>2. q \in 1..(p - 1) /\ q \in 1..n /\ q \in Nat /\ q < p
    BY <2>0, <2>1, Half
  <2>3. c[f[p]] < c[f[q]]
    BY <1>2 DEF Rises, Less
  <2>4. t.sh = Swap(s.sh, p, q) /\ t.pos = q
    BY <1>2 DEF UpRound, Rises
  <2>5. Heap(s.sh, X) /\ Len(f) = n
    BY DEF UpKeeps, Permuted
  <2>6. Permuted(s.sh, t.sh, X) /\ g[p] = f[q] /\ g[q] = f[p] /\ \A k \in 1..n : k # p /\ k # q => g[k] = f[k]
    <3>1. p \in 1..Len(s.sh.flakes) /\ q \in 1..Len(s.sh.flakes)
      BY <2>1, <2>2, <2>5
    <3> HIDE DEF p, q
    <3>2. /\ Permuted(s.sh, Swap(s.sh, p, q), X)
          /\ Swap(s.sh, p, q).flakes[p] = s.sh.flakes[q] /\ Swap(s.sh, p, q).flakes[q] = s.sh.flakes[p]
          /\ \A k \in 1..Len(s.sh.flakes) : k # p /\ k # q => Swap(s.sh, p, q).flakes[k] = s.sh.flakes[k]
      BY <2>5, <3>1, SwapOK
    <3> QED BY <2>4, <2>5, <3>2
  <2>7. Permuted(sh, t.sh, X)
    BY <2>6, PermutedTransitive DEF UpKeeps
  <2>8. \A k \in 1..n : f[k] \in X /\ c[f[k]] \in Int /\ c[g[k]] \in Int
    <3>1. f \in [1..n -> X]
      BY <2>5, HeapFields
    <3>2. g \in [1..n -> X]
      BY <2>7, HeapFields DEF Permuted
    <3> QED BY <3>1, <3>2
  <2>9. /\ \A i \in 2..m : i # p => c[f[i \div 2]] <= c[f[i]]
        /\ \A i \in 2..m : i \div 2 = p => c[f[q]] <= c[f[i]]
    BY <2>1 DEF UpKeeps, OrderedAbove
  <2> HIDE DEF f, g, t, p, q
  <2>10. \A i \in 2..m : i \in 1..n /\ i \in Nat /\ i \div 2 \in 1..n /\ i \div 2 # i
    BY <2>0, Half
  <2>11. \A i \in 2..m : i # q => c[g[i \div 2]] <= c[g[i]]
    <3> SUFFICES ASSUME NEW i \in 2..m, i # q PROVE c[g[i \div 2]] <= c[g[i]]
      OBVIOUS
    <3>1. CASE i = p
      <4>1. i \div 2 = q
        BY <3>1 DEF p, q
      <4> QED BY <2>1, <2>2, <2>3, <2>6, <2>8, <3>1, <4>1
    <3>2. CASE i # p /\ i \div 2 = p
      BY <2>1, <2>2, <2>6, <2>8, <2>9, <2>10, <3>2
    <3>3. CASE i # p /\ i \div 2 = q
      <4>1. c[f[q]] <= c[f[i]] /\ g[i] = f[i] /\ g[i \div 2] = f[p]
        BY <2>6, <2>9, <2>10, <3>3
      <4>2. c[f[p]] \in Int /\ c[f[q]] \in Int /\ c[f[i]] \in Int
        BY <2>1, <2>2, <2>8, <2>10
      <4> QED BY <2>3, <4>1, <4>2
    <3>4. CASE i # p /\ i \div 2 # p /\ i \div 2 # q
      BY <2>6, <2>9, <2>10, <3>4
    <3> QED BY <3>1, <3>2, <3>3, <3>4
  <2>12. \A i \in 2..m : i \div 2 = q /\ q > 1 => c[g[q \div 2]] <= c[g[i]]
    <3> SUFFICES ASSUME NEW i \in 2..m, i \div 2 = q, q > 1 PROVE c[g[q \div 2]] <= c[g[i]]
      OBVIOUS
    <3>1. q \in 2..m /\ q # p /\ q \div 2 \in 1..n /\ q \div 2 # q /\ q \div 2 < q
      BY <2>0, <2>1, <2>2, Half
    <3>2. c[f[q \div 2]] <= c[f[q]] /\ g[q \div 2] = f[q \div 2]
      BY <2>1, <2>2, <2>6, <2>9, <3>1
    <3>3. CASE i = p
      BY <2>6, <3>2, <3>3
    <3>4. CASE i # p
      <4>1. c[f[q]] <= c[f[i]] /\ g[i] = f[i]
        BY <2>6, <2>9, <2>10, <3>4
      <4>2. c[f[q \div 2]] \in Int /\ c[f[q]] \in Int /\ c[f[i]] \in Int
        BY <2>2, <2>8, <2>10, <3>1
      <4> QED BY <3>2, <4>1, <4>2
    <3> QED BY <3>3, <3>4
  <2>13. StrictAt(c, g, m, q)
    <3> SUFFICES ASSUME NEW i \in 2..m, i \div 2 = q PROVE c[g[q]] < c[g[i]]
      BY DEF StrictAt
    <3>1. CASE i = p
      BY <2>3, <2>6, <3>1
    <3>2. CASE i # p
      <4>1. c[f[q]] <= c[f[i]] /\ g[i] = f[i]
        BY <2>6, <2>9, <2>10, <3>2
      <4>2. c[f[p]] \in Int /\ c[f[q]] \in Int /\ c[f[i]] \in Int
        BY <2>1, <2>2, <2>8, <2>10
      <4> QED BY <2>3, <2>6, <4>1, <4>2
    <3> QED BY <3>1, <3>2
  <2>14. g[q] = sh.flakes[j] /\ q \in 1..j
    BY <2>0, <2>1, <2>2, <2>6 DEF UpKeeps, f, p
  <2>15. \A i \in (m + 1)..n : g[i] = sh.flakes[i]
    BY <2>0, <2>1, <2>2, <2>6 DEF UpKeeps, f
  <2>16. UpKeeps(c, X, sh, j, m, t.sh, q)
    BY <2>7, <2>11, <2>12, <2>13, <2>14, <2>15 DEF UpKeeps, OrderedAbove, g, n
  <2> QED BY <1>2, <2>2, <2>4, <2>16 DEF t, p
<1> QED BY <1>1, <1>2

\* The loop of up as a sequence of rounds.
UpRun(r, c, sh, j, n) == r = [k \in 0..n |-> IF k = 0 THEN [sh |-> sh, pos |-> j] ELSE UpRound(c, r[k - 1])]

LEMMA UpRuns ==
    ASSUME NEW c, NEW sh, NEW j, Len(sh.flakes) \in Nat
    PROVE  \E r : UpRun(r, c, sh, j, Len(sh.flakes)) /\ Up(c, sh, j) = r[Len(sh.flakes)].sh
<1> DEFINE n == Len(sh.flakes)
           P(m) == \E r : UpRun(r, c, sh, j, m)
           T == {m \in Nat : P(m)}
           R == CHOOSE r : UpRun(r, c, sh, j, n)
<1>1. P(0)
  <2> DEFINE r == [k \in 0..0 |-> [sh |-> sh, pos |-> j]]
  <2>1. UpRun(r, c, sh, j, 0)
    BY DEF UpRun
  <2> QED BY <2>1
<1>2. ASSUME NEW m \in Nat, P(m) PROVE P(m + 1)
  <2>1. PICK r : UpRun(r, c, sh, j, m)
    BY <1>2
  <2> DEFINE q == [k \in 0..(m + 1) |-> IF k <= m THEN r[k] ELSE UpRound(c, r[m])]
             a == [sh |-> sh, pos |-> j]
  <2> HIDE DEF a
  <2>2. r = [k \in 0..m |-> IF k = 0 THEN a ELSE UpRound(c, r[k - 1])]
    BY <2>1 DEF UpRun, a
  <2>3. ASSUME NEW k \in 0..(m + 1) PROVE q[k] = IF k = 0 THEN a ELSE UpRound(c, q[k - 1])
    <3>1. CASE k = 0
      BY <2>2, <3>1
    <3>2. CASE k # 0
      <4>1. k - 1 \in 0..m /\ q[k - 1] = r[k - 1]
        BY <3>2
      <4> QED BY <2>2, <3>2, <4>1
    <3> QED BY <3>1, <3>2
  <2>4. q = [k \in 0..(m + 1) |-> q[k]]
    OBVIOUS
  <2> HIDE DEF q
  <2>5. [k \in 0..(m + 1) |-> q[k]] = [k \in 0..(m + 1) |-> IF k = 0 THEN a ELSE UpRound(c, q[k - 1])]
    BY <2>3
  <2>6. UpRun(q, c, sh, j, m + 1)
    BY <2>4, <2>5 DEF UpRun, a
  <2> QED BY <2>6
<1>3. 0 \in T /\ \A m \in Nat : m \in T => m + 1 \in T
  <2> HIDE DEF P
  <2> QED BY <1>1, <1>2
<1>4. Nat \subseteq T
  <2> HIDE DEF T
  <2> QED BY <1>3, SetInduction
<1>5. P(n)
  <2> HIDE DEF P
  <2> QED BY <1>4
<1>6. UpRun(R, c, sh, j, n)
  BY <1>5, Zenon
<1>7. Up(c, sh, j) = R[n].sh
  BY Zenon DEF Up, UpRun
<1> HIDE DEF R
<1> QED BY <1>6, <1>7

(* up from position j restores the order of the first m positions and      *)
(* leaves the others alone; an element whose children were strictly        *)
(* greater ends above strictly greater ones.                               *)
LEMMA UpOK ==
    ASSUME NEW X, NEW c, c \in [X -> Int], NEW sh, Heap(sh, X),
           NEW m \in 1..Len(sh.flakes), NEW j \in 1..m, OrderedAbove(c, sh.flakes, m, j)
    PROVE  LET th == Up(c, sh, j)
           IN  /\ Permuted(sh, th, X) /\ OrderedTo(c, th.flakes, m)
               /\ \A i \in (m + 1)..Len(sh.flakes) : th.flakes[i] = sh.flakes[i]
               /\ StrictAt(c, sh.flakes, m, j) =>
                     \A i \in 2..m : th.flakes[i \div 2] = sh.flakes[j] =>
                                        c[sh.flakes[j]] < c[th.flakes[i]]
<1> DEFINE n == Len(sh.flakes)
<1>0. n \in Nat /\ m \in 1..n /\ j \in 1..m /\ m \in Nat /\ j \in Nat
  BY HeapFields
<1>1. PICK r : UpRun(r, c, sh, j, n) /\ Up(c, sh, j) = r[n].sh
  BY <1>0, UpRuns
<1> DEFINE K(k) == UpKeeps(c, X, sh, j, m, r[k].sh, r[k].pos) /\ (Rises(c, r[k]) => r[k].pos + k <= j)
           T == {k \in Nat : k <= n => K(k)}
<1>2. r[0].sh = sh /\ r[0].pos = j
  BY <1>0, <1>1 DEF UpRun
<1>3. \A k \in 0..n : k # 0 => r[k] = UpRound(c, r[k - 1])
  BY <1>0, <1>1 DEF UpRun
<1>4. K(0)
  <2>1. Permuted(sh, sh, X)
    BY DEF Permuted
  <2> QED BY <1>0, <1>2, <2>1 DEF UpKeeps
<1>5. ASSUME NEW k \in Nat, k + 1 <= n, K(k) PROVE K(k + 1)
  <2>1. k + 1 \in 0..n /\ r[k + 1] = UpRound(c, r[k])
    BY <1>0, <1>3, <1>5
  <2>2. /\ UpKeeps(c, X, sh, j, m, r[k + 1].sh, r[k + 1].pos)
        /\ IF Rises(c, r[k]) THEN r[k + 1].pos < r[k].pos ELSE r[k + 1] = r[k]
    BY <1>5, <2>1, UpRoundOK
  <2>3. r[k].pos \in Nat /\ r[k + 1].pos \in Nat
    BY <1>0, <1>5, <2>2 DEF UpKeeps
  <2> QED BY <1>0, <1>5, <2>2, <2>3
<1>6. Nat \subseteq T
  <2> HIDE DEF K
  <2>1. 0 \in T /\ \A k \in Nat : k \in T => k + 1 \in T
    BY <1>0, <1>4, <1>5
  <2> HIDE DEF T
  <2> QED BY <2>1, SetInduction
<1>7. K(n)
  <2> HIDE DEF K
  <2> QED BY <1>0, <1>6
<1> DEFINE th == r[n].sh
           p == r[n].pos
<1>8. UpKeeps(c, X, sh, j, m, th, p) /\ p \in 1..j /\ p \in Nat
  <2>1. UpKeeps(c, X, sh, j, m, th, p)
    BY <1>7
  <2> HIDE DEF th, p
  <2>2. p \in 1..j
    BY <2>1 DEF UpKeeps
  <2> QED BY <1>0, <2>1, <2>2
<1>9. ~Rises(c, r[n])
  BY SMTT(30), <1>0, <1>7, <1>8
<1>10. p > 1 => ~(c[th.flakes[p]] < c[th.flakes[p \div 2]])
  BY <1>9 DEF Rises, Less
<1> HIDE DEF th, p
<1>11. th.flakes \in [1..n -> X] /\ \A k, l \in 1..n : th.flakes[k] = th.flakes[l] => k = l
  <2>1. Heap(th, X) /\ Len(th.flakes) = n
    BY <1>8 DEF UpKeeps, Permuted
  <2> QED BY <2>1, HeapFields
<1>12. \A i \in 2..m : i \in 1..n /\ i \div 2 \in 1..n
  BY <1>0, Half
<1>13. OrderedTo(c, th.flakes, m)
  <2> SUFFICES ASSUME NEW i \in 2..m PROVE c[th.flakes[i \div 2]] <= c[th.flakes[i]]
    BY DEF OrderedTo
  <2>1. CASE i # p
    BY <1>8, <2>1 DEF UpKeeps, OrderedAbove
  <2>2. CASE i = p
    <3>1. c[th.flakes[p]] \in Int /\ c[th.flakes[p \div 2]] \in Int
      BY <1>11, <1>12, <2>2
    <3> QED BY <1>0, <1>10, <2>2, <3>1
  <2> QED BY <2>1, <2>2
<1>14. ASSUME StrictAt(c, sh.flakes, m, j), NEW i \in 2..m, th.flakes[i \div 2] = sh.flakes[j]
       PROVE  c[sh.flakes[j]] < c[th.flakes[i]]
  <2>1. th.flakes[p] = sh.flakes[j] /\ StrictAt(c, th.flakes, m, p)
    BY <1>8, <1>14 DEF UpKeeps
  <2>2. i \div 2 = p
    BY <1>0, <1>8, <1>11, <1>12, <1>14, <2>1
  <2> QED BY <2>1, <2>2 DEF StrictAt
<1> QED BY <1>1, <1>8, <1>13, <1>14 DEF UpKeeps, th

-----------------------------------------------------------------------------
\* The first m positions are in order but for what meets position p.
OrderedAround(c, f, m, p) ==
    /\ \A k \in 2..m : k # p /\ k \div 2 # p => c[f[k \div 2]] <= c[f[k]]
    /\ \A k \in 2..m : k \div 2 = p /\ p > 1 => c[f[p \div 2]] <= c[f[k]]

\* What every round of down keeps: th is at position p, and began as sh at i.
DownKeeps(c, X, sh, i, m, th, p) ==
    /\ Permuted(sh, th, X) /\ p \in Nat /\ p >= i /\ (p # i => p <= m) /\ (p = i => th = sh)
    /\ \A k \in 2..m : k # i /\ k \div 2 # p => c[th.flakes[k \div 2]] <= c[th.flakes[k]]
    /\ \A k \in 2..m : k \div 2 = p /\ p > 1 => c[th.flakes[p \div 2]] <= c[th.flakes[k]]
    /\ p # i /\ i \in 2..m => c[th.flakes[i \div 2]] <= c[th.flakes[i]]
    /\ \A k \in (m + 1)..Len(sh.flakes) : th.flakes[k] = sh.flakes[k]

\* The child that down compares with, and its condition for going on.
Child(c, m, s) ==
    IF 2 * s.pos < m /\ Less(c, s.sh.flakes[2 * s.pos + 1], s.sh.flakes[2 * s.pos])
    THEN 2 * s.pos + 1 ELSE 2 * s.pos
Falls(c, m, s) == 2 * s.pos <= m /\ Less(c, s.sh.flakes[Child(c, m, s)], s.sh.flakes[s.pos])

(* One round of down.                                                      *)
LEMMA DownRoundOK ==
    ASSUME NEW X, NEW c, c \in [X -> Int], NEW sh, Heap(sh, X),
           NEW m \in 0..Len(sh.flakes), NEW i \in 1..Len(sh.flakes),
           NEW s, DownKeeps(c, X, sh, i, m, s.sh, s.pos)
    PROVE  LET t == DownRound(c, m, s)
           IN  /\ DownKeeps(c, X, sh, i, m, t.sh, t.pos)
               /\ IF Falls(c, m, s) THEN t.pos > s.pos ELSE t = s
<1> DEFINE p == s.pos
           q == Child(c, m, s)
           f == s.sh.flakes
           t == DownRound(c, m, s)
           g == t.sh.flakes
           n == Len(sh.flakes)
<1>1. CASE ~Falls(c, m, s)
  <2>1. t = s
    BY <1>1 DEF DownRound, Falls, Child
  <2> QED BY <1>1, <2>1
<1>2. CASE Falls(c, m, s)
  <2>0. n \in Nat /\ m \in 0..n /\ i \in 1..n /\ m \in Nat /\ i \in Nat
    BY HeapFields
  <2>1. p \in Nat /\ p >= i /\ 2 * p <= m /\ p \in 1..m /\ p \in 1..n
    BY <1>2, <2>0 DEF Falls, DownKeeps
  <2>2. q \in {2 * p, 2 * p + 1} /\ q \in 1..m /\ q \in 1..n /\ q \in Nat /\ q > p
    BY <2>0, <2>1 DEF Child
  <2>3. c[f[q]] < c[f[p]]
    BY <1>2 DEF Falls, Less
  <2>4. t.sh = Swap(s.sh, p, q) /\ t.pos = q
    BY <1>2 DEF DownRound, Falls, Child
  <2>5. Heap(s.sh, X) /\ Len(f) = n
    BY DEF DownKeeps, Permuted
  <2>6. Permuted(s.sh, t.sh, X) /\ g[p] = f[q] /\ g[q] = f[p] /\ \A k \in 1..n : k # p /\ k # q => g[k] = f[k]
    <3>1. p \in 1..Len(s.sh.flakes) /\ q \in 1..Len(s.sh.flakes)
      BY <2>1, <2>2, <2>5
    <3> HIDE DEF p, q, t, f, g, n
    <3>2. /\ Permuted(s.sh, Swap(s.sh, p, q), X)
          /\ Swap(s.sh, p, q).flakes[p] = s.sh.flakes[q] /\ Swap(s.sh, p, q).flakes[q] = s.sh.flakes[p]
          /\ \A k \in 1..Len(s.sh.flakes) : k # p /\ k # q => Swap(s.sh, p, q).flakes[k] = s.sh.flakes[k]
      BY <2>5, <3>1, SwapOK
    <3> QED BY <2>4, <2>5, <3>2 DEF f, g
  <2>7. Permuted(sh, t.sh, X)
    BY <2>6, PermutedTransitive DEF DownKeeps
  <2>8. \A k \in 1..n : f[k] \in X /\ c[f[k]] \in Int /\ c[g[k]] \in Int
    <3>1. f \in [1..n -> X]
      BY <2>5, HeapFields
    <3>2. g \in [1..n -> X]
      BY <2>7, HeapFields DEF Permuted
    <3> QED BY <3>1, <3>2
  <2>9. /\ \A k \in 2..m : k # i /\ k \div 2 # p => c[f[k \div 2]] <= c[f[k]]
        /\ \A k \in 2..m : k \div 2 = p /\ p > 1 => c[f[p \div 2]] <= c[f[k]]
        /\ p # i /\ i \in 2..m => c[f[i \div 2]] <= c[f[i]]
    BY DEF DownKeeps
  <2>10. \A k \in 2..m : k \div 2 = p => c[f[q]] <= c[f[k]]
    <3> SUFFICES ASSUME NEW k \in 2..m, k \div 2 = p PROVE c[f[q]] <= c[f[k]]
      OBVIOUS
    <3>1. k \in {2 * p, 2 * p + 1} /\ k \in 1..n
      BY <2>0, <2>1, Half, SMTT(20)
    <3>2. c[f[q]] \in Int /\ c[f[k]] \in Int /\ c[f[2 * p]] \in Int
      <4>1. 2 * p \in 1..n
        <5> HIDE DEF p, n
        <5> QED BY <2>0, <2>1
      <4> HIDE DEF f, p, q, n
      <4> QED BY <2>2, <2>8, <3>1, <4>1
    <3>3. CASE 2 * p < m /\ Less(c, f[2 * p + 1], f[2 * p])
      BY <3>1, <3>2, <3>3, SMTT(20) DEF Child, Less
    <3>4. CASE ~(2 * p < m /\ Less(c, f[2 * p + 1], f[2 * p]))
      <4>1. q = 2 * p
        BY <3>4 DEF Child
      <4>2. k = 2 * p + 1 => 2 * p < m
        BY <2>0, <2>1
      <4> QED BY <3>1, <3>2, <3>4, <4>1, <4>2, SMTT(20) DEF Less
    <3> QED BY <3>3, <3>4
  <2>11. q \in 2..m /\ q \div 2 = p
    BY SMTT(30), <2>0, <2>1, <2>2, Half
  <2> HIDE DEF f, g, t, p, q
  <2>12. \A k \in 2..m : k \in 1..n /\ k \in Nat /\ k \div 2 \in 1..n /\ k \div 2 < k
    BY <2>0, Half
  <2>13. \A k \in 2..m : k # i /\ k \div 2 # q => c[g[k \div 2]] <= c[g[k]]
    <3> SUFFICES ASSUME NEW k \in 2..m, k # i, k \div 2 # q PROVE c[g[k \div 2]] <= c[g[k]]
      OBVIOUS
    <3>1. CASE k = p
      <4>1. p > 1 /\ c[f[p \div 2]] <= c[f[q]]
        BY <2>1, <2>9, <2>11, <3>1
      <4>2. g[k \div 2] = f[p \div 2]
        BY <2>2, <2>6, <2>12, <3>1
      <4> QED BY <2>6, <3>1, <4>1, <4>2
    <3>2. CASE k = q
      <4>1. c[f[q]] \in Int /\ c[f[p]] \in Int
        BY <2>1, <2>2, <2>8
      <4>2. k \div 2 = p /\ g[k] = f[p] /\ g[k \div 2] = f[q]
        BY <2>6, <2>11, <3>2
      <4>3. \A x, y \in Int : x < y => x <= y
        OBVIOUS
      <4> QED BY <2>3, <4>1, <4>2, <4>3, Zenon
    <3>3. CASE k # q /\ k # p /\ k \div 2 = p
      BY <2>6, <2>10, <2>12, <3>3
    <3>4. CASE k # q /\ k # p /\ k \div 2 # p
      BY <2>6, <2>9, <2>12, <3>4
    <3> QED BY <3>1, <3>2, <3>3, <3>4
  <2>14. \A k \in 2..m : k \div 2 = q => c[g[q \div 2]] <= c[g[k]]
    <3> SUFFICES ASSUME NEW k \in 2..m, k \div 2 = q PROVE c[g[q \div 2]] <= c[g[k]]
      OBVIOUS
    <3>1. k > q /\ k # p /\ k # i /\ q # p
      BY <2>0, <2>1, <2>2, <2>12
    <3>2. c[f[q]] <= c[f[k]] /\ g[k] = f[k]
      BY <2>6, <2>9, <2>12, <3>1
    <3> QED BY <2>6, <2>11, <3>2
  <2>15. i \in 2..m => c[g[i \div 2]] <= c[g[i]]
    <3> SUFFICES ASSUME i \in 2..m PROVE c[g[i \div 2]] <= c[g[i]]
      OBVIOUS
    <3>0. i \div 2 \in 1..n /\ i \div 2 < i
      BY <2>12
    <3>1. i \div 2 # p /\ i \div 2 # q /\ i # q /\ g[i \div 2] = f[i \div 2]
      <4>1. i \div 2 # p /\ i \div 2 # q /\ i # q
        BY <2>0, <2>1, <2>2, <3>0
      <4> QED BY <2>6, <3>0, <4>1
    <3>2. CASE p = i
      <4>1. c[f[p \div 2]] <= c[f[q]]
        BY <2>0, <2>9, <2>11, <3>2
      <4> QED BY <2>6, <3>1, <3>2, <4>1
    <3>3. CASE p # i
      BY <2>6, <2>9, <2>12, <3>1, <3>3
    <3> QED BY <3>2, <3>3
  <2>16. \A k \in (m + 1)..n : g[k] = sh.flakes[k]
    <3> SUFFICES ASSUME NEW k \in (m + 1)..n PROVE g[k] = sh.flakes[k]
      OBVIOUS
    <3>1. k \in 1..n /\ k # p /\ k # q
      BY <2>0, <2>1, <2>2
    <3> QED BY <2>6, <3>1 DEF DownKeeps, f
  <2>17. q >= i /\ q # i /\ q <= m
    BY <2>0, <2>1, <2>2
  <2>18. DownKeeps(c, X, sh, i, m, t.sh, q)
    BY <2>2, <2>7, <2>13, <2>14, <2>15, <2>16, <2>17 DEF DownKeeps, g, n
  <2> QED BY <1>2, <2>2, <2>4, <2>18 DEF t, p
<1> QED BY <1>1, <1>2

\* The loop of down as a sequence of rounds.
DownRun(r, c, sh, i, m, n) ==
    r = [k \in 0..n |-> IF k = 0 THEN [sh |-> sh, pos |-> i] ELSE DownRound(c, m, r[k - 1])]

LEMMA DownRuns ==
    ASSUME NEW c, NEW sh, NEW i, NEW m \in Nat
    PROVE  \E r : DownRun(r, c, sh, i, m, m) /\ Down(c, sh, i, m) = r[m]
<1> DEFINE P(n) == \E r : DownRun(r, c, sh, i, m, n)
           T == {n \in Nat : P(n)}
           R == CHOOSE r : DownRun(r, c, sh, i, m, m)
<1>1. P(0)
  <2> DEFINE r == [k \in 0..0 |-> [sh |-> sh, pos |-> i]]
  <2>1. DownRun(r, c, sh, i, m, 0)
    BY DEF DownRun
  <2> QED BY <2>1
<1>2. ASSUME NEW n \in Nat, P(n) PROVE P(n + 1)
  <2>1. PICK r : DownRun(r, c, sh, i, m, n)
    BY <1>2
  <2> DEFINE q == [k \in 0..(n + 1) |-> IF k <= n THEN r[k] ELSE DownRound(c, m, r[n])]
             a == [sh |-> sh, pos |-> i]
  <2> HIDE DEF a
  <2>2. r = [k \in 0..n |-> IF k = 0 THEN a ELSE DownRound(c, m, r[k - 1])]
    BY <2>1 DEF DownRun, a
  <2>3. ASSUME NEW k \in 0..(n + 1) PROVE q[k] = IF k = 0 THEN a ELSE DownRound(c, m, q[k - 1])
    <3>1. CASE k = 0
      BY <2>2, <3>1
    <3>2. CASE k # 0
      <4>1. k - 1 \in 0..n /\ q[k - 1] = r[k - 1]
        BY <3>2
      <4> QED BY <2>2, <3>2, <4>1
    <3> QED BY <3>1, <3>2
  <2>4. q = [k \in 0..(n + 1) |-> q[k]]
    OBVIOUS
  <2> HIDE DEF q
  <2>5. [k \in 0..(n + 1) |-> q[k]] = [k \in 0..(n + 1) |-> IF k = 0 THEN a ELSE DownRound(c, m, q[k - 1])]
    BY <2>3
  <2>6. DownRun(q, c, sh, i, m, n + 1)
    BY <2>4, <2>5 DEF DownRun, a
  <2> QED BY <2>6
<1>3. 0 \in T /\ \A n \in Nat : n \in T => n + 1 \in T
  <2> HIDE DEF P
  <2> QED BY <1>1, <1>2
<1>4. Nat \subseteq T
  <2> HIDE DEF T
  <2> QED BY <1>3, SetInduction
<1>5. P(m)
  <2> HIDE DEF P
  <2> QED BY <1>4
<1>6. DownRun(R, c, sh, i, m, m)
  BY <1>5, Zenon
<1>7. Down(c, sh, i, m) = R[m]
  BY DEF Down, DownRun
<1> HIDE DEF R
<1> QED BY <1>6, <1>7

(* down from position i within the first m: if it moves, those are in      *)
(* order afterwards; if not, only position i may be below its parent.      *)
LEMMA DownOK ==
    ASSUME NEW X, NEW c, c \in [X -> Int], NEW sh, Heap(sh, X),
           NEW m \in 0..Len(sh.flakes), NEW i \in 1..Len(sh.flakes), OrderedAround(c, sh.flakes, m, i)
    PROVE  LET d == Down(c, sh, i, m)
           IN  /\ Permuted(sh, d.sh, X)
               /\ \A k \in (m + 1)..Len(sh.flakes) : d.sh.flakes[k] = sh.flakes[k]
               /\ d.pos # i => OrderedTo(c, d.sh.flakes, m)
               /\ d.pos = i => d.sh = sh /\ OrderedAbove(c, sh.flakes, m, i)
<1> DEFINE n == Len(sh.flakes)
<1>0. n \in Nat /\ m \in 0..n /\ i \in 1..n /\ m \in Nat /\ i \in Nat
  BY HeapFields
<1>1. PICK r : DownRun(r, c, sh, i, m, m) /\ Down(c, sh, i, m) = r[m]
  BY <1>0, DownRuns
<1> DEFINE K(k) == DownKeeps(c, X, sh, i, m, r[k].sh, r[k].pos) /\ (Falls(c, m, r[k]) => r[k].pos >= i + k)
           T == {k \in Nat : k <= m => K(k)}
<1>2. r[0].sh = sh /\ r[0].pos = i
  BY <1>0, <1>1 DEF DownRun
<1>3. \A k \in 0..m : k # 0 => r[k] = DownRound(c, m, r[k - 1])
  BY <1>0, <1>1 DEF DownRun
<1>4. K(0)
  <2>1. Permuted(sh, sh, X)
    BY DEF Permuted
  <2> QED BY <1>0, <1>2, <2>1 DEF DownKeeps, OrderedAround
<1>5. ASSUME NEW k \in Nat, k + 1 <= m, K(k) PROVE K(k + 1)
  <2>1. k + 1 \in 0..m /\ r[k + 1] = DownRound(c, m, r[k])
    BY <1>0, <1>3, <1>5
  <2>2. /\ DownKeeps(c, X, sh, i, m, r[k + 1].sh, r[k + 1].pos)
        /\ IF Falls(c, m, r[k]) THEN r[k + 1].pos > r[k].pos ELSE r[k + 1] = r[k]
    BY <1>5, <2>1, DownRoundOK
  <2>3. r[k].pos \in Nat /\ r[k + 1].pos \in Nat
    BY <1>0, <1>5, <2>2 DEF DownKeeps
  <2> QED BY SMTT(30), <1>0, <1>5, <2>2, <2>3
<1>6. Nat \subseteq T
  <2> HIDE DEF K
  <2>1. 0 \in T /\ \A k \in Nat : k \in T => k + 1 \in T
    BY <1>0, <1>4, <1>5
  <2> HIDE DEF T
  <2> QED BY Zenon, <2>1, SetInduction
<1>7. K(m)
  <2> HIDE DEF K
  <2> QED BY <1>0, <1>6
<1> DEFINE th == r[m].sh
           p == r[m].pos
<1>8. DownKeeps(c, X, sh, i, m, th, p) /\ p \in Nat /\ p >= i
  BY <1>7 DEF DownKeeps
<1>9. ~Falls(c, m, r[m])
  <2>1. Falls(c, m, r[m]) => p >= i + m /\ 2 * p <= m
    BY <1>7 DEF Falls
  <2> QED BY <1>0, <1>8, <2>1
<1>10. \A k \in 2..m : k \div 2 = p => c[th.flakes[p]] <= c[th.flakes[k]]
  <2> SUFFICES ASSUME NEW k \in 2..m, k \div 2 = p PROVE c[th.flakes[p]] <= c[th.flakes[k]]
    OBVIOUS
  <2> DEFINE f == th.flakes
  <2>1. f \in [1..n -> X]
    <3>1. Heap(th, X) /\ Len(th.flakes) = n
      BY <1>8 DEF DownKeeps, Permuted
    <3> QED BY <3>1, HeapFields
  <2>2. k \in {2 * p, 2 * p + 1} /\ k \in 1..n /\ p \in 1..n /\ 2 * p <= m /\ 2 * p \in 1..n
    <3> HIDE DEF p, th
    <3>1. k \in Nat /\ k \in 1..n /\ k <= m /\ p >= 1 /\ p \in Nat
      BY <1>0, <1>8
    <3>2. k = 2 * p \/ k = 2 * p + 1
      BY <3>1, Half
    <3> HIDE <1>8
    <3> QED BY <1>0, <3>1, <3>2
  <2>3. c[f[p]] \in Int /\ c[f[k]] \in Int /\ c[f[2 * p]] \in Int
    BY <2>1, <2>2
  <2>4. ~(c[f[Child(c, m, r[m])]] < c[f[p]])
    BY <1>9, <2>2 DEF Falls, Less
  <2>5. CASE 2 * p < m /\ Less(c, f[2 * p + 1], f[2 * p])
    <3>1. Child(c, m, r[m]) = 2 * p + 1 /\ c[f[2 * p + 1]] < c[f[2 * p]]
      BY <2>5 DEF Child, Less
    <3>2. 2 * p + 1 \in 1..n
      BY SMTT(30), <1>0, <1>8, <2>5
    <3>3. c[f[2 * p + 1]] \in Int
      BY <2>1, <3>2
    <3>4. c[f[p]] <= c[f[k]]
      <4>1. ~(c[f[2 * p + 1]] < c[f[p]])
        BY <2>4, <3>1
      <4> HIDE DEF f, p
      <4>2. CASE k = 2 * p
        BY <2>3, <3>1, <3>3, <4>1, <4>2
      <4>3. CASE k = 2 * p + 1
        BY <2>3, <3>3, <4>1, <4>3, SMTT(20)
      <4> QED BY <2>2, <4>2, <4>3
    <3> QED BY <3>4
  <2>6. CASE ~(2 * p < m /\ Less(c, f[2 * p + 1], f[2 * p]))
    <3>1. Child(c, m, r[m]) = 2 * p
      BY <2>6 DEF Child
    <3>2. k = 2 * p + 1 => ~(c[f[2 * p + 1]] < c[f[2 * p]])
      BY <1>0, <1>8, <2>6 DEF Less
    <3>3. c[f[p]] <= c[f[k]]
      <4>1. ~(c[f[2 * p]] < c[f[p]])
        BY <2>4, <3>1
      <4> HIDE DEF f, p
      <4>2. CASE k = 2 * p
        BY <2>3, <4>1, <4>2
      <4>3. CASE k = 2 * p + 1
        <5>1. ~(c[f[k]] < c[f[2 * p]])
          BY <3>2, <4>3
        <5> QED BY <2>3, <4>1, <5>1
      <4> QED BY <2>2, <4>2, <4>3
    <3> QED BY <3>3
  <2> QED BY <2>5, <2>6
<1>11. p # i => OrderedTo(c, th.flakes, m)
  <2> HIDE DEF th, p
  <2> QED BY <1>8, <1>10 DEF DownKeeps, OrderedTo
<1>12. p = i => th = sh /\ OrderedAbove(c, sh.flakes, m, i)
  <2> HIDE DEF th, p
  <2> QED BY <1>8, <1>10 DEF DownKeeps, OrderedAbove
<1> QED BY <1>1, <1>8, <1>11, <1>12 DEF DownKeeps

-----------------------------------------------------------------------------
(* The operations                                                          *)

\* A heap in order on the counters c.
Good(c, sh, X) == Heap(sh, X) /\ OrderedTo(c, sh.flakes, Len(sh.flakes))

\* th is sh without x; x is marked as popped and no other index field that
\* sh does not hold was touched.
Without(sh, th, x, X) ==
    /\ \A y \in X : In(th, y) <=> In(sh, y) /\ y # x
    /\ th.index[x] = -1
    /\ \A y \in X : ~In(sh, y) => th.index[y] = sh.index[y]

(* SnowflakeHeap.Push                                                      *)
LEMMA PushLastOK ==
    ASSUME NEW X, NEW sh, Heap(sh, X), NEW x \in X, ~In(sh, x)
    PROVE  LET th == PushLast(sh, x)
               n  == Len(sh.flakes)
           IN  /\ Heap(th, X) /\ Len(th.flakes) = n + 1 /\ th.flakes[n + 1] = x
               /\ \A i \in 1..n : th.flakes[i] = sh.flakes[i]
               /\ \A y \in X : In(th, y) <=> In(sh, y) \/ y = x
               /\ \A y \in X : y # x => th.index[y] = sh.index[y]
<1> DEFINE n == Len(sh.flakes)
           f == sh.flakes
           g == Append(f, x)
           h == [sh.index EXCEPT ![x] = n]
           th == PushLast(sh, x)
<1>1. n \in Nat /\ f \in [1..n -> X] /\ f \in Seq(X) /\ sh.index \in [X -> Int]
      /\ \A k \in 1..n : sh.index[f[k]] = k - 1
  BY HeapFields DEF Heap
<1>2. th = [flakes |-> g, index |-> h]
  BY DEF PushLast
<1>3. g \in Seq(X) /\ Len(g) = n + 1 /\ g[n + 1] = x /\ \A i \in 1..n : g[i] = f[i]
  BY <1>1
<1>4. h \in [X -> Int] /\ h[x] = n /\ \A y \in X : y # x => h[y] = sh.index[y]
  BY <1>1
<1>5. \A k \in 1..n : f[k] # x /\ f[k] \in X
  BY <1>1 DEF In
<1> HIDE DEF g, h, th
<1>6. th.flakes = g /\ th.index = h /\ th = [flakes |-> th.flakes, index |-> th.index]
  BY <1>2
<1> HIDE DEF f, n
<1>7. \A k \in 1..(n + 1) : h[g[k]] = k - 1
  <2> SUFFICES ASSUME NEW k \in 1..(n + 1) PROVE h[g[k]] = k - 1
    OBVIOUS
  <2>1. CASE k = n + 1
    BY <1>1, <1>3, <1>4, <2>1
  <2>2. CASE k \in 1..n
    BY <1>1, <1>3, <1>4, <1>5, <2>2
  <2> QED BY <1>1, <2>1, <2>2
<1>8. Heap(th, X)
  BY <1>3, <1>4, <1>6, <1>7 DEF Heap
<1>9. \A y \in X : In(th, y) <=> In(sh, y) \/ y = x
  <2>1. \A y \in X : In(th, y) <=> \E k \in 1..(n + 1) : g[k] = y
    BY <1>3, <1>6 DEF In
  <2>2. \A y \in X : In(sh, y) <=> \E k \in 1..n : f[k] = y
    BY DEF In, f, n
  <2>3. 1..(n + 1) = (1..n) \cup {n + 1}
    BY <1>1
  <2> QED BY <1>3, <2>1, <2>2, <2>3
<1> QED BY <1>3, <1>4, <1>6, <1>8, <1>9 DEF th, f, n

(* SnowflakeHeap.Pop                                                       *)
LEMMA PopLastOK ==
    ASSUME NEW X, NEW sh, Heap(sh, X), Len(sh.flakes) > 0
    PROVE  LET th == PopLast(sh)
               n  == Len(sh.flakes)
           IN  /\ Heap(th, X) /\ Len(th.flakes) = n - 1
               /\ \A i \in 1..(n - 1) : th.flakes[i] = sh.flakes[i]
               /\ Without(sh, th, sh.flakes[n], X)
<1> DEFINE n == Len(sh.flakes)
           f == sh.flakes
           g == Front(f)
           x == f[n]
           h == [sh.index EXCEPT ![x] = -1]
           th == PopLast(sh)
<1>1. n \in Nat /\ n > 0 /\ n \in 1..n /\ f \in [1..n -> X] /\ f \in Seq(X) /\ sh.index \in [X -> Int]
      /\ \A k \in 1..n : sh.index[f[k]] = k - 1
  BY HeapFields DEF Heap
<1>2. \A k, l \in 1..n : f[k] = f[l] => k = l
  BY HeapFields
<1>3. th = [flakes |-> g, index |-> h]
  BY DEF PopLast, Last
<1>4. g \in Seq(X) /\ Len(g) = n - 1 /\ \A i \in 1..(n - 1) : g[i] = f[i]
  BY <1>1 DEF Front
<1>5. x \in X
  BY <1>1
<1>6. h \in [X -> Int] /\ h[x] = -1 /\ \A y \in X : y # x => h[y] = sh.index[y]
  <2> HIDE DEF x
  <2> QED BY <1>1, <1>5
<1> HIDE DEF g, h, th
<1>7. th.flakes = g /\ th.index = h /\ th = [flakes |-> th.flakes, index |-> th.index]
  BY <1>3
<1> HIDE DEF f, n
<1>8. \A k \in 1..(n - 1) : k \in 1..n /\ f[k] \in X /\ f[k] # x
  BY <1>1, <1>2
<1>9. \A k \in 1..(n - 1) : h[g[k]] = k - 1
  BY <1>1, <1>4, <1>6, <1>8
<1>10. Heap(th, X)
  BY <1>4, <1>6, <1>7, <1>9 DEF Heap
<1>11. \A y \in X : In(th, y) <=> In(sh, y) /\ y # x
  <2>1. \A y \in X : In(th, y) <=> \E k \in 1..(n - 1) : g[k] = y
    BY <1>4, <1>7 DEF In
  <2>2. \A y \in X : In(sh, y) <=> \E k \in 1..n : f[k] = y
    BY DEF In, f, n
  <2>3. 1..n = (1..(n - 1)) \cup {n}
    BY <1>1
  <2> QED BY <1>4, <1>8, <2>1, <2>2, <2>3
<1>12. \A y \in X : ~In(sh, y) => th.index[y] = sh.index[y]
  <2>1. In(sh, x)
    BY <1>1 DEF In, f, n
  <2> QED BY <1>6, <1>7, <2>1
<1>13. Without(sh, th, x, X)
  BY <1>6, <1>7, <1>11, <1>12 DEF Without
<1> QED BY <1>4, <1>7, <1>10, <1>13 DEF th, f, n

(* heap.Push: the heap is in order again, holds x besides what it held,    *)
(* and x lies above strictly greater elements only.                        *)
THEOREM HeapPushOK ==
    ASSUME NEW X, NEW c, c \in [X -> Int], NEW sh, Good(c, sh, X), NEW x \in X, ~In(sh, x)
    PROVE  LET th == HeapPush(c, sh, x)
           IN  /\ Good(c, th, X)
               /\ \A y \in X : In(th, y) <=> In(sh, y) \/ y = x
               /\ \A y \in X : ~In(sh, y) /\ y # x => th.index[y] = sh.index[y]
               /\ \A i \in 2..Len(th.flakes) : th.flakes[i \div 2] = x => c[x] < c[th.flakes[i]]
<1> DEFINE n == Len(sh.flakes)
           uh == PushLast(sh, x)
           th == Up(c, uh, n + 1)
           u == uh.flakes
<1>1. n \in Nat /\ Heap(sh, X)
  BY HeapFields DEF Good
<1>2. /\ Heap(uh, X) /\ Len(u) = n + 1 /\ u[n + 1] = x
      /\ \A i \in 1..n : u[i] = sh.flakes[i]
      /\ \A y \in X : In(uh, y) <=> In(sh, y) \/ y = x
      /\ \A y \in X : y # x => uh.index[y] = sh.index[y]
  BY <1>1, PushLastOK
<1>3. th = HeapPush(c, sh, x)
  BY DEF HeapPush
<1> HIDE DEF uh, u
<1>4. \A i \in 2..(n + 1) : i \div 2 # n + 1 /\ (i # n + 1 => i \in 2..n /\ i \in 1..n /\ i \div 2 \in 1..n)
  BY <1>1, Half
<1>5. OrderedAbove(c, u, n + 1, n + 1) /\ StrictAt(c, u, n + 1, n + 1)
  <2>1. \A i \in 2..n : c[sh.flakes[i \div 2]] <= c[sh.flakes[i]]
    BY DEF Good, OrderedTo
  <2> QED BY <1>1, <1>2, <1>4, <2>1 DEF OrderedAbove, StrictAt
<1>6. /\ Permuted(uh, th, X) /\ OrderedTo(c, th.flakes, n + 1)
      /\ \A i \in 2..(n + 1) : th.flakes[i \div 2] = u[n + 1] => c[u[n + 1]] < c[th.flakes[i]]
  <2>1. n + 1 \in 1..Len(uh.flakes) /\ n + 1 \in 1..(n + 1)
    BY <1>1, <1>2 DEF u
  <2>2. OrderedAbove(c, uh.flakes, n + 1, n + 1) /\ StrictAt(c, uh.flakes, n + 1, n + 1)
    BY <1>5 DEF u
  <2> DEFINE k == n + 1
  <2> HIDE DEF k, n
  <2>3. k \in 1..Len(uh.flakes) /\ k \in 1..k /\ OrderedAbove(c, uh.flakes, k, k)
    BY <2>1, <2>2 DEF k
  <2>4. /\ Permuted(uh, Up(c, uh, k), X) /\ OrderedTo(c, Up(c, uh, k).flakes, k)
        /\ StrictAt(c, uh.flakes, k, k) =>
             \A i \in 2..k : Up(c, uh, k).flakes[i \div 2] = uh.flakes[k] =>
                                 c[uh.flakes[k]] < c[Up(c, uh, k).flakes[i]]
    BY <1>2, <2>3, UpOK
  <2> QED BY <2>2, <2>4 DEF u, k
<1> HIDE DEF th
<1>7. Heap(th, X) /\ Len(th.flakes) = n + 1
  BY <1>2, <1>6 DEF Permuted, u
<1>8. /\ \A y \in X : In(th, y) <=> In(sh, y) \/ y = x
      /\ \A y \in X : ~In(sh, y) /\ y # x => th.index[y] = sh.index[y]
  BY <1>2, <1>6 DEF Permuted
<1> QED BY <1>2, <1>3, <1>6, <1>7, <1>8 DEF Good

(* Putting the last element at position i leaves only what meets i to be   *)
(* set right.                                                              *)
LEMMA SwapAround ==
    ASSUME NEW X, NEW c, c \in [X -> Int], NEW sh, Good(c, sh, X), NEW i \in 1..Len(sh.flakes)
    PROVE  LET n  == Len(sh.flakes)
               th == Swap(sh, i, n)
           IN  /\ Permuted(sh, th, X) /\ th.flakes[n] = sh.flakes[i]
               /\ OrderedAround(c, th.flakes, n - 1, i)
<1> DEFINE n == Len(sh.flakes)
           f == sh.flakes
           th == Swap(sh, i, n)
           g == th.flakes
<1>1. n \in Nat /\ Heap(sh, X) /\ i \in 1..n /\ n \in 1..n /\ f \in [1..n -> X]
  BY HeapFields DEF Good
<1>2. /\ Permuted(sh, th, X) /\ g[n] = f[i]
      /\ \A k \in 1..n : k # i /\ k # n => g[k] = f[k]
  BY <1>1, SwapOK
<1>3. \A k \in 2..n : c[f[k \div 2]] <= c[f[k]]
  BY DEF Good, OrderedTo
<1> HIDE DEF n, f, g
<1>4. \A k \in 2..(n - 1) : k \in 2..n /\ k \in 1..n /\ k # n /\ k \div 2 \in 1..n /\ k \div 2 # n /\ k \div 2 < k
  BY <1>1, Half
<1>5. \A k \in 2..(n - 1) : k # i /\ k \div 2 # i => c[g[k \div 2]] <= c[g[k]]
  BY <1>2, <1>3, <1>4
<1>6. ASSUME NEW k \in 2..(n - 1), k \div 2 = i, i > 1 PROVE c[g[i \div 2]] <= c[g[k]]
  <2>1. i \in 2..(n - 1) /\ k # i
    BY <1>1, <1>4, <1>6
  <2>2. g[k] = f[k] /\ g[i \div 2] = f[i \div 2]
    BY <1>2, <1>4, <2>1
  <2>3. c[f[i \div 2]] <= c[f[i]] /\ c[f[i]] <= c[f[k]]
    BY <1>3, <1>4, <1>6, <2>1
  <2>4. c[f[i \div 2]] \in Int /\ c[f[i]] \in Int /\ c[f[k]] \in Int
    BY <1>1, <1>4, <2>1
  <2> QED BY <2>2, <2>3, <2>4
<1>7. OrderedAround(c, g, n - 1, i)
  BY <1>5, <1>6 DEF OrderedAround
<1> QED BY <1>2, <1>7 DEF n, f, g

(* Cutting off the last element of a heap whose other positions are in     *)
(* order.                                                                  *)
LEMMA CutOK ==
    ASSUME NEW X, NEW c, NEW sh, NEW th, Heap(sh, X), Len(sh.flakes) > 0, Permuted(sh, th, X),
           OrderedTo(c, th.flakes, Len(sh.flakes) - 1)
    PROVE  /\ Good(c, PopLast(th), X) /\ Len(PopLast(th).flakes) = Len(sh.flakes) - 1
           /\ Without(sh, PopLast(th), th.flakes[Len(sh.flakes)], X)
<1> DEFINE n == Len(sh.flakes)
           uh == PopLast(th)
<1>1. n \in Nat /\ n > 0 /\ Heap(th, X) /\ Len(th.flakes) = n
  BY HeapFields DEF Permuted
<1>2. /\ Heap(uh, X) /\ Len(uh.flakes) = n - 1
      /\ \A i \in 1..(n - 1) : uh.flakes[i] = th.flakes[i]
      /\ Without(th, uh, th.flakes[n], X)
  <2>1. Len(th.flakes) > 0
    BY <1>1
  <2>2. /\ Heap(PopLast(th), X) /\ Len(PopLast(th).flakes) = Len(th.flakes) - 1
        /\ \A i \in 1..(Len(th.flakes) - 1) : PopLast(th).flakes[i] = th.flakes[i]
        /\ Without(th, PopLast(th), th.flakes[Len(th.flakes)], X)
    BY <1>1, <2>1, PopLastOK
  <2> QED BY <1>1, <2>2
<1> HIDE DEF uh, n
<1>3. \A i \in 2..(n - 1) : i \in 1..(n - 1) /\ i \div 2 \in 1..(n - 1)
  BY <1>1, Half
<1>4. OrderedTo(c, uh.flakes, n - 1)
  BY <1>2, <1>3 DEF OrderedTo, n
<1>5. Without(sh, uh, th.flakes[n], X)
  BY <1>2 DEF Without, Permuted
<1> QED BY <1>2, <1>4, <1>5 DEF Good, n, uh

(* heap.Remove: the element at position i leaves, and the heap is in order *)
(* again.                                                                  *)
THEOREM HeapRemoveOK ==
    ASSUME NEW X, NEW c, c \in [X -> Int], NEW sh, Good(c, sh, X), NEW i \in 1..Len(sh.flakes)
    PROVE  LET th == HeapRemove(c, sh, i)
           IN  Good(c, th, X) /\ Len(th.flakes) = Len(sh.flakes) - 1 /\ Without(sh, th, sh.flakes[i], X)
<1> DEFINE n == Len(sh.flakes)
           gh == Swap(sh, i, n)
           d == Down(c, gh, i, n - 1)
<1>1. n \in Nat /\ n > 0 /\ Heap(sh, X) /\ i \in 1..n /\ n \in 1..n
  BY HeapFields DEF Good
<1>2. Permuted(sh, gh, X) /\ gh.flakes[n] = sh.flakes[i] /\ OrderedAround(c, gh.flakes, n - 1, i)
  BY SwapAround
<1>3. CASE i = n
  <2>1. HeapRemove(c, sh, i) = PopLast(sh)
    BY <1>3 DEF HeapRemove
  <2>2. Permuted(sh, sh, X)
    BY <1>1 DEF Permuted
  <2>3. OrderedTo(c, sh.flakes, n - 1)
    <3>1. \A k \in 2..(n - 1) : k \in 2..n
      BY <1>1
    <3> QED BY <3>1 DEF Good, OrderedTo
  <2>4. /\ Good(c, PopLast(sh), X) /\ Len(PopLast(sh).flakes) = n - 1
        /\ Without(sh, PopLast(sh), sh.flakes[n], X)
    BY <1>1, <2>2, <2>3, CutOK
  <2> QED BY <1>3, <2>1, <2>4
<1>4. CASE i # n
  <2>1. HeapRemove(c, sh, i) = PopLast(IF d.pos = i THEN Up(c, d.sh, i) ELSE d.sh)
    BY <1>4 DEF HeapRemove
  <2>2. Heap(gh, X) /\ Len(gh.flakes) = n /\ n - 1 \in 0..n /\ n - 1 \in 1..n /\ i \in 1..(n - 1)
        /\ n \in ((n - 1) + 1)..n
    BY <1>1, <1>2, <1>4 DEF Permuted
  <2> HIDE DEF gh, n
  <2>3. /\ Permuted(gh, d.sh, X)
        /\ d.sh.flakes[n] = gh.flakes[n]
        /\ d.pos # i => OrderedTo(c, d.sh.flakes, n - 1)
        /\ d.pos = i => d.sh = gh /\ OrderedAbove(c, gh.flakes, n - 1, i)
    <3> DEFINE m == n - 1
    <3>1. m \in 0..Len(gh.flakes) /\ i \in 1..Len(gh.flakes) /\ OrderedAround(c, gh.flakes, m, i)
      BY <1>1, <1>2, <2>2
    <3> HIDE DEF m
    <3>2. /\ Permuted(gh, Down(c, gh, i, m).sh, X)
          /\ \A k \in (m + 1)..Len(gh.flakes) : Down(c, gh, i, m).sh.flakes[k] = gh.flakes[k]
          /\ Down(c, gh, i, m).pos # i => OrderedTo(c, Down(c, gh, i, m).sh.flakes, m)
          /\ Down(c, gh, i, m).pos = i => Down(c, gh, i, m).sh = gh /\ OrderedAbove(c, gh.flakes, m, i)
      BY <2>2, <3>1, DownOK
    <3> QED BY <2>2, <3>2 DEF m
  <2> HIDE DEF d
  <2>4. CASE d.pos # i
    <3>1. HeapRemove(c, sh, i) = PopLast(d.sh)
      BY <2>1, <2>4
    <3>2. Permuted(sh, d.sh, X) /\ OrderedTo(c, d.sh.flakes, n - 1) /\ d.sh.flakes[n] = sh.flakes[i]
      BY <1>2, <2>3, <2>4, PermutedTransitive
    <3>3. /\ Good(c, PopLast(d.sh), X) /\ Len(PopLast(d.sh).flakes) = n - 1
          /\ Without(sh, PopLast(d.sh), d.sh.flakes[n], X)
      BY <1>1, <3>2, CutOK DEF n
    <3> QED BY <3>1, <3>2, <3>3 DEF n
  <2>5. CASE d.pos = i
    <3> DEFINE th == Up(c, gh, i)
    <3>1. HeapRemove(c, sh, i) = PopLast(th)
      BY <2>1, <2>3, <2>5
    <3>2. Permuted(gh, th, X) /\ OrderedTo(c, th.flakes, n - 1) /\ th.flakes[n] = gh.flakes[n]
      <4> DEFINE m == n - 1
      <4>1. m \in 1..Len(gh.flakes) /\ i \in 1..m /\ OrderedAbove(c, gh.flakes, m, i)
        BY <2>2, <2>3, <2>5
      <4> HIDE DEF m
      <4>2. /\ Permuted(gh, th, X) /\ OrderedTo(c, th.flakes, m)
            /\ \A k \in (m + 1)..Len(gh.flakes) : th.flakes[k] = gh.flakes[k]
        BY <2>2, <4>1, UpOK
      <4> QED BY <2>2, <4>2 DEF m
    <3> HIDE DEF th
    <3>3. Permuted(sh, th, X) /\ th.flakes[n] = sh.flakes[i]
      BY <1>2, <3>2, PermutedTransitive
    <3>4. /\ Good(c, PopLast(th), X) /\ Len(PopLast(th).flakes) = n - 1
          /\ Without(sh, PopLast(th), th.flakes[n], X)
      BY <1>1, <3>2, <3>3, CutOK DEF n
    <3> QED BY <3>1, <3>3, <3>4 DEF n
  <2> QED BY <2>4, <2>5
<1> QED BY <1>3, <1>4

(* heap.Pop: the first element leaves, and the heap is in order again.     *)
THEOREM HeapPopOK ==
    ASSUME NEW X, NEW c, c \in [X -> Int], NEW sh, Good(c, sh, X), sh.flakes # <<>>
    PROVE  LET th == HeapPop(c, sh)
           IN  /\ Good(c, th, X) /\ Len(th.flakes) = Len(sh.flakes) - 1
               /\ Head(sh.flakes) = sh.flakes[1] /\ 1 \in 1..Len(sh.flakes)
               /\ Without(sh, th, Head(sh.flakes), X)
<1> DEFINE n == Len(sh.flakes)
           gh == Swap(sh, 1, n)
           d == Down(c, gh, 1, n - 1)
<1>0. n \in Nat /\ Heap(sh, X)
  BY HeapFields DEF Good
<1>1. n > 0 /\ 1 \in 1..n /\ Head(sh.flakes) = sh.flakes[1]
  <2>1. sh.flakes \in Seq(X)
    BY <1>0 DEF Heap
  <2> QED BY <2>1
<1>2. Permuted(sh, gh, X) /\ gh.flakes[n] = sh.flakes[1] /\ OrderedAround(c, gh.flakes, n - 1, 1)
  BY <1>1, SwapAround
<1>3. HeapPop(c, sh) = PopLast(d.sh)
  BY DEF HeapPop
<1>4. Heap(gh, X) /\ Len(gh.flakes) = n /\ n - 1 \in 0..n /\ n \in ((n - 1) + 1)..n
  BY <1>0, <1>1, <1>2 DEF Permuted
<1> HIDE DEF gh, n
<1>5. /\ Permuted(gh, d.sh, X)
      /\ d.sh.flakes[n] = gh.flakes[n]
      /\ d.pos # 1 => OrderedTo(c, d.sh.flakes, n - 1)
      /\ d.pos = 1 => d.sh = gh /\ OrderedAbove(c, gh.flakes, n - 1, 1)
  <2> DEFINE m == n - 1
  <2>1. m \in 0..Len(gh.flakes) /\ 1 \in 1..Len(gh.flakes) /\ OrderedAround(c, gh.flakes, m, 1)
    BY <1>1, <1>2, <1>4
  <2> HIDE DEF m
  <2>2. /\ Permuted(gh, Down(c, gh, 1, m).sh, X)
        /\ \A k \in (m + 1)..Len(gh.flakes) : Down(c, gh, 1, m).sh.flakes[k] = gh.flakes[k]
        /\ Down(c, gh, 1, m).pos # 1 => OrderedTo(c, Down(c, gh, 1, m).sh.flakes, m)
        /\ Down(c, gh, 1, m).pos = 1 => Down(c, gh, 1, m).sh = gh /\ OrderedAbove(c, gh.flakes, m, 1)
    BY <1>4, <2>1, DownOK
  <2> QED BY <1>4, <2>2 DEF m
<1> HIDE DEF d
<1>6. OrderedTo(c, d.sh.flakes, n - 1)
  <2>1. \A k \in 2..(n - 1) : k # 1
    BY <1>0
  <2> QED BY <1>5, <2>1 DEF OrderedTo, OrderedAbove
<1>7. Permuted(sh, d.sh, X) /\ d.sh.flakes[n] = sh.flakes[1]
  BY <1>2, <1>5, PermutedTransitive
<1>8. /\ Good(c, PopLast(d.sh), X) /\ Len(PopLast(d.sh).flakes) = n - 1
      /\ Without(sh, PopLast(d.sh), sh.flakes[1], X)
  <2>1. /\ Heap(sh, X) /\ Len(sh.flakes) > 0 /\ Permuted(sh, d.sh, X)
        /\ OrderedTo(c, d.sh.flakes, Len(sh.flakes) - 1)
    BY <1>0, <1>1, <1>6, <1>7 DEF n
  <2>2. /\ Good(c, PopLast(d.sh), X) /\ Len(PopLast(d.sh).flakes) = Len(sh.flakes) - 1
        /\ Without(sh, PopLast(d.sh), d.sh.flakes[Len(sh.flakes)], X)
    BY <2>1, CutOK
  <2> QED BY <1>7, <2>2 DEF n
<1> QED BY <1>1, <1>3, <1>8 DEF n

(* The first element of a heap in order is a least one.                    *)
THEOREM HeadIsLeast ==
    ASSUME NEW X, NEW c, c \in [X -> Int], NEW sh, Good(c, sh, X)
    PROVE  \A i \in 1..Len(sh.flakes) : c[sh.flakes[1]] <= c[sh.flakes[i]]
<1> DEFINE n == Len(sh.flakes)
           f == sh.flakes
           T == {i \in 1..n : ~(c[f[1]] <= c[f[i]])}
<1>1. n \in Nat /\ f \in [1..n -> X] /\ \A i \in 2..n : c[f[i \div 2]] <= c[f[i]]
  BY HeapFields DEF Good, OrderedTo
<1> HIDE DEF n, f
<1>2. \A i \in 1..n : c[f[i]] \in Int
  BY <1>1
<1>3. ASSUME T # {} PROVE FALSE
  <2>1. T \subseteq Nat
    BY <1>1
  <2>2. PICK i \in T : \A j \in T : i <= j
    BY <1>3, <2>1, Least
  <2>3. i \in 1..n /\ ~(c[f[1]] <= c[f[i]])
    BY <2>2
  <2>4. i # 1 /\ i \in 2..n
    <3>1. i # 1
      BY <1>2, <2>3
    <3> QED BY <1>1, <2>3, <3>1
  <2>5. i \div 2 \in 1..n /\ i \div 2 < i /\ 1 \in 1..n
    BY <1>1, <2>4, Half
  <2>6. i \div 2 \notin T
    <3> HIDE DEF T
    <3> QED BY <2>2, <2>3, <2>5
  <2>7. c[f[1]] <= c[f[i \div 2]] /\ c[f[i \div 2]] <= c[f[i]]
    BY <1>1, <2>4, <2>5, <2>6
  <2>8. c[f[1]] \in Int /\ c[f[i \div 2]] \in Int /\ c[f[i]] \in Int
    BY <1>2, <2>3, <2>5
  <2> QED BY <2>3, <2>7, <2>8
<1> QED BY <1>3 DEF n, f

(* A heap none of whose elements changed its index field or its counter.   *)
LEMMA Frame ==
    ASSUME NEW X, NEW c, NEW d, d \in [X -> Int], NEW sh, NEW th, Good(c, sh, X),
           th = [flakes |-> th.flakes, index |-> th.index],
           th.flakes = sh.flakes, th.index \in [X -> Int],
           \A y \in X : In(sh, y) => th.index[y] = sh.index[y] /\ d[y] = c[y]
    PROVE  Good(d, th, X) /\ \A y \in X : In(th, y) <=> In(sh, y)
<1> DEFINE n == Len(sh.flakes)
           f == sh.flakes
<1>1. n \in Nat /\ f \in [1..n -> X] /\ f \in Seq(X) /\ \A i \in 1..n : sh.index[f[i]] = i - 1
  BY HeapFields DEF Good, Heap
<1>2. \A i \in 1..n : f[i] \in X /\ In(sh, f[i])
  BY <1>1 DEF In
<1>3. \A y \in X : In(th, y) <=> In(sh, y)
  BY DEF In
<1>4. Heap(th, X)
  BY <1>1, <1>2 DEF Heap
<1>5. OrderedTo(d, th.flakes, n)
  <2>1. \A i \in 2..n : i \in 1..n /\ i \div 2 \in 1..n
    BY <1>1, Half
  <2> QED BY Zenon, <1>2, <2>1 DEF Good, OrderedTo
<1> QED BY <1>3, <1>4, <1>5 DEF Good

-----------------------------------------------------------------------------
(* Slices in no order: SnowflakeHeap.Remove leaves index fields and order as *)
(* they are.  What heap.Push and heap.Pop keep even then.                    *)

\* A slice of at most K different elements of X, whatever their index fields say.
Loose(sh, X, K) ==
    /\ sh = [flakes |-> sh.flakes, index |-> sh.index]
    /\ sh.flakes \in Seq(X) /\ sh.index \in [X -> -1..(K - 1)] /\ Len(sh.flakes) <= K
    /\ \A i, j \in 1..Len(sh.flakes) : sh.flakes[i] = sh.flakes[j] => i = j

\* th has the elements of sh, the ones from position m on where they were.
Shuffled(sh, th, m, X, K) ==
    /\ Loose(th, X, K) /\ Len(th.flakes) = Len(sh.flakes)
    /\ \A x \in X : In(th, x) <=> In(sh, x)
    /\ \A k \in 1..Len(sh.flakes) : k > m => th.flakes[k] = sh.flakes[k]

LEMMA LooseFields ==
    ASSUME NEW X, NEW K \in Nat, NEW sh, Loose(sh, X, K)
    PROVE  /\ Len(sh.flakes) \in Nat /\ sh.flakes \in [1..Len(sh.flakes) -> X]
           /\ Shuffled(sh, sh, 0, X, K)
<1>1. Len(sh.flakes) \in Nat /\ sh.flakes \in [1..Len(sh.flakes) -> X]
  BY DEF Loose
<1> QED BY <1>1 DEF Shuffled

LEMMA ShuffledTransitive ==
    ASSUME NEW X, NEW K, NEW sh, NEW th, NEW uh, NEW m, Shuffled(sh, th, m, X, K), Shuffled(th, uh, m, X, K)
    PROVE  Shuffled(sh, uh, m, X, K)
BY DEF Shuffled

(* Swap among the first m positions.                                       *)
LEMMA LooseSwap ==
    ASSUME NEW X, NEW K \in Nat, NEW sh, Loose(sh, X, K), NEW m \in Nat, m <= Len(sh.flakes),
           NEW i \in 1..m, NEW j \in 1..m
    PROVE  Shuffled(sh, Swap(sh, i, j), m, X, K) /\ Swap(sh, i, j).flakes[j] = sh.flakes[i]
<1> DEFINE n == Len(sh.flakes)
           f == sh.flakes
           g == [f EXCEPT ![i] = f[j], ![j] = f[i]]
           h == [sh.index EXCEPT ![g[i]] = i - 1, ![g[j]] = j - 1]
           th == Swap(sh, i, j)
<1>1. /\ n \in Nat /\ n <= K /\ i \in 1..n /\ j \in 1..n
      /\ f \in [1..n -> X] /\ sh.index \in [X -> -1..(K - 1)]
      /\ \A k, l \in 1..n : f[k] = f[l] => k = l
  <2>1. n \in Nat /\ f \in [1..n -> X]
    BY LooseFields
  <2>2. n <= K /\ sh.index \in [X -> -1..(K - 1)] /\ \A k, l \in 1..n : f[k] = f[l] => k = l
    BY DEF Loose
  <2> HIDE DEF f
  <2>3. i \in 1..n /\ j \in 1..n
    BY <2>1
  <2> QED BY <2>1, <2>2, <2>3
<1>2. th = [flakes |-> g, index |-> h]
  BY DEF Swap
<1> HIDE DEF f, n
<1>3. g \in [1..n -> X] /\ g[i] = f[j] /\ g[j] = f[i] /\ \A k \in 1..n : k # i /\ k # j => g[k] = f[k]
  <2>1. f \in [1..n -> X] /\ i \in 1..n /\ j \in 1..n /\ f[i] \in X /\ f[j] \in X
    BY <1>1
  <2> QED BY <2>1
<1> HIDE DEF g
<1>4. h \in [X -> -1..(K - 1)]
  <2>1. i - 1 \in -1..(K - 1) /\ j - 1 \in -1..(K - 1)
    BY <1>1
  <2>2. g[i] \in X /\ g[j] \in X
    BY <1>1, <1>3
  <2> QED BY <1>1, <2>1, <2>2
<1> HIDE DEF h, th
<1>5. th.flakes = g /\ th.index = h /\ th = [flakes |-> th.flakes, index |-> th.index]
  BY <1>2
<1>6. g \in Seq(X) /\ Len(g) = n
  BY <1>1, <1>3, IsSeq
<1>7. \A k, l \in 1..n : g[k] = g[l] => k = l
  <2> SUFFICES ASSUME NEW k \in 1..n, NEW l \in 1..n, g[k] = g[l] PROVE k = l
    OBVIOUS
  <2>1. g[k] = f[IF k = i THEN j ELSE IF k = j THEN i ELSE k]
    BY <1>3
  <2>2. g[l] = f[IF l = i THEN j ELSE IF l = j THEN i ELSE l]
    BY <1>3
  <2>3. (IF k = i THEN j ELSE IF k = j THEN i ELSE k) = IF l = i THEN j ELSE IF l = j THEN i ELSE l
    BY <1>1, <2>1, <2>2
  <2> QED BY <2>3
<1>8. Loose(th, X, K)
  BY <1>1, <1>4, <1>5, <1>6, <1>7 DEF Loose
<1>9. \A x \in X : In(th, x) <=> In(sh, x)
  <2>1. \A x \in X : In(th, x) <=> \E k \in 1..n : g[k] = x
    BY <1>5, <1>6 DEF In
  <2>2. \A x \in X : In(sh, x) <=> \E k \in 1..n : f[k] = x
    BY DEF In, f, n
  <2>3. i \in 1..n /\ j \in 1..n
    BY <1>1
  <2> QED BY <1>3, <2>1, <2>2, <2>3
<1>10. \A k \in 1..n : k > m => th.flakes[k] = f[k]
  <2>1. \A k \in 1..n : k > m => k # i /\ k # j
    BY <1>1
  <2> QED BY <1>3, <1>5, <2>1
<1> QED BY <1>3, <1>5, <1>6, <1>8, <1>9, <1>10 DEF Shuffled, th, f, n

(* up from the last position.                                              *)
LEMMA LooseUp ==
    ASSUME NEW X, NEW K \in Nat, NEW c, NEW sh, Loose(sh, X, K), NEW j \in 1..Len(sh.flakes)
    PROVE  Shuffled(sh, Up(c, sh, j), Len(sh.flakes), X, K)
<1> DEFINE n == Len(sh.flakes)
<1>0. n \in Nat /\ j \in 1..n
  BY LooseFields
<1>1. PICK r : UpRun(r, c, sh, j, n) /\ Up(c, sh, j) = r[n].sh
  BY <1>0, UpRuns
<1> DEFINE P(k) == Shuffled(sh, r[k].sh, n, X, K) /\ r[k].pos \in 1..n
           T == {k \in Nat : k <= n => P(k)}
<1>2. r[0].sh = sh /\ r[0].pos = j
  BY <1>0, <1>1 DEF UpRun
<1>3. \A k \in 0..n : k # 0 => r[k] = UpRound(c, r[k - 1])
  BY <1>0, <1>1 DEF UpRun
<1>4. P(0)
  BY <1>0, <1>2, LooseFields DEF Shuffled
<1>5. ASSUME NEW k \in Nat, k + 1 <= n, P(k) PROVE P(k + 1)
  <2> DEFINE s == r[k]
  <2>1. k + 1 \in 0..n /\ r[k + 1] = UpRound(c, s)
    BY <1>0, <1>3, <1>5
  <2>2. Shuffled(sh, s.sh, n, X, K) /\ s.pos \in 1..n
    BY <1>5
  <2> HIDE DEF s
  <2>3. CASE ~Rises(c, s)
    <3>1. r[k + 1] = s
      BY <2>1, <2>3 DEF UpRound, Rises
    <3> QED BY <2>2, <3>1
  <2>4. CASE Rises(c, s)
    <3>1. r[k + 1].sh = Swap(s.sh, s.pos, s.pos \div 2) /\ r[k + 1].pos = s.pos \div 2
      BY <2>1, <2>4 DEF UpRound, Rises
    <3>2. s.pos \div 2 \in 1..n /\ s.pos \in 1..n
      BY <1>0, <2>2, <2>4, Half DEF Rises
    <3>3. Loose(s.sh, X, K) /\ Len(s.sh.flakes) = n
      BY <2>2 DEF Shuffled
    <3> DEFINE p == s.pos
               q == s.pos \div 2
    <3> HIDE DEF p, q, n
    <3>4. Shuffled(s.sh, Swap(s.sh, p, q), n, X, K)
      <4>1. p \in 1..n /\ q \in 1..n /\ n \in Nat /\ n <= Len(s.sh.flakes)
        BY <1>0, <3>2, <3>3 DEF p, q
      <4> QED BY <3>3, <4>1, LooseSwap
    <3> QED BY <2>2, <3>1, <3>2, <3>4, ShuffledTransitive DEF p, q
  <2> QED BY <2>3, <2>4
<1>6. Nat \subseteq T
  <2> HIDE DEF P
  <2>1. 0 \in T /\ \A k \in Nat : k \in T => k + 1 \in T
    BY <1>0, <1>4, <1>5
  <2> HIDE DEF T
  <2> QED BY <2>1, SetInduction
<1> QED BY <1>0, <1>1, <1>6

(* down from position i within the first m.                                *)
LEMMA LooseDown ==
    ASSUME NEW X, NEW K \in Nat, NEW c, NEW sh, Loose(sh, X, K),
           NEW m \in Nat, m <= Len(sh.flakes), NEW i \in Nat, i >= 1
    PROVE  Shuffled(sh, Down(c, sh, i, m).sh, m, X, K)
<1>1. PICK r : DownRun(r, c, sh, i, m, m) /\ Down(c, sh, i, m) = r[m]
  BY DownRuns
<1> DEFINE P(k) == Shuffled(sh, r[k].sh, m, X, K) /\ r[k].pos \in Nat /\ r[k].pos >= 1
           T == {k \in Nat : k <= m => P(k)}
<1>2. r[0].sh = sh /\ r[0].pos = i
  BY <1>1 DEF DownRun
<1>3. \A k \in 0..m : k # 0 => r[k] = DownRound(c, m, r[k - 1])
  BY <1>1 DEF DownRun
<1>4. P(0)
  BY <1>2, LooseFields DEF Shuffled
<1>5. ASSUME NEW k \in Nat, k + 1 <= m, P(k) PROVE P(k + 1)
  <2> DEFINE s == r[k]
  <2>1. k + 1 \in 0..m /\ r[k + 1] = DownRound(c, m, s)
    BY <1>3, <1>5
  <2>2. Shuffled(sh, s.sh, m, X, K) /\ s.pos \in Nat /\ s.pos >= 1
    BY <1>5
  <2> HIDE DEF s
  <2>3. CASE ~Falls(c, m, s)
    <3>1. r[k + 1] = s
      BY <2>1, <2>3 DEF DownRound, Falls, Child
    <3> QED BY <2>2, <3>1
  <2>4. CASE Falls(c, m, s)
    <3> DEFINE p == s.pos
               q == Child(c, m, s)
    <3>1. r[k + 1].sh = Swap(s.sh, p, q) /\ r[k + 1].pos = q
      BY <2>1, <2>4 DEF DownRound, Falls, Child
    <3>2. p \in 1..m /\ q \in 1..m
      BY <2>2, <2>4 DEF Falls, Child
    <3>3. Loose(s.sh, X, K) /\ m <= Len(s.sh.flakes)
      BY <2>2 DEF Shuffled
    <3> HIDE DEF p, q
    <3>4. Shuffled(s.sh, Swap(s.sh, p, q), m, X, K)
      BY <3>2, <3>3, LooseSwap
    <3> QED BY <2>2, <3>1, <3>2, <3>4, ShuffledTransitive
  <2> QED BY <2>3, <2>4
<1>6. Nat \subseteq T
  <2> HIDE DEF P
  <2>1. 0 \in T /\ \A k \in Nat : k \in T => k + 1 \in T
    BY <1>4, <1>5
  <2> HIDE DEF T
  <2> QED BY <2>1, SetInduction
<1> QED BY <1>1, <1>6

(* heap.Push of a new element.                                             *)
LEMMA LoosePush ==
    ASSUME NEW X, NEW K \in Nat, NEW c, NEW sh, Loose(sh, X, K), Len(sh.flakes) < K,
           NEW x \in X, ~In(sh, x)
    PROVE  /\ Loose(HeapPush(c, sh, x), X, K)
           /\ \A y \in X : In(HeapPush(c, sh, x), y) <=> In(sh, y) \/ y = x
<1> DEFINE n == Len(sh.flakes)
           f == sh.flakes
           g == Append(f, x)
           h == [sh.index EXCEPT ![x] = n]
           uh == PushLast(sh, x)
<1>1. /\ n \in Nat /\ n < K /\ f \in Seq(X) /\ f \in [1..n -> X] /\ sh.index \in [X -> -1..(K - 1)]
      /\ \A k, l \in 1..n : f[k] = f[l] => k = l
  BY LooseFields DEF Loose
<1>2. uh = [flakes |-> g, index |-> h]
  BY DEF PushLast
<1>3. g \in Seq(X) /\ Len(g) = n + 1 /\ g[n + 1] = x /\ \A i \in 1..n : g[i] = f[i]
  BY <1>1
<1>4. h \in [X -> -1..(K - 1)]
  <2>1. n \in -1..(K - 1)
    BY <1>1
  <2> HIDE DEF n
  <2> QED BY <1>1, <2>1
<1>5. \A k \in 1..n : f[k] # x
  BY DEF In
<1> HIDE DEF g, h, uh
<1>6. uh.flakes = g /\ uh.index = h /\ uh = [flakes |-> uh.flakes, index |-> uh.index]
  BY <1>2
<1> HIDE DEF f, n
<1>7. 1..(n + 1) = (1..n) \cup {n + 1} /\ n + 1 <= K /\ n + 1 \in Nat
  BY <1>1
<1>8. \A k, l \in 1..(n + 1) : g[k] = g[l] => k = l
  BY <1>1, <1>3, <1>5, <1>7
<1>9. Loose(uh, X, K)
  BY <1>3, <1>4, <1>6, <1>7, <1>8 DEF Loose
<1>10. \A y \in X : In(uh, y) <=> In(sh, y) \/ y = x
  <2>1. \A y \in X : In(uh, y) <=> \E k \in 1..(n + 1) : g[k] = y
    BY <1>3, <1>6 DEF In
  <2>2. \A y \in X : In(sh, y) <=> \E k \in 1..n : f[k] = y
    BY DEF In, f, n
  <2> QED BY <1>3, <1>7, <2>1, <2>2
<1>11. HeapPush(c, sh, x) = Up(c, uh, n + 1)
  BY DEF HeapPush, n, uh
<1>12. Shuffled(uh, Up(c, uh, n + 1), Len(uh.flakes), X, K)
  <2> DEFINE j == n + 1
  <2>1. j \in 1..Len(uh.flakes)
    BY <1>3, <1>6, <1>7
  <2> HIDE DEF j
  <2>2. Shuffled(uh, Up(c, uh, j), Len(uh.flakes), X, K)
    BY <1>9, <2>1, LooseUp
  <2> QED BY <2>2 DEF j
<1> QED BY <1>10, <1>11, <1>12 DEF Shuffled

(* heap.Pop takes the first element.                                       *)
LEMMA LoosePop ==
    ASSUME NEW X, NEW K \in Nat, NEW c, NEW sh, Loose(sh, X, K), sh.flakes # <<>>
    PROVE  /\ Loose(HeapPop(c, sh), X, K) /\ Len(HeapPop(c, sh).flakes) = Len(sh.flakes) - 1
           /\ Head(sh.flakes) = sh.flakes[1] /\ 1 \in 1..Len(sh.flakes)
           /\ \A y \in X : In(HeapPop(c, sh), y) <=> In(sh, y) /\ y # Head(sh.flakes)
<1> DEFINE n == Len(sh.flakes)
           gh == Swap(sh, 1, n)
           m == n - 1
           dh == Down(c, gh, 1, m).sh
           x == sh.flakes[1]
<1>0. n \in Nat /\ n > 0 /\ 1 \in 1..n /\ n \in 1..n /\ n <= K /\ Head(sh.flakes) = x /\ x \in X
  <2>1. sh.flakes \in Seq(X) /\ Len(sh.flakes) <= K
    BY DEF Loose
  <2>2. n \in Nat /\ n > 0
    BY <2>1
  <2> QED BY <2>1, <2>2
<1>1. Shuffled(sh, gh, n, X, K) /\ gh.flakes[n] = x
  <2>1. n <= Len(sh.flakes)
    BY <1>0
  <2> HIDE DEF n
  <2> QED BY <1>0, <2>1, LooseSwap
<1>2. Loose(gh, X, K) /\ Len(gh.flakes) = n /\ m \in Nat /\ m <= n
  BY <1>0, <1>1 DEF Shuffled
<1>3. HeapPop(c, sh) = PopLast(dh)
  BY DEF HeapPop
<1> HIDE DEF gh, m, n, x
<1>4. Shuffled(gh, dh, m, X, K)
  <2>1. 1 \in Nat /\ 1 >= 1
    OBVIOUS
  <2> QED BY <1>2, <2>1, LooseDown
<1> HIDE DEF dh
<1> DEFINE f == dh.flakes
           g == Front(f)
           h == [dh.index EXCEPT ![Last(f)] = -1]
           th == PopLast(dh)
<1>5. /\ f \in Seq(X) /\ f \in [1..n -> X] /\ Len(f) = n /\ dh.index \in [X -> -1..(K - 1)]
      /\ \A k, l \in 1..n : f[k] = f[l] => k = l
  BY <1>2, <1>4, LooseFields DEF Shuffled, Loose
<1>6. f[n] = x
  <2>1. n > m
    BY <1>0 DEF m
  <2> QED BY <1>0, <1>1, <1>2, <1>4, <2>1 DEF Shuffled
<1>7. Last(f) = x
  BY <1>5, <1>6 DEF Last
<1>8. g \in Seq(X) /\ Len(g) = m /\ \A i \in 1..m : g[i] = f[i]
  BY <1>0, <1>5 DEF Front, m
<1>9. h \in [X -> -1..(K - 1)]
  <2>1. -1 \in -1..(K - 1)
    BY <1>0
  <2> QED BY <1>0, <1>5, <1>7, <2>1
<1>10. th.flakes = g /\ th.index = h /\ th = [flakes |-> th.flakes, index |-> th.index]
  BY DEF PopLast
<1>11. m <= K /\ 1..n = (1..m) \cup {n} /\ n \notin 1..m
  BY <1>0 DEF m
<1> HIDE DEF f, g, h, th
<1>12. Loose(th, X, K)
  <2>1. \A k, l \in 1..m : g[k] = g[l] => k = l
    BY <1>5, <1>8, <1>11
  <2> QED BY <1>8, <1>9, <1>10, <1>11, <2>1 DEF Loose
<1>13. \A y \in X : In(th, y) <=> In(sh, y) /\ y # x
  <2>1. \A y \in X : In(th, y) <=> \E k \in 1..m : g[k] = y
    BY <1>8, <1>10 DEF In
  <2>2. \A y \in X : In(dh, y) <=> \E k \in 1..n : f[k] = y
    BY <1>5 DEF In, f
  <2>3. \A y \in X : In(dh, y) <=> In(sh, y)
    BY <1>1, <1>4 DEF Shuffled
  <2>4. \A k \in 1..m : g[k] = f[k] /\ k \in 1..n /\ n \in 1..n /\ f[k] # x
    BY <1>0, <1>5, <1>6, <1>8, <1>11
  <2>5. \A y \in X : (\E k \in 1..m : g[k] = y) <=> (\E k \in 1..n : f[k] = y) /\ y # x
    BY <1>6, <1>11, <2>4
  <2> QED BY <2>1, <2>2, <2>3, <2>5
<1> QED BY <1>0, <1>3, <1>8, <1>10, <1>12, <1>13 DEF th, m, n, x

(* SnowflakeHeap.Remove takes the element out, if it is there.             *)
LEMMA LooseRemove ==
    ASSUME NEW X, NEW K \in Nat, NEW sh, Loose(sh, X, K), NEW x
    PROVE  /\ Loose(SliceRemove(sh, x), X, K) /\ SliceRemove(sh, x).index = sh.index
           /\ \A y \in X : In(SliceRemove(sh, x), y) <=> In(sh, y) /\ y # x
<1> DEFINE n == Len(sh.flakes)
           f == sh.flakes
           g == RemoveFirst(f, x)
           th == SliceRemove(sh, x)
<1>1. /\ n \in Nat /\ n <= K /\ f \in Seq(X) /\ f \in [1..n -> X] /\ sh.index \in [X -> -1..(K - 1)]
      /\ \A k, l \in 1..n : f[k] = f[l] => k = l
  BY LooseFields DEF Loose
<1>2. th = [flakes |-> g, index |-> sh.index]
  BY DEF SliceRemove, Loose
<1>3. th.flakes = g /\ th.index = sh.index /\ th = [flakes |-> th.flakes, index |-> th.index]
  BY <1>2
<1>4. \A y \in X : In(sh, y) <=> \E k \in 1..n : f[k] = y
  BY DEF In
<1>5. CASE ~\E i \in 1..n : f[i] = x
  <2>1. g = f
    BY <1>5 DEF RemoveFirst
  <2> QED BY <1>1, <1>3, <1>4, <1>5, <2>1 DEF Loose, In
<1>6. CASE \E i \in 1..n : f[i] = x
  <2> DEFINE I == {i \in 1..n : f[i] = x}
             j == Min(I)
  <2>1. I # {} /\ I \subseteq Nat
    BY <1>1, <1>6
  <2>2. j \in I
    <3>1. \E i \in I : \A k \in I : i <= k
      BY <2>1, Least
    <3> HIDE DEF I
    <3> QED BY <3>1 DEF Min
  <2>3. j \in 1..n /\ f[j] = x
    BY <2>2
  <2>4. SelectInSeq(f, LAMBDA v : v = x) = j
    BY <2>1 DEF SelectInSeq
  <2> HIDE DEF j
  <2>5. g = SubSeq(f, 1, j - 1) \o SubSeq(f, j + 1, n)
    BY <1>6, <2>4 DEF RemoveFirst, RemoveAt
  <2> HIDE DEF f, n, g
  <2>6. /\ g \in Seq(X) /\ Len(g) = n - 1
        /\ \A k \in 1..(n - 1) : g[k] = IF k < j THEN f[k] ELSE f[k + 1]
    <3> DEFINE a == SubSeq(f, 1, j - 1)
               b == SubSeq(f, j + 1, n)
    <3>1. j \in Nat /\ 1 <= j /\ j <= n /\ n \in Nat /\ f \in Seq(X) /\ Len(f) = n
      BY <1>1, <2>3 DEF f, n
    <3>2. a \in Seq(X) /\ Len(a) = j - 1 /\ \A k \in 1..(j - 1) : a[k] = f[k]
      BY <3>1
    <3>3. b \in Seq(X) /\ Len(b) = n - j /\ \A k \in 1..(n - j) : b[k] = f[k + j]
      BY <3>1
    <3>4. g = a \o b
      BY <2>5
    <3> HIDE DEF a, b
    <3>5. /\ g \in Seq(X) /\ Len(g) = n - 1
          /\ \A k \in 1..(n - 1) : g[k] = IF k <= Len(a) THEN a[k] ELSE b[k - Len(a)]
      BY <3>1, <3>2, <3>3, <3>4
    <3>6. ASSUME NEW k \in 1..(n - 1) PROVE g[k] = IF k < j THEN f[k] ELSE f[k + 1]
      <4>1. CASE k < j
        <5>1. k \in 1..(j - 1)
          BY <3>1, <4>1
        <5> QED BY <3>2, <3>5, <4>1, <5>1
      <4>2. CASE ~(k < j)
        <5>1. k - (j - 1) \in 1..(n - j) /\ (k - (j - 1)) + j = k + 1 /\ ~(k <= j - 1)
          BY <3>1, <4>2
        <5> QED BY <3>2, <3>3, <3>5, <4>2, <5>1
      <4> QED BY <4>1, <4>2
    <3> QED BY <3>5, <3>6
  <2>7. \A k \in 1..(n - 1) : k \in 1..n /\ k + 1 \in 1..n
    BY <1>1
  <2>8. \A k, l \in 1..(n - 1) : g[k] = g[l] => k = l
    <3> SUFFICES ASSUME NEW k \in 1..(n - 1), NEW l \in 1..(n - 1), g[k] = g[l] PROVE k = l
      OBVIOUS
    <3>1. /\ k \in 1..n /\ k + 1 \in 1..n /\ l \in 1..n /\ l + 1 \in 1..n
          /\ \A p, q \in 1..n : f[p] = f[q] => p = q
      BY <1>1, <2>7
    <3>2. j \in Int /\ k \in Int /\ l \in Int
      BY <1>1, <2>3
    <3>3. g[k] = (IF k < j THEN f[k] ELSE f[k + 1]) /\ g[l] = IF l < j THEN f[l] ELSE f[l + 1]
      BY <2>6
    <3>4. CASE k < j /\ l < j
      BY <3>1, <3>3, <3>4
    <3>5. CASE ~(k < j) /\ ~(l < j)
      <4>1. k + 1 = l + 1
        BY <3>1, <3>3, <3>5
      <4> QED BY <3>2, <4>1
    <3>6. CASE k < j /\ ~(l < j)
      <4>1. k = l + 1
        BY <3>1, <3>3, <3>6
      <4> QED BY <3>2, <3>6, <4>1
    <3>7. CASE ~(k < j) /\ l < j
      <4>1. k + 1 = l
        BY <3>1, <3>3, <3>7
      <4> QED BY <3>2, <3>7, <4>1
    <3> QED BY <3>4, <3>5, <3>6, <3>7
  <2>9. Loose(th, X, K)
    BY <1>1, <1>3, <2>6, <2>8 DEF Loose
  <2>10. \A y \in X : (\E k \in 1..(n - 1) : g[k] = y) <=> (\E k \in 1..n : f[k] = y) /\ y # x
    <3>1. ASSUME NEW k \in 1..(n - 1) PROVE g[k] # x /\ \E l \in 1..n : f[l] = g[k]
      <4>1. k \in 1..n /\ k + 1 \in 1..n /\ j \in 1..n /\ f[j] = x
        BY <2>3, <2>7
      <4>2. k \in Int /\ j \in Int
        BY <1>1, <2>3
      <4>3. CASE k < j
        <5>1. g[k] = f[k] /\ k # j
          BY <2>6, <4>2, <4>3
        <5> QED BY <1>1, <4>1, <5>1
      <4>4. CASE ~(k < j)
        <5>1. g[k] = f[k + 1] /\ k + 1 # j
          BY <2>6, <4>2, <4>4
        <5> QED BY <1>1, <4>1, <5>1
      <4> QED BY <4>3, <4>4
    <3>2. ASSUME NEW k \in 1..n, f[k] # x PROVE \E l \in 1..(n - 1) : g[l] = f[k]
      <4>1. CASE k < j
        <5>1. k \in 1..(n - 1)
          BY <1>1, <2>3, <4>1
        <5> QED BY <2>6, <4>1, <5>1
      <4>2. CASE k > j
        <5>1. k - 1 \in 1..(n - 1) /\ ~(k - 1 < j) /\ (k - 1) + 1 = k
          BY <1>1, <2>3, <4>2
        <5> QED BY <2>6, <5>1
      <4>3. k # j
        BY <2>3, <3>2
      <4> QED BY <1>1, <2>3, <4>1, <4>2, <4>3
    <3> QED BY <3>1, <3>2
  <2>11. \A y \in X : In(th, y) <=> \E k \in 1..(n - 1) : g[k] = y
    BY <1>3, <2>6 DEF In
  <2> QED BY <1>3, <1>4, <2>9, <2>10, <2>11
<1> QED BY <1>5, <1>6
=============================================================================
