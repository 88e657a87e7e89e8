---------------------------- MODULE BrokerProofs ----------------------------
(***************************************************************************)
(* The broker's handlers (iceball/broker/ipc.go), for any number of         *)
(* proxies, clients, concurrent handlers and restarts.  First the migration *)
(* of Rescale: walking a live slice by index reaches every client that was  *)
(* listed, as long as notices only add to that slice, however their reads,  *)
(* edits and stores interleave; any match will do for that.  Then the pool  *)
(* and its index by address: types, and what Rescale removes.               *)
(***************************************************************************)
EXTENDS Broker, HeapProofs, FiniteSetTheorems

-----------------------------------------------------------------------------
(* The inductive invariant                                                 *)

Looping == {"loop", "index", "match", "post"}
Walking == {"drop", "clear"} \cup Looping

\* The maps in their types: Cid2Client leads to a struct of the client.
MapsSound ==
    /\ structs \in Seq(Cids)
    /\ Cid2Client \in [Cids -> 0..Len(structs)]
    /\ \A c \in Cids : Cid2Client[c] # NoClient => structs[Cid2Client[c]] = c
    /\ connected \subseteq Cids \X IPs

\* The header h lies within its array among ar.
Header(ar, h) ==
    /\ h = [arr |-> h.arr, len |-> h.len]
    /\ h.arr \in 0..Len(ar) /\ h.len \in Nat
    /\ IF h.arr = 0 THEN h.len = 0 ELSE h.len <= Len(ar[h.arr])

\* The arrays under the slices and the headers in the map.
ArraysSound ==
    /\ arrays \in Seq(Seq(0..Len(structs)))
    /\ Proxy2Client = [p \in IPs |-> Proxy2Client[p]]
    /\ \A p \in IPs : Header(arrays, Proxy2Client[p])

NoticeRecord(n) ==
    [pc : {"idle", "add", "delete", "read", "append", "find", "shift", "store", "print"},
     cid : Cids \cup {NoCid}, ip : IPs \cup {NoIP}, client : 0..n, hand : [arr : Nat, len : Nat], idx : Nat]

NoticeSound(x, ar, n) ==
    /\ x \in NoticeRecord(n) /\ Header(ar, x.hand)
    /\ x.pc \notin {"idle", "print"} => x.ip \in IPs
    /\ x.pc \in {"add", "delete"} => x.cid \in Cids
    /\ x.pc = "shift" => x.idx >= 1

NoticesSound ==
    /\ notice = [n \in Notices |-> notice[n]]
    /\ \A n \in Notices : NoticeSound(notice[n], arrays, Len(structs))

OfferSound(o) ==
    /\ o = [pc |-> o.pc, cid |-> o.cid, flake |-> o.flake]
    /\ o.pc # "idle" => o.cid \in Cids

OffersSound == offer = [h \in Offers |-> offer[h]] /\ \A h \in Offers : OfferSound(offer[h])

RescaleShaped(s) ==
    s = [pc |-> s.pc, old |-> s.old, k |-> s.k, idx |-> s.idx, cid |-> s.cid, flake |-> s.flake,
         posted |-> s.posted, listed |-> s.listed, moved |-> s.moved]

RescaleTyped(s) ==
    /\ RescaleShaped(s)
    /\ s.pc \in Walking \cup {"idle", "done", "failed", "panicked"}
    /\ s.old \in Seq(IPs) /\ s.k \in Nat /\ s.idx \in Nat
    /\ s.listed \subseteq Cids \X IPs
    /\ s.pc \in Walking => s.k \in 1..Len(s.old)
    /\ s.pc \in Looping => s.idx >= 1

\* With the slices f and the structs g: the slice of p points to client c at
\* position n or later.
Slot(f, g, p, c, n) == \E i \in n..Len(f[p]) : f[p][i] \in 1..Len(g) /\ g[f[p][i]] = c

\* A client of the rescale s with no transfer posted yet lies ahead of the walk.
Owed(f, g, s, l) ==
    /\ \E j \in s.k..Len(s.old) : s.old[j] = l[2]
    /\ Slot(f, g, l[2], l[1], 1)
    /\ l[2] = s.old[s.k] => s.pc # "clear"
    /\ l[2] = s.old[s.k] /\ s.pc \in Looping => Slot(f, g, l[2], l[1], s.idx)

\* The client read in this round is at idx still.
AtIdx(f, g, s) ==
    /\ s.idx <= Len(f[s.old[s.k]]) /\ f[s.old[s.k]][s.idx] \in 1..Len(g)
    /\ g[f[s.old[s.k]][s.idx]] = s.cid

\* Nothing is promised of a slice that was moved.
Walk(f, g, s) ==
    /\ s.pc = "done" => \A l \in s.listed : l \in s.posted \/ l[2] \in s.moved
    /\ s.pc \in Walking => \A l \in s.listed : l \in s.posted \/ l[2] \in s.moved \/ Owed(f, g, s, l)
    /\ s.pc \in {"match", "post"} /\ s.old[s.k] \notin s.moved => AtIdx(f, g, s)

Slices == [p \in IPs |-> Shown(p)]

RescalesSound ==
    /\ rescale = [r \in Rescalers |-> rescale[r]]
    /\ \A r \in Rescalers : RescaleTyped(rescale[r]) /\ Walk(Slices, structs, rescale[r])

BrokerInv == MapsSound /\ ArraysSound /\ NoticesSound /\ OffersSound /\ RescalesSound

-----------------------------------------------------------------------------
(* The walk                                                                *)

\* u is t with more at its end.
Extends(t, u) == Len(t) \in Nat /\ Len(u) \in Nat /\ Len(t) <= Len(u) /\ \A i \in 1..Len(t) : u[i] = t[i]

(* Structs and slices that only grow leave a walk as it is.                *)
LEMMA WalkGrows ==
    ASSUME NEW f, NEW g, NEW h, NEW e, NEW s, RescaleTyped(s), Walk(f, g, s), Extends(g, e),
           \A j \in 1..Len(s.old) : s.old[j] \in s.moved \/ Extends(f[s.old[j]], h[s.old[j]])
    PROVE  Walk(h, e, s)
<1>1. \A i \in 1..Len(g) : i \in 1..Len(e) /\ e[i] = g[i]
  BY DEF Extends
<1>2. ASSUME NEW p, Extends(f[p], h[p]), NEW c, NEW n \in Nat, n >= 1, Slot(f, g, p, c, n) PROVE Slot(h, e, p, c, n)
  <2>1. PICK i \in n..Len(f[p]) : f[p][i] \in 1..Len(g) /\ g[f[p][i]] = c
    BY <1>2 DEF Slot
  <2>2. i \in 1..Len(f[p]) /\ i \in n..Len(h[p])
    BY <1>2 DEF Extends
  <2>3. h[p][i] = f[p][i]
    BY <1>2, <2>2 DEF Extends
  <2> QED BY <1>1, <2>1, <2>2, <2>3 DEF Slot
<1>3. ASSUME s.pc \in Walking, NEW l \in s.listed, l[2] \notin s.moved, Owed(f, g, s, l) PROVE Owed(h, e, s, l)
  <2>1. PICK j \in s.k..Len(s.old) : s.old[j] = l[2]
    BY <1>3 DEF Owed
  <2>2. j \in 1..Len(s.old)
    BY <1>3 DEF RescaleTyped
  <2>3. Extends(f[l[2]], h[l[2]])
    BY <1>3, <2>1, <2>2
  <2>4. Slot(h, e, l[2], l[1], 1)
    BY <1>2, <1>3, <2>3 DEF Owed
  <2>5. l[2] = s.old[s.k] /\ s.pc \in Looping => Slot(h, e, l[2], l[1], s.idx)
    BY <1>2, <1>3, <2>3 DEF Owed, RescaleTyped
  <2> QED BY <1>3, <2>4, <2>5 DEF Owed
<1>4. ASSUME s.pc \in {"match", "post"}, s.old[s.k] \notin s.moved PROVE AtIdx(h, e, s)
  <2> DEFINE p == s.old[s.k]
  <2>1. AtIdx(f, g, s) /\ s.idx \in Nat /\ s.idx >= 1 /\ Extends(f[p], h[p])
    BY <1>4 DEF Walk, RescaleTyped, Walking, Looping
  <2>2. s.idx \in 1..Len(f[p]) /\ s.idx <= Len(h[p])
    <3>1. s.idx <= Len(f[p])
      BY <2>1 DEF AtIdx
    <3>2. Len(f[p]) \in Nat /\ Len(h[p]) \in Nat /\ Len(f[p]) <= Len(h[p])
      BY <2>1 DEF Extends
    <3>3. \A i, m, n \in Nat : i >= 1 /\ i <= m /\ m <= n => i \in 1..m /\ i <= n
      OBVIOUS
    <3> QED BY <2>1, <3>1, <3>2, <3>3
  <2>3. h[p][s.idx] = f[p][s.idx]
    BY <2>1, <2>2 DEF Extends
  <2> QED BY <1>1, <2>1, <2>2, <2>3 DEF AtIdx
<1> QED BY <1>3, <1>4 DEF Walk

(* One round of the inner loop: the client at idx is posted a transfer.    *)
LEMMA WalkTransfers ==
    ASSUME NEW f, NEW g, NEW s, NEW t, RescaleTyped(s), RescaleTyped(t), Walk(f, g, s), s.pc = "post",
           t.pc = "loop", t.idx = s.idx + 1, t.posted = s.posted \cup {<<s.cid, s.old[s.k]>>},
           t.old = s.old, t.k = s.k, t.listed = s.listed, t.moved = s.moved
    PROVE  Walk(f, g, t)
<1> SUFFICES ASSUME NEW l \in t.listed, l \notin t.posted, l[2] \notin t.moved PROVE Owed(f, g, t, l)
  BY DEF Walk
<1>1. Owed(f, g, s, l) /\ l = <<l[1], l[2]>>
  BY DEF Walk, Walking, Looping, RescaleTyped
<1>2. ASSUME l[2] = s.old[s.k] PROVE Slot(f, g, l[2], l[1], t.idx)
  <2>0. AtIdx(f, g, s)
    BY <1>2 DEF Walk
  <2>1. PICK i \in (s.idx)..Len(f[l[2]]) : f[l[2]][i] \in 1..Len(g) /\ g[f[l[2]][i]] = l[1]
    BY <1>1, <1>2 DEF Owed, Slot, Looping
  <2>2. i # s.idx
    BY <1>1, <1>2, <2>0, <2>1 DEF AtIdx
  <2>3. i \in (t.idx)..Len(f[l[2]])
    BY <2>1, <2>2 DEF RescaleTyped
  <2> QED BY Zenon, <2>1, <2>3 DEF Slot
<1> QED BY <1>1, <1>2 DEF Owed

(* The end of the slice of the old proxy: all of its clients were posted.  *)
LEMMA WalkEndsSlice ==
    ASSUME NEW f, NEW g, NEW s, NEW t, RescaleTyped(s), Walk(f, g, s), s.pc = "loop",
           Len(f[s.old[s.k]]) \in Nat, s.idx > Len(f[s.old[s.k]]),
           t.pc = "clear", t.posted = s.posted, t.old = s.old, t.k = s.k, t.listed = s.listed, t.moved = s.moved
    PROVE  Walk(f, g, t)
<1> SUFFICES ASSUME NEW l \in t.listed, l \notin t.posted, l[2] \notin t.moved PROVE Owed(f, g, t, l)
  BY DEF Walk
<1>1. Owed(f, g, s, l)
  BY DEF Walk, Walking, Looping
<1>2. l[2] # s.old[s.k]
  <2>1. s.idx \in Nat
    BY DEF RescaleTyped
  <2>2. \A i \in (s.idx)..Len(f[s.old[s.k]]) : FALSE
    BY <2>1
  <2> QED BY <1>1, <2>2 DEF Owed, Slot, Looping
<1> QED BY <1>1, <1>2 DEF Owed

(* The next old proxy, or the end: only clients of later proxies are owed. *)
LEMMA WalkClears ==
    ASSUME NEW f, NEW g, NEW h, NEW s, NEW t, RescaleTyped(s), Walk(f, g, s), s.pc = "clear",
           \A j \in 1..Len(s.old) : s.old[j] # s.old[s.k] => h[s.old[j]] = f[s.old[j]],
           t.pc = IF s.k < Len(s.old) THEN "drop" ELSE "done", t.k = s.k + 1,
           t.posted = s.posted, t.old = s.old, t.listed = s.listed, t.moved = s.moved
    PROVE  Walk(h, g, t)
<1>1. s.k \in 1..Len(s.old) /\ s.k \in Nat /\ Len(s.old) \in Nat
  BY DEF RescaleTyped, Walking
<1>2. ASSUME NEW l \in s.listed, l \notin s.posted, l[2] \notin s.moved
      PROVE  /\ s.k < Len(s.old) /\ Slot(h, g, l[2], l[1], 1)
             /\ \E j \in (s.k + 1)..Len(s.old) : s.old[j] = l[2]
  <2>1. Owed(f, g, s, l)
    BY <1>2 DEF Walk, Walking
  <2>2. PICK j \in (s.k)..Len(s.old) : s.old[j] = l[2]
    BY <2>1 DEF Owed
  <2>3. l[2] # s.old[s.k]
    BY <2>1 DEF Owed
  <2>4. j \in (s.k + 1)..Len(s.old) /\ s.k < Len(s.old) /\ j \in 1..Len(s.old)
    <3>1. j # s.k
      BY <2>2, <2>3
    <3> QED BY <1>1, <2>2, <3>1
  <2>5. h[l[2]] = f[l[2]]
    BY <2>2, <2>3, <2>4
  <2>6. Slot(h, g, l[2], l[1], 1)
    BY <2>1, <2>5 DEF Owed, Slot
  <2> QED BY <2>2, <2>4, <2>6
<1>3. CASE s.k < Len(s.old)
  BY <1>2, <1>3 DEF Walk, Owed, Walking, Looping
<1>4. CASE ~(s.k < Len(s.old))
  BY <1>2, <1>4 DEF Walk, Walking, Looping
<1> QED BY <1>3, <1>4

(* The ghosts: a client less is owed, and a walk along a slice that was    *)
(* edited promises nothing.                                                *)
LEMMA UnlistOK ==
    ASSUME NEW f, NEW g, NEW s, NEW l, RescaleTyped(s), Walk(f, g, s)
    PROVE  RescaleTyped(Unlist(s, l)) /\ Walk(f, g, Unlist(s, l))
<1> DEFINE t == Unlist(s, l)
<1>1. t = [pc |-> s.pc, old |-> s.old, k |-> s.k, idx |-> s.idx, cid |-> s.cid, flake |-> s.flake,
           posted |-> s.posted, listed |-> s.listed \ {l}, moved |-> s.moved]
  <2>1. RescaleShaped(s)
    BY DEF RescaleTyped
  <2> QED BY <2>1 DEF RescaleShaped, Unlist
<1> HIDE DEF t
<1>2. /\ t.pc = s.pc /\ t.old = s.old /\ t.k = s.k /\ t.idx = s.idx /\ t.cid = s.cid /\ t.flake = s.flake
      /\ t.posted = s.posted /\ t.listed = s.listed \ {l} /\ t.moved = s.moved
  BY <1>1
<1>3. RescaleTyped(t)
  <2>1. RescaleShaped(t)
    BY <1>1, <1>2 DEF RescaleShaped
  <2> QED BY <1>2, <2>1 DEF RescaleTyped
<1>4. \A m : Owed(f, g, s, m) => Owed(f, g, t, m)
  BY <1>2 DEF Owed
<1>5. AtIdx(f, g, s) => AtIdx(f, g, t)
  BY <1>2 DEF AtIdx
<1>6. Walk(f, g, t)
  BY <1>2, <1>4, <1>5 DEF Walk
<1> QED BY <1>3, <1>6 DEF t

LEMMA MovedOK ==
    ASSUME NEW f, NEW g, NEW h, NEW s, NEW ps, RescaleTyped(s), Walk(f, g, s), g \in Seq(Cids),
           \A p \in IPs : p \in ps \/ Extends(f[p], h[p])
    PROVE  RescaleTyped(Moved(s, ps)) /\ Walk(h, g, Moved(s, ps))
<1> DEFINE t == Moved(s, ps)
           m == s.moved \cup (ps \cap ToSet(s.old))
<1>1. t = [pc |-> s.pc, old |-> s.old, k |-> s.k, idx |-> s.idx, cid |-> s.cid, flake |-> s.flake,
           posted |-> s.posted, listed |-> s.listed, moved |-> m]
  <2>1. RescaleShaped(s) /\ t = [s EXCEPT !.moved = m]
    BY DEF RescaleTyped, Moved
  <2> HIDE DEF m, t
  <2> QED BY <2>1 DEF RescaleShaped
<1> HIDE DEF t
<1>2. /\ t.pc = s.pc /\ t.old = s.old /\ t.k = s.k /\ t.idx = s.idx /\ t.cid = s.cid /\ t.flake = s.flake
      /\ t.posted = s.posted /\ t.listed = s.listed /\ t.moved = m
  BY <1>1
<1>3. RescaleTyped(t)
  <2>1. RescaleShaped(t)
    BY <1>1, <1>2 DEF RescaleShaped
  <2> QED BY <1>2, <2>1 DEF RescaleTyped
<1>4. Walk(f, g, t)
  <2>1. \A l : Owed(f, g, s, l) => Owed(f, g, t, l)
    BY <1>2 DEF Owed
  <2>2. AtIdx(f, g, s) => AtIdx(f, g, t)
    BY <1>2 DEF AtIdx
  <2> QED BY <1>2, <2>1, <2>2 DEF Walk
<1>5. \A j \in 1..Len(t.old) : t.old[j] \in t.moved \/ Extends(f[t.old[j]], h[t.old[j]])
  <2>1. \A j \in 1..Len(s.old) : s.old[j] \in IPs /\ s.old[j] \in ToSet(s.old)
    BY DEF RescaleTyped, ToSet
  <2> QED BY <1>2, <2>1
<1>6. Extends(g, g)
  BY DEF Extends
<1>7. Walk(h, g, t)
  BY <1>3, <1>4, <1>5, <1>6, WalkGrows
<1> QED BY <1>3, <1>7 DEF t

-----------------------------------------------------------------------------
(* The slices                                                              *)

\* Arrays are added, and none changes its size.
Roomy(ar, br) ==
    /\ Len(ar) \in Nat /\ Len(br) \in Nat /\ Len(ar) <= Len(br)
    /\ \A i \in 1..Len(ar) : Len(br[i]) = Len(ar[i])

LEMMA HeaderStays ==
    ASSUME NEW ar, NEW br, NEW h, Header(ar, h), Roomy(ar, br)
    PROVE  Header(br, h)
<1>1. h.arr \in 0..Len(ar) /\ Len(ar) \in Nat /\ Len(br) \in Nat /\ Len(ar) <= Len(br)
  BY DEF Header, Roomy
<1>2. h.arr \in 0..Len(br) /\ (h.arr # 0 => h.arr \in 1..Len(ar))
  <2>1. \A m, n \in Nat : m <= n => \A x \in 0..m : x \in 0..n /\ (x # 0 => x \in 1..m)
    OBVIOUS
  <2> QED BY <1>1, <2>1, Zenon
<1>3. h.arr # 0 => Len(br[h.arr]) = Len(ar[h.arr])
  BY <1>2 DEF Roomy
<1> QED BY <1>2, <1>3 DEF Header

LEMMA ElemsTyped ==
    ASSUME NEW V, arrays \in Seq(Seq(V)), NEW h, Header(arrays, h)
    PROVE  /\ Elems(h) \in Seq(V) /\ Len(Elems(h)) = h.len /\ Cells(h) \in Seq(V) /\ h.len <= Len(Cells(h))
           /\ \A i \in 1..h.len : Elems(h)[i] = Cells(h)[i]
<1>1. Cells(h) \in Seq(V) /\ h.len \in Nat /\ h.len <= Len(Cells(h))
  <2>1. CASE h.arr = 0
    BY <2>1 DEF Header, Cells
  <2>2. CASE h.arr # 0
    <3> DEFINE S == Seq(V)
    <3>1. h.arr \in 1..Len(arrays) /\ arrays \in Seq(S)
      BY <2>2 DEF Header
    <3> HIDE DEF S
    <3>2. arrays[h.arr] \in S
      BY <3>1
    <3> QED BY <2>2, <3>2 DEF Header, Cells, S
  <2> QED BY <2>1, <2>2
<1> HIDE DEF Cells
<1>2. Elems(h) = SubSeq(Cells(h), 1, h.len)
  BY DEF Elems
<1> QED BY <1>1, <1>2

(* A slice that is not disturbed extends what it was.                      *)
LEMMA PrefixExtends ==
    ASSUME NEW V, NEW t \in Seq(V), NEW u \in Seq(V), IsPrefix(t, u)
    PROVE  Extends(t, u)
<1>1. Len(t) \in Nat /\ Len(u) \in Nat /\ Len(t) <= Len(u) /\ SubSeq(t, 1, Len(t)) = SubSeq(u, 1, Len(t))
  BY DEF IsPrefix
<1>2. ASSUME NEW i \in 1..Len(t) PROVE u[i] = t[i]
  <2>1. SubSeq(t, 1, Len(t))[i] = t[i] /\ SubSeq(u, 1, Len(t))[i] = u[i]
    BY <1>1
  <2> QED BY <1>1, <2>1
<1> QED BY <1>1, <1>2 DEF Extends

\* What the map shows: slices of pointers.
Showing == \A p \in IPs : Shown(p) \in Seq(0..Len(structs)) /\ Slices[p] = Shown(p)

LEMMA SlicesTyped == ArraysSound => Showing
<1> DEFINE V == 0..Len(structs)
<1> SUFFICES ASSUME ArraysSound, NEW p \in IPs PROVE Shown(p) \in Seq(V) /\ Slices[p] = Shown(p)
  BY DEF Showing
<1> HIDE DEF V
<1>1. arrays \in Seq(Seq(V)) /\ Header(arrays, Proxy2Client[p])
  BY DEF ArraysSound, V
<1> QED BY <1>1, ElemsTyped DEF Shown, Slices

(* Every step of a notice that changes a slice notes it for the rescales.  *)
LEMMA DisturbedOK ==
    ASSUME BrokerInv, ArraysSound', UNCHANGED structs,
           NEW s, RescaleTyped(s), Walk(Slices, structs, s)
    PROVE  RescaleTyped(Moved(s, Disturbed)) /\ Walk(Slices', structs', Moved(s, Disturbed))
<1>1. structs \in Seq(Cids)
  BY DEF BrokerInv, MapsSound
<1>2. ASSUME NEW p \in IPs, p \notin Disturbed PROVE Extends(Slices[p], Slices'[p])
  <2> DEFINE V == 0..Len(structs)
  <2>1. Showing /\ Showing'
    BY SlicesTyped, PTL DEF BrokerInv
  <2>2. Shown(p) \in Seq(V) /\ Shown(p)' \in Seq(V) /\ Slices[p] = Shown(p) /\ Slices'[p] = Shown(p)'
    BY <2>1 DEF Showing
  <2>3. IsPrefix(Shown(p), Shown(p)')
    BY <1>2 DEF Disturbed
  <2> HIDE DEF V
  <2> QED BY <2>2, <2>3, PrefixExtends
<1>3. \A p \in IPs : p \in Disturbed \/ Extends(Slices[p], Slices'[p])
  BY <1>2
<1> QED BY <1>1, <1>3, MovedOK
-----------------------------------------------------------------------------
(* The handlers                                                            *)

\* What all parts of the invariant but OffersSound and RescalesSound speak of.
mapVars == <<structs, Cid2Client, Proxy2Client, arrays, notice, connected>>

LEMMA MapsStay ==
    ASSUME BrokerInv, UNCHANGED mapVars
    PROVE  MapsSound' /\ ArraysSound' /\ NoticesSound' /\ Slices' = Slices
<1>1. UNCHANGED <<structs, Cid2Client, Proxy2Client, arrays, notice, connected>>
  BY DEF mapVars
<1>2. MapsSound'
  BY <1>1 DEF BrokerInv, MapsSound
<1>3. ArraysSound'
  BY <1>1 DEF BrokerInv, ArraysSound
<1>4. NoticesSound'
  BY <1>1 DEF BrokerInv, NoticesSound
<1>5. Slices' = Slices
  BY <1>1 DEF Slices, Shown, Elems, Cells
<1> QED BY <1>2, <1>3, <1>4, <1>5

LEMMA OfferStepOK ==
    ASSUME OffersSound, NEW h \in Offers, NEW o, OfferSound(o), offer' = [offer EXCEPT ![h] = o]
    PROVE  OffersSound'
<1>1. offer' = [g \in Offers |-> IF g = h THEN o ELSE offer[g]]
  BY DEF OffersSound
<1>2. offer' = [g \in Offers |-> offer'[g]] /\ \A g \in Offers : offer'[g] = IF g = h THEN o ELSE offer[g]
  BY <1>1
<1> QED BY <1>2 DEF OffersSound

LEMMA RescaleStepOK ==
    ASSUME BrokerInv, NEW r \in Rescalers, NEW t, RescaleTyped(t), Walk(Slices, structs, t),
           rescale' = [rescale EXCEPT ![r] = t], UNCHANGED mapVars, UNCHANGED offer
    PROVE  BrokerInv'
<1>1. rescale' = [q \in Rescalers |-> IF q = r THEN t ELSE rescale[q]]
  BY DEF RescalesSound, BrokerInv
<1>2. rescale' = [q \in Rescalers |-> rescale'[q]] /\ \A q \in Rescalers : rescale'[q] = IF q = r THEN t ELSE rescale[q]
  BY <1>1
<1>3. MapsSound' /\ ArraysSound' /\ NoticesSound' /\ Slices' = Slices /\ structs' = structs
  BY MapsStay DEF mapVars
<1>4. RescalesSound'
  BY <1>2, <1>3 DEF RescalesSound, BrokerInv
<1>5. OffersSound'
  BY DEF OffersSound, BrokerInv
<1> QED BY <1>3, <1>4, <1>5 DEF BrokerInv

LEMMA OffersOK ==
    ASSUME BrokerInv, NEW h \in Offers,
           (\E c \in Cids : OfferMatch(h, c)) \/ OfferPostFails(h) \/ OfferLookup(h) \/ OfferFinish(h)
    PROVE  BrokerInv'
<1>1. UNCHANGED mapVars /\ UNCHANGED rescale
  BY DEF OfferMatch, OfferPostFails, OfferLookup, OfferFinish, maps, env, mapVars
<1>2. MapsSound' /\ ArraysSound' /\ NoticesSound' /\ RescalesSound'
  BY <1>1, MapsStay DEF RescalesSound, mapVars, BrokerInv
<1>3. OfferSound(IdleOffer)
  BY DEF OfferSound, IdleOffer
<1>4. ASSUME NEW c \in Cids, OfferMatch(h, c) PROVE OffersSound'
  <2> DEFINE o == [pc |-> "post", cid |-> c, flake |-> Matched(ClientNAT[c])]
  <2>1. OfferSound(o)
    BY DEF OfferSound
  <2>2. offer' = [offer EXCEPT ![h] = o]
    BY <1>4 DEF OfferMatch
  <2> HIDE DEF o
  <2> QED BY <2>1, <2>2, OfferStepOK DEF BrokerInv
<1>5. ASSUME OfferLookup(h) PROVE OffersSound'
  <2> DEFINE pc == IF Cid2Client[offer[h].cid] = NoClient THEN "store" ELSE "finish"
             o == [offer[h] EXCEPT !.pc = pc]
  <2>1. OfferSound(offer[h]) /\ offer[h].pc = "post"
    BY <1>5 DEF OfferLookup, OffersSound, BrokerInv
  <2>2. OfferSound(o)
    BY <2>1 DEF OfferSound
  <2>3. offer' = [offer EXCEPT ![h] = o]
    BY <1>5 DEF OfferLookup
  <2> HIDE DEF o
  <2> QED BY <2>2, <2>3, OfferStepOK DEF BrokerInv
<1>6. ASSUME OfferPostFails(h) \/ OfferFinish(h) PROVE OffersSound'
  <2>1. offer' = [offer EXCEPT ![h] = IdleOffer]
    BY <1>6 DEF OfferPostFails, OfferFinish
  <2> QED BY <1>3, <2>1, OfferStepOK DEF BrokerInv
<1>7. OffersSound'
  BY <1>4, <1>5, <1>6
<1> QED BY <1>2, <1>7 DEF BrokerInv

LEMMA SeqOfMore ==
    ASSUME NEW S, NEW T, S \subseteq T, NEW t \in Seq(S)
    PROVE  t \in Seq(T)
<1>1. Len(t) \in Nat /\ t \in [1..Len(t) -> T]
  OBVIOUS
<1> QED BY <1>1, IsSeq

(* More structs leave slices of pointers well typed.                       *)
LEMMA PointersStay ==
    ASSUME NEW n \in Nat, NEW ar \in Seq(Seq(0..n))
    PROVE  ar \in Seq(Seq(0..(n + 1)))
<1>1. 0..n \subseteq 0..(n + 1)
  OBVIOUS
<1>2. Seq(0..n) \subseteq Seq(0..(n + 1))
  BY <1>1, SeqOfMore
<1> QED BY <1>2, SeqOfMore

LEMMA OfferStoreOK ==
    ASSUME BrokerInv, NEW h \in Offers, OfferStore(h)
    PROVE  BrokerInv'
<1> DEFINE c == offer[h].cid
           n == Len(structs)
<1>1. /\ offer[h].pc = "store" /\ structs' = Append(structs, c)
      /\ Cid2Client' = [Cid2Client EXCEPT ![c] = n + 1]
      /\ UNCHANGED <<Proxy2Client, arrays, notice, rescale, connected>>
  BY DEF OfferStore, env
<1>2. OfferSound(offer[h]) /\ c \in Cids
  BY <1>1 DEF OffersSound, OfferSound, BrokerInv
<1>3. structs \in Seq(Cids) /\ n \in Nat
  BY DEF BrokerInv, MapsSound
<1>4. structs' \in Seq(Cids) /\ Len(structs') = n + 1 /\ structs'[n + 1] = c /\ \A i \in 1..n : structs'[i] = structs[i]
  BY <1>1, <1>2, <1>3
<1>5. \A i \in 0..n : i \in 0..(n + 1)
  BY <1>3
<1>6. /\ Cid2Client' \in [Cids -> 0..(n + 1)]
      /\ \A b \in Cids : Cid2Client'[b] = IF b = c THEN n + 1 ELSE Cid2Client[b]
  <2>1. n + 1 \in 0..(n + 1) /\ Cid2Client \in [Cids -> 0..n]
    BY <1>3 DEF BrokerInv, MapsSound
  <2>2. Cid2Client \in [Cids -> 0..(n + 1)]
    BY <1>5, <2>1
  <2> QED BY <1>1, <1>2, <2>1, <2>2
<1>7. ArraysSound'
  <2>1. arrays \in Seq(Seq(0..n))
    BY DEF BrokerInv, ArraysSound
  <2>2. arrays \in Seq(Seq(0..(n + 1)))
    BY <1>3, <2>1, PointersStay
  <2> QED BY <1>1, <1>4, <2>2 DEF BrokerInv, ArraysSound
<1>8. \A b \in Cids : Cid2Client'[b] # NoClient => structs'[Cid2Client'[b]] = b
  <2>1. ASSUME NEW b \in Cids, b # c, Cid2Client[b] # NoClient PROVE structs'[Cid2Client[b]] = b
    <3>1. Cid2Client[b] \in 1..n /\ structs[Cid2Client[b]] = b
      BY <1>3, <2>1 DEF BrokerInv, MapsSound, NoClient
    <3> QED BY <1>4, <3>1
  <2> QED BY <1>4, <1>6, <2>1
<1>9. MapsSound'
  BY <1>1, <1>4, <1>6, <1>8 DEF BrokerInv, MapsSound
<1>10. OffersSound'
  <2> DEFINE o == [offer[h] EXCEPT !.pc = "finish"]
  <2>1. OfferSound(o)
    BY <1>2 DEF OfferSound
  <2>2. offer' = [offer EXCEPT ![h] = o]
    BY DEF OfferStore
  <2> HIDE DEF o
  <2> QED BY <2>1, <2>2, OfferStepOK DEF BrokerInv
<1>11. NoticesSound'
  <2>1. \A m \in Notices : NoticeSound(notice[m], arrays, n + 1)
    BY <1>5 DEF BrokerInv, NoticesSound, NoticeSound, NoticeRecord
  <2> QED BY <1>1, <1>4, <2>1 DEF BrokerInv, NoticesSound
<1>12. RescalesSound'
  <2>1. Extends(structs, structs')
    BY <1>3, <1>4 DEF Extends
  <2>2. Slices' = Slices
    BY <1>1 DEF Slices, Shown, Elems, Cells
  <2>3. \A p \in IPs : Extends(Slices[p], Slices[p])
    <3>1. \A p \in IPs : Slices[p] \in Seq(0..n)
      BY SlicesTyped DEF BrokerInv, Showing
    <3> QED BY <3>1 DEF Extends
  <2>4. ASSUME NEW r \in Rescalers PROVE Walk(Slices, structs', rescale[r])
    <3>1. RescaleTyped(rescale[r]) /\ Walk(Slices, structs, rescale[r])
      BY DEF BrokerInv, RescalesSound
    <3>2. \A j \in 1..Len(rescale[r].old) : Extends(Slices[rescale[r].old[j]], Slices[rescale[r].old[j]])
      BY <2>3, <3>1 DEF RescaleTyped
    <3> QED BY <2>1, <3>1, <3>2, WalkGrows
  <2> QED BY <1>1, <2>2, <2>4 DEF BrokerInv, RescalesSound
<1> QED BY <1>7, <1>9, <1>10, <1>11, <1>12 DEF BrokerInv
-----------------------------------------------------------------------------
(* Notices                                                                 *)

LEMMA NoticeStepOK ==
    ASSUME NoticesSound, NEW n \in Notices, NEW x, NoticeSound(x, arrays', Len(structs)),
           notice' = [notice EXCEPT ![n] = x], Roomy(arrays, arrays'), UNCHANGED structs
    PROVE  NoticesSound'
<1>1. notice' = [m \in Notices |-> IF m = n THEN x ELSE notice[m]]
  BY DEF NoticesSound
<1>2. notice' = [m \in Notices |-> notice'[m]] /\ \A m \in Notices : notice'[m] = IF m = n THEN x ELSE notice[m]
  BY <1>1
<1>3. \A m \in Notices : NoticeSound(notice[m], arrays', Len(structs))
  BY HeaderStays DEF NoticesSound, NoticeSound
<1> QED BY <1>2, <1>3 DEF NoticesSound

LEMMA HeaderTyped ==
    ASSUME NEW ar, NEW h, Len(ar) \in Nat, Header(ar, h)
    PROVE  h \in [arr : Nat, len : Nat]
<1>1. \A m \in Nat : \A i \in 0..m : i \in Nat
  OBVIOUS
<1>2. h.arr \in Nat /\ h.len \in Nat /\ h = [arr |-> h.arr, len |-> h.len]
  BY <1>1, Zenon DEF Header
<1> QED BY <1>2

LEMMA RoomyItself == ArraysSound => Roomy(arrays, arrays)
BY DEF ArraysSound, Roomy

(* The handlers at rest and at their last steps.                           *)
LEMMA NilSound ==
    ASSUME NEW ar, Len(ar) \in Nat, NEW n \in Nat
    PROVE  Header(ar, NilSlice) /\ NoticeSound(IdleNotice, ar, n) /\ NoticeSound(Printing, ar, n)
<1>1. Header(ar, NilSlice) /\ NilSlice \in [arr : Nat, len : Nat]
  <2>1. NilSlice = [arr |-> 0, len |-> 0]
    BY DEF NilSlice
  <2>2. NilSlice.arr = 0 /\ NilSlice.len = 0 /\ NilSlice \in [arr : Nat, len : Nat]
    BY <2>1
  <2>3. 0 \in 0..Len(ar) /\ 0 \in Nat
    <3>1. \A m \in Nat : 0 \in 0..m
      OBVIOUS
    <3> QED BY <3>1, Zenon
  <2>4. NilSlice = [arr |-> NilSlice.arr, len |-> NilSlice.len]
    BY <2>1, <2>2
  <2> QED BY <2>2, <2>3, <2>4 DEF Header
<1>2. IdleNotice \in NoticeRecord(n) /\ IdleNotice.pc = "idle" /\ IdleNotice.hand = NilSlice
  BY <1>1 DEF IdleNotice, NoticeRecord, NoClient
<1>3. Printing \in NoticeRecord(n) /\ Printing.pc = "print" /\ Printing.hand = NilSlice
  BY <1>2 DEF Printing, NoticeRecord
<1> QED BY <1>1, <1>2, <1>3 DEF NoticeSound

LEMMA StoringSound ==
    ASSUME NEW ar, NEW p \in IPs, NEW h, Header(ar, h), Len(ar) \in Nat, NEW n \in Nat
    PROVE  NoticeSound(Storing(p, h), ar, n)
<1>1. h \in [arr : Nat, len : Nat]
  BY HeaderTyped
<1>2. IdleNotice \in NoticeRecord(n)
  BY NilSound DEF NoticeSound
<1>3. Storing(p, h) \in NoticeRecord(n) /\ Storing(p, h).pc = "store" /\ Storing(p, h).hand = h /\ Storing(p, h).ip = p
  BY <1>1, <1>2 DEF Storing, NoticeRecord
<1> QED BY <1>3 DEF NoticeSound

\* What a step that leaves the slices alone preserves.
Unedited == UNCHANGED <<structs, Cid2Client, Proxy2Client, arrays, offer>>

LEMMA UneditedOK ==
    ASSUME BrokerInv, Unedited
    PROVE  /\ ArraysSound' /\ OffersSound' /\ Slices' = Slices
           /\ NoticesSound /\ Roomy(arrays, arrays) /\ structs \in Seq(Cids)
<1>1. UNCHANGED <<structs, Proxy2Client, arrays, offer>>
  BY DEF Unedited
<1>2. ArraysSound' /\ OffersSound'
  BY <1>1 DEF BrokerInv, ArraysSound, OffersSound
<1>3. Slices' = Slices
  BY <1>1 DEF Slices, Shown, Elems, Cells
<1>4. Roomy(arrays, arrays)
  BY RoomyItself DEF BrokerInv
<1> QED BY <1>2, <1>3, <1>4 DEF BrokerInv, MapsSound

LEMMA PostedOK ==
    ASSUME BrokerInv, NEW c \in Cids, NEW p \in IPs, NEW a \in {"add", "delete"}, Posted(a, c, p), Unedited
    PROVE  NoticesSound'
<1>1. NoticesSound /\ Roomy(arrays, arrays') /\ arrays' = arrays /\ structs' = structs
  BY UneditedOK DEF Unedited
<1>2. CASE UNCHANGED notice
  BY <1>1, <1>2 DEF NoticesSound
<1>3. ASSUME NEW n \in Notices, notice' = [notice EXCEPT ![n] = [IdleNotice EXCEPT !.pc = a, !.cid = c, !.ip = p]]
      PROVE  NoticesSound'
  <2> DEFINE x == [IdleNotice EXCEPT !.pc = a, !.cid = c, !.ip = p]
             N == Len(structs)
  <2>1. Header(arrays, NilSlice) /\ IdleNotice \in NoticeRecord(N) /\ IdleNotice.hand = NilSlice
    <3>1. structs \in Seq(Cids) /\ arrays \in Seq(Seq(0..N))
      BY DEF BrokerInv, MapsSound, ArraysSound
    <3>2. N \in Nat /\ Len(arrays) \in Nat
      BY <3>1
    <3>3. IdleNotice.hand = NilSlice
      BY DEF IdleNotice
    <3> QED BY <3>2, <3>3, NilSound DEF NoticeSound
  <2> HIDE DEF N
  <2>2. x \in NoticeRecord(N) /\ x.pc = a /\ x.cid = c /\ x.ip = p /\ x.hand = NilSlice
    BY <2>1 DEF NoticeRecord
  <2> HIDE DEF x
  <2>3. NoticeSound(x, arrays', N)
    BY <1>1, <2>1, <2>2 DEF NoticeSound
  <2>4. notice' = [notice EXCEPT ![n] = x]
    BY <1>3 DEF x
  <2> QED BY <1>1, <2>3, <2>4, NoticeStepOK DEF N
<1> QED BY <1>2, <1>3 DEF Posted

LEMMA ChannelOpensOK ==
    ASSUME BrokerInv, NEW c \in Cids, NEW p \in IPs, ChannelOpens(c, p)
    PROVE  BrokerInv'
<1>1. Unedited /\ UNCHANGED rescale /\ connected' = connected \cup {<<c, p>>} /\ Posted("add", c, p)
  BY DEF ChannelOpens, maps, Unedited
<1>2. NoticesSound'
  BY <1>1, PostedOK
<1>3. MapsSound'
  BY <1>1 DEF Unedited, BrokerInv, MapsSound
<1>4. ArraysSound' /\ OffersSound' /\ Slices' = Slices /\ structs' = structs
  BY <1>1, UneditedOK DEF Unedited
<1>5. RescalesSound'
  BY <1>1, <1>4 DEF BrokerInv, RescalesSound
<1> QED BY <1>2, <1>3, <1>4, <1>5 DEF BrokerInv

LEMMA ChannelClosesOK ==
    ASSUME BrokerInv, NEW c \in Cids, NEW p \in IPs, ChannelCloses(c, p)
    PROVE  BrokerInv'
<1> DEFINE s(r) == Unlist(rescale[r], <<c, p>>)
<1>1. /\ Unedited /\ rescale' = [r \in Rescalers |-> s(r)] /\ connected' = connected \ {<<c, p>>}
      /\ Posted("delete", c, p)
  BY DEF ChannelCloses, maps, Unedited
<1>2. NoticesSound'
  BY <1>1, PostedOK
<1>3. MapsSound'
  BY <1>1 DEF Unedited, BrokerInv, MapsSound
<1>4. ArraysSound' /\ OffersSound' /\ Slices' = Slices /\ structs' = structs
  BY <1>1, UneditedOK DEF Unedited
<1>5. \A r \in Rescalers : RescaleTyped(s(r)) /\ Walk(Slices, structs, s(r))
  BY UnlistOK DEF BrokerInv, RescalesSound
<1> HIDE DEF s
<1>6. rescale' = [r \in Rescalers |-> rescale'[r]] /\ \A r \in Rescalers : rescale'[r] = s(r)
  BY <1>1
<1>7. RescalesSound'
  BY <1>4, <1>5, <1>6 DEF RescalesSound
<1> QED BY <1>2, <1>3, <1>4, <1>7 DEF BrokerInv

(* Steps of a notice that only read.                                       *)
LEMMA NoticeReadsOK ==
    ASSUME BrokerInv, NEW n \in Notices, NEW x, NoticeSound(x, arrays, Len(structs)),
           notice' = [notice EXCEPT ![n] = x], Unedited, UNCHANGED <<connected, rescale>>
    PROVE  BrokerInv'
<1>1. ArraysSound' /\ OffersSound' /\ Slices' = Slices /\ structs' = structs /\ arrays' = arrays
  BY UneditedOK DEF Unedited
<1>2. NoticesSound'
  BY <1>1, UneditedOK, NoticeStepOK
<1>3. MapsSound' /\ RescalesSound'
  BY <1>1 DEF Unedited, BrokerInv, MapsSound, RescalesSound
<1> QED BY <1>1, <1>2, <1>3 DEF BrokerInv

LEMMA NoticeQuietOK ==
    ASSUME BrokerInv, NEW n \in Notices, NoticeClient(n) \/ AddReads(n) \/ DeleteFinds(n) \/ NoticePrints(n)
    PROVE  BrokerInv'
<1> DEFINE y == notice[n]
           N == Len(structs)
<1>1. Unedited /\ UNCHANGED <<connected, rescale>>
  BY DEF NoticeClient, AddReads, DeleteFinds, NoticePrints, maps, env, Unedited
<1>2. NoticeSound(y, arrays, N) /\ N \in Nat /\ Len(arrays) \in Nat
  <2>1. structs \in Seq(Cids) /\ arrays \in Seq(Seq(0..N)) /\ NoticeSound(y, arrays, N)
    BY DEF BrokerInv, NoticesSound, MapsSound, ArraysSound
  <2> QED BY <2>1
<1>3. /\ NoticeSound(IdleNotice, arrays, N) /\ NoticeSound(Printing, arrays, N)
      /\ Header(arrays, NilSlice) /\ IdleNotice.hand = NilSlice
  <2>1. IdleNotice.hand = NilSlice
    BY DEF IdleNotice
  <2> QED BY <1>2, <2>1, NilSound
<1>4. CASE NoticeClient(n)
  <2> DEFINE m == Cid2Client[y.cid]
             pc == IF y.pc = "add" THEN "read" ELSE "find"
             x == [y EXCEPT !.client = m, !.cid = NoCid, !.pc = pc]
  <2>1. y.pc \in {"add", "delete"} /\ notice' = [notice EXCEPT ![n] = x]
    BY <1>4 DEF NoticeClient
  <2>2. m \in 0..N
    BY <1>2, <2>1 DEF NoticeSound, BrokerInv, MapsSound
  <2>3. pc \in {"read", "find"}
    OBVIOUS
  <2> HIDE DEF m, pc, y, N
  <2>4. x \in NoticeRecord(N) /\ x.pc = pc /\ x.ip = y.ip /\ x.hand = y.hand
    BY <1>2, <2>2, <2>3 DEF NoticeSound, NoticeRecord
  <2> HIDE DEF x
  <2>5. NoticeSound(x, arrays, N)
    BY <1>2, <2>1, <2>3, <2>4 DEF NoticeSound
  <2> QED BY <1>1, <2>1, <2>5, NoticeReadsOK DEF N
<1>5. CASE AddReads(n)
  <2> DEFINE h == Proxy2Client[y.ip]
             x == [y EXCEPT !.hand = h, !.pc = "append"]
  <2>1. y.pc = "read" /\ notice' = [notice EXCEPT ![n] = x]
    BY <1>5 DEF AddReads
  <2>2. Header(arrays, h) /\ y.ip \in IPs
    BY <1>2, <2>1 DEF NoticeSound, BrokerInv, ArraysSound
  <2> HIDE DEF h, y, N
  <2>3. h \in [arr : Nat, len : Nat]
    BY <1>2, <2>2, HeaderTyped
  <2>4. x \in NoticeRecord(N) /\ x.pc = "append" /\ x.ip = y.ip /\ x.hand = h
    BY <1>2, <2>3 DEF NoticeSound, NoticeRecord
  <2> HIDE DEF x
  <2>5. NoticeSound(x, arrays, N)
    BY <2>2, <2>4 DEF NoticeSound
  <2> QED BY <1>1, <2>1, <2>5, NoticeReadsOK DEF N
<1>6. CASE DeleteFinds(n)
  <2> DEFINE at == {i \in DOMAIN Shown(y.ip) : Shown(y.ip)[i] = y.client}
             k == Min(at)
             x == [IdleNotice EXCEPT !.pc = "shift", !.ip = y.ip, !.idx = k]
  <2>1. y.pc = "find" /\ notice' = [notice EXCEPT ![n] = IF at = {} THEN Printing ELSE x]
    BY <1>6 DEF DeleteFinds
  <2>2. y.ip \in IPs
    BY <1>2, <2>1 DEF NoticeSound
  <2>3. at # {} => k \in Nat /\ k >= 1
    <3>1. Shown(y.ip) \in Seq(0..N)
      BY <2>2, SlicesTyped DEF BrokerInv, Showing
    <3>2. at \subseteq 1..Len(Shown(y.ip)) /\ Len(Shown(y.ip)) \in Nat
      BY <3>1
    <3>3. at \subseteq Nat /\ \A i \in at : i >= 1
      BY <3>2
    <3> HIDE DEF at
    <3>4. at # {} => \E i \in at : \A j \in at : i <= j
      BY <3>3, Least
    <3>5. at # {} => k \in at
      BY <3>4, Zenon DEF Min
    <3> QED BY <3>3, <3>5
  <2> HIDE DEF at, k, y, N
  <2>4. at # {} => NoticeSound(x, arrays, N)
    <3> SUFFICES ASSUME at # {} PROVE NoticeSound(x, arrays, N)
      OBVIOUS
    <3>1. x \in NoticeRecord(N) /\ x.pc = "shift" /\ x.ip = y.ip /\ x.idx = k /\ x.hand = NilSlice
      BY <1>3, <2>2, <2>3 DEF NoticeSound, NoticeRecord
    <3> HIDE DEF x
    <3> QED BY <1>3, <2>2, <2>3, <3>1 DEF NoticeSound
  <2> HIDE DEF x
  <2> QED BY <1>1, <1>3, <2>1, <2>4, NoticeReadsOK DEF N
<1>7. CASE NoticePrints(n)
  <2>1. notice' = [notice EXCEPT ![n] = IdleNotice]
    BY <1>7 DEF NoticePrints
  <2> QED BY <1>1, <1>3, <2>1, NoticeReadsOK
<1> QED BY <1>4, <1>5, <1>6, <1>7

(* Steps of a notice that edit a slice, or the entry of the map.           *)
LEMMA NoticeEditsOK ==
    ASSUME BrokerInv, NEW n \in Notices, NEW x, NoticeSound(x, arrays', Len(structs)),
           notice' = [notice EXCEPT ![n] = x], Roomy(arrays, arrays'), ArraysSound',
           UNCHANGED <<structs, Cid2Client, offer, connected>>, NoteDisturbed
    PROVE  BrokerInv'
<1>1. NoticesSound'
  BY NoticeStepOK DEF BrokerInv
<1>2. MapsSound' /\ OffersSound'
  BY DEF BrokerInv, MapsSound, OffersSound
<1>3. \A r \in Rescalers : RescaleTyped(Moved(rescale[r], Disturbed))
                           /\ Walk(Slices', structs', Moved(rescale[r], Disturbed))
  BY DisturbedOK DEF BrokerInv, RescalesSound
<1>4. /\ rescale' = [r \in Rescalers |-> rescale'[r]]
      /\ \A r \in Rescalers : rescale'[r] = Moved(rescale[r], Disturbed)
  BY DEF NoteDisturbed
<1>5. RescalesSound'
  BY <1>3, <1>4 DEF RescalesSound
<1> QED BY <1>1, <1>2, <1>5 DEF BrokerInv

LEMMA ArraysStepOK ==
    ASSUME ArraysSound, arrays' \in Seq(Seq(0..Len(structs))), Roomy(arrays, arrays'),
           UNCHANGED <<Proxy2Client, structs>>
    PROVE  ArraysSound'
BY HeaderStays DEF ArraysSound

LEMMA CellsChange ==
    ASSUME NEW S, NEW ar \in Seq(S), NEW a \in 1..Len(ar), NEW cs \in S, Len(cs) = Len(ar[a]),
           NEW br, br = [ar EXCEPT ![a] = cs]
    PROVE  br \in Seq(S) /\ Roomy(ar, br) /\ Len(br) = Len(ar)
<1>1. Len(ar) \in Nat /\ ar \in [1..Len(ar) -> S]
  OBVIOUS
<1>2. br \in [1..Len(ar) -> S] /\ \A i \in 1..Len(ar) : br[i] = IF i = a THEN cs ELSE ar[i]
  BY <1>1
<1>3. br \in Seq(S) /\ Len(br) = Len(ar)
  BY <1>1, <1>2, IsSeq
<1>4. \A i \in 1..Len(ar) : Len(br[i]) = Len(ar[i])
  BY <1>2
<1> QED BY <1>1, <1>3, <1>4 DEF Roomy

LEMMA CellsAdd ==
    ASSUME NEW S, NEW ar \in Seq(S), NEW cs \in S, NEW br, br = Append(ar, cs)
    PROVE  br \in Seq(S) /\ Roomy(ar, br) /\ Len(br) = Len(ar) + 1 /\ br[Len(ar) + 1] = cs
<1>1. br \in Seq(S) /\ Len(br) = Len(ar) + 1 /\ Len(ar) \in Nat
  OBVIOUS
<1>2. br[Len(ar) + 1] = cs
  OBVIOUS
<1>3. \A i \in 1..Len(ar) : br[i] = ar[i]
  OBVIOUS
<1> QED BY <1>1, <1>2, <1>3 DEF Roomy

(* Cells keep their type when one is written, copied or shifted.           *)
LEMMA CellWritten ==
    ASSUME NEW V, NEW t \in Seq(V), NEW k \in 1..Len(t), NEW v \in V
    PROVE  [t EXCEPT ![k] = v] \in Seq(V) /\ Len([t EXCEPT ![k] = v]) = Len(t)
<1>1. Len(t) \in Nat /\ [t EXCEPT ![k] = v] \in [1..Len(t) -> V]
  OBVIOUS
<1> QED BY <1>1, IsSeq

LEMMA SliceCopied ==
    ASSUME NEW W, NEW q \in Seq(W), NEW e \in W, NEW m \in Nat, NEW g \in [1..m -> W]
    PROVE  Append(q, e) \o g \in Seq(W) /\ Len(Append(q, e) \o g) = Len(q) + 1 + m
<1>1. Append(q, e) \in Seq(W) /\ Len(Append(q, e)) = Len(q) + 1 /\ Len(q) \in Nat
  OBVIOUS
<1>2. g \in Seq(W) /\ Len(g) = m
  BY IsSeq
<1> QED BY <1>1, <1>2

LEMMA CellsShifted ==
    ASSUME NEW V, NEW t \in Seq(V), NEW i \in Nat, i >= 1, NEW k \in Nat, k <= Len(t), NEW clear, NoClient \in V
    PROVE  ShiftDown(t, i, k, clear) \in Seq(V) /\ Len(ShiftDown(t, i, k, clear)) = Len(t)
<1> DEFINE u == ShiftDown(t, i, k, clear)
<1>1. Len(t) \in Nat /\ DOMAIN t = 1..Len(t) /\ t \in [1..Len(t) -> V]
  OBVIOUS
<1>2. ASSUME NEW j \in 1..Len(t), j >= i, j < k PROVE j + 1 \in 1..Len(t)
  BY <1>1, <1>2
<1>3. u = [j \in 1..Len(t) |-> IF j >= i /\ j < k THEN t[j + 1]
                               ELSE IF j = k /\ clear THEN NoClient ELSE t[j]]
  BY <1>1 DEF ShiftDown
<1> HIDE DEF u
<1>4. u \in [1..Len(t) -> V]
  BY <1>1, <1>2, <1>3
<1>5. u \in Seq(V) /\ Len(u) = Len(t)
  BY <1>1, <1>4, IsSeq
<1> QED BY <1>5 DEF u

\* The type of the cells.
Pointers == 0..Len(structs)

(* A slice that ends one cell earlier or later in its array, and one over  *)
(* a new array.                                                            *)
LEMMA HeaderMoves ==
    ASSUME NEW ar, NEW h, Header(ar, h), h.arr # 0, Len(ar) \in Nat, Len(ar[h.arr]) \in Nat, NEW k \in Nat,
           k <= Len(ar[h.arr])
    PROVE  Header(ar, [arr |-> h.arr, len |-> k])
BY DEF Header

LEMMA HeaderNew ==
    ASSUME NEW ar, NEW a \in Nat, a # 0, Len(ar) = a, NEW k \in Nat, k <= Len(ar[a])
    PROVE  Header(ar, [arr |-> a, len |-> k])
BY DEF Header

(* What a handler holds, in one place.                                     *)
LEMMA Holding ==
    ASSUME BrokerInv, NEW n \in Notices
    PROVE  /\ NoticeSound(notice[n], arrays, Len(structs)) /\ notice[n].client \in Pointers
           /\ arrays \in Seq(Seq(Pointers)) /\ Len(arrays) \in Nat /\ Len(structs) \in Nat /\ NoClient \in Pointers
<1>1. arrays \in Seq(Seq(Pointers)) /\ structs \in Seq(Cids) /\ NoticeSound(notice[n], arrays, Len(structs))
  BY DEF BrokerInv, ArraysSound, MapsSound, NoticesSound, Pointers
<1>2. notice[n].client \in Pointers
  BY <1>1 DEF NoticeSound, NoticeRecord, Pointers
<1>3. Len(structs) \in Nat /\ Len(arrays) \in Nat
  <2> DEFINE S == Seq(Pointers)
  <2>1. arrays \in Seq(S)
    BY <1>1
  <2> HIDE DEF S
  <2> QED BY <1>1, <2>1
<1>4. NoClient \in Pointers
  BY <1>3 DEF Pointers, NoClient
<1> QED BY <1>1, <1>2, <1>3, <1>4

(* A handler that edited the cells goes on to store its slice.             *)
LEMMA EditedOK ==
    ASSUME BrokerInv, NEW n \in Notices, NEW p \in IPs, NEW h, Header(arrays', h),
           notice' = [notice EXCEPT ![n] = Storing(p, h)], arrays' \in Seq(Seq(Pointers)), Roomy(arrays, arrays'),
           UNCHANGED <<structs, Cid2Client, Proxy2Client, offer, connected>>, NoteDisturbed
    PROVE  BrokerInv'
<1>1. ArraysSound'
  BY ArraysStepOK DEF BrokerInv, Pointers
<1>2. NoticeSound(Storing(p, h), arrays', Len(structs))
  <2>1. Len(arrays') \in Nat
    BY DEF Roomy
  <2>2. Len(structs) \in Nat
    BY Holding
  <2> QED BY <2>1, <2>2, StoringSound
<1> QED BY <1>1, <1>2, NoticeEditsOK

LEMMA AddAppendsOK ==
    ASSUME BrokerInv, NEW n \in Notices, AddAppends(n)
    PROVE  BrokerInv'
<1> DEFINE x == notice[n]
           h == x.hand
           V == Pointers
           S == Seq(V)
<1>1. x.pc = "append" /\ UNCHANGED <<structs, Cid2Client, Proxy2Client, offer, connected>> /\ NoteDisturbed
  BY DEF AddAppends, pure, env
<1>2. /\ Header(arrays, h) /\ x.ip \in IPs /\ x.client \in V /\ NoClient \in V
      /\ arrays \in Seq(S) /\ Len(arrays) \in Nat
  BY <1>1, Holding DEF NoticeSound
<1>3. Elems(h) \in S /\ Len(Elems(h)) = h.len /\ h.len \in Nat /\ Cells(h) \in S
  <2> HIDE DEF V
  <2> QED BY <1>2, ElemsTyped DEF Header
<1>4. CASE h.len < Len(Cells(h))
  <2> DEFINE t == arrays[h.arr]
             cs == [t EXCEPT ![h.len + 1] = x.client]
             u == [arr |-> h.arr, len |-> h.len + 1]
  <2>1. arrays' = [arrays EXCEPT ![h.arr] = cs] /\ notice' = [notice EXCEPT ![n] = Storing(x.ip, u)]
    BY <1>4 DEF AddAppends
  <2>2. h.arr # 0
    BY <1>3, <1>4 DEF Cells
  <2>3. h.arr \in 1..Len(arrays) /\ Cells(h) = t /\ t \in S /\ h.len < Len(t)
    BY <1>2, <1>3, <1>4, <2>2 DEF Header, Cells
  <2> HIDE DEF V, x, h, t
  <2>4. Len(t) \in Nat /\ h.len + 1 \in 1..Len(t)
    BY <1>3, <2>3
  <2>5. cs \in S /\ Len(cs) = Len(t)
    BY <1>2, <2>3, <2>4, CellWritten
  <2> HIDE DEF S, cs
  <2>6. arrays' \in Seq(S) /\ Roomy(arrays, arrays')
    BY <1>2, <2>1, <2>3, <2>5, CellsChange DEF t
  <2>7. Len(arrays'[h.arr]) = Len(t) /\ Header(arrays', h) /\ Len(arrays') \in Nat
    BY <1>2, <2>3, <2>6, HeaderStays DEF Roomy, t
  <2>8. Header(arrays', u)
    <3>1. h.len + 1 \in Nat /\ h.len + 1 <= Len(arrays'[h.arr]) /\ Len(arrays'[h.arr]) \in Nat
      BY <1>3, <2>4, <2>7
    <3> QED BY <2>2, <2>7, <3>1, HeaderMoves
  <2> HIDE DEF u
  <2> QED BY <1>1, <1>2, <2>1, <2>6, <2>8, EditedOK DEF S, V
<1>5. CASE ~(h.len < Len(Cells(h)))
  <2> DEFINE a == Len(arrays) + 1
             u == [arr |-> a, len |-> h.len + 1]
             t == Elems(h)
             v == x.client
  <2>1. PICK room \in Rooms : arrays' = Append(arrays, Append(t, v) \o [i \in 1..room |-> NoClient])
    BY <1>5 DEF AddAppends
  <2>2. notice' = [notice EXCEPT ![n] = Storing(x.ip, u)]
    BY <1>5 DEF AddAppends
  <2>3. room \in Nat /\ t \in Seq(V) /\ v \in V
    BY <1>2, <1>3, BrokerBounds
  <2>0. Len(t) = h.len
    BY <1>3
  <2> DEFINE spare == [i \in 1..room |-> NoClient]
             cs == Append(t, v) \o spare
  <2> HIDE DEF V, x, h, t, v
  <2>4. cs \in Seq(V) /\ Len(cs) = h.len + 1 + room
    <3>1. spare \in [1..room -> V]
      BY <1>2
    <3> HIDE DEF spare
    <3>2. cs \in Seq(V) /\ Len(cs) = Len(t) + 1 + room
      BY <2>3, <3>1, SliceCopied
    <3> QED BY <2>0, <3>2
  <2> HIDE DEF S, cs
  <2>5. arrays' \in Seq(S) /\ Roomy(arrays, arrays') /\ Len(arrays') = a /\ arrays'[a] = cs
    <3>1. cs \in S /\ arrays' = Append(arrays, cs)
      BY <2>1, <2>4 DEF S, cs
    <3> QED BY <1>2, <3>1, CellsAdd
  <2>6. Header(arrays', u)
    <3>1. a \in Nat /\ a # 0 /\ h.len + 1 \in Nat /\ h.len + 1 <= Len(arrays'[a])
      BY <1>2, <1>3, <2>0, <2>3, <2>4, <2>5
    <3> QED BY <2>5, <3>1, HeaderNew
  <2> HIDE DEF u
  <2> QED BY <1>1, <1>2, <2>2, <2>5, <2>6, EditedOK DEF S, V
<1> QED BY <1>4, <1>5

LEMMA DeleteShiftsOK ==
    ASSUME BrokerInv, NEW n \in Notices, DeleteShifts(n)
    PROVE  BrokerInv'
<1> DEFINE x == notice[n]
           h == Proxy2Client[x.ip]
           V == Pointers
           S == Seq(V)
<1>1. x.pc = "shift" /\ UNCHANGED <<structs, Cid2Client, Proxy2Client, offer, connected>>
  BY DEF DeleteShifts, pure, env
<1>2. /\ x.ip \in IPs /\ x.idx \in Nat /\ x.idx >= 1 /\ NoClient \in V /\ arrays \in Seq(S) /\ Len(arrays) \in Nat
      /\ Len(structs) \in Nat
  BY <1>1, Holding DEF NoticeSound, NoticeRecord
<1>3. Header(arrays, h)
  BY <1>2 DEF BrokerInv, ArraysSound
<1>4. CASE x.idx > h.len
  <2>1. notice' = [notice EXCEPT ![n] = IdleNotice] /\ UNCHANGED <<arrays, rescale>>
    BY <1>4 DEF DeleteShifts
  <2>2. NoticeSound(IdleNotice, arrays, Len(structs))
    BY <1>2, NilSound
  <2>3. Unedited /\ UNCHANGED <<connected, rescale>>
    BY <1>1, <2>1 DEF Unedited
  <2> QED BY <2>1, <2>2, <2>3, NoticeReadsOK
<1>5. CASE ~(x.idx > h.len)
  <2> DEFINE t == arrays[h.arr]
             cs(clear) == ShiftDown(t, x.idx, h.len, clear)
             u == [arr |-> h.arr, len |-> h.len - 1]
  <2>1. PICK clear \in BOOLEAN : arrays' = [arrays EXCEPT ![h.arr] = cs(clear)]
    BY <1>5 DEF DeleteShifts
  <2>2. notice' = [notice EXCEPT ![n] = Storing(x.ip, u)] /\ NoteDisturbed
    BY <1>5 DEF DeleteShifts
  <2>3. h.arr # 0 /\ h.len \in Nat /\ h.len >= 1
    <3>1. h.len \in Nat /\ (h.arr = 0 => h.len = 0)
      BY <1>3 DEF Header
    <3> HIDE DEF h, x
    <3> QED BY <1>2, <1>5, <3>1
  <2>4. h.arr \in 1..Len(arrays) /\ t \in S /\ h.len <= Len(t)
    <3> HIDE DEF S
    <3> QED BY <1>2, <1>3, <2>3 DEF Header
  <2> HIDE DEF V, x, h, t
  <2>5. cs(clear) \in S /\ Len(cs(clear)) = Len(t) /\ Len(t) \in Nat
    BY <1>2, <2>3, <2>4, CellsShifted
  <2> HIDE DEF S, cs
  <2>6. arrays' \in Seq(S) /\ Roomy(arrays, arrays')
    BY <1>2, <2>1, <2>4, <2>5, CellsChange DEF t
  <2>7. Len(arrays'[h.arr]) = Len(t) /\ Header(arrays', h) /\ Len(arrays') \in Nat
    BY <1>3, <2>4, <2>6, HeaderStays DEF Roomy, t
  <2>8. Header(arrays', u)
    <3>1. h.len - 1 \in Nat /\ h.len - 1 <= Len(arrays'[h.arr]) /\ Len(arrays'[h.arr]) \in Nat
      BY <2>3, <2>4, <2>5, <2>7
    <3> QED BY <2>3, <2>7, <3>1, HeaderMoves
  <2> HIDE DEF u
  <2> QED BY <1>1, <1>2, <2>2, <2>6, <2>8, EditedOK DEF S, V
<1> QED BY <1>4, <1>5

LEMMA NoticeStoresOK ==
    ASSUME BrokerInv, NEW n \in Notices, NoticeStores(n)
    PROVE  BrokerInv'
<1> DEFINE p == notice[n].ip
           h == notice[n].hand
<1>1. /\ notice[n].pc = "store" /\ Proxy2Client' = [Proxy2Client EXCEPT ![p] = h]
      /\ notice' = [notice EXCEPT ![n] = Printing]
      /\ UNCHANGED <<structs, Cid2Client, arrays, offer, connected>> /\ NoteDisturbed
  BY DEF NoticeStores, pure, env
<1>2. p \in IPs /\ Header(arrays, h) /\ Len(arrays) \in Nat /\ Len(structs) \in Nat
  BY <1>1, Holding DEF NoticeSound
<1> HIDE DEF p, h
<1>3. Proxy2Client' = [q \in IPs |-> IF q = p THEN h ELSE Proxy2Client[q]]
  BY <1>1 DEF BrokerInv, ArraysSound
<1>4. ArraysSound'
  <2>1. /\ Proxy2Client' = [q \in IPs |-> Proxy2Client'[q]]
        /\ \A q \in IPs : Proxy2Client'[q] = IF q = p THEN h ELSE Proxy2Client[q]
    BY <1>3
  <2> QED BY <1>1, <1>2, <2>1 DEF BrokerInv, ArraysSound
<1>5. NoticeSound(Printing, arrays', Len(structs)) /\ Roomy(arrays, arrays')
  BY <1>1, <1>2, NilSound, RoomyItself DEF BrokerInv
<1> QED BY <1>1, <1>4, <1>5, NoticeEditsOK
-----------------------------------------------------------------------------
(* Rescales                                                                *)

LEMMA RescaleRemoveOK ==
    ASSUME BrokerInv, NEW r \in Rescalers, NEW old \in OldLists, RescaleRemove(r, old)
    PROVE  BrokerInv'
<1> DEFINE t == Begun(old)
           f == Slices
           g == structs
<1>1. rescale' = [rescale EXCEPT ![r] = t] /\ UNCHANGED mapVars /\ UNCHANGED offer
  BY DEF RescaleRemove, maps, env, mapVars
<1>2. old \in Seq(IPs) /\ Len(old) \in Nat
  BY BrokerBounds
<1>3. t = [pc |-> IF old = <<>> THEN "done" ELSE "drop", old |-> old, k |-> 1, idx |-> 0,
           cid |-> NoCid, flake |-> NoFlake,
           posted |-> {}, listed |-> Listed(old), moved |-> {}]
  BY DEF Begun
<1> HIDE DEF t
<1>4. /\ t.pc = (IF old = <<>> THEN "done" ELSE "drop") /\ t.old = old /\ t.k = 1 /\ t.idx = 0
      /\ t.posted = {} /\ t.listed = Listed(old) /\ t.moved = {} /\ RescaleShaped(t)
  BY <1>3 DEF RescaleShaped
<1>5. ASSUME NEW l \in Listed(old)
      PROVE  l \in Cids \X IPs /\ Slot(f, g, l[2], l[1], 1) /\ \E j \in 1..Len(old) : old[j] = l[2]
  <2>1. /\ l \in connected /\ l[2] \in ToSet(old) /\ Cid2Client[l[1]] # NoClient
        /\ Cid2Client[l[1]] \in ToSet(Shown(l[2]))
    BY <1>5 DEF Listed
  <2>2. l \in Cids \X IPs /\ l[1] \in Cids /\ l[2] \in IPs
    BY <2>1 DEF BrokerInv, MapsSound
  <2>3. f[l[2]] = Shown(l[2]) /\ f[l[2]] \in Seq(0..Len(g))
    BY <2>2, SlicesTyped DEF BrokerInv, Showing
  <2> HIDE DEF f
  <2>4. PICK i \in 1..Len(f[l[2]]) : f[l[2]][i] = Cid2Client[l[1]]
    <3>1. DOMAIN f[l[2]] = 1..Len(f[l[2]])
      BY <2>3
    <3> QED BY <2>1, <2>3, <3>1 DEF ToSet
  <2>5. Cid2Client[l[1]] \in 1..Len(g) /\ g[Cid2Client[l[1]]] = l[1]
    <3>1. Cid2Client[l[1]] \in 0..Len(g) /\ g \in Seq(Cids) /\ g[Cid2Client[l[1]]] = l[1]
      BY <2>1, <2>2 DEF BrokerInv, MapsSound
    <3>2. Len(g) \in Nat
      BY <3>1
    <3> QED BY <2>1, <3>1, <3>2 DEF NoClient
  <2>6. Slot(f, g, l[2], l[1], 1)
    BY <2>4, <2>5 DEF Slot
  <2>7. \E j \in 1..Len(old) : old[j] = l[2]
    BY <1>2, <2>1 DEF ToSet
  <2> QED BY <2>2, <2>6, <2>7
<1>6. RescaleTyped(t)
  <2>1. Listed(old) \subseteq Cids \X IPs
    BY <1>5
  <2>2. old # <<>> => 1 \in 1..Len(old)
    BY <1>2
  <2>3. t.pc \in {"done", "drop"} /\ (t.pc = "drop" => t.k \in 1..Len(t.old))
    BY <1>4, <2>2
  <2>4. t.k \in Nat /\ t.idx \in Nat
    <3>1. t.k = 1 /\ t.idx = 0
      BY <1>4
    <3> QED BY <3>1
  <2>5. t.old \in Seq(IPs) /\ t.listed \subseteq Cids \X IPs
    BY <1>2, <1>4, <2>1, Zenon
  <2> QED BY <1>4, <2>3, <2>4, <2>5 DEF RescaleTyped, Walking, Looping
<1> HIDE DEF f
<1>7. Walk(f, g, t)
  <2>1. CASE old = <<>>
    <3>1. Listed(old) = {}
      BY <1>5, <2>1
    <3> QED BY <1>4, <2>1, <3>1 DEF Walk, Walking, Looping
  <2>2. CASE old # <<>>
    <3>1. \A l \in t.listed : Owed(f, g, t, l)
      BY <1>4, <1>5, <2>2 DEF Owed, Looping
    <3> QED BY <1>4, <2>2, <3>1 DEF Walk, Walking, Looping
  <2> QED BY <2>1, <2>2
<1> QED BY <1>1, <1>6, <1>7, RescaleStepOK DEF f

LEMMA RescaleDropOK ==
    ASSUME BrokerInv, NEW r \in Rescalers, RescaleDrop(r)
    PROVE  BrokerInv'
<1> DEFINE s == rescale[r]
           t == [s EXCEPT !.pc = "loop", !.idx = 1]
<1>1. s.pc = "drop" /\ rescale' = [rescale EXCEPT ![r] = t] /\ UNCHANGED mapVars /\ UNCHANGED offer
  BY DEF RescaleDrop, env, mapVars
<1>2. RescaleTyped(s) /\ RescaleShaped(s) /\ Walk(Slices, structs, s)
  BY DEF BrokerInv, RescalesSound, RescaleTyped
<1> HIDE DEF s
<1>3. /\ t.pc = "loop" /\ t.old = s.old /\ t.k = s.k /\ t.idx = 1
      /\ t.posted = s.posted /\ t.listed = s.listed /\ t.moved = s.moved /\ RescaleShaped(t)
  <2>1. t = [s EXCEPT !.pc = "loop", !.idx = 1]
    OBVIOUS
  <2> HIDE DEF t
  <2>2. t = [pc |-> "loop", old |-> s.old, k |-> s.k, idx |-> 1, cid |-> s.cid, flake |-> s.flake,
             posted |-> s.posted, listed |-> s.listed, moved |-> s.moved]
    BY <1>2, <2>1 DEF RescaleShaped
  <2> QED BY <2>2 DEF RescaleShaped
<1> HIDE DEF t
<1>4. RescaleTyped(t)
  BY <1>1, <1>2, <1>3 DEF RescaleTyped, Walking, Looping
<1>5. Walk(Slices, structs, t)
  BY <1>1, <1>2, <1>3 DEF Walk, Owed, Walking, Looping
<1> QED BY <1>1, <1>4, <1>5, RescaleStepOK

(* The state of a rescale in its inner loop and the slice that it walks.   *)
LEMMA LoopingState ==
    ASSUME BrokerInv, NEW r \in Rescalers, rescale[r].pc \in Looping \cup {"clear"}
    PROVE  LET s == rescale[r]
               f == Slices[s.old[s.k]]
           IN  /\ RescaleTyped(s) /\ RescaleShaped(s) /\ Walk(Slices, structs, s)
               /\ OldIP(r) = s.old[s.k] /\ s.old[s.k] \in IPs /\ Shown(OldIP(r)) = f
               /\ f \in Seq(0..Len(structs)) /\ Len(f) \in Nat /\ s.idx \in Nat
<1> DEFINE s == rescale[r]
<1>1. RescaleTyped(s) /\ RescaleShaped(s) /\ Walk(Slices, structs, s) /\ OldIP(r) = s.old[s.k]
  BY DEF BrokerInv, RescalesSound, RescaleTyped, OldIP
<1>2. s.old[s.k] \in IPs /\ s.idx \in Nat
  BY <1>1 DEF RescaleTyped, Walking, Looping
<1>3. Shown(OldIP(r)) = Slices[s.old[s.k]] /\ Slices[s.old[s.k]] \in Seq(0..Len(structs))
  BY <1>1, <1>2, SlicesTyped DEF BrokerInv, Showing
<1>4. Len(Slices[s.old[s.k]]) \in Nat
  BY <1>3
<1> QED BY <1>1, <1>2, <1>3, <1>4

(* Steps to where nothing is promised but what was promised before.        *)
LEMMA StopsOK ==
    ASSUME BrokerInv, NEW r \in Rescalers, NEW e \in {"failed", "panicked"},
           rescale' = [rescale EXCEPT ![r].pc = e], UNCHANGED mapVars, UNCHANGED offer
    PROVE  BrokerInv'
<1> DEFINE s == rescale[r]
           u == [s EXCEPT !.pc = e]
<1>1. RescaleTyped(s) /\ RescaleShaped(s) /\ Walk(Slices, structs, s)
  BY DEF BrokerInv, RescalesSound, RescaleTyped
<1>2. rescale' = [rescale EXCEPT ![r] = u]
  OBVIOUS
<1> HIDE DEF s
<1>3. /\ u.pc = e /\ u.old = s.old /\ u.k = s.k /\ u.idx = s.idx
      /\ u.posted = s.posted /\ u.listed = s.listed /\ u.moved = s.moved /\ RescaleShaped(u)
  BY <1>1 DEF RescaleShaped
<1> HIDE DEF u
<1>4. RescaleTyped(u) /\ Walk(Slices, structs, u)
  BY <1>1, <1>3 DEF RescaleTyped, Walk, Walking, Looping
<1> QED BY <1>2, <1>4, RescaleStepOK

LEMMA RescaleLooksOK ==
    ASSUME BrokerInv, NEW r \in Rescalers, RescaleLooks(r)
    PROVE  BrokerInv'
<1> DEFINE s == rescale[r]
           f == Slices[s.old[s.k]]
           pc == IF s.idx <= Len(f) THEN "index" ELSE "clear"
           t == [s EXCEPT !.pc = pc]
<1>0. s.pc = "loop" /\ UNCHANGED mapVars /\ UNCHANGED offer
  BY DEF RescaleLooks, maps, env, mapVars
<1>1. /\ RescaleTyped(s) /\ RescaleShaped(s) /\ Walk(Slices, structs, s) /\ Shown(OldIP(r)) = f
      /\ Len(f) \in Nat /\ s.idx \in Nat
  BY <1>0, LoopingState DEF Looping
<1>2. rescale' = [rescale EXCEPT ![r] = t]
  BY <1>1 DEF RescaleLooks
<1> HIDE DEF s, pc
<1>3. /\ t.pc = pc /\ t.old = s.old /\ t.k = s.k /\ t.idx = s.idx
      /\ t.posted = s.posted /\ t.listed = s.listed /\ t.moved = s.moved /\ RescaleShaped(t)
  BY <1>1 DEF RescaleShaped
<1> HIDE DEF t
<1>4. pc \in {"index", "clear"}
  BY DEF pc
<1>5. RescaleTyped(t)
  BY <1>0, <1>1, <1>3, <1>4 DEF RescaleTyped, Walking, Looping
<1>6. Walk(Slices, structs, t)
  <2>1. CASE pc = "clear"
    <3>1. s.idx > Len(f)
      BY <1>1, <2>1 DEF pc
    <3> QED BY <1>0, <1>1, <1>3, <2>1, <3>1, WalkEndsSlice
  <2>2. CASE pc = "index"
    <3>1. \A l : Owed(Slices, structs, s, l) => Owed(Slices, structs, t, l)
      BY <1>0, <1>3, <2>2 DEF Owed, Looping
    <3> QED BY <1>0, <1>1, <1>3, <2>2, <3>1 DEF Walk, Walking, Looping
  <2> QED BY <1>4, <2>1, <2>2
<1> QED BY <1>0, <1>2, <1>5, <1>6, RescaleStepOK

LEMMA RescaleIndexesOK ==
    ASSUME BrokerInv, NEW r \in Rescalers, RescaleIndexes(r)
    PROVE  BrokerInv'
<1> DEFINE s == rescale[r]
           f == Slices[s.old[s.k]]
           c == structs[f[s.idx]]
           t == [s EXCEPT !.pc = "match", !.cid = c]
<1>0. s.pc = "index" /\ UNCHANGED mapVars /\ UNCHANGED offer
  BY DEF RescaleIndexes, maps, env, mapVars
<1>1. /\ RescaleTyped(s) /\ RescaleShaped(s) /\ Walk(Slices, structs, s) /\ Shown(OldIP(r)) = f
      /\ f \in Seq(0..Len(structs)) /\ Len(f) \in Nat /\ s.idx \in Nat
  BY <1>0, LoopingState DEF Looping
<1>2. CASE s.idx > Len(f) \/ f[s.idx] = NoClient
  <2>1. rescale' = [rescale EXCEPT ![r].pc = "panicked"]
    BY <1>1, <1>2 DEF RescaleIndexes
  <2> QED BY <1>0, <2>1, StopsOK
<1>3. CASE ~(s.idx > Len(f) \/ f[s.idx] = NoClient)
  <2>1. rescale' = [rescale EXCEPT ![r] = t]
    BY <1>1, <1>3 DEF RescaleIndexes
  <2>2. s.idx \in 1..Len(f)
    <3>1. s.idx >= 1
      BY <1>0, <1>1 DEF RescaleTyped, Looping
    <3> QED BY <1>1, <1>3, <3>1
  <2>3. f[s.idx] \in 1..Len(structs)
    <3>1. f[s.idx] \in 0..Len(structs)
      <4> DEFINE S == 0..Len(structs)
      <4>1. f \in Seq(S)
        BY <1>1
      <4> HIDE DEF S, f
      <4>2. f[s.idx] \in S
        BY <2>2, <4>1
      <4> QED BY <4>2 DEF S
    <3>2. structs \in Seq(Cids)
      BY DEF BrokerInv, MapsSound
    <3>3. Len(structs) \in Nat
      BY <3>2
    <3> QED BY <1>3, <3>1, <3>3 DEF NoClient
  <2> HIDE DEF s, c
  <2>4. /\ t.pc = "match" /\ t.old = s.old /\ t.k = s.k /\ t.idx = s.idx /\ t.cid = c
        /\ t.posted = s.posted /\ t.listed = s.listed /\ t.moved = s.moved /\ RescaleShaped(t)
    <3>1. t = [s EXCEPT !.pc = "match", !.cid = c]
      OBVIOUS
    <3> HIDE DEF t
    <3>2. t = [pc |-> "match", old |-> s.old, k |-> s.k, idx |-> s.idx, cid |-> c, flake |-> s.flake,
               posted |-> s.posted, listed |-> s.listed, moved |-> s.moved]
      BY <1>1, <3>1 DEF RescaleShaped
    <3> QED BY <3>2 DEF RescaleShaped
  <2> HIDE DEF t
  <2>5. RescaleTyped(t)
    BY <1>0, <1>1, <2>4 DEF RescaleTyped, Walking, Looping
  <2>6. AtIdx(Slices, structs, t)
    <3>1. t.idx <= Len(Slices[t.old[t.k]]) /\ Slices[t.old[t.k]][t.idx] \in 1..Len(structs)
      BY <1>1, <2>2, <2>3, <2>4
    <3>2. structs[Slices[t.old[t.k]][t.idx]] = t.cid
      BY <2>4 DEF c
    <3> QED BY <3>1, <3>2 DEF AtIdx
  <2>7. \A l : Owed(Slices, structs, s, l) => Owed(Slices, structs, t, l)
    BY <1>0, <2>4 DEF Owed, Looping
  <2>8. Walk(Slices, structs, t)
    BY <1>0, <1>1, <2>4, <2>6, <2>7 DEF Walk, Walking, Looping
  <2> QED BY <1>0, <2>1, <2>5, <2>8, RescaleStepOK
<1> QED BY <1>2, <1>3

LEMMA RescaleMatchOK ==
    ASSUME BrokerInv, NEW r \in Rescalers, RescaleMatch(r)
    PROVE  BrokerInv'
<1> DEFINE s == rescale[r]
           nat == ClientNAT[s.cid]
           x == Matched(nat)
           t == [s EXCEPT !.pc = "post", !.flake = x]
<1>0. s.pc = "match" /\ UNCHANGED mapVars /\ UNCHANGED offer
  BY DEF RescaleMatch, maps, env, mapVars
<1>1. RescaleTyped(s) /\ RescaleShaped(s) /\ Walk(Slices, structs, s)
  BY DEF BrokerInv, RescalesSound, RescaleTyped
<1>2. CASE x = NoFlake
  <2>1. rescale' = [rescale EXCEPT ![r].pc = "failed"]
    BY <1>2 DEF RescaleMatch
  <2> QED BY <1>0, <2>1, StopsOK
<1>3. CASE x # NoFlake
  <2>1. rescale' = [rescale EXCEPT ![r] = t]
    BY <1>3 DEF RescaleMatch
  <2> HIDE DEF s, x
  <2>2. /\ t.pc = "post" /\ t.old = s.old /\ t.k = s.k /\ t.idx = s.idx /\ t.cid = s.cid
        /\ t.posted = s.posted /\ t.listed = s.listed /\ t.moved = s.moved /\ RescaleShaped(t)
    <3>1. t = [s EXCEPT !.pc = "post", !.flake = x]
      OBVIOUS
    <3> HIDE DEF t
    <3>2. t = [pc |-> "post", old |-> s.old, k |-> s.k, idx |-> s.idx, cid |-> s.cid, flake |-> x,
               posted |-> s.posted, listed |-> s.listed, moved |-> s.moved]
      BY <1>1, <3>1 DEF RescaleShaped
    <3> QED BY <3>2 DEF RescaleShaped
  <2> HIDE DEF t
  <2>3. RescaleTyped(t)
    BY <1>0, <1>1, <2>2 DEF RescaleTyped, Walking, Looping
  <2>4. \A l : Owed(Slices, structs, s, l) => Owed(Slices, structs, t, l)
    BY <1>0, <2>2 DEF Owed, Looping
  <2>5. AtIdx(Slices, structs, s) => AtIdx(Slices, structs, t)
    BY <2>2 DEF AtIdx
  <2>6. Walk(Slices, structs, t)
    BY <1>0, <1>1, <2>2, <2>4, <2>5 DEF Walk, Walking, Looping
  <2> QED BY <1>0, <2>1, <2>3, <2>6, RescaleStepOK
<1> QED BY <1>2, <1>3

LEMMA RescaleTransferOK ==
    ASSUME BrokerInv, NEW r \in Rescalers, RescaleTransfer(r)
    PROVE  BrokerInv'
<1> DEFINE s == rescale[r]
           i == s.idx + 1
           x == s.posted \cup {<<s.cid, OldIP(r)>>}
           t == [s EXCEPT !.pc = "loop", !.idx = i, !.cid = NoCid, !.flake = NoFlake, !.posted = x]
<1>1. s.pc = "post" /\ rescale' = [rescale EXCEPT ![r] = t] /\ UNCHANGED mapVars /\ UNCHANGED offer
  BY DEF RescaleTransfer, maps, mapVars
<1>2. RescaleTyped(s) /\ RescaleShaped(s) /\ Walk(Slices, structs, s) /\ OldIP(r) = s.old[s.k]
  BY <1>1, LoopingState DEF Looping
<1> HIDE DEF s
<1>3. /\ t.pc = "loop" /\ t.old = s.old /\ t.k = s.k /\ t.idx = i
      /\ t.posted = x /\ t.listed = s.listed /\ t.moved = s.moved /\ RescaleShaped(t)
  <2>1. t = [s EXCEPT !.pc = "loop", !.idx = i, !.cid = NoCid, !.flake = NoFlake, !.posted = x]
    OBVIOUS
  <2> HIDE DEF t, i, x
  <2>2. t = [pc |-> "loop", old |-> s.old, k |-> s.k, idx |-> i, cid |-> NoCid, flake |-> NoFlake,
             posted |-> x, listed |-> s.listed, moved |-> s.moved]
    BY <1>2, <2>1 DEF RescaleShaped
  <2> QED BY <2>2 DEF RescaleShaped
<1> HIDE DEF t
<1>4. i \in Nat /\ i >= 1
  BY <1>2 DEF RescaleTyped
<1>5. RescaleTyped(t)
  <2> HIDE DEF i, x
  <2> QED BY <1>1, <1>2, <1>3, <1>4 DEF RescaleTyped, Walking, Looping
<1>6. Walk(Slices, structs, t)
  BY <1>1, <1>2, <1>3, <1>5, WalkTransfers
<1> QED BY <1>1, <1>5, <1>6, RescaleStepOK

LEMMA RescaleClearOK ==
    ASSUME BrokerInv, NEW r \in Rescalers, RescaleClear(r)
    PROVE  BrokerInv'
<1> DEFINE s == rescale[r]
           p == OldIP(r)
           k == s.k + 1
           pc == IF s.k < Len(s.old) THEN "drop" ELSE "done"
           t == [s EXCEPT !.k = k, !.pc = pc]
           other(q) == Moved(rescale[q], Disturbed)
<1>1. /\ s.pc = "clear" /\ Proxy2Client' = [Proxy2Client EXCEPT ![p] = NilSlice]
      /\ UNCHANGED <<structs, Cid2Client, arrays, notice, offer, connected>>
  BY DEF RescaleClear, pure, env
<1>2. rescale' = [q \in Rescalers |-> IF q = r THEN t ELSE other(q)]
  BY DEF RescaleClear
<1>3. RescaleTyped(s) /\ RescaleShaped(s) /\ Walk(Slices, structs, s) /\ p = s.old[s.k] /\ p \in IPs
  BY <1>1, LoopingState
<1> HIDE DEF s, p
<1>4. Proxy2Client' = [q \in IPs |-> IF q = p THEN NilSlice ELSE Proxy2Client[q]]
  BY <1>1, <1>3 DEF BrokerInv, ArraysSound
<1>5. /\ Proxy2Client' = [q \in IPs |-> Proxy2Client'[q]]
      /\ \A q \in IPs : Proxy2Client'[q] = IF q = p THEN NilSlice ELSE Proxy2Client[q]
  BY <1>4
<1>6. ArraysSound'
  <2>1. structs \in Seq(Cids) /\ arrays \in Seq(Seq(Pointers)) /\ \A q \in IPs : Header(arrays, Proxy2Client[q])
    BY DEF BrokerInv, MapsSound, ArraysSound, Pointers
  <2>2. Header(arrays, NilSlice)
    <3> DEFINE S == Seq(Pointers)
    <3>1. arrays \in Seq(S)
      BY <2>1
    <3> HIDE DEF S
    <3>2. Len(arrays) \in Nat /\ Len(structs) \in Nat
      BY <2>1, <3>1
    <3> QED BY <3>2, NilSound
  <2>3. \A q \in IPs : Header(arrays', Proxy2Client'[q])
    BY <1>1, <1>5, <2>1, <2>2
  <2> QED BY <1>1, <1>5, <2>1, <2>3 DEF ArraysSound, Pointers
<1>7. \A q \in IPs : q # p => Slices'[q] = Slices[q]
  BY <1>1, <1>5 DEF Slices, Shown, Elems, Cells
<1>8. \A q \in Rescalers : RescaleTyped(other(q)) /\ Walk(Slices', structs', other(q))
  <2>1. \A q \in Rescalers : RescaleTyped(rescale[q]) /\ Walk(Slices, structs, rescale[q])
    BY DEF BrokerInv, RescalesSound
  <2> QED BY <1>1, <1>6, <2>1, DisturbedOK
<1>9. /\ t.pc = pc /\ t.old = s.old /\ t.k = k /\ t.idx = s.idx
      /\ t.posted = s.posted /\ t.listed = s.listed /\ t.moved = s.moved /\ RescaleShaped(t)
  <2>1. t = [s EXCEPT !.k = k, !.pc = pc]
    OBVIOUS
  <2> HIDE DEF t, k, pc
  <2>2. t = [pc |-> pc, old |-> s.old, k |-> k, idx |-> s.idx, cid |-> s.cid, flake |-> s.flake,
             posted |-> s.posted, listed |-> s.listed, moved |-> s.moved]
    BY <1>3, <2>1 DEF RescaleShaped
  <2> QED BY <2>2 DEF RescaleShaped
<1> HIDE DEF t
<1>10. s.k \in 1..Len(s.old) /\ Len(s.old) \in Nat /\ s.old \in Seq(IPs)
  BY <1>1, <1>3 DEF RescaleTyped, Walking
<1>11. RescaleTyped(t)
  <2>1. k \in Nat /\ pc \in {"drop", "done"} /\ (pc = "drop" => k \in 1..Len(s.old))
    BY <1>10
  <2> HIDE DEF k, pc
  <2> QED BY <1>3, <1>9, <2>1 DEF RescaleTyped, Walking, Looping
<1>12. Walk(Slices', structs, t)
  <2>1. \A j \in 1..Len(s.old) : s.old[j] # s.old[s.k] => Slices'[s.old[j]] = Slices[s.old[j]]
    BY <1>3, <1>7, <1>10
  <2> QED BY <1>1, <1>3, <1>9, <2>1, WalkClears
<1> HIDE DEF other
<1>13. RescalesSound'
  <2>1. /\ rescale' = [q \in Rescalers |-> rescale'[q]]
        /\ \A q \in Rescalers : rescale'[q] = IF q = r THEN t ELSE other(q)
    BY <1>2
  <2> QED BY <1>1, <1>8, <1>11, <1>12, <2>1 DEF RescalesSound
<1>14. MapsSound' /\ OffersSound' /\ NoticesSound'
  BY <1>1 DEF BrokerInv, MapsSound, OffersSound, NoticesSound
<1> QED BY <1>6, <1>13, <1>14 DEF BrokerInv

\* The memory of a process that has just died or not started.
Started ==
    /\ structs = <<>> /\ Cid2Client = [c \in Cids |-> NoClient]
    /\ Proxy2Client = [p \in IPs |-> NilSlice] /\ arrays = <<>>
    /\ offer = [h \in Offers |-> IdleOffer] /\ notice = [n \in Notices |-> IdleNotice]
    /\ rescale = [r \in Rescalers |-> IdleRescale]
    /\ connected \subseteq Cids \X IPs

LEMMA StartOK == Started => BrokerInv
<1> SUFFICES ASSUME Started PROVE BrokerInv
  OBVIOUS
<1> USE DEF Started
<1>1. MapsSound
  <2>1. <<>> \in Seq(Cids) /\ Len(<<>>) = 0 /\ 0 \in 0..0
    OBVIOUS
  <2> QED BY <2>1 DEF MapsSound, NoClient
<1>2. OffersSound
  <2>1. OfferSound(IdleOffer)
    BY DEF OfferSound, IdleOffer
  <2> QED BY <2>1 DEF OffersSound
<1>3. Header(arrays, NilSlice) /\ NoticeSound(IdleNotice, arrays, Len(structs))
  <2>1. Len(arrays) = 0 /\ Len(structs) = 0 /\ 0 \in Nat
    OBVIOUS
  <2> QED BY <2>1, NilSound
<1>4. ArraysSound
  <2>1. <<>> \in Seq(Seq(0..Len(structs)))
    <3> DEFINE S == Seq(0..Len(structs))
    <3> HIDE DEF S
    <3>1. <<>> \in Seq(S)
      OBVIOUS
    <3> QED BY <3>1 DEF S
  <2>2. Proxy2Client = [p \in IPs |-> Proxy2Client[p]] /\ \A p \in IPs : Proxy2Client[p] = NilSlice
    OBVIOUS
  <2> QED BY <1>3, <2>1, <2>2 DEF ArraysSound
<1>5. NoticesSound
  <2>1. notice = [n \in Notices |-> notice[n]] /\ \A n \in Notices : notice[n] = IdleNotice
    OBVIOUS
  <2> QED BY <1>3, <2>1 DEF NoticesSound
<1>6. RescalesSound
  <2>1. /\ RescaleShaped(IdleRescale) /\ IdleRescale.pc = "idle" /\ IdleRescale.old = <<>> /\ IdleRescale.k = 0
        /\ IdleRescale.idx = 0 /\ IdleRescale.listed = {}
    BY DEF RescaleShaped, IdleRescale
  <2>2. RescaleTyped(IdleRescale) /\ \A f, g : Walk(f, g, IdleRescale)
    BY <2>1 DEF RescaleTyped, Walk, Walking, Looping
  <2>3. rescale = [r \in Rescalers |-> rescale[r]] /\ \A r \in Rescalers : rescale[r] = IdleRescale
    OBVIOUS
  <2> QED BY <2>2, <2>3 DEF RescalesSound
<1> QED BY <1>1, <1>2, <1>4, <1>5, <1>6 DEF BrokerInv

LEMMA NextOK ==
    ASSUME BrokerInv, [Next]_vars
    PROVE  BrokerInv'
<1>1. CASE UNCHANGED mapVars /\ UNCHANGED <<offer, rescale>>
  <2>1. MapsSound' /\ ArraysSound' /\ NoticesSound' /\ Slices' = Slices /\ structs' = structs
    BY <1>1, MapsStay DEF mapVars
  <2>2. OffersSound' /\ RescalesSound'
    BY <1>1, <2>1 DEF BrokerInv, OffersSound, RescalesSound
  <2> QED BY <2>1, <2>2 DEF BrokerInv
<1>2. ASSUME NEW p \in IPs, NEW nat \in NATs, ProxyPolls(p, nat) PROVE BrokerInv'
  BY <1>1, <1>2 DEF ProxyPolls, mapVars
<1>3. CASE Restart \/ UNCHANGED vars
  BY <1>1, <1>3 DEF Restart, vars, maps, env, mapVars
<1>4. CASE Crash
  <2>1. Started'
    BY <1>4 DEF Crash, BrokerInv, MapsSound, Started, env
  <2> QED BY <2>1, StartOK, PTL
<1>5. ASSUME NEW n \in Notices, NoticeStep(n) PROVE BrokerInv'
  BY <1>5, NoticeQuietOK, AddAppendsOK, DeleteShiftsOK, NoticeStoresOK DEF NoticeStep
<1>6. ASSUME NEW r \in Rescalers, RescaleStep(r) PROVE BrokerInv'
  BY <1>6, RescaleDropOK, RescaleLooksOK, RescaleIndexesOK, RescaleMatchOK, RescaleTransferOK, RescaleClearOK
     DEF RescaleStep
<1>7. CASE Handlers
  BY <1>2, <1>5, <1>6, <1>7, OffersOK, OfferStoreOK, ChannelOpensOK, ChannelClosesOK, RescaleRemoveOK DEF Handlers
<1> QED BY <1>3, <1>4, <1>7 DEF Next

(* A Rescale that returns true has posted a transfer for every client that *)
(* was listed when it began, and is connected still, for any number of     *)
(* handlers whose reads, edits and stores of the unguarded map interleave  *)
(* with it; unless the slice of that address, which it walks by index,     *)
(* changed otherwise than by growing (ipc.go:310-317, 334-351).            *)
THEOREM AllClientsMigratedHolds == Spec => []AllClientsMigrated
<1>1. Init => BrokerInv
  BY StartOK DEF Init, BrokerInit, Started
<1>2. BrokerInv /\ [Next]_vars => BrokerInv'
  BY NextOK
<1>3. BrokerInv => AllClientsMigrated
  BY DEF BrokerInv, RescalesSound, Walk, AllClientsMigrated
<1> QED BY <1>1, <1>2, <1>3, PTL DEF Spec
-----------------------------------------------------------------------------
(* The pool and its index by address                                       *)

Slice(f) == [flakes |-> f, index |-> index]

\* The heaps as Rescale leaves them: no Snowflake twice, in no order.
PoolSound ==
    /\ nats \in Seq(NATs) /\ Len(nats) <= MaxFlakes /\ clients \in [Flakes -> Nat]
    /\ Loose(Slice(snowflakes), Flakes, MaxFlakes)
    /\ Loose(Slice(restrictedSnowflakes), Flakes, MaxFlakes)
    /\ \A x \in Flakes : In(Slice(snowflakes), x) \/ In(Slice(restrictedSnowflakes), x) => x \in Allocated

PlacesSound ==
    /\ ips \in Seq(IPs) /\ Len(ips) = Len(nats) /\ idToSnowflake \subseteq Allocated
    /\ ProxyIP2Snowflake \in [IPs -> Allocated \cup {NoFlake}]

Old(s) == IF s.pc = "idle" THEN {} ELSE ToSet(s.old)

\* With one poll per address: the unrestricted heap holds no proxy that is rescaled
\* away and none that the index by address has lost, and those never poll again.
FleetSound ==
    /\ polled \in [IPs -> Nat]
    /\ \A x \in Allocated : polled[ips[x]] > 0
    /\ \A r \in Rescalers : \A p \in Old(rescale[r]) : polled[p] > 0
    /\ \A x \in Flakes : In(Slice(snowflakes), x) =>
          ProxyIP2Snowflake[ips[x]] = x /\ \A r \in Rescalers : ips[x] \notin Old(rescale[r])
    /\ NATs = {NATUnrestricted} => restrictedSnowflakes = <<>>

(* The critical sections under snowflakeLock                               *)

(* A slice of different elements of 1..k has at most k.                    *)
LEMMA FewDiffer ==
    ASSUME NEW k \in Nat, NEW n \in Nat, NEW f \in [1..n -> 1..k],
           \A i, j \in 1..n : f[i] = f[j] => i = j
    PROVE  n <= k
<1>1. f \in Injection(1..n, 1..k)
  BY Zenon DEF Injection, IsInjective
<1>2. IsFiniteSet(1..k) /\ Cardinality(1..k) = k /\ Cardinality(1..n) = n
  BY FS_Interval
<1>3. Cardinality(1..n) <= Cardinality(1..k)
  BY <1>1, <1>2, FS_Injection
<1> QED BY <1>2, <1>3

\* The heaps with another slice in the place of one of them, as SetHeap leaves them.
HeapSet(nat, sh) ==
    /\ Loose(Slice(snowflakes), Flakes, MaxFlakes)'
    /\ Loose(Slice(restrictedSnowflakes), Flakes, MaxFlakes)'
    /\ nat = NATUnrestricted =>
          /\ \A x \in Flakes : In(Slice(snowflakes), x)' <=> In(sh, x)
          /\ restrictedSnowflakes' = restrictedSnowflakes
    /\ nat # NATUnrestricted =>
          /\ \A x \in Flakes : In(Slice(restrictedSnowflakes), x)' <=> In(sh, x)
          /\ snowflakes' = snowflakes

LEMMA SetHeapOK ==
    ASSUME PoolSound, NEW nat, NEW sh, Loose(sh, Flakes, MaxFlakes), SetHeap(nat, sh)
    PROVE  HeapSet(nat, sh)
<1>1. index' = sh.index /\ sh = [flakes |-> sh.flakes, index |-> sh.index]
  BY DEF SetHeap, Loose
<1>2. \A f : Loose(Slice(f), Flakes, MaxFlakes) => Loose([flakes |-> f, index |-> index'], Flakes, MaxFlakes)
  BY <1>1 DEF Loose, Slice
<1>3. CASE nat = NATUnrestricted
  <2>1. snowflakes' = sh.flakes /\ restrictedSnowflakes' = restrictedSnowflakes
    BY <1>3 DEF SetHeap
  <2>2. [flakes |-> snowflakes', index |-> index'] = sh
    BY <1>1, <2>1
  <2>3. Loose([flakes |-> restrictedSnowflakes', index |-> index'], Flakes, MaxFlakes)
    BY <1>2, <2>1 DEF PoolSound
  <2> QED BY <1>3, <2>1, <2>2, <2>3 DEF HeapSet, Slice
<1>4. CASE nat # NATUnrestricted
  <2>1. restrictedSnowflakes' = sh.flakes /\ snowflakes' = snowflakes
    BY <1>4 DEF SetHeap
  <2>2. [flakes |-> restrictedSnowflakes', index |-> index'] = sh
    BY <1>1, <2>1
  <2>3. Loose([flakes |-> snowflakes', index |-> index'], Flakes, MaxFlakes)
    BY <1>2, <2>1 DEF PoolSound
  <2> QED BY <1>4, <2>1, <2>2, <2>3 DEF HeapSet, Slice
<1> QED BY <1>3, <1>4

LEMMA HeapOfIs ==
    ASSUME PoolSound, NEW nat
    PROVE  /\ Loose(HeapOf(nat), Flakes, MaxFlakes)
           /\ HeapOf(nat) = IF nat = NATUnrestricted THEN Slice(snowflakes) ELSE Slice(restrictedSnowflakes)
           /\ \A x \in Flakes : In(HeapOf(nat), x) => x \in Allocated
<1>1. HeapOf(nat) = IF nat = NATUnrestricted THEN Slice(snowflakes) ELSE Slice(restrictedSnowflakes)
  BY DEF HeapOf, Slice
<1> QED BY <1>1 DEF PoolSound

\* Only x entered the pool, and only the unrestricted heap if it is of that NAT type.
Entered(nat, x) ==
    /\ \A y \in Flakes : In(Slice(snowflakes), y)' => In(Slice(snowflakes), y) \/ y = x
    /\ nat = NATUnrestricted => restrictedSnowflakes' = restrictedSnowflakes

LEMMA RegisterOK ==
    ASSUME PoolSound, NEW nat \in NATs, Register(nat)
    PROVE  PoolSound' /\ Entered(nat, Len(nats) + 1) /\ Len(nats)' = Len(nats) + 1
<1> DEFINE x == Len(nats) + 1
           n == Len(nats)
           h == HeapOf(nat)
           sh == HeapPush(clients, h, x)
<1>0. MaxFlakes \in Nat /\ n \in Nat /\ Allocated = 1..n /\ Flakes = 1..MaxFlakes
  BY PoolBounds DEF PoolSound, Allocated, Flakes
<1>1. x \in Flakes /\ nats' = Append(nats, nat) /\ SetHeap(nat, sh) /\ clients' = clients
  BY DEF Register
<1>2. nats' \in Seq(NATs) /\ Len(nats') = n + 1 /\ n + 1 <= MaxFlakes /\ Allocated' = 1..(n + 1)
  BY <1>0, <1>1 DEF PoolSound, Allocated
<1>3. Loose(h, Flakes, MaxFlakes) /\ \A y \in Flakes : In(h, y) => y \in 1..n
  BY <1>0, HeapOfIs
<1>4. ~In(h, x)
  BY <1>0, <1>1, <1>3
<1>5. Len(h.flakes) < MaxFlakes
  <2> HIDE DEF h
  <2>1. /\ Len(h.flakes) \in Nat /\ h.flakes \in [1..Len(h.flakes) -> Flakes]
        /\ \A i, j \in 1..Len(h.flakes) : h.flakes[i] = h.flakes[j] => i = j
    BY <1>0, <1>3, LooseFields DEF Loose
  <2>2. h.flakes \in [1..Len(h.flakes) -> 1..n]
    <3>1. \A i \in 1..Len(h.flakes) : h.flakes[i] \in Flakes /\ In(h, h.flakes[i])
      BY <2>1 DEF In
    <3> QED BY <1>3, <2>1, <3>1
  <2>3. Len(h.flakes) <= n
    BY <1>0, <2>1, <2>2, FewDiffer
  <2> QED BY <1>0, <1>2, <2>1, <2>3
<1> HIDE DEF x, h
<1>6. Loose(sh, Flakes, MaxFlakes) /\ \A y \in Flakes : In(sh, y) <=> In(h, y) \/ y = x
  BY <1>0, <1>1, <1>3, <1>4, <1>5, LoosePush
<1> HIDE DEF sh
<1>7. HeapSet(nat, sh)
  BY <1>1, <1>6, SetHeapOK
<1>8. h = IF nat = NATUnrestricted THEN Slice(snowflakes) ELSE Slice(restrictedSnowflakes)
  BY HeapOfIs DEF h
<1>9. \A f : \A y : In([flakes |-> f, index |-> index'], y) <=> In(Slice(f), y)
  BY DEF In, Slice
<1>10. \A y \in Flakes : In(Slice(snowflakes), y)' => In(Slice(snowflakes), y) \/ y = x
  BY <1>6, <1>7, <1>8, <1>9 DEF HeapSet, Slice
<1>11. \A y \in Flakes : In(Slice(restrictedSnowflakes), y)' => In(Slice(restrictedSnowflakes), y) \/ y = x
  BY <1>6, <1>7, <1>8, <1>9 DEF HeapSet, Slice
<1>12. \A y \in Flakes : In(Slice(snowflakes), y)' \/ In(Slice(restrictedSnowflakes), y)' => y \in Allocated'
  <2>1. \A y \in Flakes : In(Slice(snowflakes), y) \/ In(Slice(restrictedSnowflakes), y) => y \in 1..n
    BY <1>0 DEF PoolSound
  <2>2. x \in 1..(n + 1) /\ 1..n \subseteq 1..(n + 1)
    BY <1>0 DEF x
  <2> QED BY <1>2, <1>10, <1>11, <2>1, <2>2
<1>13. PoolSound'
  BY <1>1, <1>2, <1>7, <1>12 DEF PoolSound, HeapSet
<1> QED BY <1>2, <1>7, <1>10, <1>13 DEF Entered, HeapSet, x

LEMMA TakeMatchOK ==
    ASSUME PoolSound, NEW nat, TakeMatch(nat)
    PROVE  /\ PoolSound' /\ nats' = nats
           /\ \A y \in Flakes : In(Slice(snowflakes), y)' => In(Slice(snowflakes), y)
           /\ restrictedSnowflakes = <<>> => restrictedSnowflakes' = <<>>
<1> DEFINE t == PoolFor(nat)
           h == HeapOf(t)
           x == Head(h.flakes)
           ph == HeapPop(clients, h)
           sh == HeapPush(clients, ph, x)
<1>0. MaxFlakes \in Nat /\ Flakes = 1..MaxFlakes
  BY PoolBounds DEF Flakes
<1>1. /\ h.flakes # <<>> /\ SetHeap(t, sh)
      /\ clients' = [clients EXCEPT ![x] = @ + 1] /\ nats' = nats
  <2>1. Matched(nat) = IF h.flakes = <<>> THEN NoFlake ELSE x
    BY DEF Matched
  <2> QED BY <2>1 DEF TakeMatch
<1>2. Loose(h, Flakes, MaxFlakes) /\ h = IF t = NATUnrestricted THEN Slice(snowflakes) ELSE Slice(restrictedSnowflakes)
  BY HeapOfIs
<1> HIDE DEF h, t
<1>3. /\ Loose(ph, Flakes, MaxFlakes) /\ Len(ph.flakes) = Len(h.flakes) - 1
      /\ x = h.flakes[1] /\ 1 \in 1..Len(h.flakes)
      /\ \A y \in Flakes : In(ph, y) <=> In(h, y) /\ y # x
  <2>1. MaxFlakes \in Nat /\ Loose(h, Flakes, MaxFlakes) /\ h.flakes # <<>>
    BY <1>0, <1>1, <1>2
  <2> QED BY <2>1, LoosePop
<1>4. x \in Flakes /\ In(h, x) /\ Len(h.flakes) \in Nat /\ Len(h.flakes) <= MaxFlakes
  <2>1. h.flakes \in [1..Len(h.flakes) -> Flakes] /\ Len(h.flakes) \in Nat /\ Len(h.flakes) <= MaxFlakes
    BY <1>0, <1>2, LooseFields DEF Loose
  <2> QED BY <1>3, <2>1 DEF In
<1> HIDE DEF ph, x
<1>5. ~In(ph, x) /\ Len(ph.flakes) < MaxFlakes
  BY <1>0, <1>3, <1>4
<1>6. Loose(sh, Flakes, MaxFlakes) /\ \A y \in Flakes : In(sh, y) <=> In(ph, y) \/ y = x
  <2>1. /\ MaxFlakes \in Nat /\ Loose(ph, Flakes, MaxFlakes) /\ Len(ph.flakes) < MaxFlakes
        /\ x \in Flakes /\ ~In(ph, x)
    BY <1>0, <1>3, <1>4, <1>5
  <2> QED BY <2>1, LoosePush
<1> HIDE DEF sh
<1>7. HeapSet(t, sh)
  BY <1>1, <1>6, SetHeapOK
<1>8. \A y \in Flakes : In(sh, y) <=> In(h, y)
  BY <1>3, <1>4, <1>6
<1>9. \A f : \A y : In([flakes |-> f, index |-> index'], y) <=> In(Slice(f), y)
  BY DEF In, Slice
<1>10. \A y \in Flakes : In(Slice(snowflakes), y)' <=> In(Slice(snowflakes), y)
  BY <1>2, <1>7, <1>8, <1>9 DEF HeapSet, Slice
<1>11. \A y \in Flakes : In(Slice(restrictedSnowflakes), y)' <=> In(Slice(restrictedSnowflakes), y)
  BY <1>2, <1>7, <1>8, <1>9 DEF HeapSet, Slice
<1>12. clients' \in [Flakes -> Nat]
  BY <1>1, <1>4 DEF PoolSound
<1>13. PoolSound'
  <2>1. nats' = nats /\ Allocated' = Allocated
    BY <1>1 DEF Allocated
  <2> QED BY <1>7, <1>10, <1>11, <1>12, <2>1 DEF PoolSound, HeapSet
<1>14. restrictedSnowflakes = <<>> => restrictedSnowflakes' = <<>>
  <2>1. CASE t = NATUnrestricted
    BY <1>7, <2>1 DEF HeapSet
  <2>2. CASE t # NATUnrestricted
    BY <1>1, <1>2, <2>2 DEF Slice
  <2> QED BY <2>1, <2>2
<1> QED BY <1>1, <1>10, <1>13, <1>14

\* The rounds of SliceRemoveAll.
RemoveRun(r, sh, xs, n) == r = [k \in 0..n |-> IF k = 0 THEN sh ELSE SliceRemove(r[k - 1], xs[k])]

LEMMA RemoveRuns ==
    ASSUME NEW sh, NEW xs, Len(xs) \in Nat
    PROVE  \E r : RemoveRun(r, sh, xs, Len(xs)) /\ SliceRemoveAll(sh, xs) = r[Len(xs)]
<1> DEFINE n == Len(xs)
           P(m) == \E r : RemoveRun(r, sh, xs, m)
           T == {m \in Nat : P(m)}
           R == CHOOSE r : RemoveRun(r, sh, xs, n)
<1>1. P(0)
  <2> DEFINE r == [k \in 0..0 |-> sh]
  <2>1. RemoveRun(r, sh, xs, 0)
    BY DEF RemoveRun
  <2> QED BY <2>1
<1>2. ASSUME NEW m \in Nat, P(m) PROVE P(m + 1)
  <2>1. PICK r : RemoveRun(r, sh, xs, m)
    BY <1>2
  <2> DEFINE q == [k \in 0..(m + 1) |-> IF k <= m THEN r[k] ELSE SliceRemove(r[m], xs[m + 1])]
  <2>2. r = [k \in 0..m |-> IF k = 0 THEN sh ELSE SliceRemove(r[k - 1], xs[k])]
    BY <2>1 DEF RemoveRun
  <2>3. ASSUME NEW k \in 0..(m + 1) PROVE q[k] = IF k = 0 THEN sh ELSE SliceRemove(q[k - 1], xs[k])
    <3>1. CASE k = 0
      BY <2>2, <3>1
    <3>2. CASE k # 0 /\ k <= m
      <4>1. k \in 0..m /\ k - 1 \in 0..m /\ q[k - 1] = r[k - 1]
        BY <3>2
      <4> QED BY <2>2, <3>2, <4>1
    <3>3. CASE k # 0 /\ ~(k <= m)
      <4>1. k = m + 1 /\ q[m] = r[m] /\ k - 1 = m
        BY <3>3
      <4> QED BY <3>3, <4>1
    <3> QED BY <3>1, <3>2, <3>3
  <2>4. q = [k \in 0..(m + 1) |-> q[k]]
    OBVIOUS
  <2> HIDE DEF q
  <2>5. [k \in 0..(m + 1) |-> q[k]] = [k \in 0..(m + 1) |-> IF k = 0 THEN sh ELSE SliceRemove(q[k - 1], xs[k])]
    BY <2>3
  <2>6. RemoveRun(q, sh, xs, m + 1)
    BY <2>4, <2>5 DEF RemoveRun
  <2> QED BY <2>6
<1>3. 0 \in T /\ \A m \in Nat : m \in T => m + 1 \in T
  <2> HIDE DEF P
  <2> QED BY <1>1, <1>2
<1>4. Nat \subseteq T
  <2> HIDE DEF T
  <2> QED BY <1>3, SetInduction
<1>5. P(n)
  <2> HIDE DEF P
  <2> QED BY <1>4
<1>6. RemoveRun(R, sh, xs, n)
  BY <1>5, Zenon
<1>7. SliceRemoveAll(sh, xs) = R[n]
  BY Zenon DEF SliceRemoveAll, RemoveRun
<1> HIDE DEF R
<1> QED BY <1>6, <1>7

LEMMA SliceRemoveAllOK ==
    ASSUME NEW X, NEW K \in Nat, NEW sh, Loose(sh, X, K), NEW xs, Len(xs) \in Nat
    PROVE  LET th == SliceRemoveAll(sh, xs)
           IN  /\ Loose(th, X, K) /\ th.index = sh.index
               /\ \A y \in X : In(th, y) => In(sh, y) /\ \A k \in 1..Len(xs) : xs[k] # y
<1> DEFINE n == Len(xs)
<1>1. PICK r : RemoveRun(r, sh, xs, n) /\ SliceRemoveAll(sh, xs) = r[n]
  BY RemoveRuns
<1> DEFINE P(m) == /\ Loose(r[m], X, K) /\ r[m].index = sh.index
                   /\ \A y \in X : In(r[m], y) => In(sh, y) /\ \A k \in 1..m : xs[k] # y
           T == {m \in Nat : m <= n => P(m)}
<1>2. r[0] = sh
  BY <1>1 DEF RemoveRun
<1>3. \A k \in 0..n : k # 0 => r[k] = SliceRemove(r[k - 1], xs[k])
  BY <1>1 DEF RemoveRun
<1>4. P(0)
  BY <1>2
<1>5. ASSUME NEW m \in Nat, m + 1 <= n, P(m) PROVE P(m + 1)
  <2> DEFINE s == r[m]
             x == xs[m + 1]
  <2>1. r[m + 1] = SliceRemove(s, x)
    BY <1>3, <1>5
  <2>2. /\ Loose(s, X, K) /\ s.index = sh.index
        /\ \A y \in X : In(s, y) => In(sh, y) /\ \A k \in 1..m : xs[k] # y
    BY <1>5
  <2> HIDE DEF s, x
  <2>3. /\ Loose(SliceRemove(s, x), X, K) /\ SliceRemove(s, x).index = s.index
        /\ \A y \in X : In(SliceRemove(s, x), y) <=> In(s, y) /\ y # x
    BY <2>2, LooseRemove
  <2>4. 1..(m + 1) = (1..m) \cup {m + 1}
    OBVIOUS
  <2> QED BY <2>1, <2>2, <2>3, <2>4 DEF x
<1>6. Nat \subseteq T
  <2> HIDE DEF P
  <2>1. 0 \in T /\ \A k \in Nat : k \in T => k + 1 \in T
    BY <1>4, <1>5
  <2> HIDE DEF T
  <2> QED BY <2>1, SetInduction
<1> QED BY <1>1, <1>6

LEMMA RemoveOldOK ==
    ASSUME PoolSound, NEW xs, Len(xs) \in Nat, RemoveOld(xs)
    PROVE  /\ PoolSound' /\ nats' = nats /\ restrictedSnowflakes' = restrictedSnowflakes
           /\ \A y \in Flakes : In(Slice(snowflakes), y)' =>
                 In(Slice(snowflakes), y) /\ \A k \in 1..Len(xs) : xs[k] # y
<1> DEFINE sh == Slice(snowflakes)
           th == SliceRemoveAll(sh, xs)
<1>0. MaxFlakes \in Nat
  BY PoolBounds
<1>1. HeapOf(NATUnrestricted) = sh
  BY HeapOfIs
<1>2. snowflakes' = th.flakes /\ UNCHANGED <<nats, clients, index, restrictedSnowflakes>>
  BY <1>1 DEF RemoveOld
<1>3. Loose(sh, Flakes, MaxFlakes) /\ sh.index = index
  BY DEF PoolSound, Slice
<1> HIDE DEF sh
<1>4. /\ Loose(th, Flakes, MaxFlakes) /\ th.index = sh.index
      /\ \A y \in Flakes : In(th, y) => In(sh, y) /\ \A k \in 1..Len(xs) : xs[k] # y
  BY <1>0, <1>3, SliceRemoveAllOK
<1> HIDE DEF th
<1>5. [flakes |-> snowflakes', index |-> index'] = th
  BY <1>2, <1>3, <1>4 DEF Loose
<1>6. Slice(restrictedSnowflakes)' = Slice(restrictedSnowflakes) /\ Allocated' = Allocated /\ Slice(snowflakes)' = th
  BY <1>2, <1>5 DEF Slice, Allocated
<1>7. PoolSound'
  BY <1>2, <1>4, <1>6 DEF PoolSound, sh
<1> QED BY <1>2, <1>4, <1>6, <1>7 DEF sh

(* The handlers                                                            *)

\* No handler of Rescale takes up new addresses.
RescalesKept == \A r \in Rescalers : Old(rescale'[r]) \subseteq Old(rescale[r])

LEMMA FleetTransfer ==
    ASSUME PoolSound, PlacesSound, FleetSound, RescalesKept, UNCHANGED <<ips, ProxyIP2Snowflake, polled, nats>>,
           \A y \in Flakes : In(Slice(snowflakes), y)' => In(Slice(snowflakes), y),
           restrictedSnowflakes = <<>> => restrictedSnowflakes' = <<>>
    PROVE  FleetSound'
BY Zenon DEF FleetSound, RescalesKept, Allocated

LEMMA SameFlakes ==
    ASSUME UNCHANGED <<snowflakes, restrictedSnowflakes>>
    PROVE  \A y \in Flakes : In(Slice(snowflakes), y)' => In(Slice(snowflakes), y)
BY DEF In, Slice

\* What most steps leave alone.
Still ==
    /\ UNCHANGED <<poolVars, ips, ProxyIP2Snowflake, polled>> /\ idToSnowflake' \subseteq idToSnowflake
    /\ RescalesKept

LEMMA StillOK ==
    ASSUME PoolSound, PlacesSound, Still
    PROVE  PoolSound' /\ PlacesSound' /\ (FleetSound => FleetSound')
<1>1. PoolSound'
  BY DEF Still, poolVars, PoolSound, Slice, Allocated
<1>2. PlacesSound'
  BY DEF Still, poolVars, PlacesSound, Allocated
<1>3. ASSUME FleetSound PROVE FleetSound'
  BY <1>3, FleetTransfer, SameFlakes DEF Still, poolVars
<1> QED BY <1>1, <1>2, <1>3

(* A step of one Rescale under way.                                        *)
LEMMA OneRescale ==
    ASSUME RescalesSound, NEW r \in Rescalers, NEW t, rescale' = [rescale EXCEPT ![r] = t],
           Old(t) \subseteq Old(rescale[r])
    PROVE  RescalesKept
<1>1. \A q \in Rescalers : rescale'[q] = IF q = r THEN t ELSE rescale[q]
  BY DEF RescalesSound
<1> QED BY <1>1 DEF RescalesKept

(* The ghosts do not touch pc and old.                                     *)
LEMMA GhostsKeep ==
    ASSUME NEW s, RescaleShaped(s), NEW l, NEW ps
    PROVE  Old(Unlist(s, l)) = Old(s) /\ Old(Moved(s, ps)) = Old(s)
<1> DEFINE m == s.moved \cup (ps \cap ToSet(s.old))
<1>1. Unlist(s, l).pc = s.pc /\ Unlist(s, l).old = s.old
  BY DEF Unlist, RescaleShaped
<1>2. Moved(s, ps) = [s EXCEPT !.moved = m]
  BY DEF Moved
<1> HIDE DEF m
<1>3. Moved(s, ps).pc = s.pc /\ Moved(s, ps).old = s.old
  BY <1>2 DEF RescaleShaped
<1> QED BY <1>1, <1>3 DEF Old

LEMMA OfferStepsStill ==
    ASSUME NEW h \in Offers, OfferPostFails(h) \/ OfferLookup(h) \/ OfferStore(h) \/ OfferFinish(h)
    PROVE  Still
BY DEF OfferPostFails, OfferLookup, OfferStore, OfferFinish, Still, maps, env, RescalesKept

LEMMA ChannelsStill ==
    ASSUME BrokerInv, NEW c \in Cids, NEW p \in IPs, ChannelOpens(c, p) \/ ChannelCloses(c, p)
    PROVE  Still
<1>1. CASE ChannelOpens(c, p)
  BY <1>1 DEF ChannelOpens, Still, RescalesKept, maps
<1>2. CASE ChannelCloses(c, p)
  <2>1. \A r \in Rescalers : RescaleShaped(rescale[r])
    BY DEF BrokerInv, RescalesSound, RescaleTyped
  <2>2. UNCHANGED <<poolVars, ips, ProxyIP2Snowflake, polled, idToSnowflake>>
    BY <1>2 DEF ChannelCloses, maps
  <2>3. \A r \in Rescalers : rescale'[r] = Unlist(rescale[r], <<c, p>>)
    BY <1>2 DEF ChannelCloses
  <2>4. RescalesKept
    <3> SUFFICES ASSUME NEW r \in Rescalers PROVE Old(rescale'[r]) \subseteq Old(rescale[r])
      BY DEF RescalesKept
    <3>1. Old(rescale'[r]) = Old(rescale[r])
      BY <2>1, <2>3, GhostsKeep
    <3> QED BY <3>1
  <2> QED BY <2>2, <2>4 DEF Still
<1> QED BY <1>1, <1>2

LEMMA NoticesStill ==
    ASSUME BrokerInv, NEW n \in Notices, NoticeStep(n)
    PROVE  Still
<1>1. UNCHANGED <<poolVars, ips, ProxyIP2Snowflake, polled, idToSnowflake>> /\ (UNCHANGED rescale \/ NoteDisturbed)
  BY DEF NoticeStep, NoticeClient, AddReads, AddAppends, DeleteFinds, DeleteShifts, NoticeStores, NoticePrints,
         maps, env, pure
<1>2. CASE UNCHANGED rescale
  BY <1>1, <1>2 DEF Still, RescalesKept
<1>3. CASE NoteDisturbed
  <2>1. \A r \in Rescalers : rescale'[r] = Moved(rescale[r], Disturbed) /\ RescaleShaped(rescale[r])
    BY <1>3 DEF NoteDisturbed, BrokerInv, RescalesSound, RescaleTyped
  <2>2. RescalesKept
    <3> SUFFICES ASSUME NEW r \in Rescalers PROVE Old(rescale'[r]) \subseteq Old(rescale[r])
      BY DEF RescalesKept
    <3>1. Old(rescale'[r]) = Old(rescale[r])
      BY <2>1, GhostsKeep
    <3> QED BY <3>1
  <2> QED BY <1>1, <2>2 DEF Still
<1> QED BY <1>1, <1>2, <1>3

(* Fields of a Rescale after an assignment that leaves old alone.          *)
LEMMA StepsKeep ==
    ASSUME BrokerInv, NEW r \in Rescalers, rescale[r].pc # "idle", NEW pc, pc # "idle",
           NEW t, t.pc = pc, t.old = rescale[r].old, rescale' = [rescale EXCEPT ![r] = t]
    PROVE  RescalesKept
<1>1. Old(t) = Old(rescale[r])
  BY DEF Old
<1> QED BY <1>1, OneRescale DEF BrokerInv

LEMMA RescaleStepsStill ==
    ASSUME BrokerInv, NEW r \in Rescalers,
           RescaleLooks(r) \/ RescaleIndexes(r) \/ RescaleTransfer(r) \/ RescaleClear(r)
    PROVE  Still
<1> DEFINE s == rescale[r]
<1>0. RescaleShaped(s) /\ RescalesSound
  BY DEF BrokerInv, RescalesSound, RescaleTyped
<1>1. CASE RescaleTransfer(r)
  <2> DEFINE i == s.idx + 1
             x == s.posted \cup {<<s.cid, OldIP(r)>>}
             t == [s EXCEPT !.pc = "loop", !.idx = i, !.cid = NoCid, !.flake = NoFlake, !.posted = x]
  <2>1. rescale' = [rescale EXCEPT ![r] = t] /\ s.pc = "post"
    BY <1>1 DEF RescaleTransfer
  <2>2. t.pc = "loop" /\ t.old = s.old
    <3> HIDE DEF i, x
    <3> QED BY <1>0 DEF RescaleShaped
  <2> HIDE DEF t
  <2>3. RescalesKept
    BY <2>1, <2>2, StepsKeep
  <2> QED BY <1>1, <2>3 DEF RescaleTransfer, Still, maps
<1>2. CASE RescaleLooks(r)
  <2> DEFINE pc == IF s.idx <= Len(Shown(OldIP(r))) THEN "index" ELSE "clear"
             t == [s EXCEPT !.pc = pc]
  <2>1. rescale' = [rescale EXCEPT ![r] = t] /\ s.pc = "loop"
    BY <1>2 DEF RescaleLooks
  <2>2. pc # "idle"
    OBVIOUS
  <2>3. t.pc = pc /\ t.old = s.old
    <3> HIDE DEF pc
    <3> QED BY <1>0 DEF RescaleShaped
  <2> HIDE DEF t, pc
  <2>4. RescalesKept
    BY <2>1, <2>2, <2>3, StepsKeep
  <2> QED BY <1>2, <2>4 DEF RescaleLooks, Still, maps, env
<1>3. CASE RescaleIndexes(r)
  <2> DEFINE c == structs[Shown(OldIP(r))[s.idx]]
             t1 == [s EXCEPT !.pc = "panicked"]
             t2 == [s EXCEPT !.pc = "match", !.cid = c]
  <2>1. /\ s.pc = "index"
        /\ rescale' = [rescale EXCEPT ![r] = t1] \/ rescale' = [rescale EXCEPT ![r] = t2]
    BY <1>3 DEF RescaleIndexes
  <2>2. t1.pc = "panicked" /\ t1.old = s.old /\ t2.pc = "match" /\ t2.old = s.old
    <3> HIDE DEF c
    <3> QED BY <1>0 DEF RescaleShaped
  <2> HIDE DEF t1, t2
  <2>3. RescalesKept
    BY <2>1, <2>2, StepsKeep
  <2> QED BY <1>3, <2>3 DEF RescaleIndexes, Still, maps, env
<1>4. CASE RescaleClear(r)
  <2> DEFINE k == s.k + 1
             c == IF s.k < Len(s.old) THEN "drop" ELSE "done"
             t == [s EXCEPT !.k = k, !.pc = c]
             other(q) == Moved(rescale[q], Disturbed)
  <2>1. rescale' = [q \in Rescalers |-> IF q = r THEN t ELSE other(q)] /\ s.pc = "clear"
    BY <1>4 DEF RescaleClear
  <2>2. t.pc = c /\ t.old = s.old /\ c # "idle"
    <3> HIDE DEF k
    <3>1. c # "idle"
      OBVIOUS
    <3> HIDE DEF c
    <3> QED BY <1>0, <3>1 DEF RescaleShaped
  <2>3. \A q \in Rescalers : Old(other(q)) = Old(rescale[q])
    BY GhostsKeep DEF BrokerInv, RescalesSound, RescaleTyped
  <2> HIDE DEF t, other
  <2>4. \A q \in Rescalers : rescale'[q] = IF q = r THEN t ELSE other(q)
    BY <2>1
  <2>5. Old(t) = Old(s)
    BY <2>1, <2>2 DEF Old
  <2>6. RescalesKept
    BY <2>3, <2>4, <2>5 DEF RescalesKept
  <2> QED BY <1>4, <2>6 DEF RescaleClear, Still, env, pure
<1> QED BY <1>1, <1>2, <1>3, <1>4

PoolInv == PoolSound /\ PlacesSound

LEMMA MatchKeeps ==
    ASSUME PoolInv, NEW nat, TakeMatch(nat), UNCHANGED <<ips, idToSnowflake, ProxyIP2Snowflake, polled>>, RescalesKept
    PROVE  PoolInv' /\ (FleetSound => FleetSound')
<1>1. /\ PoolSound' /\ nats' = nats
      /\ \A y \in Flakes : In(Slice(snowflakes), y)' => In(Slice(snowflakes), y)
      /\ restrictedSnowflakes = <<>> => restrictedSnowflakes' = <<>>
  BY TakeMatchOK DEF PoolInv
<1>2. PlacesSound'
  BY <1>1 DEF PoolInv, PlacesSound, Allocated
<1>3. ASSUME FleetSound PROVE FleetSound'
  BY <1>1, <1>3, FleetTransfer DEF PoolInv
<1> QED BY <1>1, <1>2, <1>3 DEF PoolInv

LEMMA OfferMatchKeeps ==
    ASSUME PoolInv, NEW h \in Offers, NEW c \in Cids, OfferMatch(h, c)
    PROVE  PoolInv' /\ (FleetSound => FleetSound')
<1>1. RescalesKept /\ UNCHANGED <<ips, idToSnowflake, ProxyIP2Snowflake, polled>> /\ TakeMatch(ClientNAT[c])
  BY DEF OfferMatch, RescalesKept, maps, env
<1> QED BY <1>1, MatchKeeps

LEMMA RescaleMatchKeeps ==
    ASSUME BrokerInv, PoolInv, NEW r \in Rescalers, RescaleMatch(r)
    PROVE  PoolInv' /\ (FleetSound => FleetSound')
<1> DEFINE s == rescale[r]
           nat == ClientNAT[s.cid]
           x == Matched(nat)
           t1 == [s EXCEPT !.pc = "failed"]
           t2 == [s EXCEPT !.pc = "post", !.flake = x]
<1>1. RescaleShaped(s)
  BY DEF BrokerInv, RescalesSound, RescaleTyped
<1>2. /\ s.pc = "match" /\ UNCHANGED <<ips, idToSnowflake, ProxyIP2Snowflake, polled>>
      /\ \/ rescale' = [rescale EXCEPT ![r] = t1] /\ UNCHANGED poolVars
         \/ rescale' = [rescale EXCEPT ![r] = t2] /\ TakeMatch(nat)
  BY DEF RescaleMatch, maps, env
<1>3. t1.pc = "failed" /\ t1.old = s.old /\ t2.pc = "post" /\ t2.old = s.old
  <2> HIDE DEF x
  <2> QED BY <1>1 DEF RescaleShaped
<1> HIDE DEF t1, t2
<1>4. RescalesKept
  BY <1>2, <1>3, StepsKeep
<1>5. CASE UNCHANGED poolVars
  BY <1>2, <1>4, <1>5, StillOK DEF Still, PoolInv
<1>6. CASE TakeMatch(nat)
  BY <1>2, <1>4, <1>6, MatchKeeps
<1> QED BY <1>2, <1>5, <1>6

(* The entry of an old IP goes from the index: no Snowflake of that IP is  *)
(* in the heap.                                                            *)
LEMMA RescaleDropKeeps ==
    ASSUME BrokerInv, PoolInv, NEW r \in Rescalers, RescaleDrop(r)
    PROVE  PoolInv' /\ (FleetSound => FleetSound')
<1> DEFINE s == rescale[r]
           p == OldIP(r)
           t == [s EXCEPT !.pc = "loop", !.idx = 1]
<1>1. /\ s.pc = "drop" /\ rescale' = [rescale EXCEPT ![r] = t]
      /\ ProxyIP2Snowflake' = [ProxyIP2Snowflake EXCEPT ![p] = NoFlake]
      /\ UNCHANGED <<poolVars, ips, idToSnowflake, polled>>
  BY DEF RescaleDrop, env
<1>2. RescaleTyped(s) /\ RescaleShaped(s) /\ RescalesSound
  BY DEF BrokerInv, RescalesSound, RescaleTyped
<1>3. t.pc = "loop" /\ t.old = s.old
  BY <1>2 DEF RescaleShaped
<1> HIDE DEF t
<1>4. RescalesKept
  BY <1>1, <1>2, <1>3, OneRescale DEF Old
<1>5. p \in Old(s)
  <2>1. s.k \in 1..Len(s.old)
    BY <1>1, <1>2 DEF RescaleTyped, Walking, Looping
  <2>2. p = s.old[s.k]
    BY DEF OldIP
  <2> QED BY <1>1, <2>1, <2>2 DEF Old, ToSet
<1> HIDE DEF p
<1>6. /\ ProxyIP2Snowflake' \in [IPs -> Allocated \cup {NoFlake}]
      /\ \A q \in IPs : q # p => ProxyIP2Snowflake'[q] = ProxyIP2Snowflake[q]
  BY <1>1 DEF PoolInv, PlacesSound
<1>7. PoolSound'
  BY <1>1 DEF PoolInv, PoolSound, poolVars, Slice, Allocated
<1>8. PlacesSound'
  BY <1>1, <1>6 DEF PoolInv, PlacesSound, poolVars, Allocated
<1>9. ASSUME FleetSound PROVE FleetSound'
  <2>1. \A x \in Flakes : In(Slice(snowflakes), x)' => In(Slice(snowflakes), x)
    BY <1>1, SameFlakes DEF poolVars
  <2>2. ASSUME NEW x \in Flakes, In(Slice(snowflakes), x)'
        PROVE  ProxyIP2Snowflake'[ips'[x]] = x /\ \A q \in Rescalers : ips'[x] \notin Old(rescale'[q])
    <3>1. /\ ProxyIP2Snowflake[ips[x]] = x /\ \A q \in Rescalers : ips[x] \notin Old(rescale[q])
          /\ x \in Allocated
      BY <1>9, <2>1, <2>2 DEF FleetSound, PoolInv, PoolSound
    <3>2. ips[x] # p /\ ips[x] \in IPs
      BY <1>5, <3>1 DEF PoolInv, PlacesSound, Allocated
    <3> QED BY <1>1, <1>4, <1>6, <3>1, <3>2 DEF RescalesKept
  <2>3. Allocated' = Allocated /\ restrictedSnowflakes' = restrictedSnowflakes /\ ips' = ips /\ polled' = polled
    BY <1>1 DEF poolVars, Allocated
  <2>4. \A q \in Rescalers : \A w \in Old(rescale'[q]) : polled[w] > 0
    BY <1>4, <1>9 DEF FleetSound, RescalesKept
  <2> QED BY <1>9, <2>2, <2>3, <2>4 DEF FleetSound
<1> QED BY <1>7, <1>8, <1>9 DEF PoolInv

(* All the Snowflakes that the index knows for the old IPs leave the heap. *)
LEMMA RescaleRemoveKeeps ==
    ASSUME BrokerInv, PoolInv, NEW r \in Rescalers, NEW old \in OldLists, Announced(old), RescaleRemove(r, old)
    PROVE  PoolInv' /\ (FleetSound => FleetSound')
<1> DEFINE xs == [k \in DOMAIN old |-> ProxyIP2Snowflake[old[k]]]
           t == Begun(old)
<1>1. /\ RemoveOld(xs) /\ rescale' = [rescale EXCEPT ![r] = t]
      /\ UNCHANGED <<ips, idToSnowflake, ProxyIP2Snowflake, polled>>
  BY DEF RescaleRemove, maps, env
<1>2. old \in Seq(IPs) /\ DOMAIN old = 1..Len(old) /\ Len(old) \in Nat
  BY BrokerBounds
<1>3. Len(xs) = Len(old) /\ \A k \in 1..Len(old) : xs[k] = ProxyIP2Snowflake[old[k]]
  <2>1. xs \in [1..Len(old) -> Allocated \cup {NoFlake}]
    BY <1>2 DEF PoolInv, PlacesSound
  <2> HIDE DEF xs
  <2>2. Len(xs) = Len(old)
    BY <1>2, <2>1, IsSeq
  <2> QED BY <1>2, <2>2 DEF xs
<1> HIDE DEF xs
<1>4. /\ PoolSound' /\ nats' = nats /\ restrictedSnowflakes' = restrictedSnowflakes
      /\ \A y \in Flakes : In(Slice(snowflakes), y)' =>
            In(Slice(snowflakes), y) /\ \A k \in 1..Len(xs) : xs[k] # y
  BY <1>1, <1>2, <1>3, RemoveOldOK DEF PoolInv
<1>5. PlacesSound'
  BY <1>1, <1>4 DEF PoolInv, PlacesSound, Allocated
<1>6. t.old = old /\ ToSet(old) = {old[k] : k \in 1..Len(old)}
  BY <1>2 DEF Begun, ToSet
<1> HIDE DEF t
<1>7. \A q \in Rescalers : rescale'[q] = IF q = r THEN t ELSE rescale[q]
  BY <1>1 DEF BrokerInv, RescalesSound
<1>8. \A q \in Rescalers : \A w \in Old(rescale'[q]) : w \in Old(rescale[q]) \/ w \in ToSet(old)
  BY <1>6, <1>7 DEF Old
<1>9. ASSUME FleetSound PROVE FleetSound'
  <2>1. \A w \in ToSet(old) : polled[w] > 0
    BY <1>2, <1>6 DEF Announced
  <2>2. \A q \in Rescalers : \A w \in Old(rescale'[q]) : polled'[w] > 0
    BY <1>1, <1>8, <1>9, <2>1 DEF FleetSound
  <2>3. ASSUME NEW x \in Flakes, In(Slice(snowflakes), x)'
        PROVE  ProxyIP2Snowflake'[ips'[x]] = x /\ \A q \in Rescalers : ips'[x] \notin Old(rescale'[q])
    <3>1. ProxyIP2Snowflake[ips[x]] = x /\ \A q \in Rescalers : ips[x] \notin Old(rescale[q])
      BY <1>4, <1>9, <2>3 DEF FleetSound
    <3>2. ips[x] \notin ToSet(old)
      BY <1>3, <1>4, <1>6, <2>3, <3>1
    <3> QED BY <1>1, <1>8, <3>1, <3>2
  <2>4. Allocated' = Allocated
    BY <1>4 DEF Allocated
  <2> QED BY <1>1, <1>4, <1>9, <2>2, <2>3, <2>4 DEF FleetSound
<1> QED BY <1>4, <1>5, <1>9 DEF PoolInv

(* A proxy that polls is new to the pool; with one poll per address, no    *)
(* rescale and no Snowflake has that address.                              *)
LEMMA ProxyPollsKeeps ==
    ASSUME BrokerInv, PoolInv, NEW p \in IPs, NEW nat \in NATs, ProxyPolls(p, nat)
    PROVE  PoolInv' /\ (PollsPerIP <= 1 /\ FleetSound => FleetSound')
<1> DEFINE n == Len(nats)
           x == n + 1
<1>1. /\ Register(nat) /\ ips' = Append(ips, p) /\ rescale' = rescale
      /\ ProxyIP2Snowflake' = [ProxyIP2Snowflake EXCEPT ![p] = x]
      /\ idToSnowflake' = idToSnowflake \cup {x}
      /\ polled[p] < PollsPerIP /\ polled' = [polled EXCEPT ![p] = @ + 1]
  BY DEF ProxyPolls
<1>2. PoolSound' /\ Entered(nat, x) /\ Len(nats') = x
  BY <1>1, RegisterOK DEF PoolInv
<1>3. n \in Nat /\ Allocated = 1..n /\ Allocated' = 1..x /\ 1..x = (1..n) \cup {x} /\ x \notin 1..n
  BY <1>2 DEF PoolInv, PoolSound, Allocated
<1>4. ips' \in Seq(IPs) /\ Len(ips') = x /\ ips'[x] = p /\ \A y \in 1..n : ips'[y] = ips[y] /\ ips[y] \in IPs
  BY <1>1, <1>3 DEF PoolInv, PlacesSound
<1>5. x \in Flakes
  BY <1>1 DEF Register
<1> HIDE DEF x, n
<1>6. /\ ProxyIP2Snowflake' \in [IPs -> Allocated' \cup {NoFlake}] /\ ProxyIP2Snowflake'[p] = x
      /\ \A q \in IPs : q # p => ProxyIP2Snowflake'[q] = ProxyIP2Snowflake[q]
  BY <1>1, <1>3 DEF PoolInv, PlacesSound
<1>7. idToSnowflake' \subseteq Allocated'
  BY <1>1, <1>3 DEF PoolInv, PlacesSound
<1>8. PlacesSound'
  BY <1>2, <1>4, <1>6, <1>7 DEF PlacesSound
<1>9. ASSUME PollsPerIP <= 1, FleetSound PROVE FleetSound'
  <2>1. polled \in [IPs -> Nat] /\ PollsPerIP \in Nat
    BY <1>9, BrokerBounds DEF FleetSound
  <2>2. polled[p] = 0 /\ polled' \in [IPs -> Nat] /\ polled'[p] = 1 /\ \A q \in IPs : q # p => polled'[q] = polled[q]
    BY <1>1, <1>9, <2>1
  <2>3. \A y \in 1..n : ips[y] # p /\ polled[ips[y]] > 0
    BY <1>3, <1>9, <2>2 DEF FleetSound
  <2>4. \A y \in Allocated' : polled'[ips'[y]] > 0
    BY <1>3, <1>4, <2>2, <2>3
  <2>5. \A r \in Rescalers : \A w \in Old(rescale[r]) : w # p /\ polled[w] > 0
    BY <1>9, <2>2 DEF FleetSound
  <2>6. \A r \in Rescalers : Old(rescale[r]) \subseteq IPs
    BY DEF BrokerInv, RescalesSound, RescaleTyped, Old, ToSet
  <2>7. \A r \in Rescalers : \A w \in Old(rescale'[r]) : polled'[w] > 0
    BY <1>1, <2>2, <2>5, <2>6
  <2>8. ASSUME NEW y \in Flakes, In(Slice(snowflakes), y)'
        PROVE  ProxyIP2Snowflake'[ips'[y]] = y /\ \A r \in Rescalers : ips'[y] \notin Old(rescale'[r])
    <3>1. CASE y = x
      BY <1>1, <1>4, <1>6, <2>5, <3>1
    <3>2. CASE y # x
      <4>1. In(Slice(snowflakes), y)
        BY <1>2, <2>8, <3>2 DEF Entered
      <4>2. y \in 1..n
        BY <1>3, <4>1 DEF PoolInv, PoolSound
      <4>3. ProxyIP2Snowflake[ips[y]] = y /\ \A r \in Rescalers : ips[y] \notin Old(rescale[r])
        BY <1>9, <4>1 DEF FleetSound
      <4> QED BY <1>1, <1>4, <1>6, <2>3, <4>2, <4>3
    <3> QED BY <3>1, <3>2
  <2>9. NATs = {NATUnrestricted} => restrictedSnowflakes' = <<>>
    BY <1>2, <1>9 DEF Entered, FleetSound
  <2> QED BY <2>2, <2>4, <2>7, <2>8, <2>9 DEF FleetSound
<1> QED BY <1>2, <1>8, <1>9 DEF PoolInv

\* The pool of a process that has just died or not started.
PoolStarted ==
    /\ nats = <<>> /\ clients = [x \in Flakes |-> 0] /\ index = [x \in Flakes |-> -1]
    /\ snowflakes = <<>> /\ restrictedSnowflakes = <<>>
    /\ ips = <<>> /\ idToSnowflake = {} /\ ProxyIP2Snowflake = [p \in IPs |-> NoFlake]

LEMMA PoolStartOK == PoolStarted => PoolInv
<1> SUFFICES ASSUME PoolStarted PROVE PoolInv
  OBVIOUS
<1>0. MaxFlakes \in Nat
  BY PoolBounds
<1>1. Loose(Slice(<<>>), Flakes, MaxFlakes) /\ \A x : ~In(Slice(<<>>), x)
  <2>1. -1 \in -1..(MaxFlakes - 1) /\ <<>> \in Seq(Flakes) /\ Len(<<>>) = 0
    BY <1>0
  <2>2. index \in [Flakes -> -1..(MaxFlakes - 1)]
    BY <2>1 DEF PoolStarted
  <2>3. Slice(<<>>).flakes = <<>> /\ Slice(<<>>).index = index
        /\ Slice(<<>>) = [flakes |-> Slice(<<>>).flakes, index |-> Slice(<<>>).index]
    BY DEF Slice
  <2>4. -1 \in Int /\ 0 <= MaxFlakes /\ ~(\E i \in 1..0 : TRUE)
    BY <1>0
  <2> DEFINE sh == Slice(<<>>)
  <2>5. /\ sh.flakes \in Seq(Flakes) /\ Len(sh.flakes) = 0 /\ sh.index \in [Flakes -> -1..(MaxFlakes - 1)]
        /\ sh = [flakes |-> sh.flakes, index |-> sh.index]
    BY <2>1, <2>2, <2>3
  <2> HIDE DEF sh
  <2> QED BY <2>4, <2>5 DEF Loose, In, sh
<1>2. PoolSound
  <2>1. <<>> \in Seq(NATs) /\ Len(<<>>) = 0
    OBVIOUS
  <2> QED BY <1>0, <1>1, <2>1 DEF PoolStarted, PoolSound
<1>3. PlacesSound
  <2>1. <<>> \in Seq(IPs)
    OBVIOUS
  <2> QED BY <2>1 DEF PoolStarted, PlacesSound
<1> QED BY <1>2, <1>3 DEF PoolInv

\* Nothing was rescaled yet.
FleetStarted ==
    /\ PoolStarted /\ rescale = [r \in Rescalers |-> IdleRescale] /\ polled \in [IPs -> Nat]

LEMMA FleetStartOK == FleetStarted => FleetSound
<1> SUFFICES ASSUME FleetStarted PROVE FleetSound
  OBVIOUS
<1>1. Allocated = {} /\ \A x : ~In(Slice(snowflakes), x)
  BY DEF FleetStarted, PoolStarted, Allocated, Slice, In
<1>2. \A r \in Rescalers : Old(rescale[r]) = {}
  BY DEF FleetStarted, Old, IdleRescale
<1> QED BY <1>1, <1>2 DEF FleetStarted, PoolStarted, FleetSound

LEMMA PoolNextOK ==
    ASSUME BrokerInv, PoolInv, [Next]_vars
    PROVE  PoolInv' /\ (PollsPerIP <= 1 /\ FleetSound => FleetSound')
<1>1. CASE Still
  BY <1>1, StillOK DEF PoolInv
<1>2. CASE Restart \/ UNCHANGED vars
  <2>1. Still
    BY <1>2 DEF Restart, vars, maps, env, Still, RescalesKept
  <2> QED BY <1>1, <2>1
<1>3. CASE Crash
  <2>1. PoolStarted'
    BY <1>3 DEF Crash, PoolStarted, Flakes
  <2>2. PoolInv'
    BY <2>1, PoolStartOK, PTL
  <2>3. ASSUME FleetSound PROVE FleetSound'
    <3>1. FleetStarted'
      BY <1>3, <2>1, <2>3 DEF Crash, FleetStarted, FleetSound, env
    <3> QED BY <3>1, FleetStartOK, PTL
  <2> QED BY <2>2, <2>3
<1>4. CASE Handlers
  BY <1>1, <1>4, ProxyPollsKeeps, OfferMatchKeeps, OfferStepsStill, ChannelsStill, NoticesStill, RescaleRemoveKeeps,
     RescaleDropKeeps, RescaleMatchKeeps, RescaleStepsStill DEF Handlers, RescaleStep
<1> QED BY <1>2, <1>3, <1>4 DEF Next

(* The slice of a heap holds allocated Snowflakes only.                    *)
LEMMA SliceTyped ==
    ASSUME NEW f, Loose(Slice(f), Flakes, MaxFlakes), \A x \in Flakes : In(Slice(f), x) => x \in Allocated
    PROVE  f \in Seq(Allocated) /\ ToSet(f) = {x \in Flakes : In(Slice(f), x)}
<1>1. Slice(f).flakes = f
  BY DEF Slice
<1>2. Len(f) \in Nat /\ f \in [1..Len(f) -> Flakes]
  BY <1>1 DEF Loose
<1>3. \A i \in 1..Len(f) : In(Slice(f), f[i]) /\ f[i] \in Flakes
  BY <1>1, <1>2 DEF In
<1>4. f \in [1..Len(f) -> Allocated]
  BY <1>2, <1>3
<1>5. f \in Seq(Allocated)
  BY <1>2, <1>4, IsSeq
<1>6. ToSet(f) = {f[i] : i \in 1..Len(f)}
  BY <1>2 DEF ToSet
<1> QED BY <1>1, <1>3, <1>5, <1>6 DEF In

LEMMA PoolTypes ==
    ASSUME BrokerInv, PoolInv
    PROVE  /\ TypeOK
           /\ Members = {x \in Flakes : In(Slice(snowflakes), x) \/ In(Slice(restrictedSnowflakes), x)}
<1>1. /\ snowflakes \in Seq(Allocated) /\ restrictedSnowflakes \in Seq(Allocated)
      /\ ToSet(snowflakes) = {x \in Flakes : In(Slice(snowflakes), x)}
      /\ ToSet(restrictedSnowflakes) = {x \in Flakes : In(Slice(restrictedSnowflakes), x)}
  BY SliceTyped DEF PoolInv, PoolSound
<1>2. index \in [Flakes -> -1..MaxFlakes - 1]
  BY DEF PoolInv, PoolSound, Loose, Slice
<1>3. PoolTypeOK
  BY <1>1, <1>2 DEF PoolInv, PoolSound, PoolTypeOK
<1>4. ASSUME NEW p \in IPs
      PROVE  LET h == Proxy2Client[p] IN h.arr \in 0..Len(arrays) /\ h.len \in 0..Len(Cells(h))
  <2> DEFINE h == Proxy2Client[p]
  <2>1. arrays \in Seq(Seq(Pointers)) /\ Header(arrays, h)
    BY DEF BrokerInv, ArraysSound, Pointers
  <2>2. Cells(h) \in Seq(Pointers) /\ h.len <= Len(Cells(h)) /\ h.len \in Nat /\ h.arr \in 0..Len(arrays)
    BY <2>1, ElemsTyped DEF Header
  <2> HIDE DEF h
  <2>3. h.len \in 0..Len(Cells(h))
    BY <2>2
  <2> QED BY <2>2, <2>3 DEF h
<1>5. TypeOK
  BY <1>3, <1>4 DEF TypeOK, PoolInv, PlacesSound, BrokerInv, MapsSound, ArraysSound
<1>6. Members = {x \in Flakes : In(Slice(snowflakes), x) \/ In(Slice(restrictedSnowflakes), x)}
  BY <1>1 DEF Members
<1> QED BY <1>5, <1>6

(* Every variable of the broker stays in its Go type, although Remove      *)
(* leaves wrong index fields behind (snowflake-heap.go), for any number of *)
(* proxies of any NAT types that poll any number of times.                 *)
THEOREM TypeOKHolds == Spec => []TypeOK
<1>1. Init => BrokerInv /\ PoolInv
  BY PoolStartOK, StartOK DEF Init, BrokerInit, PoolInit, PoolStarted, Started
<1>2. BrokerInv /\ PoolInv /\ [Next]_vars => BrokerInv' /\ PoolInv'
  BY NextOK, PoolNextOK
<1>3. BrokerInv /\ PoolInv => TypeOK
  BY PoolTypes
<1> QED BY <1>1, <1>2, <1>3, PTL DEF Spec

(* As long as proxies poll once per address, Rescale finds every proxy of  *)
(* the unrestricted heap by its address, and none that it removed can be   *)
(* matched until the process starts again (ipc.go:324-331), whatever NAT   *)
(* types other proxies have, handlers interleave and processes die.        *)
THEOREM FleetSoundHolds == PollsPerIP <= 1 => (Spec => []FleetSound)
<1> SUFFICES ASSUME PollsPerIP <= 1 PROVE Spec => []FleetSound
  OBVIOUS
<1>1. Init => BrokerInv /\ PoolInv /\ FleetSound
  <2>1. Init => BrokerInv /\ PoolInv
    BY PoolStartOK, StartOK DEF Init, BrokerInit, PoolInit, PoolStarted, Started
  <2>2. Init => FleetSound
    BY FleetStartOK DEF Init, BrokerInit, PoolInit, PoolStarted, FleetStarted
  <2> QED BY <2>1, <2>2
<1>2. BrokerInv /\ PoolInv /\ FleetSound /\ [Next]_vars => BrokerInv' /\ PoolInv' /\ FleetSound'
  BY NextOK, PoolNextOK
<1> QED BY <1>1, <1>2, PTL DEF Spec

(* The pool, its index by address and a Rescale under way agree in a fleet *)
(* of unrestricted proxies that poll once each, for any number of proxies, *)
(* handlers and restarts (ipc.go:111-131, 324-351).                        *)
THEOREM PoolConsistentHolds ==
    PollsPerIP <= 1 /\ NATs = {NATUnrestricted} => (Spec => []PoolConsistent)
<1> SUFFICES ASSUME PollsPerIP <= 1, NATs = {NATUnrestricted} PROVE Spec => []PoolConsistent
  OBVIOUS
<1>1. Init => BrokerInv /\ PoolInv
  BY PoolStartOK, StartOK DEF Init, BrokerInit, PoolInit, PoolStarted, Started
<1>2. BrokerInv /\ PoolInv /\ [Next]_vars => BrokerInv' /\ PoolInv'
  BY NextOK, PoolNextOK
<1>3. Spec => []FleetSound
  BY FleetSoundHolds
<1>4. BrokerInv /\ PoolInv /\ FleetSound => PoolConsistent
  <2> SUFFICES ASSUME BrokerInv, PoolInv, FleetSound PROVE PoolConsistent
    OBVIOUS
  <2>1. TypeOK /\ \A x \in Members : x \in Flakes /\ In(Slice(snowflakes), x)
    BY PoolTypes DEF FleetSound, In, Slice
  <2>2. PoolIsIndexedByIP
    BY <2>1 DEF PoolIsIndexedByIP, FleetSound
  <2>3. OldProxiesGone
    BY <2>1 DEF OldProxiesGone, FleetSound, Old
  <2> QED BY <2>1, <2>2, <2>3 DEF PoolConsistent
<1> QED BY <1>1, <1>2, <1>3, <1>4, PTL DEF Spec
=============================================================================
