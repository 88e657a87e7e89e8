---------------------------- MODULE WebRTCProofs ----------------------------
(***************************************************************************)
(* Proofs about how a client comes by its WebRTC connections.  Migration:   *)
(* for every set of proxies and every bound on sessions, orders, messages   *)
(* and faults, orders go to open control channels, and a handover that      *)
(* meets nothing else closes the old connection only once the new one is    *)
(* open.  Rendezvous with NATProbe: for every configuration and number of   *)
(* calls, what the probe finds decides which heap a client is matched from, *)
(* and denials are counted once.                                            *)
(***************************************************************************)
EXTENDS Migration, Rendezvous, FiniteSetTheorems, TLAPS

(* A session that was not made yet is blank on both sides.                 *)
Blank(s) ==
    /\ peer[s].by = NoSession /\ peer[s].known = NoProxy /\ peer[s].cb = "idle"
    /\ peer[s].onOpen = "no" /\ peer[s].timer = "none" /\ peer[s].took = NoSession
    /\ chan[s].to = NoProxy /\ ~chan[s].down /\ chan[s].ctl = "no"
BlankUntilMade == \A s \in Sessions : peer[s].st = "none" => Blank(s)

(* Sessions are made in the order of their numbers, a dialed one after the *)
(* one that dials it.                                                      *)
MadeInOrder ==
    \A s \in Sessions :
        /\ peer[s].by < s
        /\ peer[s].st # "none" => \A t \in Sessions : t < s => peer[t].st # "none"

(* An order to move at once names the proxy to move to.                    *)
OrdersNameProxy ==
    \A s \in Sessions : \A i \in DOMAIN chan[s].msgs :
        chan[s].msgs[i].tv = "now" => chan[s].msgs[i].ip # NoProxy

Live(s) == peer[s].st \in {"offered", "wired", "up"}

(* The probe timer of a peer follows the peer's own life.                  *)
TimersFollowPeers ==
    \A s \in Sessions :
        /\ peer[s].st # "leaked"
        /\ peer[s].st \in {"offered", "wired"} => peer[s].timer = "none"
        /\ peer[s].st = "up" => peer[s].timer \notin {"none", "stopped", "done"}
        /\ peer[s].st = "closed" => peer[s].timer \notin Running

(* A peer that DirectConnect has not returned belongs to a callback that   *)
(* is still in progress.                                                   *)
DialedHasCallback ==
    \A t \in Sessions :
        /\ peer[t].st = "offered" => peer[t].by # NoSession
        /\ peer[t].st \in {"offered", "wired"} /\ peer[t].by # NoSession => peer[peer[t].by].cb # "idle"

(* Who was signalled was signalled by a peer of its own callback.          *)
SignalledByOwn ==
    \A s \in Sessions : peer[s].took # NoSession =>
        /\ peer[peer[s].took].st # "none" /\ peer[peer[s].took].by = s

\* Of all that have dialed, only h has not handed over.
HandedOver(h) == \A u \in Sessions : peer[u].by \notin {NoSession, h} =>
                     peer[peer[u].by].timer \in {"closing", "done"}

\* The handover of u is over but for the return of its callback.
CallbackTrails(u) == peer[u].timer \in {"closing", "done"} /\ \E t \in Sessions : Dialed(u, t)

(* No handover is in progress: nobody uses connected, and of two live      *)
(* peers one has handed over to the other and is about to be closed.       *)
Rest ==
    /\ \A s \in Sessions : peer[s].timer # "waiting" /\ peer[s].onOpen # "sending"
    /\ \A u, v \in Sessions : u # v /\ Live(u) /\ Live(v) =>
        \/ peer[v].by = u /\ peer[u].timer = "closing"
        \/ peer[u].by = v /\ peer[v].timer = "closing"
    /\ \A u \in Sessions : peer[u].cb # "idle" => CallbackTrails(u)
    /\ HandedOver(NoSession)

(* h hands over: h has not been closed, every other peer is dead or the    *)
(* one that h dials, and h waits until that one has opened.                *)
Initiator(h) ==
    /\ peer[h].st \in {"wired", "up"} /\ ~chan[h].down /\ peer[h].onOpen = "done"
    /\ peer[h].timer \in {"none", "idle", "armed", "now", "waiting", "woken"}
    /\ peer[h].timer = "woken" => \E t \in Sessions : t # h /\ peer[t].by = h
Bystander(h, u) ==
    /\ peer[u].st \in {"none", "closed"} /\ peer[u].timer \in {"none", "stopped", "done"}
    /\ peer[u].onOpen # "sending" /\ (peer[u].cb # "idle" => CallbackTrails(u))
Successor(h, t) ==
    /\ Live(t) /\ ~chan[t].down /\ peer[t].known = NoProxy /\ peer[t].cb = "idle"
    /\ peer[t].st = "up" => peer[t].timer = "idle" /\ peer[h].cb = "idle"
    /\ peer[t].onOpen = "done" <=> peer[h].timer = "woken"
    /\ \A u \in Sessions : u # h /\ peer[u].by = h => u = t
Handover(h) ==
    /\ Initiator(h) /\ HandedOver(h)
    /\ \A u \in Sessions : u # h => IF peer[u].by = h THEN Successor(h, u) ELSE Bystander(h, u)

(* What holds as long as no handover has met anything else.                *)
CleanOK ==
    /\ TimersFollowPeers /\ DialedHasCallback /\ SignalledByOwn
    /\ IF transfer THEN \E h \in Sessions : Handover(h) ELSE Rest

\* What holds whatever the handovers meet.
Basic == TypeOK /\ BlankUntilMade /\ MadeInOrder /\ OrdersNameProxy /\ OrdersReachOpenChannels

IInv == Basic /\ (clean => CleanOK)

-----------------------------------------------------------------------------
(* Queues of control messages.                                             *)
LEMMA QueueType ==
    \A q : q \in BoundedSeq(Messages, MaxQueue) <=> q \in Seq(Messages) /\ Len(q) <= MaxQueue
<1> DEFINE S == Messages
<1>1. MaxQueue \in Nat
  BY MigrationAssumption
<1>2. ASSUME NEW q, NEW m \in 0..MaxQueue, q \in [1..m -> S]
      PROVE  q \in Seq(S) /\ Len(q) <= MaxQueue
  BY SMTT(30), <1>1, <1>2
<1>3. ASSUME NEW q \in Seq(S), Len(q) <= MaxQueue
      PROVE  \E m \in 0..MaxQueue : q \in [1..m -> S]
  <2>1. Len(q) \in 0..MaxQueue /\ q \in [1..Len(q) -> S]
    BY <1>1, <1>3
  <2> QED BY <2>1
<1> HIDE DEF S
<1>4. \A q : q \in UNION {[1..m -> S] : m \in 0..MaxQueue} <=> q \in Seq(S) /\ Len(q) <= MaxQueue
  BY <1>2, <1>3
<1> QED BY <1>4 DEF BoundedSeq, SeqOf, S

(* The fields of a well-typed channel.                                     *)
LEMMA ChanFields ==
    ASSUME NEW c
    PROVE  c \in ChanStates <=>
             /\ c = [to |-> c.to, down |-> c.down, ctl |-> c.ctl, msgs |-> c.msgs]
             /\ c.to \in Proxies \cup {NoProxy} /\ c.down \in BOOLEAN
             /\ c.ctl \in {"no", "announced", "probing", "gone"}
             /\ c.msgs \in Seq(Messages) /\ Len(c.msgs) <= MaxQueue
<1>1. c \in ChanStates <=>
             /\ c = [to |-> c.to, down |-> c.down, ctl |-> c.ctl, msgs |-> c.msgs]
             /\ c.to \in Proxies \cup {NoProxy} /\ c.down \in BOOLEAN
             /\ c.ctl \in {"no", "announced", "probing", "gone"}
             /\ c.msgs \in BoundedSeq(Messages, MaxQueue)
  BY DEF ChanStates
<1> QED BY <1>1, QueueType

\* What an action does to a channel besides its control state: it goes on, or is torn.
KeepsTo(s) == peer[s].st = "none" \/ chan'[s].to = chan[s].to
KeepsBlank(s) == peer'[s].st = "none" => /\ peer[s].st = "none" /\ peer'[s] = peer[s]
                                         /\ chan'[s] = chan[s]
NamesProxy(s) == \A i \in DOMAIN chan'[s].msgs :
                     chan'[s].msgs[i].tv = "now" => chan'[s].msgs[i].ip # NoProxy
RestTyped == /\ transfer' \in BOOLEAN /\ crashed' \in BOOLEAN /\ clean' \in BOOLEAN
             /\ client2TransferIP' \in [Proxies -> Proxies \cup {NoProxy}]
             /\ alive' \subseteq Proxies /\ orders' \in 0..MaxOrders /\ faults' \in 0..MaxFaults

(* A step that keeps the types, what is blank and the orders' proxies, and *)
(* touches neither client2Dc nor a control channel's state, keeps Basic.   *)
LEMMA BasicStep ==
    ASSUME Basic, RestTyped, UNCHANGED client2Dc, MadeInOrder',
           peer' \in [Sessions -> PeerStates], chan' \in [Sessions -> ChanStates],
           \A s \in Sessions : KeepsTo(s) /\ KeepsBlank(s) /\ NamesProxy(s) /\ chan'[s].ctl = chan[s].ctl
    PROVE  Basic'
<1>1. TypeOK'
  BY DEF Basic, TypeOK, RestTyped
<1>2. BlankUntilMade'
  BY DEF Basic, BlankUntilMade, Blank, KeepsBlank
<1>3. OrdersNameProxy'
  BY DEF NamesProxy, OrdersNameProxy
<1>4. OrdersReachOpenChannels'
  <2> SUFFICES ASSUME NEW p \in Proxies, client2Dc'[p] # NoSession
               PROVE  chan'[client2Dc'[p]].to = p /\ chan'[client2Dc'[p]].ctl \in {"announced", "probing"}
    BY DEF OrdersReachOpenChannels, At
  <2> DEFINE s == client2Dc[p]
  <2>1. s \in Sessions /\ chan[s].to = p /\ chan[s].ctl \in {"announced", "probing"}
    BY DEF Basic, TypeOK, OrdersReachOpenChannels, At
  <2>2. peer[s].st # "none"
    BY <2>1 DEF Basic, BlankUntilMade, Blank
  <2> QED BY <2>1, <2>2 DEF KeepsTo
<1> QED BY <1>1, <1>2, <1>3, <1>4 DEF Basic

(* The same for a step that leaves the channels and the proxies alone.     *)
LEMMA BasicPeerStep ==
    ASSUME Basic, UNCHANGED <<chan, proxyVars>>,
           transfer' \in BOOLEAN, crashed' \in BOOLEAN, clean' \in BOOLEAN,
           peer' \in [Sessions -> PeerStates],
           \A s \in Sessions : /\ peer'[s].by = peer[s].by
                               /\ peer[s].st = "none" => peer'[s] = peer[s]
                               /\ peer'[s].st = "none" => peer[s].st = "none"
    PROVE  Basic'
<1>1. RestTyped /\ UNCHANGED client2Dc /\ chan' \in [Sessions -> ChanStates]
  BY DEF proxyVars, RestTyped, Basic, TypeOK
<1>2. \A s \in Sessions : KeepsTo(s) /\ KeepsBlank(s) /\ chan'[s].ctl = chan[s].ctl
  BY DEF KeepsTo, KeepsBlank
<1>3. \A s \in Sessions : NamesProxy(s)
  BY DEF Basic, OrdersNameProxy, NamesProxy
<1>4. MadeInOrder'
  BY DEF Basic, MadeInOrder
<1> QED BY <1>1, <1>2, <1>3, <1>4, BasicStep

(* A torn channel is well typed and carries no order.                      *)
LEMMA TornOK ==
    ASSUME NEW c \in ChanStates
    PROVE  /\ Torn(c) \in ChanStates /\ Torn(c).to = c.to /\ Torn(c).ctl = c.ctl
           /\ Torn(c).down /\ DOMAIN Torn(c).msgs = {}
<1>1. <<>> \in Seq(Messages) /\ Len(<<>>) <= MaxQueue /\ DOMAIN <<>> = {}
  BY MigrationAssumption
<1>2. Torn(c) = [to |-> c.to, down |-> TRUE, ctl |-> c.ctl, msgs |-> <<>>]
  <2>1. c = [to |-> c.to, down |-> c.down, ctl |-> c.ctl, msgs |-> c.msgs]
    BY ChanFields
  <2> DEFINE e == <<>>
  <2>2. Torn(c) = [c EXCEPT !.down = TRUE, !.msgs = e]
    BY DEF Torn
  <2> HIDE DEF e
  <2>3. Torn(c) = [to |-> c.to, down |-> TRUE, ctl |-> c.ctl, msgs |-> e]
    BY <2>1, <2>2
  <2> QED BY <2>3 DEF e
<1>3. c.to \in Proxies \cup {NoProxy} /\ c.ctl \in {"no", "announced", "probing", "gone"}
  BY ChanFields
<1> HIDE DEF Torn
<1>4. Torn(c).to = c.to /\ Torn(c).ctl = c.ctl /\ Torn(c).down = TRUE /\ Torn(c).msgs = <<>>
  BY <1>2
<1>5. Torn(c) = [to |-> Torn(c).to, down |-> Torn(c).down, ctl |-> Torn(c).ctl, msgs |-> Torn(c).msgs]
  BY <1>2
<1> QED BY <1>1, <1>3, <1>4, <1>5, ChanFields

(* The same for a step that changes the peer s only.                       *)
LEMMA BasicOnePeer ==
    ASSUME Basic, UNCHANGED <<chan, proxyVars>>,
           transfer' \in BOOLEAN, crashed' \in BOOLEAN, clean' \in BOOLEAN,
           NEW s \in Sessions, NEW r \in PeerStates, r.st # "none", peer[s].st # "none",
           r.by = peer[s].by, peer' = [peer EXCEPT ![s] = r]
    PROVE  Basic'
<1>1. peer' \in [Sessions -> PeerStates]
      /\ \A t \in Sessions : /\ peer'[t].by = peer[t].by
                             /\ peer[t].st = "none" => peer'[t] = peer[t]
                             /\ peer'[t].st = "none" => peer[t].st = "none"
  BY DEF Basic, TypeOK
<1> QED BY <1>1, BasicPeerStep

(* And for one that changes two peers.                                     *)
LEMMA BasicTwoPeers ==
    ASSUME Basic, UNCHANGED <<chan, proxyVars>>,
           transfer' \in BOOLEAN, crashed' \in BOOLEAN, clean' \in BOOLEAN,
           NEW s \in Sessions, NEW r \in PeerStates, r.st # "none", peer[s].st # "none", r.by = peer[s].by,
           NEW t \in Sessions, NEW q \in PeerStates, q.st # "none", peer[t].st # "none", q.by = peer[t].by,
           s # t, peer' = [peer EXCEPT ![t] = q, ![s] = r]
    PROVE  Basic'
<1>1. peer' \in [Sessions -> PeerStates]
      /\ \A u \in Sessions : /\ peer'[u].by = peer[u].by
                             /\ peer[u].st = "none" => peer'[u] = peer[u]
                             /\ peer'[u].st = "none" => peer[u].st = "none"
  BY DEF Basic, TypeOK
<1> QED BY <1>1, BasicPeerStep

(* The steps of the client that change its own peers only.                 *)
LEMMA BasicPeerSteps ==
    ASSUME Basic, NEW s \in Sessions, NEW t \in Sessions,
           \/ SetRemoteDescription(s) \/ Connected(s) \/ OnOpen(s) \/ ProbeTimerFires(s)
           \/ TimerClearsTransfer(s) \/ OnClose(s) \/ Signal(t, s) \/ DirectConnectReturns(s, t)
           \/ DirectConnectFails(s)
    PROVE  Basic'
<1>0. peer \in [Sessions -> PeerStates] /\ transfer \in BOOLEAN /\ crashed \in BOOLEAN /\ clean \in BOOLEAN
      /\ \A u \in Sessions : peer[u].st = "none" => Blank(u)
  BY DEF Basic, TypeOK, BlankUntilMade
<1>a. peer[s] \in PeerStates /\ peer[t] \in PeerStates
  BY <1>0
<1>b. {"idle", "woken", "waiting", "closing"} \subseteq Timers
  BY DEF Timers
<1>1. CASE SetRemoteDescription(s)
  <2> DEFINE r == [peer[s] EXCEPT !.st = "wired"]
  <2>1. peer[s].st # "none" /\ peer' = [peer EXCEPT ![s] = r]
    BY <1>0, <1>1 DEF SetRemoteDescription, Blank
  <2>2. r \in PeerStates /\ r.st # "none" /\ r.by = peer[s].by
    BY <1>a, <2>1 DEF PeerStates, Timers
  <2>3. transfer' \in BOOLEAN /\ UNCHANGED <<chan, proxyVars, crashed, clean>>
    BY <1>0, <1>1 DEF SetRemoteDescription
  <2> QED BY <1>0, <2>1, <2>2, <2>3, BasicOnePeer
<1>2. CASE Connected(s)
  <2> DEFINE r == [peer[s] EXCEPT !.st = "up", !.timer = "idle"]
  <2>1. peer[s].st # "none" /\ peer' = [peer EXCEPT ![s] = r]
    BY <1>0, <1>2 DEF Connected, Blank
  <2>2. r \in PeerStates /\ r.st # "none" /\ r.by = peer[s].by
    BY <1>a, <2>1, ZenonT(40) DEF PeerStates, Timers
  <2>3. transfer' \in BOOLEAN /\ UNCHANGED <<chan, proxyVars, crashed, clean>>
    BY <1>0, <1>2 DEF Connected
  <2> QED BY <1>0, <2>1, <2>2, <2>3, BasicOnePeer
<1>3. CASE OnOpen(s)
  <2> DEFINE r == [peer[s] EXCEPT !.onOpen = IF transfer THEN "sending" ELSE "done"]
  <2>1. peer[s].st # "none" /\ peer' = [peer EXCEPT ![s] = r]
    BY <1>0, <1>3 DEF OnOpen, Blank, Joined
  <2>2. r \in PeerStates /\ r.st # "none" /\ r.by = peer[s].by
    BY <1>a, <2>1 DEF PeerStates, Timers
  <2>3. transfer' \in BOOLEAN /\ UNCHANGED <<chan, proxyVars, crashed, clean>>
    BY <1>0, <1>3 DEF OnOpen
  <2> QED BY <1>0, <2>1, <2>2, <2>3, BasicOnePeer
<1>4. CASE ProbeTimerFires(s)
  <2> DEFINE r == [peer[s] EXCEPT !.timer = IF transfer THEN "waiting" ELSE "woken"]
  <2>1. peer[s].st # "none" /\ peer' = [peer EXCEPT ![s] = r]
    BY <1>0, <1>4 DEF ProbeTimerFires, Blank
  <2>2. r \in PeerStates /\ r.st # "none" /\ r.by = peer[s].by
    BY <1>a, <2>1 DEF PeerStates, Timers
  <2>3. transfer' \in BOOLEAN /\ UNCHANGED <<chan, proxyVars, crashed, clean>>
    BY <1>0, <1>4 DEF ProbeTimerFires
  <2> QED BY <1>0, <2>1, <2>2, <2>3, BasicOnePeer
<1>5. CASE TimerClearsTransfer(s)
  <2> DEFINE r == [peer[s] EXCEPT !.timer = "closing"]
  <2>1. peer[s].st # "none" /\ peer' = [peer EXCEPT ![s] = r]
    BY <1>0, <1>5 DEF TimerClearsTransfer, Blank
  <2>2. r \in PeerStates /\ r.st # "none" /\ r.by = peer[s].by
    BY <1>a, <2>1 DEF PeerStates, Timers
  <2>3. transfer' \in BOOLEAN /\ UNCHANGED <<chan, proxyVars, crashed, clean>>
    BY <1>0, <1>5 DEF TimerClearsTransfer
  <2> QED BY <1>0, <2>1, <2>2, <2>3, BasicOnePeer
<1>6. CASE OnClose(s)
  <2>1. peer[s].st # "none" /\ peer' = [peer EXCEPT ![s] = Shut(peer[s])]
    BY <1>0, <1>6 DEF OnClose
  <2>2. (IF peer[s].timer \in Running THEN "stopped" ELSE peer[s].timer) \in Timers
    BY <1>a DEF PeerStates, Timers
  <2>3. Shut(peer[s]) \in PeerStates /\ Shut(peer[s]).st # "none" /\ Shut(peer[s]).by = peer[s].by
    BY ZenonT(30), <1>a, <2>2 DEF Shut, PeerStates
  <2> QED BY <1>0, <1>6, <2>1, <2>3, BasicOnePeer DEF OnClose
<1>7. CASE Signal(t, s)
  <2>0. peer[s].st # "none" /\ peer[t].st # "none"
    BY <1>0, <1>7 DEF Signal, Blank
  <2>1. CASE s = t
    <3> DEFINE r == [peer[s] EXCEPT !.onOpen = "done", !.timer = "woken", !.took = t]
    <3>1. r \in PeerStates /\ r.st # "none" /\ r.by = peer[s].by
      BY ZenonT(30), <1>a, <1>b, <2>0 DEF PeerStates
    <3>2. peer' = [peer EXCEPT ![s] = r]
      BY <1>0, <1>7, <2>1 DEF Signal
    <3> QED BY ZenonT(30), <1>0, <1>7, <2>0, <3>1, <3>2, BasicOnePeer DEF Signal
  <2>2. CASE s # t
    <3> DEFINE r == [peer[s] EXCEPT !.timer = "woken", !.took = t]
               q == [peer[t] EXCEPT !.onOpen = "done"]
    <3>1. r \in PeerStates /\ r.st # "none" /\ r.by = peer[s].by
      BY <1>a, <1>b, <2>0 DEF PeerStates
    <3>2. q \in PeerStates /\ q.st # "none" /\ q.by = peer[t].by
      BY <1>a, <2>0 DEF PeerStates
    <3>3. peer' = [peer EXCEPT ![t] = q, ![s] = r]
      BY <1>0, <1>7, <2>2 DEF Signal
    <3>4. UNCHANGED <<chan, transfer, proxyVars, crashed, clean>>
      BY <1>7 DEF Signal
    <3> HIDE DEF r, q
    <3> QED BY <1>0, <2>0, <2>2, <3>1, <3>2, <3>3, <3>4, BasicTwoPeers
  <2> QED BY <2>1, <2>2
<1>8. CASE DirectConnectReturns(s, t)
  <2> DEFINE r == [peer[s] EXCEPT !.cb = "idle", !.timer = Rearmed(peer[s].timer, peer[s].cb)]
             q == [peer[t] EXCEPT !.st = "up", !.timer = "idle"]
  <2>0. s # t /\ peer[s].st # "none" /\ peer[t].st # "none"
    BY <1>0, <1>8 DEF DirectConnectReturns, Dialed, Blank, Basic, MadeInOrder, Sessions
  <2>1. Rearmed(peer[s].timer, peer[s].cb) \in Timers
    BY <1>a DEF Rearmed, PeerStates, Timers
  <2>2. r \in PeerStates /\ r.st # "none" /\ r.by = peer[s].by
    BY <1>a, <2>0, <2>1 DEF PeerStates
  <2>3. q \in PeerStates /\ q.st # "none" /\ q.by = peer[t].by
    BY Zenon, <1>a, <1>b, <2>0 DEF PeerStates
  <2>4. peer' = [peer EXCEPT ![t] = q, ![s] = r]
    BY <1>0, <1>8, <2>0 DEF DirectConnectReturns
  <2>5. crashed' \in BOOLEAN /\ UNCHANGED <<chan, transfer, proxyVars, clean>>
    BY <1>8 DEF DirectConnectReturns
  <2> QED BY <1>0, <2>0, <2>2, <2>3, <2>4, <2>5, BasicTwoPeers
<1>9. CASE DirectConnectFails(s)
  <2> DEFINE r == [peer[s] EXCEPT !.cb = "idle"]
             q(u) == [peer[u] EXCEPT !.st = "leaked"]
  <2>0. peer[s].st # "none"
    BY <1>0, <1>9 DEF DirectConnectFails, Blank
  <2>1. r \in PeerStates /\ r.st # "none" /\ r.by = peer[s].by
    BY <1>a, <2>0 DEF PeerStates
  <2>2. \A u \in Sessions : q(u) \in PeerStates /\ q(u).st = "leaked" /\ q(u).by = peer[u].by
    BY <1>0 DEF PeerStates
  <2>3. peer' = [u \in Sessions |-> CASE u = s -> r [] u # s /\ Dialed(s, u) -> q(u) [] OTHER -> peer[u]]
    BY <1>9 DEF DirectConnectFails
  <2> HIDE DEF r, q
  <2>4. peer' \in [Sessions -> PeerStates]
        /\ \A u \in Sessions : /\ peer'[u].by = peer[u].by
                               /\ peer[u].st = "none" => peer'[u] = peer[u]
                               /\ peer'[u].st = "none" => peer[u].st = "none"
    BY <1>0, <2>0, <2>1, <2>2, <2>3 DEF Dialed
  <2>5. clean' \in BOOLEAN /\ UNCHANGED <<chan, transfer, proxyVars, crashed>>
    BY <1>9 DEF DirectConnectFails
  <2> QED BY <1>0, <2>4, <2>5, BasicPeerStep
<1> QED BY <1>1, <1>2, <1>3, <1>4, <1>5, <1>6, <1>7, <1>8, <1>9

(* Connect and DirectConnectPosts make the session s: to is its proxy.     *)
LEMMA BasicMakes ==
    ASSUME Basic, UNCHANGED proxyVars, NEW s \in Sessions, Fresh(s), NEW p \in Proxies,
           transfer' \in BOOLEAN, crashed' \in BOOLEAN, clean' \in BOOLEAN,
           NEW r \in PeerStates, r.st # "none", r.by < s, peer' = [peer EXCEPT ![s] = r],
           chan' = [chan EXCEPT ![s].to = p]
    PROVE  Basic'
<1>1. peer \in [Sessions -> PeerStates] /\ chan \in [Sessions -> ChanStates]
  BY DEF Basic, TypeOK
<1>2. RestTyped /\ UNCHANGED client2Dc
  BY DEF proxyVars, RestTyped, Basic, TypeOK
<1>3. chan' = [chan EXCEPT ![s] = [chan[s] EXCEPT !.to = p]]
  BY <1>1
<1>4. chan[s] = [to |-> chan[s].to, down |-> chan[s].down, ctl |-> chan[s].ctl, msgs |-> chan[s].msgs]
      /\ chan[s].down \in BOOLEAN /\ chan[s].ctl \in {"no", "announced", "probing", "gone"}
      /\ chan[s].msgs \in Seq(Messages) /\ Len(chan[s].msgs) <= MaxQueue
  BY <1>1, ChanFields
<1>5. [chan[s] EXCEPT !.to = p] = [to |-> p, down |-> chan[s].down, ctl |-> chan[s].ctl, msgs |-> chan[s].msgs]
  BY <1>4
<1>6. [to |-> p, down |-> chan[s].down, ctl |-> chan[s].ctl, msgs |-> chan[s].msgs] \in ChanStates
  BY <1>4, ChanFields
<1>7. chan' \in [Sessions -> ChanStates] /\ chan'[s].ctl = chan[s].ctl /\ chan'[s].msgs = chan[s].msgs
      /\ \A t \in Sessions : t # s => chan'[t] = chan[t]
  BY <1>1, <1>3, <1>5, <1>6
<1>8. peer' \in [Sessions -> PeerStates] /\ peer'[s] = r /\ \A t \in Sessions : t # s => peer'[t] = peer[t]
  BY <1>1
<1>9. \A t \in Sessions : KeepsTo(t) /\ KeepsBlank(t) /\ chan'[t].ctl = chan[t].ctl
  BY <1>7, <1>8 DEF KeepsTo, KeepsBlank, Fresh
<1>10. \A t \in Sessions : NamesProxy(t)
  BY <1>7 DEF Basic, OrdersNameProxy, NamesProxy
<1>11. MadeInOrder'
  BY <1>8 DEF Basic, MadeInOrder, Fresh
<1> QED BY <1>2, <1>7, <1>8, <1>9, <1>10, <1>11, BasicStep

LEMMA BasicMakeSteps ==
    ASSUME Basic, NEW s \in Sessions, NEW t \in Sessions, NEW p \in Proxies,
           Connect(s, p) \/ DirectConnectPosts(s, t)
    PROVE  Basic'
<1>0. peer \in [Sessions -> PeerStates] /\ transfer \in BOOLEAN /\ crashed \in BOOLEAN /\ clean \in BOOLEAN
      /\ alive \subseteq Proxies /\ \A u \in Sessions : peer[u].st = "none" => Blank(u)
  BY DEF Basic, TypeOK, BlankUntilMade
<1>1. CASE Connect(s, p)
  <2> DEFINE r == [peer[s] EXCEPT !.st = "wired"]
  <2>1. r \in PeerStates /\ r.st # "none" /\ r.by = peer[s].by
    BY <1>0 DEF PeerStates
  <2>2. peer[s].by < s
    BY DEF Basic, MadeInOrder
  <2>3. peer' = [peer EXCEPT ![s] = r] /\ chan' = [chan EXCEPT ![s].to = p] /\ Fresh(s)
    BY <1>0, <1>1 DEF Connect
  <2>4. clean' \in BOOLEAN /\ UNCHANGED <<transfer, proxyVars, crashed>>
    BY <1>1 DEF Connect
  <2> HIDE DEF r
  <2> QED BY <1>0, <2>1, <2>2, <2>3, <2>4, BasicMakes
<1>2. CASE DirectConnectPosts(s, t)
  <2> DEFINE r == [peer[t] EXCEPT !.st = "offered", !.by = s]
             q == peer[s].known
  <2>1. r \in PeerStates /\ r.st # "none" /\ r.by = s
    BY ZenonT(30), <1>0 DEF PeerStates
  <2>2. Fresh(t) /\ q \in Proxies /\ peer[s].st # "none"
    BY <1>0, <1>2 DEF DirectConnectPosts, Blank
  <2>3. s < t
    <3>1. ~(t < s) /\ s # t
      BY <2>2 DEF Basic, MadeInOrder, Fresh
    <3> QED BY <3>1, MigrationAssumption DEF Sessions
  <2>4. peer' = [peer EXCEPT ![t] = r] /\ chan' = [chan EXCEPT ![t].to = q]
    BY <1>0, <1>2 DEF DirectConnectPosts
  <2>5. UNCHANGED <<transfer, proxyVars, crashed, clean>>
    BY <1>2 DEF DirectConnectPosts
  <2> HIDE DEF r, q
  <2> QED BY <1>0, <2>1, <2>2, <2>3, <2>4, <2>5, BasicMakes
<1> QED BY <1>1, <1>2

(* A step after which peer s is r and its channel c.                       *)
LEMMA BasicBoth ==
    ASSUME Basic, UNCHANGED client2Dc, RestTyped, NEW s \in Sessions, peer[s].st # "none",
           NEW r \in PeerStates, r.st # "none", r.by = peer[s].by, peer' = [peer EXCEPT ![s] = r],
           NEW c \in ChanStates, c.to = chan[s].to, c.ctl = chan[s].ctl, chan' = [chan EXCEPT ![s] = c],
           \A i \in DOMAIN c.msgs : c.msgs[i].tv = "now" => c.msgs[i].ip # NoProxy
    PROVE  Basic'
<1>1. peer \in [Sessions -> PeerStates] /\ chan \in [Sessions -> ChanStates]
  BY DEF Basic, TypeOK
<1>2. peer' \in [Sessions -> PeerStates] /\ peer'[s] = r /\ \A t \in Sessions : t # s => peer'[t] = peer[t]
  BY <1>1
<1>3. chan' \in [Sessions -> ChanStates] /\ chan'[s] = c /\ \A t \in Sessions : t # s => chan'[t] = chan[t]
  BY <1>1
<1>4. \A t \in Sessions : KeepsTo(t) /\ KeepsBlank(t) /\ chan'[t].ctl = chan[t].ctl
  BY <1>2, <1>3 DEF KeepsTo, KeepsBlank
<1>5. \A t \in Sessions : NamesProxy(t)
  BY <1>3 DEF Basic, OrdersNameProxy, NamesProxy
<1>6. MadeInOrder'
  BY <1>2 DEF Basic, MadeInOrder
<1> QED BY <1>2, <1>3, <1>4, <1>5, <1>6, BasicStep

(* The rest of a queue of control messages.                                *)
LEMMA TailOK ==
    ASSUME Basic, NEW s \in Sessions, chan[s].msgs # <<>>
    PROVE  LET c == [chan[s] EXCEPT !.msgs = Tail(chan[s].msgs)]
           IN  /\ c \in ChanStates /\ c.to = chan[s].to /\ c.ctl = chan[s].ctl /\ c.down = chan[s].down
               /\ \A i \in DOMAIN c.msgs : c.msgs[i].tv = "now" => c.msgs[i].ip # NoProxy
               /\ Head(chan[s].msgs) \in Messages
               /\ Head(chan[s].msgs).tv = "now" => Head(chan[s].msgs).ip # NoProxy
<1> DEFINE q == chan[s].msgs
           e == Tail(q)
           c == [chan[s] EXCEPT !.msgs = e]
<1>1. /\ chan[s] = [to |-> chan[s].to, down |-> chan[s].down, ctl |-> chan[s].ctl, msgs |-> q]
      /\ chan[s].to \in Proxies \cup {NoProxy}
      /\ chan[s].down \in BOOLEAN /\ chan[s].ctl \in {"no", "announced", "probing", "gone"}
      /\ q \in Seq(Messages) /\ Len(q) <= MaxQueue
  BY ChanFields DEF Basic, TypeOK
<1>2. e \in Seq(Messages) /\ Len(e) <= MaxQueue /\ \A i \in DOMAIN e : i + 1 \in DOMAIN q /\ e[i] = q[i + 1]
  BY <1>1, MigrationAssumption
<1>3. Head(q) \in Messages /\ Head(q) = q[1] /\ 1 \in DOMAIN q
  BY <1>1
<1>4. \A i \in DOMAIN q : q[i].tv = "now" => q[i].ip # NoProxy
  BY DEF Basic, OrdersNameProxy
<1>5. \A i \in DOMAIN e : e[i].tv = "now" => e[i].ip # NoProxy
  BY <1>2, <1>4
<1>6. Head(q).tv = "now" => Head(q).ip # NoProxy
  BY <1>3, <1>4
<1> HIDE DEF e
<1>7. c = [to |-> chan[s].to, down |-> chan[s].down, ctl |-> chan[s].ctl, msgs |-> e]
  BY <1>1
<1>8. [to |-> chan[s].to, down |-> chan[s].down, ctl |-> chan[s].ctl, msgs |-> e] \in ChanStates
  BY <1>1, <1>2, ChanFields
<1>9. c \in ChanStates /\ c.to = chan[s].to /\ c.ctl = chan[s].ctl /\ c.down = chan[s].down /\ c.msgs = e
  BY <1>7, <1>8
<1> QED BY <1>3, <1>5, <1>6, <1>9 DEF e

LEMMA BasicMessageSteps ==
    ASSUME Basic, NEW s \in Sessions, MessageStartsTransfer(s) \/ MessageSetsTimer(s)
    PROVE  Basic'
<1> DEFINE m == Head(chan[s].msgs)
           c == [chan[s] EXCEPT !.msgs = Tail(chan[s].msgs)]
<1>0. peer \in [Sessions -> PeerStates] /\ peer[s] \in PeerStates /\ chan \in [Sessions -> ChanStates]
      /\ transfer \in BOOLEAN /\ crashed \in BOOLEAN /\ clean \in BOOLEAN
  BY DEF Basic, TypeOK
<1>1. chan[s].msgs # <<>> /\ peer[s].st # "none"
  BY DEF MessageStartsTransfer, MessageSetsTimer, Joined
<1>2. /\ c \in ChanStates /\ c.to = chan[s].to /\ c.ctl = chan[s].ctl
      /\ \A i \in DOMAIN c.msgs : c.msgs[i].tv = "now" => c.msgs[i].ip # NoProxy
      /\ m \in Messages
  BY <1>1, TailOK
<1>3. chan' = [chan EXCEPT ![s] = c]
  BY <1>0 DEF MessageStartsTransfer, MessageSetsTimer
<1>4. UNCHANGED proxyVars /\ transfer' \in BOOLEAN /\ crashed' \in BOOLEAN /\ clean' \in BOOLEAN
  BY <1>0 DEF MessageStartsTransfer, MessageSetsTimer
<1>5. RestTyped /\ UNCHANGED client2Dc
  BY <1>4 DEF proxyVars, RestTyped, Basic, TypeOK
<1>6. m.ip \in Proxies \cup {NoProxy} /\ m.tv \in {"now", "later"}
  BY <1>2 DEF Messages
<1>7. CASE MessageStartsTransfer(s)
  <2> DEFINE r == [peer[s] EXCEPT !.known = m.ip, !.cb = m.tv]
  <2>1. peer' = [peer EXCEPT ![s] = r]
    BY <1>0, <1>7 DEF MessageStartsTransfer
  <2> HIDE DEF m
  <2>2. r \in PeerStates /\ r.st # "none" /\ r.by = peer[s].by
    BY <1>0, <1>1, <1>6, ZenonT(40) DEF PeerStates
  <2> HIDE DEF r, c
  <2> QED BY <1>1, <1>2, <1>3, <1>5, <2>1, <2>2, BasicBoth
<1>8. CASE MessageSetsTimer(s)
  <2> DEFINE r == [peer[s] EXCEPT !.timer = Rearmed(peer[s].timer, m.tv)]
  <2>1. peer' = [peer EXCEPT ![s] = r]
    BY <1>0, <1>8 DEF MessageSetsTimer
  <2>2. Rearmed(peer[s].timer, m.tv) \in Timers
    BY <1>0 DEF Rearmed, PeerStates, Timers
  <2> HIDE DEF m
  <2>3. r \in PeerStates /\ r.st # "none" /\ r.by = peer[s].by
    BY <1>0, <1>1, <2>2 DEF PeerStates
  <2> HIDE DEF r, c
  <2> QED BY <1>1, <1>2, <1>3, <1>5, <2>1, <2>3, BasicBoth
<1> QED BY <1>7, <1>8

LEMMA BasicTearSteps ==
    ASSUME Basic, NEW s \in Sessions, ConnectTimesOut(s) \/ TimerCloses(s) \/ LinkFails(s)
    PROVE  Basic'
<1>0. peer \in [Sessions -> PeerStates] /\ peer[s] \in PeerStates /\ chan[s] \in ChanStates
      /\ transfer \in BOOLEAN /\ crashed \in BOOLEAN /\ clean \in BOOLEAN
      /\ (peer[s].st = "none" => Blank(s))
  BY DEF Basic, TypeOK, BlankUntilMade
<1>1. Torn(chan[s]) \in ChanStates /\ Torn(chan[s]).to = chan[s].to /\ Torn(chan[s]).ctl = chan[s].ctl
      /\ DOMAIN Torn(chan[s]).msgs = {}
  BY <1>0, TornOK
<1>2. chan' = [chan EXCEPT ![s] = Torn(chan[s])] /\ peer[s].st # "none"
  BY <1>0 DEF ConnectTimesOut, TimerCloses, LinkFails, Blank
<1>3. RestTyped /\ UNCHANGED client2Dc
  <2>1. CASE LinkFails(s)
    <3>1. faults' \in 0..MaxFaults
      BY <2>1, MigrationAssumption DEF LinkFails, Basic, TypeOK
    <3> QED BY <2>1, <3>1 DEF LinkFails, RestTyped, Basic, TypeOK
  <2>2. CASE ConnectTimesOut(s) \/ TimerCloses(s)
    BY <2>2 DEF ConnectTimesOut, TimerCloses, proxyVars, RestTyped, Basic, TypeOK
  <2> QED BY <2>1, <2>2
<1>4. PICK r \in PeerStates : r.st # "none" /\ r.by = peer[s].by /\ peer' = [peer EXCEPT ![s] = r]
  <2>1. CASE LinkFails(s)
    BY <1>0, <1>2, <2>1 DEF LinkFails
  <2>2. CASE ConnectTimesOut(s)
    <3> DEFINE r == [peer[s] EXCEPT !.st = "closed"]
    <3>1. r \in PeerStates /\ r.st # "none" /\ r.by = peer[s].by
      BY <1>0 DEF PeerStates
    <3>2. peer' = [peer EXCEPT ![s] = r]
      BY <1>0, <2>2 DEF ConnectTimesOut
    <3> QED BY <3>1, <3>2
  <2>3. CASE TimerCloses(s)
    <3> DEFINE r == [peer[s] EXCEPT !.timer = "done", !.st = "closed"]
    <3>1. r \in PeerStates /\ r.st # "none" /\ r.by = peer[s].by
      <4>1. "done" \in Timers
        BY DEF Timers
      <4> QED BY <1>0, <4>1 DEF PeerStates
    <3>2. peer' = [peer EXCEPT ![s] = r]
      BY <1>0, <2>3 DEF TimerCloses
    <3> QED BY <3>1, <3>2
  <2> QED BY <2>1, <2>2, <2>3
<1> QED BY <1>1, <1>2, <1>3, <1>4, BasicBoth

(* A message that is put into a queue with room.                           *)
LEMMA AppendOK ==
    ASSUME Basic, NEW s \in Sessions, NEW m \in Messages, Len(chan[s].msgs) < MaxQueue,
           m.tv = "now" => m.ip # NoProxy
    PROVE  LET c == [chan[s] EXCEPT !.msgs = Append(chan[s].msgs, m)]
           IN  /\ c \in ChanStates /\ c.to = chan[s].to /\ c.ctl = chan[s].ctl /\ c.down = chan[s].down
               /\ \A i \in DOMAIN c.msgs : c.msgs[i].tv = "now" => c.msgs[i].ip # NoProxy
<1> DEFINE q == chan[s].msgs
           e == Append(q, m)
           c == [chan[s] EXCEPT !.msgs = e]
<1>1. /\ chan[s] = [to |-> chan[s].to, down |-> chan[s].down, ctl |-> chan[s].ctl, msgs |-> q]
      /\ chan[s].to \in Proxies \cup {NoProxy}
      /\ chan[s].down \in BOOLEAN /\ chan[s].ctl \in {"no", "announced", "probing", "gone"}
      /\ q \in Seq(Messages) /\ Len(q) <= MaxQueue
  BY ChanFields DEF Basic, TypeOK
<1>2. e \in Seq(Messages) /\ Len(e) <= MaxQueue /\ DOMAIN e = DOMAIN q \cup {Len(q) + 1}
      /\ e[Len(q) + 1] = m /\ \A i \in DOMAIN q : e[i] = q[i]
  BY <1>1, MigrationAssumption
<1>3. \A i \in DOMAIN q : q[i].tv = "now" => q[i].ip # NoProxy
  BY DEF Basic, OrdersNameProxy
<1>4. \A i \in DOMAIN e : e[i].tv = "now" => e[i].ip # NoProxy
  BY <1>2, <1>3
<1> HIDE DEF e
<1>5. c = [to |-> chan[s].to, down |-> chan[s].down, ctl |-> chan[s].ctl, msgs |-> e]
  BY <1>1
<1>6. [to |-> chan[s].to, down |-> chan[s].down, ctl |-> chan[s].ctl, msgs |-> e] \in ChanStates
  BY <1>1, <1>2, ChanFields
<1>7. c \in ChanStates /\ c.to = chan[s].to /\ c.ctl = chan[s].ctl /\ c.down = chan[s].down /\ c.msgs = e
  BY <1>5, <1>6
<1> QED BY <1>4, <1>7 DEF e

(* A step that changes the channel of s to c and nothing of the peers.     *)
LEMMA BasicOneChan ==
    ASSUME Basic, UNCHANGED <<peer, client2Dc>>, RestTyped, NEW s \in Sessions, peer[s].st # "none",
           NEW c \in ChanStates, c.to = chan[s].to, c.ctl = chan[s].ctl, chan' = [chan EXCEPT ![s] = c],
           \A i \in DOMAIN c.msgs : c.msgs[i].tv = "now" => c.msgs[i].ip # NoProxy
    PROVE  Basic'
<1>1. peer[s] \in PeerStates /\ peer' = [peer EXCEPT ![s] = peer[s]]
  BY DEF Basic, TypeOK
<1> QED BY <1>1, BasicBoth

LEMMA BasicSendSteps ==
    ASSUME Basic,
           \/ \E s \in Sessions : Probe(s)
           \/ \E p, q \in Proxies, now \in TransferNow : TransferHandler(p, q, now)
    PROVE  Basic'
<1>0. chan \in [Sessions -> ChanStates] /\ client2TransferIP \in [Proxies -> Proxies \cup {NoProxy}]
      /\ client2Dc \in [Proxies -> Sessions \cup {NoSession}]
      /\ \A u \in Sessions : peer[u].st = "none" => Blank(u)
  BY DEF Basic, TypeOK, BlankUntilMade
<1>1. ASSUME NEW s \in Sessions, Probe(s)
      PROVE  Basic'
  <2> DEFINE m == [tv |-> "later", ip |-> client2TransferIP[At(s)]]
             c == [chan[s] EXCEPT !.msgs = Append(chan[s].msgs, m)]
  <2>1. RestTyped /\ UNCHANGED <<peer, client2Dc>> /\ chan[s].ctl = "probing" /\ At(s) \in Proxies
    BY <1>1 DEF Probe, proxyVars, RestTyped, Basic, TypeOK
  <2>2. m \in Messages /\ m.tv # "now"
    BY <1>0, <2>1 DEF Messages
  <2>3. chan' = [chan EXCEPT ![s] = c] /\ Len(chan[s].msgs) < MaxQueue
    BY <1>0, <1>1 DEF Probe
  <2> HIDE DEF m
  <2>4. c \in ChanStates /\ c.to = chan[s].to /\ c.ctl = chan[s].ctl
        /\ \A i \in DOMAIN c.msgs : c.msgs[i].tv = "now" => c.msgs[i].ip # NoProxy
    BY <2>2, <2>3, AppendOK
  <2>5. peer[s].st # "none"
    BY <1>0, <2>1 DEF Blank
  <2> HIDE DEF c
  <2> QED BY <2>1, <2>3, <2>4, <2>5, BasicOneChan
<1>2. ASSUME NEW p \in Proxies, NEW q \in Proxies, NEW now \in TransferNow, TransferHandler(p, q, now)
      PROVE  Basic'
  <2>1. UNCHANGED <<peer, client2Dc, transfer, alive, faults, crashed, clean>>
    BY <1>2 DEF TransferHandler
  <2>2. orders' \in 0..MaxOrders
    BY <1>2, MigrationAssumption DEF TransferHandler, Basic, TypeOK
  <2>3. client2TransferIP' \in [Proxies -> Proxies \cup {NoProxy}]
    BY <1>0, <1>2 DEF TransferHandler
  <2>4. RestTyped
    BY <2>1, <2>2, <2>3 DEF RestTyped, Basic, TypeOK
  <2>5. CASE UNCHANGED chan
    <3>1. \A u \in Sessions : KeepsTo(u) /\ KeepsBlank(u) /\ chan'[u].ctl = chan[u].ctl
      BY <2>1, <2>5 DEF KeepsTo, KeepsBlank
    <3>2. \A u \in Sessions : NamesProxy(u)
      BY <2>5 DEF Basic, OrdersNameProxy, NamesProxy
    <3>3. MadeInOrder' /\ peer' \in [Sessions -> PeerStates] /\ chan' \in [Sessions -> ChanStates]
      BY <2>1, <2>5 DEF Basic, TypeOK, MadeInOrder
    <3> QED BY <2>1, <2>4, <3>1, <3>2, <3>3, BasicStep
  <2>6. CASE chan' # chan
    <3> DEFINE u == client2Dc[p]
               m == [tv |-> "now", ip |-> q]
               c == [chan[u] EXCEPT !.msgs = Append(chan[u].msgs, m)]
    <3>1. u \in Sessions /\ chan[u].ctl = "probing" /\ Len(chan[u].msgs) < MaxQueue
          /\ chan' = [chan EXCEPT ![u].msgs = Append(@, m)]
      BY <1>0, <1>2, <2>6 DEF TransferHandler
    <3>2. m \in Messages /\ m.ip # NoProxy
      BY MigrationAssumption DEF Messages
    <3>3. chan' = [chan EXCEPT ![u] = c]
      BY <1>0, <3>1
    <3>4. peer[u].st # "none"
      BY <1>0, <3>1 DEF Blank
    <3> HIDE DEF m, u
    <3>5. c \in ChanStates /\ c.to = chan[u].to /\ c.ctl = chan[u].ctl
          /\ \A i \in DOMAIN c.msgs : c.msgs[i].tv = "now" => c.msgs[i].ip # NoProxy
      BY <3>1, <3>2, AppendOK
    <3> HIDE DEF c
    <3> QED BY <2>1, <2>4, <3>1, <3>3, <3>4, <3>5, BasicOneChan
  <2> QED BY <2>5, <2>6
<1> QED BY <1>1, <1>2

(* The steps of a proxy that change what a control channel is to it: the   *)
(* map holds a session only at the proxy that session is connected to.     *)
LEMMA BasicControlSteps ==
    ASSUME Basic, NEW s \in Sessions, OnControlChannel(s) \/ ControlOpens(s) \/ ControlCloses(s)
    PROVE  Basic'
<1>0. /\ chan \in [Sessions -> ChanStates] /\ peer \in [Sessions -> PeerStates]
      /\ client2Dc \in [Proxies -> Sessions \cup {NoSession}]
      /\ client2TransferIP \in [Proxies -> Proxies \cup {NoProxy}] /\ alive \subseteq Proxies
      /\ \A u \in Sessions : peer[u].st = "none" => Blank(u)
  BY DEF Basic, TypeOK, BlankUntilMade
<1>1. /\ UNCHANGED <<peer, transfer, alive, orders, faults, crashed, clean>>
      /\ At(s) \in Proxies /\ peer[s].st # "none"
  BY <1>0 DEF OnControlChannel, ControlOpens, ControlCloses, Joined, Blank
<1>2. PICK x \in {"announced", "probing", "gone"} : chan' = [chan EXCEPT ![s].ctl = x]
  BY DEF OnControlChannel, ControlOpens, ControlCloses
<1>3. /\ chan' \in [Sessions -> ChanStates] /\ chan'[s].ctl = x
      /\ \A t \in Sessions : /\ chan'[t].to = chan[t].to /\ chan'[t].down = chan[t].down
                             /\ chan'[t].msgs = chan[t].msgs /\ (t # s => chan'[t] = chan[t])
  <2> DEFINE c == [chan[s] EXCEPT !.ctl = x]
  <2>1. chan' = [chan EXCEPT ![s] = c]
    BY <1>0, <1>2
  <2>2. chan[s] = [to |-> chan[s].to, down |-> chan[s].down, ctl |-> chan[s].ctl, msgs |-> chan[s].msgs]
        /\ chan[s].to \in Proxies \cup {NoProxy} /\ chan[s].down \in BOOLEAN
        /\ chan[s].msgs \in Seq(Messages) /\ Len(chan[s].msgs) <= MaxQueue
    BY <1>0, ChanFields
  <2>3. c = [to |-> chan[s].to, down |-> chan[s].down, ctl |-> x, msgs |-> chan[s].msgs]
    BY <2>2
  <2>4. [to |-> chan[s].to, down |-> chan[s].down, ctl |-> x, msgs |-> chan[s].msgs] \in ChanStates
    BY <2>2, ChanFields
  <2>5. c \in ChanStates /\ c.to = chan[s].to /\ c.down = chan[s].down /\ c.msgs = chan[s].msgs /\ c.ctl = x
    BY <2>3, <2>4
  <2> HIDE DEF c
  <2> QED BY <1>0, <2>1, <2>5
<1>4. client2Dc' \in [Proxies -> Sessions \cup {NoSession}]
      /\ client2TransferIP' \in [Proxies -> Proxies \cup {NoProxy}]
  BY <1>0, <1>1 DEF OnControlChannel, ControlOpens, ControlCloses
<1>5. TypeOK'
  BY <1>0, <1>1, <1>3, <1>4 DEF Basic, TypeOK
<1>6. BlankUntilMade' /\ MadeInOrder'
  BY <1>1, <1>3 DEF Basic, BlankUntilMade, Blank, MadeInOrder
<1>7. OrdersNameProxy'
  BY <1>3 DEF Basic, OrdersNameProxy
<1>8. OrdersReachOpenChannels'
  <2> SUFFICES ASSUME NEW p \in Proxies, client2Dc'[p] # NoSession
               PROVE  chan'[client2Dc'[p]].to = p /\ chan'[client2Dc'[p]].ctl \in {"announced", "probing"}
    BY DEF OrdersReachOpenChannels, At
  <2>1. client2Dc[p] # NoSession =>
          client2Dc[p] \in Sessions /\ chan[client2Dc[p]].to = p /\ chan[client2Dc[p]].ctl \in {"announced", "probing"}
    BY <1>0 DEF Basic, OrdersReachOpenChannels, At
  <2>2. CASE OnControlChannel(s)
    BY <1>0, <1>1, <1>3, <2>1, <2>2 DEF OnControlChannel, At
  <2>3. CASE ControlOpens(s)
    BY <1>0, <1>3, <2>1, <2>3 DEF ControlOpens
  <2>4. CASE ControlCloses(s)
    BY <1>0, <1>1, <1>3, <2>1, <2>4 DEF ControlCloses, At
  <2> QED BY <2>2, <2>3, <2>4
<1> QED BY <1>5, <1>6, <1>7, <1>8 DEF Basic

(* A proxy that dies takes its maps and its ends of the channels along.    *)
LEMMA BasicProxyDies ==
    ASSUME Basic, NEW p \in Proxies, ProxyDies(p)
    PROVE  Basic'
<1>0. /\ chan \in [Sessions -> ChanStates] /\ peer \in [Sessions -> PeerStates]
      /\ client2Dc \in [Proxies -> Sessions \cup {NoSession}]
      /\ client2TransferIP \in [Proxies -> Proxies \cup {NoProxy}] /\ alive \subseteq Proxies
      /\ \A u \in Sessions : peer[u].st = "none" => Blank(u)
  BY DEF Basic, TypeOK, BlankUntilMade
<1> DEFINE g(s) == [Torn(chan[s]) EXCEPT !.ctl = "gone"]
<1>1. \A s \in Sessions : /\ g(s) \in ChanStates /\ g(s).to = chan[s].to /\ g(s).ctl = "gone"
                          /\ DOMAIN g(s).msgs = {}
  <2> SUFFICES ASSUME NEW s \in Sessions
               PROVE  g(s) \in ChanStates /\ g(s).to = chan[s].to /\ g(s).ctl = "gone" /\ DOMAIN g(s).msgs = {}
    OBVIOUS
  <2> DEFINE c == Torn(chan[s])
  <2>1. c \in ChanStates /\ c.to = chan[s].to /\ DOMAIN c.msgs = {}
    BY <1>0, TornOK
  <2> HIDE DEF c
  <2>2. c = [to |-> c.to, down |-> c.down, ctl |-> c.ctl, msgs |-> c.msgs]
        /\ c.to \in Proxies \cup {NoProxy} /\ c.down \in BOOLEAN
        /\ c.msgs \in Seq(Messages) /\ Len(c.msgs) <= MaxQueue
    BY <2>1, ChanFields
  <2>3. [c EXCEPT !.ctl = "gone"] = [to |-> c.to, down |-> c.down, ctl |-> "gone", msgs |-> c.msgs]
    BY <2>2
  <2>4. [to |-> c.to, down |-> c.down, ctl |-> "gone", msgs |-> c.msgs] \in ChanStates
    BY <2>2, ChanFields
  <2>5. [c EXCEPT !.ctl = "gone"] \in ChanStates /\ [c EXCEPT !.ctl = "gone"].to = chan[s].to
        /\ [c EXCEPT !.ctl = "gone"].ctl = "gone" /\ [c EXCEPT !.ctl = "gone"].msgs = c.msgs
    BY <2>1, <2>3, <2>4
  <2> QED BY <2>1, <2>5 DEF c
<1>2. chan' = [s \in Sessions |-> IF At(s) = p THEN g(s) ELSE chan[s]]
  BY DEF ProxyDies
<1> HIDE DEF g
<1>3. chan' \in [Sessions -> ChanStates] /\ \A s \in Sessions :
          /\ chan'[s].to = chan[s].to
          /\ (chan[s].to = p => DOMAIN chan'[s].msgs = {}) /\ (chan[s].to # p => chan'[s] = chan[s])
  BY <1>0, <1>1, <1>2 DEF At
<1>4. /\ UNCHANGED <<peer, transfer, orders, crashed>> /\ alive' \subseteq Proxies /\ clean' \in BOOLEAN
      /\ client2Dc' = [client2Dc EXCEPT ![p] = NoSession]
      /\ client2TransferIP' = [client2TransferIP EXCEPT ![p] = NoProxy]
  BY <1>0 DEF ProxyDies
<1>5. faults' \in 0..MaxFaults
  BY MigrationAssumption DEF ProxyDies, Basic, TypeOK
<1>6. client2Dc' \in [Proxies -> Sessions \cup {NoSession}]
      /\ client2TransferIP' \in [Proxies -> Proxies \cup {NoProxy}]
  BY <1>0, <1>4
<1>7. TypeOK'
  BY <1>3, <1>4, <1>5, <1>6 DEF Basic, TypeOK
<1>8. BlankUntilMade' /\ MadeInOrder'
  <2>1. \A s \in Sessions : peer[s].st = "none" => chan'[s] = chan[s]
    BY <1>0, <1>3, MigrationAssumption DEF Blank
  <2> QED BY <1>0, <1>4, <2>1 DEF Basic, BlankUntilMade, Blank, MadeInOrder
<1>9. OrdersNameProxy'
  BY <1>3 DEF Basic, OrdersNameProxy
<1>10. OrdersReachOpenChannels'
  BY <1>0, <1>3, <1>4 DEF Basic, OrdersReachOpenChannels, At
<1> QED BY <1>7, <1>8, <1>9, <1>10 DEF Basic

LEMMA BasicInit == Init => Basic
<1> SUFFICES ASSUME Init PROVE Basic
  OBVIOUS
<1> DEFINE e == <<>>
           c == [to |-> NoProxy, down |-> FALSE, ctl |-> "no", msgs |-> e]
           r == [st |-> "none", by |-> NoSession, known |-> NoProxy,
                 cb |-> "idle", onOpen |-> "no", timer |-> "none", took |-> NoSession]
<1>1. chan = [s \in Sessions |-> c] /\ peer = [s \in Sessions |-> r]
  BY DEF Init
<1>2. e \in Seq(Messages) /\ Len(e) <= MaxQueue /\ DOMAIN e = {}
  BY MigrationAssumption
<1> HIDE DEF e
<1>3. c \in ChanStates
  BY <1>2, ChanFields
<1>4. r \in PeerStates
  <2>1. "none" \in Timers
    BY DEF Timers
  <2> QED BY <2>1 DEF PeerStates
<1>5. orders \in 0..MaxOrders /\ faults \in 0..MaxFaults
  BY MigrationAssumption DEF Init
<1>6. c.to = NoProxy /\ ~c.down /\ c.ctl = "no" /\ c.msgs = e
  OBVIOUS
<1>7. r.st = "none" /\ r.by = NoSession /\ r.known = NoProxy /\ r.cb = "idle" /\ r.onOpen = "no"
      /\ r.timer = "none" /\ r.took = NoSession
  OBVIOUS
<1> HIDE DEF c, r
<1>8. TypeOK
  <2>1. chan \in [Sessions -> ChanStates] /\ peer \in [Sessions -> PeerStates]
    BY <1>1, <1>3, <1>4
  <2>2. transfer \in BOOLEAN /\ crashed \in BOOLEAN /\ clean \in BOOLEAN /\ alive \subseteq Proxies
    BY DEF Init
  <2>3. client2Dc \in [Proxies -> Sessions \cup {NoSession}]
        /\ client2TransferIP \in [Proxies -> Proxies \cup {NoProxy}]
    BY DEF Init
  <2> QED BY <1>5, <2>1, <2>2, <2>3 DEF TypeOK
<1>9. BlankUntilMade
  BY <1>1, <1>6, <1>7 DEF BlankUntilMade, Blank
<1>10. MadeInOrder
  BY <1>1, <1>7 DEF MadeInOrder, NoSession, Sessions
<1>11. OrdersNameProxy
  BY <1>1, <1>2, <1>6 DEF OrdersNameProxy
<1>12. OrdersReachOpenChannels
  BY DEF Init, OrdersReachOpenChannels
<1> QED BY <1>8, <1>9, <1>10, <1>11, <1>12 DEF Basic

LEMMA BasicNext == Basic /\ [Next]_vars => Basic'
<1> SUFFICES ASSUME Basic, [Next]_vars PROVE Basic'
  OBVIOUS
<1>1. CASE ClientStep
  <2>1. CASE Signals
    BY <2>1, BasicPeerSteps DEF Signals
  <2>2. CASE \E s \in Sessions :
               \/ \E p \in Proxies : Connect(s, p)
               \/ SetRemoteDescription(s) \/ Connected(s) \/ ConnectTimesOut(s)
               \/ OnOpen(s) \/ Handles(s) \/ TimerSteps(s) \/ OnClose(s)
    <3>1. PICK s \in Sessions :
               \/ \E p \in Proxies : Connect(s, p)
               \/ SetRemoteDescription(s) \/ Connected(s) \/ ConnectTimesOut(s)
               \/ OnOpen(s) \/ Handles(s) \/ TimerSteps(s) \/ OnClose(s)
      BY <2>2
    <3>2. CASE \E p \in Proxies : Connect(s, p)
      BY <3>2, BasicMakeSteps
    <3>3. CASE SetRemoteDescription(s) \/ Connected(s) \/ OnOpen(s) \/ OnClose(s)
      BY <3>3, BasicPeerSteps
    <3>4. CASE ConnectTimesOut(s)
      BY <3>4, BasicTearSteps
    <3>5. CASE TimerSteps(s)
      BY <3>5, BasicPeerSteps, BasicTearSteps DEF TimerSteps
    <3>6. CASE Handles(s)
      BY <3>6, BasicPeerSteps, BasicMakeSteps, BasicMessageSteps, MigrationAssumption DEF Handles
    <3> QED BY <3>1, <3>2, <3>3, <3>4, <3>5, <3>6
  <2> QED BY <1>1, <2>1, <2>2 DEF ClientStep
<1>2. CASE ProxyStep
  <2>1. ASSUME NEW s \in Sessions, OnControlChannel(s) \/ ControlOpens(s) \/ ControlCloses(s)
        PROVE  Basic'
    BY <2>1, BasicControlSteps
  <2>2. ASSUME NEW s \in Sessions, Probe(s)
        PROVE  Basic'
    BY <2>2, BasicSendSteps
  <2>3. ASSUME NEW s \in Sessions, LinkFails(s)
        PROVE  Basic'
    BY <2>3, BasicTearSteps
  <2>4. ASSUME NEW p \in Proxies, NEW q \in Proxies, NEW now \in TransferNow, TransferHandler(p, q, now)
        PROVE  Basic'
    BY <2>4, BasicSendSteps
  <2>5. ASSUME NEW p \in Proxies, ProxyDies(p)
        PROVE  Basic'
    BY <2>5, BasicProxyDies
  <2> QED BY <1>2, <2>1, <2>2, <2>3, <2>4, <2>5 DEF ProxyStep
<1>3. CASE UNCHANGED vars
  BY <1>3 DEF vars, Basic, TypeOK, BlankUntilMade, Blank, MadeInOrder, OrdersNameProxy,
              OrdersReachOpenChannels, At
<1> QED BY <1>1, <1>2, <1>3 DEF Next

-----------------------------------------------------------------------------
(* A step that changes neither the peers nor transfer: a link may go down  *)
(* while no handover is in progress.                                       *)
LEMMA CleanProxyStep ==
    ASSUME Basic, CleanOK, UNCHANGED <<peer, transfer>>,
           transfer => \A s \in Sessions : chan'[s].down = chan[s].down
    PROVE  CleanOK'
<1>1. TimersFollowPeers' /\ DialedHasCallback' /\ SignalledByOwn'
  BY DEF CleanOK, TimersFollowPeers, DialedHasCallback, SignalledByOwn
<1>2. ~transfer => Rest'
  BY DEF CleanOK, Rest, Live, CallbackTrails, HandedOver, Dialed
<1>3. ASSUME NEW h \in Sessions, Handover(h), transfer PROVE Handover(h)'
  BY <1>3 DEF Handover, Initiator, Successor, Bystander, Live, CallbackTrails, HandedOver, Dialed
<1> QED BY <1>1, <1>2, <1>3 DEF CleanOK

(* The types that the proofs below need.                                   *)
LEMMA PeerTypes ==
    ASSUME Basic
    PROVE  /\ peer \in [Sessions -> PeerStates] /\ NoSession \notin Sessions
           /\ \A u \in Sessions : /\ peer[u].by \in Sessions \cup {NoSession}
                                  /\ peer[u].took \in Sessions \cup {NoSession}
                                  /\ peer[u].st \in {"none", "offered", "wired", "up", "closed", "leaked"}
                                  /\ peer[u].by # u
                                  /\ peer[u].st = "none" => Blank(u)
<1>1. peer \in [Sessions -> PeerStates]
  BY DEF Basic, TypeOK
<1>2. NoSession \notin Sessions /\ \A u \in Sessions : u \in Int /\ ~(u < u)
  BY MigrationAssumption DEF Sessions, NoSession
<1> QED BY <1>1, <1>2 DEF Basic, MadeInOrder, BlankUntilMade, PeerStates

(* dc2.OnOpen: only the successor of a handover waits to signal.           *)
LEMMA CleanOnOpen ==
    ASSUME Basic, CleanOK, NEW s \in Sessions, OnOpen(s)
    PROVE  CleanOK'
<1>1. /\ \A u \in Sessions : u # s => peer'[u] = peer[u]
      /\ peer'[s].st = peer[s].st /\ peer'[s].by = peer[s].by /\ peer'[s].known = peer[s].known
      /\ peer'[s].cb = peer[s].cb /\ peer'[s].timer = peer[s].timer /\ peer'[s].took = peer[s].took
      /\ peer'[s].onOpen = (IF transfer THEN "sending" ELSE "done")
      /\ peer[s].onOpen = "no" /\ peer[s].st \in {"wired", "up"} /\ UNCHANGED <<chan, transfer>>
  BY PeerTypes DEF OnOpen, Joined, PeerStates
<1>2. \A u \in Sessions : /\ peer'[u].st = peer[u].st /\ peer'[u].by = peer[u].by /\ peer'[u].known = peer[u].known
                          /\ peer'[u].cb = peer[u].cb /\ peer'[u].timer = peer[u].timer /\ peer'[u].took = peer[u].took
  BY <1>1
<1>3. TimersFollowPeers' /\ DialedHasCallback' /\ SignalledByOwn'
  BY <1>2, PeerTypes DEF CleanOK, TimersFollowPeers, DialedHasCallback, SignalledByOwn
<1>4. ~transfer => Rest'
  BY <1>1, <1>2, PeerTypes DEF CleanOK, Rest, Live, CallbackTrails, HandedOver, Dialed
<1>5. ASSUME NEW h \in Sessions, Handover(h), transfer PROVE Handover(h)'
  BY <1>1, <1>2, <1>5, PeerTypes DEF Handover, Initiator, Successor, Bystander, Live, CallbackTrails, HandedOver, Dialed
<1> QED BY <1>1, <1>3, <1>4, <1>5 DEF CleanOK

(* DirectConnect sets the answer of its peer.                              *)
LEMMA CleanSetRemote ==
    ASSUME Basic, CleanOK, NEW s \in Sessions, SetRemoteDescription(s)
    PROVE  CleanOK'
<1>1. /\ \A u \in Sessions : u # s => peer'[u] = peer[u]
      /\ peer'[s].st = ("wired") /\ peer'[s].by = peer[s].by
      /\ peer'[s].known = peer[s].known /\ peer'[s].cb = peer[s].cb
      /\ peer'[s].onOpen = peer[s].onOpen /\ peer'[s].timer = peer[s].timer
      /\ peer'[s].took = peer[s].took /\ peer[s].st = "offered"
  BY PeerTypes DEF SetRemoteDescription, PeerStates
<1>2. UNCHANGED <<chan, transfer>>
  BY DEF SetRemoteDescription
<1>3. TimersFollowPeers' /\ DialedHasCallback' /\ SignalledByOwn'
  BY <1>1, PeerTypes DEF CleanOK, TimersFollowPeers, DialedHasCallback, SignalledByOwn, Running
<1>4. ~transfer => Rest'
  BY <1>1, <1>2, PeerTypes DEF CleanOK, TimersFollowPeers, Rest, Live, CallbackTrails, HandedOver, Dialed, Running
<1>5. ASSUME NEW h \in Sessions, Handover(h), transfer PROVE Handover(h)'
  BY <1>1, <1>2, <1>5, PeerTypes DEF Handover, Initiator, Successor, Bystander, Live, CallbackTrails, HandedOver, Dialed, Running, CleanOK, TimersFollowPeers
<1> QED BY <1>2, <1>3, <1>4, <1>5 DEF CleanOK

(* connect returns a peer, with its timer.                                 *)
LEMMA CleanConnected ==
    ASSUME Basic, CleanOK, NEW s \in Sessions, Connected(s)
    PROVE  CleanOK'
<1>1. /\ \A u \in Sessions : u # s => peer'[u] = peer[u]
      /\ peer'[s].st = ("up") /\ peer'[s].by = peer[s].by
      /\ peer'[s].known = peer[s].known /\ peer'[s].cb = peer[s].cb
      /\ peer'[s].onOpen = peer[s].onOpen /\ peer'[s].timer = ("idle")
      /\ peer'[s].took = peer[s].took /\ peer[s].st = "wired"
      /\ peer[s].by = NoSession
  BY PeerTypes DEF Connected, PeerStates
<1>2. UNCHANGED <<chan, transfer>>
  BY DEF Connected
<1>3. TimersFollowPeers' /\ DialedHasCallback' /\ SignalledByOwn'
  BY <1>1, PeerTypes DEF CleanOK, TimersFollowPeers, DialedHasCallback, SignalledByOwn, Running
<1>4. ~transfer => Rest'
  BY <1>1, <1>2, PeerTypes DEF CleanOK, TimersFollowPeers, Rest, Live, CallbackTrails, HandedOver, Dialed, Running
<1>5. ASSUME NEW h \in Sessions, Handover(h), transfer PROVE Handover(h)'
  BY <1>1, <1>2, <1>5, PeerTypes DEF Handover, Initiator, Successor, Bystander, Live, CallbackTrails, HandedOver, Dialed, Running, CleanOK, TimersFollowPeers
<1> QED BY <1>2, <1>3, <1>4, <1>5 DEF CleanOK

(* connect gives up, and no handover is in progress.                       *)
LEMMA CleanTimesOut ==
    ASSUME Basic, CleanOK, clean, clean', NEW s \in Sessions, ConnectTimesOut(s)
    PROVE  CleanOK'
<1>1. /\ \A u \in Sessions : u # s => peer'[u] = peer[u]
      /\ peer'[s].st = ("closed") /\ peer'[s].by = peer[s].by
      /\ peer'[s].known = peer[s].known /\ peer'[s].cb = peer[s].cb
      /\ peer'[s].onOpen = peer[s].onOpen /\ peer'[s].timer = peer[s].timer
      /\ peer'[s].took = peer[s].took /\ peer[s].st = "wired"
      /\ peer[s].by = NoSession
  BY PeerTypes DEF ConnectTimesOut, PeerStates
<1>2. ~transfer /\ UNCHANGED transfer
  BY DEF ConnectTimesOut
<1>3. TimersFollowPeers' /\ DialedHasCallback' /\ SignalledByOwn'
  BY <1>1, PeerTypes DEF CleanOK, TimersFollowPeers, DialedHasCallback, SignalledByOwn, Running
<1>4. ~transfer => Rest'
  BY <1>1, <1>2, PeerTypes DEF CleanOK, TimersFollowPeers, Rest, Live, CallbackTrails, HandedOver, Dialed, Running
<1> QED BY <1>2, <1>3, <1>4 DEF CleanOK

(* Close after the connection went down: no party of a handover.           *)
LEMMA CleanOnClose ==
    ASSUME Basic, CleanOK, NEW s \in Sessions, OnClose(s)
    PROVE  CleanOK'
<1>1. /\ \A u \in Sessions : u # s => peer'[u] = peer[u]
      /\ peer'[s].st = ("closed") /\ peer'[s].by = peer[s].by
      /\ peer'[s].known = peer[s].known /\ peer'[s].cb = peer[s].cb
      /\ peer'[s].onOpen = peer[s].onOpen
      /\ peer'[s].timer = (IF peer[s].timer \in Running THEN "stopped" ELSE peer[s].timer)
      /\ peer'[s].took = peer[s].took /\ peer[s].st = "up" /\ chan[s].down
  BY PeerTypes DEF OnClose, Shut, PeerStates
<1>2. UNCHANGED <<chan, transfer>>
  BY DEF OnClose, Shut
<1>3. TimersFollowPeers' /\ DialedHasCallback' /\ SignalledByOwn'
  BY <1>1, PeerTypes DEF CleanOK, TimersFollowPeers, DialedHasCallback, SignalledByOwn, Running
<1>4. ~transfer => Rest'
  BY <1>1, <1>2, PeerTypes DEF CleanOK, TimersFollowPeers, Rest, Live, CallbackTrails, HandedOver, Dialed, Running
<1>5. ASSUME NEW h \in Sessions, Handover(h), transfer PROVE Handover(h)'
  BY <1>1, <1>2, <1>5, PeerTypes DEF Handover, Initiator, Successor, Bystander, Live, CallbackTrails, HandedOver, Dialed, Running, CleanOK, TimersFollowPeers
<1> QED BY <1>2, <1>3, <1>4, <1>5 DEF CleanOK

(* A peer is collected while no callback is in progress: it is the only    *)
(* live one.                                                               *)
LEMMA CleanConnect ==
    ASSUME Basic, CleanOK, clean, clean', NEW s \in Sessions, NEW p \in Proxies, Connect(s, p)
    PROVE  CleanOK'
<1>0. ~transfer /\ UNCHANGED transfer /\ \A t \in Sessions : peer[t].cb = "idle"
  BY DEF Connect
<1>1. /\ \A u \in Sessions : u # s => peer'[u] = peer[u]
      /\ peer'[s].st = "wired" /\ peer'[s].by = peer[s].by /\ peer'[s].known = peer[s].known
      /\ peer'[s].cb = peer[s].cb /\ peer'[s].onOpen = peer[s].onOpen
      /\ peer'[s].timer = peer[s].timer /\ peer'[s].took = peer[s].took
      /\ peer[s].st = "none"
  <2>1. peer[s].st = "none" /\ peer' = [peer EXCEPT ![s].st = "wired"]
    BY DEF Connect, Fresh
  <2> QED BY <2>1, PeerTypes DEF PeerStates
<1>2. \A t \in Sessions : peer[t].st # "up" /\ ~(peer[t].st = "wired" /\ peer[t].by = NoSession)
  BY DEF Connect
<1>3. TimersFollowPeers' /\ DialedHasCallback' /\ SignalledByOwn'
  BY <1>1, PeerTypes DEF Blank, CleanOK, TimersFollowPeers, DialedHasCallback, SignalledByOwn, Running
<1>4. Rest'
  <2>1. \A t \in Sessions : ~(peer[t].st \in {"offered", "wired"} /\ peer[t].by # NoSession)
    BY <1>0, PeerTypes DEF CleanOK, DialedHasCallback
  <2>2. \A t \in Sessions : t # s => ~Live(t)'
    BY <1>1, <1>2, <2>1 DEF Live, CleanOK, DialedHasCallback
  <2>3. \A t \in Sessions : peer'[t].timer # "waiting" /\ peer'[t].onOpen # "sending" /\ peer'[t].cb = "idle"
    BY <1>0, <1>1 DEF CleanOK, Rest
  <2>4. HandedOver(NoSession)'
    BY <1>0, <1>1, PeerTypes DEF CleanOK, Rest, HandedOver
  <2> QED BY <2>2, <2>3, <2>4 DEF Rest
<1> QED BY <1>0, <1>3, <1>4 DEF CleanOK

(* The timer closes its peer: the handover, if any, is over.               *)
LEMMA CleanTimerCloses ==
    ASSUME Basic, CleanOK, NEW s \in Sessions, TimerCloses(s)
    PROVE  CleanOK'
<1>1. /\ \A u \in Sessions : u # s => peer'[u] = peer[u]
      /\ peer'[s].st = ("closed") /\ peer'[s].by = peer[s].by
      /\ peer'[s].known = peer[s].known /\ peer'[s].cb = peer[s].cb
      /\ peer'[s].onOpen = peer[s].onOpen /\ peer'[s].timer = ("done")
      /\ peer'[s].took = peer[s].took /\ peer[s].timer = "closing"
  BY PeerTypes DEF TimerCloses, PeerStates
<1>2. UNCHANGED transfer
  BY DEF TimerCloses
<1>3. TimersFollowPeers' /\ DialedHasCallback' /\ SignalledByOwn'
  BY <1>1, PeerTypes DEF CleanOK, TimersFollowPeers, DialedHasCallback, SignalledByOwn, Running
<1>4. ~transfer => Rest'
  BY <1>1, <1>2, PeerTypes DEF CleanOK, TimersFollowPeers, Rest, Live, CallbackTrails, HandedOver, Dialed, Running
<1>5. ASSUME NEW h \in Sessions, Handover(h), transfer PROVE FALSE
  BY <1>1, <1>5, PeerTypes DEF Handover, Initiator, Successor, Bystander, Live, CallbackTrails, HandedOver, Dialed, CleanOK, TimersFollowPeers
<1> QED BY <1>2, <1>3, <1>4, <1>5 DEF CleanOK

(* A timer that runs out in a handover is that of its initiator: nothing   *)
(* makes the successor's run out before the initiator has been closed.     *)
LEMMA CleanTimerFires ==
    ASSUME Basic, CleanOK, NEW s \in Sessions, ProbeTimerFires(s)
    PROVE  CleanOK'
<1>1. /\ \A u \in Sessions : u # s => peer'[u] = peer[u]
      /\ peer'[s].st = peer[s].st /\ peer'[s].by = peer[s].by
      /\ peer'[s].known = peer[s].known /\ peer'[s].cb = peer[s].cb
      /\ peer'[s].onOpen = peer[s].onOpen
      /\ peer'[s].timer = (IF transfer THEN "waiting" ELSE "woken")
      /\ peer'[s].took = peer[s].took /\ peer[s].timer \in Running
      /\ (peer[s].timer = "idle" => LongAfter(s))
  BY PeerTypes DEF ProbeTimerFires, Running, PeerStates
<1>2. UNCHANGED <<chan, transfer>>
  BY DEF ProbeTimerFires, Running
<1>3. TimersFollowPeers' /\ DialedHasCallback' /\ SignalledByOwn'
  BY <1>1, PeerTypes DEF CleanOK, TimersFollowPeers, DialedHasCallback, SignalledByOwn, Running
<1>4. ~transfer => Rest'
  BY <1>1, <1>2, PeerTypes DEF CleanOK, TimersFollowPeers, Rest, Live, CallbackTrails, HandedOver, Dialed, Running
<1>5. ASSUME NEW h \in Sessions, Handover(h), transfer PROVE Handover(h)'
  <2>1. peer[s].st = "up"
    BY <1>1, PeerTypes DEF CleanOK, TimersFollowPeers, Running, Blank
  <2>2. ASSUME s # h PROVE FALSE
    <3>1. peer[s].by = h /\ Successor(h, s) /\ Initiator(h)
      BY <1>1, <1>5, <2>1, <2>2 DEF Handover, Bystander
    <3>2. LongAfter(s) /\ peer[s].onOpen # "no"
      BY <1>1, <2>1, <3>1 DEF Successor, LongAfter, Joined
    <3>3. h < s
      BY <3>1 DEF Basic, MadeInOrder
    <3>4. peer[h].timer \notin Running \cup {"woken"} /\ peer[h].st # "wired"
      BY <3>2, <3>3 DEF LongAfter
    <3>5. peer[h].timer = "waiting"
      BY <3>1, <3>4 DEF Initiator, Running, CleanOK, TimersFollowPeers
    <3>6. peer[s].onOpen = "sending"
      BY <3>1, <3>2, <3>5, PeerTypes DEF Successor, PeerStates
    <3> QED BY <3>2, <3>5, <3>6 DEF LongAfter
  <2> QED BY <1>1, <1>2, <1>5, <2>1, <2>2, PeerTypes DEF Handover, Initiator, Successor, Bystander, Live, CallbackTrails, HandedOver, Dialed, Running
<1> QED BY <1>2, <1>3, <1>4, <1>5 DEF CleanOK

(* transfer = false: the initiator was signalled, so its successor is open. *)
LEMMA CleanTimerClears ==
    ASSUME Basic, CleanOK, NEW s \in Sessions, TimerClearsTransfer(s)
    PROVE  CleanOK'
<1>1. /\ \A u \in Sessions : u # s => peer'[u] = peer[u]
      /\ peer'[s].st = peer[s].st /\ peer'[s].by = peer[s].by
      /\ peer'[s].known = peer[s].known /\ peer'[s].cb = peer[s].cb
      /\ peer'[s].onOpen = peer[s].onOpen /\ peer'[s].timer = ("closing")
      /\ peer'[s].took = peer[s].took /\ peer[s].timer = "woken"
  BY PeerTypes DEF TimerClearsTransfer, PeerStates
<1>2. transfer' = FALSE
  BY DEF TimerClearsTransfer
<1>3. TimersFollowPeers' /\ DialedHasCallback' /\ SignalledByOwn'
  BY <1>1, PeerTypes DEF CleanOK, TimersFollowPeers, DialedHasCallback, SignalledByOwn, Running
<1>4. CASE ~transfer
  <2>1. Rest'
    BY <1>1, <1>4, PeerTypes DEF CleanOK, Rest, Live, CallbackTrails, HandedOver, Dialed
  <2> QED BY <1>2, <1>3, <2>1 DEF CleanOK
<1>5. ASSUME NEW h \in Sessions, Handover(h), transfer PROVE Rest'
  <2>1. s = h
    BY <1>1, <1>5, PeerTypes DEF Handover, Initiator, Successor, Bystander, Live, CallbackTrails, HandedOver, Dialed, CleanOK, TimersFollowPeers
  <2>2. PICK t \in Sessions : t # h /\ peer[t].by = h
    BY <1>1, <1>5, <2>1 DEF Handover, Initiator
  <2>3. Successor(h, t) /\ \A u \in Sessions : u # h /\ u # t => Bystander(h, u)
    BY <1>5, <2>2 DEF Handover, Successor
  <2>4. \A u \in Sessions : peer'[u].timer # "waiting" /\ peer'[u].onOpen # "sending"
    <3>1. peer'[h].timer # "waiting" /\ peer'[h].onOpen # "sending"
      BY <1>1, <1>5, <2>1 DEF Handover, Initiator
    <3>2. peer[t].timer # "waiting" /\ peer[t].onOpen # "sending"
      BY <1>1, <2>1, <2>3 DEF Successor, Live, CleanOK, TimersFollowPeers
    <3>3. \A u \in Sessions : u # h /\ u # t => peer[u].timer # "waiting" /\ peer[u].onOpen # "sending"
      BY <2>3 DEF Bystander
    <3> QED BY <1>1, <2>1, <2>2, <3>1, <3>2, <3>3
  <2>5. \A u \in Sessions : Live(u)' => u = h \/ u = t
    BY <1>1, <2>1, <2>3 DEF Live, Bystander
  <2>6. peer'[h].timer = "closing" /\ peer'[t].by = h
    BY <1>1, <2>1, <2>2
  <2>7. ASSUME NEW u \in Sessions, peer'[u].cb # "idle" PROVE CallbackTrails(u)'
    <3>1. CASE u = h
      BY <1>1, <2>1, <2>2, <2>3, <2>7, <3>1 DEF CallbackTrails, Dialed, Successor, Live
    <3>2. CASE u # h
      BY <1>1, <2>1, <2>3, <2>7, <3>2 DEF CallbackTrails, Dialed, Successor, Bystander
    <3> QED BY <3>1, <3>2
  <2>8. HandedOver(NoSession)'
    BY <1>1, <1>5, <2>1, PeerTypes DEF Handover, HandedOver
  <2> QED BY <2>4, <2>5, <2>6, <2>7, <2>8 DEF Rest
<1>6. CASE transfer
  BY <1>2, <1>3, <1>5, <1>6 DEF CleanOK
<1> QED BY <1>4, <1>6

(* The rendezvous on connected is between the initiator and its successor. *)
LEMMA CleanSignal ==
    ASSUME Basic, CleanOK, NEW s \in Sessions, NEW t \in Sessions, Signal(t, s)
    PROVE  CleanOK'
<1>0. peer[t].onOpen = "sending" /\ peer[s].timer = "waiting" /\ UNCHANGED <<chan, transfer>>
  BY DEF Signal
<1>1. PICK h \in Sessions : transfer /\ Handover(h)
  BY <1>0 DEF CleanOK, Rest
<1>2. s = h
  BY <1>0, <1>1, PeerTypes DEF Handover, Initiator, Successor, Bystander, Live, CallbackTrails, HandedOver, Dialed, CleanOK, TimersFollowPeers
<1>3. t # h /\ peer[t].by = h
  BY <1>0, <1>1 DEF Handover, Initiator, Bystander
<1>4. /\ \A u \in Sessions : u # s /\ u # t => peer'[u] = peer[u]
      /\ peer'[s].st = peer[s].st /\ peer'[s].by = peer[s].by
      /\ peer'[s].known = peer[s].known /\ peer'[s].cb = peer[s].cb
      /\ peer'[s].onOpen = peer[s].onOpen /\ peer'[s].timer = ("woken")
      /\ peer'[s].took = (t) /\ peer'[t].st = peer[t].st /\ peer'[t].by = peer[t].by
      /\ peer'[t].known = peer[t].known /\ peer'[t].cb = peer[t].cb
      /\ peer'[t].onOpen = ("done") /\ peer'[t].timer = peer[t].timer
      /\ peer'[t].took = peer[t].took
  <2>1. peer' = [peer EXCEPT ![t].onOpen = "done", ![s].timer = "woken", ![s].took = t]
    BY <1>2, <1>3 DEF Signal
  <2> QED BY <1>2, <1>3, <2>1, PeerTypes DEF PeerStates
<1>5. \A u \in Sessions : /\ peer'[u].st = peer[u].st /\ peer'[u].by = peer[u].by /\ peer'[u].cb = peer[u].cb
                          /\ peer'[u].known = peer[u].known
  BY <1>4
<1>6. peer[s].st = "up" /\ Successor(h, t)
  BY <1>0, <1>1, <1>2, <1>3, PeerTypes DEF Handover, Initiator, CleanOK, TimersFollowPeers
<1>7. TimersFollowPeers' /\ DialedHasCallback'
  BY <1>4, <1>5, <1>6, PeerTypes DEF CleanOK, TimersFollowPeers, DialedHasCallback, Running
<1>8. SignalledByOwn'
  BY <1>2, <1>3, <1>4, <1>5, <1>6, PeerTypes DEF CleanOK, SignalledByOwn, Successor, Live
<1>9. Initiator(h)'
  BY <1>0, <1>1, <1>2, <1>3, <1>4, <1>5 DEF Handover, Initiator
<1>10. Successor(h, t)'
  BY <1>0, <1>2, <1>3, <1>4, <1>5, <1>6 DEF Successor, Live
<1>11. \A u \in Sessions : u # h /\ u # t => peer[u].by # h /\ Bystander(h, u)
  BY <1>1, <1>3, <1>6 DEF Handover, Successor
<1>12. ASSUME NEW u \in Sessions, u # h, u # t PROVE Bystander(h, u)'
  BY <1>2, <1>4, <1>5, <1>11, <1>12 DEF Bystander, CallbackTrails, Dialed
<1>13. HandedOver(h)'
  BY <1>1, <1>2, <1>3, <1>4, <1>5, <1>6, PeerTypes DEF Handover, HandedOver, Successor, Live, CleanOK, TimersFollowPeers
<1>14. Handover(h)'
  BY <1>3, <1>5, <1>9, <1>10, <1>11, <1>12, <1>13 DEF Handover
<1> QED BY <1>0, <1>1, <1>7, <1>8, <1>14 DEF CleanOK

(* dc2.OnMessage starts a handover: every other peer is dead by then.      *)
LEMMA CleanStarts ==
    ASSUME Basic, CleanOK, clean, clean', NEW s \in Sessions, MessageStartsTransfer(s)
    PROVE  CleanOK'
<1> DEFINE m == Head(chan[s].msgs)
<1>0. /\ Settled /\ ~transfer /\ transfer' = TRUE /\ peer[s].cb = "idle"
      /\ peer[s].st \in {"wired", "up"} /\ ~chan[s].down /\ peer[s].onOpen = "done"
  BY DEF MessageStartsTransfer, Settled, Joined
<1>a. Head(chan[s].msgs).tv \in {"now", "later"}
  <2>1. chan[s].msgs # <<>>
    BY DEF MessageStartsTransfer
  <2>2. Head(chan[s].msgs) \in Messages
    BY <2>1, TailOK
  <2> QED BY <2>2 DEF Messages
<1>1. /\ \A u \in Sessions : u # s => peer'[u] = peer[u]
      /\ peer'[s].st = peer[s].st /\ peer'[s].by = peer[s].by
      /\ peer'[s].known = (m.ip) /\ peer'[s].cb = (m.tv)
      /\ peer'[s].onOpen = peer[s].onOpen /\ peer'[s].timer = peer[s].timer
      /\ peer'[s].took = peer[s].took
  BY PeerTypes DEF MessageStartsTransfer, PeerStates
<1>2. \A u \in Sessions : chan'[u].down = chan[u].down
  <2>1. chan \in [Sessions -> ChanStates] /\ chan' = [chan EXCEPT ![s].msgs = Tail(@)]
    BY DEF MessageStartsTransfer, Basic, TypeOK
  <2>2. chan' = [chan EXCEPT ![s] = [chan[s] EXCEPT !.msgs = Tail(chan[s].msgs)]]
    BY <2>1
  <2>3. [chan[s] EXCEPT !.msgs = Tail(chan[s].msgs)].down = chan[s].down
    BY TailOK DEF MessageStartsTransfer
  <2> HIDE <2>1
  <2>4. chan \in [Sessions -> ChanStates]
    BY <2>1
  <2> QED BY <2>2, <2>3, <2>4
<1> HIDE DEF m
<1>3. TimersFollowPeers' /\ SignalledByOwn'
  BY <1>1, PeerTypes DEF CleanOK, TimersFollowPeers, SignalledByOwn
<1>4. DialedHasCallback'
  BY <1>0, <1>1, <1>a, PeerTypes DEF CleanOK, DialedHasCallback, m
<1>5. ASSUME NEW u \in Sessions, u # s
      PROVE  ~Live(u) /\ peer[u].timer \in {"none", "stopped", "done"} /\ peer[u].onOpen # "sending"
  <2>1. peer[u].timer \notin {"waiting", "woken", "closing"} /\ peer[s].timer # "closing"
    BY <1>0, <1>5 DEF Settled
  <2>2. ~Live(u)
    BY <1>0, <1>5, <2>1 DEF CleanOK, Rest, Live
  <2>3. peer[u].timer \notin Running
    BY <2>2, PeerTypes DEF CleanOK, TimersFollowPeers, Live, Running, Blank
  <2>4. peer[u].timer \in Timers
    BY PeerTypes DEF PeerStates
  <2> QED BY <1>0, <1>5, <2>1, <2>2, <2>3, <2>4 DEF CleanOK, Rest, Running, Timers
<1>6. ASSUME NEW u \in Sessions, u # s
      PROVE  peer[u].by # s /\ Bystander(s, u)'
  <2>1. peer[u].by # s
    <3>1. peer[s].timer \notin {"closing", "done"}
      BY <1>0 DEF Settled, CleanOK, TimersFollowPeers
    <3> QED BY <1>0, <3>1, PeerTypes DEF CleanOK, Rest, HandedOver
  <2> QED BY <1>0, <1>1, <1>5, <1>6, <2>1, PeerTypes DEF Bystander, CleanOK, Rest, CallbackTrails, HandedOver, Dialed, TimersFollowPeers, Live
<1>7. Initiator(s)'
  BY <1>0, <1>1, <1>2, PeerTypes DEF Initiator, Settled, CleanOK, TimersFollowPeers, PeerStates, Timers
<1>8. HandedOver(s)'
  BY <1>0, <1>1, PeerTypes DEF CleanOK, Rest, HandedOver
<1> QED BY <1>0, <1>1, <1>3, <1>4, <1>6, <1>7, <1>8 DEF CleanOK, Handover

(* A message that only sets the timer: in a handover, that of the          *)
(* initiator, since the successor has been told of no proxy.               *)
LEMMA CleanSetsTimer ==
    ASSUME Basic, CleanOK, NEW s \in Sessions, MessageSetsTimer(s)
    PROVE  CleanOK'
<1> DEFINE m == Head(chan[s].msgs)
<1>0. peer[s].st \in {"wired", "up"} /\ m.ip \in {NoProxy, peer[s].known} /\ UNCHANGED transfer
      /\ chan[s].msgs # <<>>
  BY DEF MessageSetsTimer, Joined
<1>1. m.tv \in {"now", "later"} /\ (m.tv = "now" => m.ip # NoProxy)
  <2>1. m \in Messages /\ (m.tv = "now" => m.ip # NoProxy)
    BY <1>0, TailOK
  <2> QED BY <2>1 DEF Messages
<1>2. \A u \in Sessions : chan'[u].down = chan[u].down
  <2>1. chan' = [chan EXCEPT ![s] = [chan[s] EXCEPT !.msgs = Tail(chan[s].msgs)]]
    BY DEF MessageSetsTimer, Basic, TypeOK
  <2>2. [chan[s] EXCEPT !.msgs = Tail(chan[s].msgs)].down = chan[s].down
    BY <1>0, TailOK
  <2>3. chan \in [Sessions -> ChanStates]
    BY DEF Basic, TypeOK
  <2> QED BY <2>1, <2>2, <2>3
<1>3. /\ \A u \in Sessions : u # s => peer'[u] = peer[u]
      /\ peer'[s].st = peer[s].st /\ peer'[s].by = peer[s].by
      /\ peer'[s].known = peer[s].known /\ peer'[s].cb = peer[s].cb
      /\ peer'[s].onOpen = peer[s].onOpen
      /\ peer'[s].timer = (Rearmed(peer[s].timer, m.tv))
      /\ peer'[s].took = peer[s].took
  BY PeerTypes DEF MessageSetsTimer, PeerStates
<1> HIDE DEF m
<1>4. peer[s].timer # "stopped"
  BY <1>0 DEF CleanOK, TimersFollowPeers
<1>5. peer'[s].timer = peer[s].timer \/
        (peer[s].timer \in Running /\ peer'[s].timer \in {"now", "armed"} /\ (transfer => m.tv = "now"))
  BY <1>1, <1>3, <1>4 DEF Rearmed
<1>6. peer'[s].timer # peer[s].timer => peer[s].st = "up"
  BY <1>0, <1>5 DEF CleanOK, TimersFollowPeers, Running
<1>7. TimersFollowPeers' /\ DialedHasCallback' /\ SignalledByOwn'
  BY <1>3, <1>5, <1>6, PeerTypes DEF CleanOK, TimersFollowPeers, DialedHasCallback, SignalledByOwn, Running
<1>8. ~transfer => Rest'
  BY <1>0, <1>3, <1>5, <1>6, PeerTypes DEF CleanOK, Rest, Live, CallbackTrails, HandedOver, Dialed, Running
<1>9. ASSUME NEW h \in Sessions, Handover(h), transfer PROVE Handover(h)'
  <2>1. ASSUME s # h PROVE peer'[s].timer = peer[s].timer
    <3>1. peer[s].by = h /\ Successor(h, s)
      BY <1>0, <1>9, <2>1 DEF Handover, Bystander
    <3>2. m.tv # "now"
      BY <1>0, <1>1, <3>1 DEF Successor, m
    <3> QED BY <1>5, <1>9, <3>2
  <2> QED BY <1>2, <1>3, <1>5, <1>9, <2>1, PeerTypes DEF Handover, Initiator, Successor, Bystander, Live, CallbackTrails, HandedOver, Dialed, Running
<1> QED BY <1>0, <1>7, <1>8, <1>9 DEF CleanOK

(* DirectConnect posts its offer: the initiator's first and only one.      *)
LEMMA CleanPosts ==
    ASSUME Basic, CleanOK, NEW s \in Sessions, NEW t \in Sessions, DirectConnectPosts(s, t)
    PROVE  CleanOK'
<1>0. /\ peer[s].cb # "idle" /\ peer[t].st = "none" /\ Blank(t) /\ s # t /\ UNCHANGED transfer
      /\ \A u \in Sessions : ~Dialed(s, u)
  BY PeerTypes DEF DirectConnectPosts, Fresh, Blank
<1>1. /\ \A u \in Sessions : u # t => peer'[u] = peer[u]
      /\ peer'[t].st = ("offered") /\ peer'[t].by = (s)
      /\ peer'[t].known = peer[t].known /\ peer'[t].cb = peer[t].cb
      /\ peer'[t].onOpen = peer[t].onOpen /\ peer'[t].timer = peer[t].timer
      /\ peer'[t].took = peer[t].took
  BY PeerTypes DEF DirectConnectPosts, PeerStates
<1>2. \A u \in Sessions : chan'[u].down = chan[u].down
  <2>1. chan' = [chan EXCEPT ![t] = [chan[t] EXCEPT !.to = peer[s].known]] /\ chan \in [Sessions -> ChanStates]
    BY DEF DirectConnectPosts, Basic, TypeOK
  <2>2. chan[t] = [to |-> chan[t].to, down |-> chan[t].down, ctl |-> chan[t].ctl, msgs |-> chan[t].msgs]
    BY <2>1, ChanFields
  <2>3. [chan[t] EXCEPT !.to = peer[s].known].down = chan[t].down
    BY <2>2
  <2> QED BY <2>1, <2>3
<1>3. PICK h \in Sessions : transfer /\ Handover(h)
  BY <1>0 DEF CleanOK, Rest, CallbackTrails
<1>4. s = h
  BY <1>0, <1>3 DEF Handover, Successor, Bystander, CallbackTrails
<1>5. \A u \in Sessions : u # h => peer[u].by # h
  <2> SUFFICES ASSUME NEW u \in Sessions, u # h, peer[u].by = h PROVE FALSE
    OBVIOUS
  <2>1. Successor(h, u)
    BY <1>3 DEF Handover
  <2> QED BY <1>0, <1>4, <2>1 DEF Successor, Live, Dialed
<1>6. TimersFollowPeers' /\ DialedHasCallback' /\ SignalledByOwn'
  BY <1>0, <1>1, PeerTypes DEF CleanOK, TimersFollowPeers, DialedHasCallback, SignalledByOwn, Blank, Running
<1>7. Initiator(h)' /\ HandedOver(h)' /\ peer[h].timer # "woken"
  BY <1>0, <1>1, <1>2, <1>3, <1>4, <1>5, PeerTypes DEF Handover, Initiator, HandedOver, Blank
<1>8. Successor(h, t)'
  BY <1>0, <1>1, <1>2, <1>4, <1>5, <1>7, PeerTypes DEF Successor, Live, Blank
<1>9. ASSUME NEW u \in Sessions, u # h, u # t PROVE Bystander(h, u)'
  <2>1. Bystander(h, u)
    BY <1>3, <1>5, <1>9 DEF Handover
  <2> QED BY <1>0, <1>1, <1>9, <2>1 DEF Bystander, CallbackTrails, Dialed
<1> QED BY <1>0, <1>1, <1>3, <1>4, <1>5, <1>6, <1>7, <1>8, <1>9 DEF CleanOK, Handover

(* DirectConnect returns, in the handover of its initiator or after it.    *)
LEMMA CleanReturns ==
    ASSUME Basic, CleanOK, NEW s \in Sessions, NEW t \in Sessions, DirectConnectReturns(s, t)
    PROVE  CleanOK'
<1>0. /\ peer[s].cb # "idle" /\ peer[t].st = "wired" /\ peer[t].by = s /\ s # t
      /\ UNCHANGED <<chan, transfer>>
  BY PeerTypes DEF DirectConnectReturns, Dialed
<1>1. /\ \A u \in Sessions : u # s /\ u # t => peer'[u] = peer[u]
      /\ peer'[s].st = peer[s].st /\ peer'[s].by = peer[s].by
      /\ peer'[s].known = peer[s].known /\ peer'[s].cb = ("idle")
      /\ peer'[s].onOpen = peer[s].onOpen
      /\ peer'[s].timer = (Rearmed(peer[s].timer, peer[s].cb))
      /\ peer'[s].took = peer[s].took /\ peer'[t].st = ("up")
      /\ peer'[t].by = peer[t].by /\ peer'[t].known = peer[t].known
      /\ peer'[t].cb = peer[t].cb /\ peer'[t].onOpen = peer[t].onOpen
      /\ peer'[t].timer = ("idle") /\ peer'[t].took = peer[t].took
  BY <1>0, PeerTypes DEF DirectConnectReturns, PeerStates
<1>2. \A u \in Sessions : u # t => ~Dialed(s, u)
  <2>1. ASSUME NEW u \in Sessions, u # t, Dialed(s, u) PROVE FALSE
    <3>1. Live(u) /\ Live(t) /\ peer[u].by = s /\ peer[u].timer = "none" /\ peer[t].timer = "none"
      BY <1>0, <2>1 DEF Live, Dialed, CleanOK, TimersFollowPeers
    <3>2. CASE ~transfer
      BY <1>0, <2>1, <3>1, <3>2 DEF CleanOK, Rest
    <3>3. CASE transfer
      <4>1. PICK h \in Sessions : Handover(h)
        BY <3>3 DEF CleanOK
      <4>2. s = h
        BY <1>0, <2>1, <3>1, <4>1 DEF Handover, Bystander, Live
      <4> QED BY <1>0, <2>1, <3>1, <4>1, <4>2, PeerTypes DEF Handover, Successor
    <3> QED BY <3>2, <3>3
  <2> QED BY <2>1
<1>3. peer[t].timer = "none"
  BY <1>0 DEF CleanOK, TimersFollowPeers
<1>4. DialedHasCallback' /\ SignalledByOwn'
  BY <1>0, <1>1, <1>2, PeerTypes DEF CleanOK, DialedHasCallback, SignalledByOwn, Dialed
<1>5. CASE ~transfer
  <2>1. peer[s].timer \in {"closing", "done"} /\ peer'[s].timer = peer[s].timer
    BY <1>0, <1>1, <1>5 DEF CleanOK, Rest, CallbackTrails, Rearmed, Running
  <2>2. TimersFollowPeers'
    BY <1>0, <1>1, <2>1 DEF CleanOK, TimersFollowPeers, Running
  <2>3. Rest'
    BY <1>0, <1>1, <1>3, <1>5, <2>1, PeerTypes DEF CleanOK, Rest, Live, CallbackTrails, HandedOver, Dialed
  <2> QED BY <1>0, <1>4, <1>5, <2>2, <2>3 DEF CleanOK
<1>6. CASE transfer
  <2>1. PICK h \in Sessions : Handover(h)
    BY <1>6 DEF CleanOK
  <2>2. CASE s = h
    <3>1. peer[s].timer # "stopped" /\ (peer'[s].timer = peer[s].timer \/
             (peer[s].timer \in Running /\ peer'[s].timer \in {"now", "armed"}))
      BY <1>1, <2>1, <2>2 DEF Handover, Initiator, Rearmed
    <3>2. TimersFollowPeers'
      BY <1>0, <1>1, <3>1 DEF CleanOK, TimersFollowPeers, Running
    <3>3. Handover(h)'
      BY <1>0, <1>1, <1>3, <2>1, <2>2, <3>1, PeerTypes DEF Handover, Initiator, Successor, Bystander, Live, CallbackTrails, HandedOver, Dialed, Running
    <3> QED BY <1>0, <1>4, <1>6, <3>2, <3>3 DEF CleanOK
  <2>3. CASE s # h
    <3>1. t = h /\ peer[s].timer = "done" /\ peer'[s].timer = peer[s].timer
      BY <1>0, <1>1, <2>1, <2>3 DEF Handover, Successor, Bystander, CallbackTrails, Rearmed, Running
    <3>2. TimersFollowPeers'
      BY <1>0, <1>1, <3>1 DEF CleanOK, TimersFollowPeers, Running
    <3>3. Handover(h)'
      BY <1>0, <1>1, <1>3, <2>1, <3>1, PeerTypes DEF Handover, Initiator, Successor, Bystander, Live, CallbackTrails, HandedOver, Dialed, Running
    <3> QED BY <1>0, <1>4, <1>6, <3>2, <3>3 DEF CleanOK
  <2> QED BY <2>2, <2>3
<1> QED BY <1>5, <1>6

-----------------------------------------------------------------------------
(* Initially there are no peers, so nothing is handed over.                *)
LEMMA CleanInit == Init => CleanOK
<1> SUFFICES ASSUME Init PROVE CleanOK
  OBVIOUS
<1>1. \A s \in Sessions : /\ peer[s].st = "none" /\ peer[s].by = NoSession /\ peer[s].cb = "idle"
                          /\ peer[s].onOpen = "no" /\ peer[s].timer = "none" /\ peer[s].took = NoSession
  BY DEF Init
<1>2. TimersFollowPeers /\ DialedHasCallback /\ SignalledByOwn
  BY <1>1 DEF TimersFollowPeers, DialedHasCallback, SignalledByOwn, Running
<1>3. Rest
  BY <1>1 DEF Rest, Live, HandedOver
<1>4. transfer = FALSE
  BY DEF Init
<1> QED BY <1>2, <1>3, <1>4 DEF CleanOK

(* The steps of the proxies, the failing links and dying proxies included: *)
(* a run that stays clean loses no link during a handover.                 *)
LEMMA CleanProxySteps ==
    ASSUME Basic, clean => CleanOK, clean', ProxyStep
    PROVE  CleanOK'
<1>0. chan \in [Sessions -> ChanStates]
  BY DEF Basic, TypeOK
<1>1. ASSUME NEW s \in Sessions, OnControlChannel(s) \/ ControlOpens(s) \/ ControlCloses(s)
      PROVE  CleanOK'
  <2>1. UNCHANGED <<peer, transfer, clean>>
    BY <1>1 DEF OnControlChannel, ControlOpens, ControlCloses
  <2>2. PICK x \in {"announced", "probing", "gone"} : chan' = [chan EXCEPT ![s].ctl = x]
    BY <1>1 DEF OnControlChannel, ControlOpens, ControlCloses
  <2>3. [chan[s] EXCEPT !.ctl = x].down = chan[s].down
    <3>1. chan[s] = [to |-> chan[s].to, down |-> chan[s].down, ctl |-> chan[s].ctl, msgs |-> chan[s].msgs]
      BY <1>0, ChanFields
    <3> QED BY <3>1
  <2>4. \A u \in Sessions : chan'[u].down = chan[u].down
    BY <1>0, <2>2, <2>3
  <2> QED BY <2>1, <2>4, CleanProxyStep
<1>2. ASSUME NEW s \in Sessions, NEW m, chan' = [chan EXCEPT ![s].msgs = Append(@, m)],
             UNCHANGED <<peer, transfer, clean>>
      PROVE  CleanOK'
  <2> DEFINE q == Append(chan[s].msgs, m)
  <2>1. chan' = [chan EXCEPT ![s] = [chan[s] EXCEPT !.msgs = q]]
    BY <1>0, <1>2
  <2> HIDE DEF q
  <2>2. chan[s] = [to |-> chan[s].to, down |-> chan[s].down, ctl |-> chan[s].ctl, msgs |-> chan[s].msgs]
    BY <1>0, ChanFields
  <2>3. [chan[s] EXCEPT !.msgs = q].down = chan[s].down
    BY <2>2
  <2>4. \A u \in Sessions : chan'[u].down = chan[u].down
    BY <1>0, <2>1, <2>3
  <2> QED BY <1>2, <2>4, CleanProxyStep
<1>3. ASSUME NEW s \in Sessions, Probe(s)
      PROVE  CleanOK'
  BY <1>2, <1>3 DEF Probe
<1>4. ASSUME NEW p \in Proxies, NEW q \in Proxies, NEW now \in TransferNow, TransferHandler(p, q, now)
      PROVE  CleanOK'
  <2>1. UNCHANGED <<peer, transfer, clean>> /\ client2Dc[p] \in Sessions \cup {NoSession}
    BY <1>4 DEF TransferHandler, Basic, TypeOK
  <2>2. CASE UNCHANGED chan
    BY <2>1, <2>2, CleanProxyStep
  <2>3. CASE /\ client2Dc[p] # NoSession
             /\ chan' = [chan EXCEPT ![client2Dc[p]].msgs = Append(@, [tv |-> "now", ip |-> q])]
    BY <1>2, <2>1, <2>3
  <2> QED BY <1>4, <2>2, <2>3 DEF TransferHandler
<1>5. ASSUME NEW s \in Sessions, LinkFails(s)
      PROVE  CleanOK'
  <2>1. UNCHANGED <<peer, transfer>> /\ clean /\ ~transfer
    BY <1>5 DEF LinkFails
  <2> QED BY <2>1, CleanProxyStep
<1>6. ASSUME NEW p \in Proxies, ProxyDies(p)
      PROVE  CleanOK'
  <2>1. UNCHANGED <<peer, transfer>> /\ clean /\ ~transfer
    BY <1>6 DEF ProxyDies
  <2> QED BY <2>1, CleanProxyStep
<1> QED BY <1>1, <1>3, <1>4, <1>5, <1>6 DEF ProxyStep

(* The steps of the client.                                                *)
LEMMA CleanClientSteps ==
    ASSUME Basic, clean => CleanOK, clean', ClientStep
    PROVE  CleanOK'
<1>1. CASE Signals
  <2>1. PICK s, t \in Sessions : Signal(t, s)
    BY <1>1 DEF Signals
  <2>2. clean
    BY <2>1 DEF Signal
  <2> QED BY <2>1, <2>2, CleanSignal
<1>2. ASSUME NEW s \in Sessions, NEW p \in Proxies, Connect(s, p)
      PROVE  CleanOK'
  <2>1. clean
    BY <1>2 DEF Connect
  <2> QED BY <1>2, <2>1, CleanConnect
<1>3. ASSUME NEW s \in Sessions, SetRemoteDescription(s) \/ Connected(s) \/ OnOpen(s) \/ OnClose(s)
      PROVE  CleanOK'
  <2>1. clean
    BY <1>3 DEF SetRemoteDescription, Connected, OnOpen, OnClose
  <2> QED BY <1>3, <2>1, CleanSetRemote, CleanConnected, CleanOnOpen, CleanOnClose
<1>4. ASSUME NEW s \in Sessions, ConnectTimesOut(s)
      PROVE  CleanOK'
  <2>1. clean
    BY <1>4 DEF ConnectTimesOut
  <2> QED BY <1>4, <2>1, CleanTimesOut
<1>5. ASSUME NEW s \in Sessions, TimerSteps(s)
      PROVE  CleanOK'
  <2>1. clean
    BY <1>5 DEF TimerSteps, ProbeTimerFires, TimerClearsTransfer, TimerCloses
  <2> QED BY <1>5, <2>1, CleanTimerFires, CleanTimerClears, CleanTimerCloses DEF TimerSteps
<1>6. ASSUME NEW s \in Sessions, Handles(s)
      PROVE  CleanOK'
  <2>1. ~DirectConnectFails(s)
    BY DEF DirectConnectFails
  <2>2. CASE MessageStartsTransfer(s)
    <3>1. clean
      BY <2>2 DEF MessageStartsTransfer
    <3> QED BY <2>2, <3>1, CleanStarts
  <2>3. CASE MessageSetsTimer(s)
    <3>1. clean
      BY <2>3 DEF MessageSetsTimer
    <3> QED BY <2>3, <3>1, CleanSetsTimer
  <2>4. ASSUME NEW t \in Sessions, DirectConnectPosts(s, t) \/ DirectConnectReturns(s, t)
        PROVE  CleanOK'
    <3>1. clean
      BY <2>4 DEF DirectConnectPosts, DirectConnectReturns
    <3> QED BY <2>4, <3>1, CleanPosts, CleanReturns
  <2> QED BY <1>6, <2>1, <2>2, <2>3, <2>4 DEF Handles
<1> QED BY <1>1, <1>2, <1>3, <1>4, <1>5, <1>6 DEF ClientStep

(* The inductive invariant holds in every reachable state.                 *)
THEOREM IInvHolds == Spec => []IInv
<1>1. Init => IInv
  BY BasicInit, CleanInit DEF IInv
<1>2. IInv /\ [Next]_vars => IInv'
  <2> SUFFICES ASSUME IInv, [Next]_vars PROVE IInv'
    OBVIOUS
  <2>1. Basic'
    BY BasicNext DEF IInv
  <2>2. CASE Next
    <3>1. Basic /\ (clean => CleanOK)
      BY DEF IInv
    <3>2. clean' => CleanOK'
      BY <2>2, <3>1, CleanClientSteps, CleanProxySteps DEF Next
    <3> QED BY <2>1, <3>2 DEF IInv
  <2>3. CASE UNCHANGED vars
    <3>1. UNCHANGED <<peer, chan, transfer, clean>>
      BY <2>3 DEF vars
    <3>2. clean' => CleanOK'
      BY <3>1, CleanProxyStep DEF IInv
    <3> QED BY <2>1, <3>2 DEF IInv
  <2> QED BY <2>2, <2>3
<1> QED BY <1>1, <1>2, PTL DEF Spec

(* For every set of proxies and any number of sessions, orders, queued     *)
(* messages and faults: the maps of the proxies name only channels whose   *)
(* OnClose has not run, so transferHandler never sends its order into a    *)
(* control channel known to be closed.                                     *)
THEOREM OrdersArriveHolds == Spec => []OrdersArrive
<1>1. IInv => OrdersArrive
  BY DEF IInv, Basic, OrdersArrive
<1> QED BY <1>1, IInvHolds, PTL

(* For every set of proxies and any number of sessions, orders, queued     *)
(* messages and faults: a goroutine that waits on connected is woken only  *)
(* by the control channel of the peer its own OnMessage dialed, as long as *)
(* no handover met another one, an error or a dying session.               *)
THEOREM MakeBeforeBreakHolds == Spec => []MakeBeforeBreak
<1>1. IInv => MakeBeforeBreak
  BY DEF IInv, CleanOK, SignalledByOwn, MakeBeforeBreak
<1> QED BY <1>1, IInvHolds, PTL
-----------------------------------------------------------------------------
(***************************************************************************)
(* The NAT probe.  A client behind an address-dependent NAT takes itself    *)
(* for unrestricted only when the answer of its second test is a copy of    *)
(* the first one's: until the second request is sent nothing that travels   *)
(* or is offered answers it (OneTestAtATime).                               *)
(***************************************************************************)
Datagrams == Answer \cup {Request(1), Request(2)}
ProbeType ==
    /\ mapping \in {"independent", "dependent"} /\ servers \in Nat
    /\ natType \in NATTypes /\ strayed \in BOOLEAN /\ dups \in 0..MaxDup
    /\ probe \in [pc : {"next", "test1", "test2", "done"}, server : 0..servers, seen : 0..2]
    /\ net \subseteq Datagrams /\ offered \subseteq Answer
    /\ listener \in [1..Addresses -> {"none", "reading", "offering", "ended"}]

OpenSocket ==
    /\ open \subseteq {probe.server}
    /\ probe.pc \in {"next", "done"} => open = {}

OneTestAtATime ==
    /\ probe.pc = "test1" => \A a \in net \cup offered : a.test = 1
    /\ probe.pc = "test2" => probe.seen = 1

NATKnown ==
    /\ probe.pc # "done" => natType = "unknown" /\ strayed = FALSE
    /\ natType = "unrestricted" => mapping = "independent" \/ strayed = TRUE

ProbeInv == ProbeType /\ OpenSocket /\ OneTestAtATime /\ NATKnown

(* Of every number of addresses a number is used.                           *)
LEMMA ServersCount == parseIceServers \subseteq Nat
<1>1. ASSUME NEW n \in 0..Addresses PROVE n \in Nat /\ (n + 1) \div 2 \in Nat
  BY NATProbeConstants
<1> QED BY <1>1 DEF parseIceServers

(* What the tests send and what answers them.                               *)
LEMMA RequestIs == /\ Request(1) \in Datagrams /\ Request(2) \in Datagrams
                   /\ Request(1).test = 1 /\ Request(2).test = 2
BY DEF Request, Datagrams

LEMMA AnswerIs ==
    ASSUME NEW t \in {1, 2}, NEW r \in BOOLEAN
    PROVE  /\ [to |-> "client", test |-> t, copy |-> 1, readable |-> r] \in Answer
           /\ [to |-> "client", test |-> t, copy |-> 1, readable |-> r].test = t
BY DEF Answer

LEMMA CopyIs ==
    ASSUME NEW a \in Answer
    PROVE  [a EXCEPT !.copy = 2] \in Answer /\ [a EXCEPT !.copy = 2].test = a.test
BY DEF Answer

(* A client starts without a socket.                                        *)
LEMMA NATInitEstablishes == NATInit => ProbeInv
<1> SUFFICES ASSUME NATInit PROVE ProbeInv
  OBVIOUS
<1>1. servers \in Nat
  BY ServersCount DEF NATInit
<1>2. probe = [pc |-> "next", server |-> 0, seen |-> 0]
  BY DEF NATInit
<1>3. probe \in [pc : {"next", "test1", "test2", "done"}, server : 0..servers, seen : 0..2]
  BY <1>1, <1>2
<1>4. dups \in 0..MaxDup
  BY NATProbeConstants DEF NATInit
<1>5. listener \in [1..Addresses -> {"none", "reading", "offering", "ended"}]
  BY DEF NATInit
<1>6. ProbeType
  BY <1>1, <1>3, <1>4, <1>5 DEF NATInit, ProbeType, NATTypes
<1>7. OpenSocket /\ OneTestAtATime /\ NATKnown
  BY <1>2 DEF NATInit, OpenSocket, OneTestAtATime, NATKnown
<1> QED BY <1>6, <1>7 DEF ProbeInv

(* The probe goes on to another server or ends.                             *)
LEMMA ProbeMoves ==
    ASSUME ProbeInv, connect \/ connectFails \/ RoundTripFails \/ updateNATTypeFails
    PROVE  ProbeInv'
<1>1. CASE connect
  <2>1. /\ probe' = [pc |-> "test1", server |-> probe.server + 1, seen |-> 0]
        /\ open' = {probe.server + 1} /\ net' = {Request(1)} /\ offered' = {}
        /\ probe.pc = "next" /\ probe.server + 1 <= servers
        /\ UNCHANGED <<mapping, servers, natType, dups, strayed>>
    BY <1>1 DEF connect
  <2>2. probe.server \in 0..servers /\ servers \in Nat
    BY DEF ProbeInv, ProbeType
  <2>3. probe' \in [pc : {"next", "test1", "test2", "done"}, server : 0..servers, seen : 0..2]
    BY <2>1, <2>2
  <2>4. listener' \in [1..Addresses -> {"none", "reading", "offering", "ended"}]
    BY <1>1 DEF connect, ProbeInv, ProbeType
  <2>5. ProbeType'
    BY <2>1, <2>3, <2>4, RequestIs DEF ProbeInv, ProbeType
  <2>6. OpenSocket' /\ OneTestAtATime' /\ NATKnown'
    BY <2>1, RequestIs DEF ProbeInv, OpenSocket, OneTestAtATime, NATKnown
  <2> QED BY <2>5, <2>6 DEF ProbeInv
<1>2. CASE connectFails
  <2>1. probe' \in [pc : {"next", "test1", "test2", "done"}, server : 0..servers, seen : 0..2]
    BY <1>2 DEF connectFails, ProbeInv, ProbeType
  <2>2. ProbeType'
    BY <1>2, <2>1 DEF connectFails, ProbeInv, ProbeType
  <2>3. probe'.pc = "next"
    BY <1>2 DEF connectFails, ProbeInv, ProbeType
  <2>4. OpenSocket' /\ OneTestAtATime' /\ NATKnown'
    BY <1>2, <2>3 DEF connectFails, ProbeInv, OpenSocket, OneTestAtATime, NATKnown
  <2> QED BY <2>2, <2>4 DEF ProbeInv
<1>3. CASE RoundTripFails
  <2>1. /\ probe' \in [pc : {"next", "test1", "test2", "done"}, server : 0..servers, seen : 0..2]
        /\ probe'.pc = "next" /\ probe.pc # "done"
    BY <1>3 DEF RoundTripFails, ProbeInv, ProbeType
  <2>2. ProbeType'
    BY <1>3, <2>1 DEF RoundTripFails, Close, ProbeInv, ProbeType
  <2>3. OpenSocket' /\ OneTestAtATime' /\ NATKnown'
    BY <1>3, <2>1 DEF RoundTripFails, Close, ProbeInv, OpenSocket, OneTestAtATime, NATKnown
  <2> QED BY <2>2, <2>3 DEF ProbeInv
<1>4. CASE updateNATTypeFails
  <2>1. /\ probe' \in [pc : {"next", "test1", "test2", "done"}, server : 0..servers, seen : 0..2]
        /\ probe'.pc = "done" /\ probe.pc = "next"
    BY <1>4 DEF updateNATTypeFails, ProbeInv, ProbeType
  <2>2. ProbeType'
    BY <1>4, <2>1 DEF updateNATTypeFails, ProbeInv, ProbeType, NATTypes
  <2>3. OpenSocket' /\ OneTestAtATime' /\ NATKnown'
    <3>1. open = {} /\ UNCHANGED open
      BY <1>4, <2>1 DEF updateNATTypeFails, ProbeInv, OpenSocket
    <3> QED BY <1>4, <2>1, <3>1 DEF updateNATTypeFails, OpenSocket, OneTestAtATime, NATKnown
  <2> QED BY <2>2, <2>3 DEF ProbeInv
<1> QED BY <1>1, <1>2, <1>3, <1>4

(* A round trip takes an answer.                                            *)
LEMMA TestKeeps ==
    ASSUME ProbeInv, NEW a \in Answer, Test1(a) \/ NotSupported(a) \/ Test2(a)
    PROVE  ProbeInv'
<1>1. a.test \in {1, 2}
  BY DEF Answer
<1>2. listener' \in [1..Addresses -> {"none", "reading", "offering", "ended"}]
  BY DEF ProbeInv, ProbeType, Test1, NotSupported, Test2, Takes
<1>3. CASE Test1(a)
  <2>1. /\ probe.pc = "test1" /\ a \in offered /\ offered' = {} /\ net' = net \cup {Request(2)}
        /\ UNCHANGED <<mapping, servers, natType, open, dups, strayed>>
        /\ probe' = [probe EXCEPT !.pc = "test2", !.seen = Mapped(a.test)]
    BY <1>3 DEF Test1, Takes, Waits
  <2>2. probe' = [probe EXCEPT !.pc = "test2", !.seen = 1]
    <3>1. Mapped(a.test) = 1
      BY <1>1, <2>1 DEF ProbeInv, OneTestAtATime, Mapped
    <3> QED BY <2>1, <3>1
  <2>3. /\ probe' \in [pc : {"next", "test1", "test2", "done"}, server : 0..servers, seen : 0..2]
        /\ probe'.pc = "test2" /\ probe'.seen = 1 /\ probe'.server = probe.server
    <3>1. probe \in [pc : {"next", "test1", "test2", "done"}, server : 0..servers, seen : 0..2]
      BY DEF ProbeInv, ProbeType
    <3>2. probe' = [pc |-> "test2", server |-> probe.server, seen |-> 1]
      BY <2>2, <3>1
    <3>3. 1 \in 0..2 /\ probe.server \in 0..servers
      BY <3>1
    <3> QED BY <3>2, <3>3
  <2>4. ProbeType'
    BY <1>2, <2>1, <2>3, RequestIs DEF ProbeInv, ProbeType
  <2>5. OpenSocket' /\ OneTestAtATime' /\ NATKnown'
    BY <2>1, <2>3 DEF ProbeInv, OpenSocket, OneTestAtATime, NATKnown
  <2> QED BY <2>4, <2>5 DEF ProbeInv
<1>4. CASE NotSupported(a)
  <2>1. /\ probe.pc = "test1" /\ offered' = {} /\ net' = {} /\ open' = {}
        /\ UNCHANGED <<mapping, servers, natType, dups, strayed>>
        /\ probe' = [probe EXCEPT !.pc = "next"]
    BY <1>4 DEF NotSupported, Takes, Waits, Close
  <2>2. /\ probe' \in [pc : {"next", "test1", "test2", "done"}, server : 0..servers, seen : 0..2]
        /\ probe'.pc = "next"
    <3>1. probe \in [pc : {"next", "test1", "test2", "done"}, server : 0..servers, seen : 0..2]
      BY DEF ProbeInv, ProbeType
    <3> QED BY <2>1, <3>1
  <2>3. ProbeType'
    BY <1>2, <2>1, <2>2 DEF ProbeInv, ProbeType
  <2>4. OpenSocket' /\ OneTestAtATime' /\ NATKnown'
    BY <2>1, <2>2 DEF ProbeInv, OpenSocket, OneTestAtATime, NATKnown
  <2> QED BY <2>3, <2>4 DEF ProbeInv
<1>5. CASE Test2(a)
  <2>1. /\ probe.pc = "test2" /\ offered' = {} /\ net' = {} /\ open' = {}
        /\ UNCHANGED <<mapping, servers, dups>>
        /\ probe' = [probe EXCEPT !.pc = "done"]
        /\ strayed' = (a.test = 1)
        /\ natType' = IF probe.seen # Mapped(a.test) THEN "restricted" ELSE "unrestricted"
    BY <1>5 DEF Test2, Takes, Waits, Close
  <2>2. /\ probe' \in [pc : {"next", "test1", "test2", "done"}, server : 0..servers, seen : 0..2]
        /\ probe'.pc = "done"
    BY <2>1 DEF ProbeInv, ProbeType
  <2>3. strayed' \in BOOLEAN /\ natType' \in NATTypes
    BY <2>1 DEF NATTypes
  <2>4. ProbeType'
    BY <1>2, <2>1, <2>2, <2>3 DEF ProbeInv, ProbeType
  <2>5. probe.seen = 1
    BY <2>1 DEF ProbeInv, OneTestAtATime
  <2>6. a.test # 1 /\ mapping = "dependent" => natType' = "restricted"
    BY <1>1, <2>1, <2>5 DEF Mapped
  <2>7. natType' = "unrestricted" => mapping' = "independent" \/ strayed' = TRUE
    BY <2>1, <2>6 DEF ProbeInv, ProbeType
  <2>8. OpenSocket' /\ OneTestAtATime' /\ NATKnown'
    BY <2>1, <2>2, <2>7 DEF OpenSocket, OneTestAtATime, NATKnown
  <2> QED BY <2>4, <2>8 DEF ProbeInv
<1> QED BY <1>3, <1>4, <1>5

(* What the network and the listener do brings no answer of its own.        *)
LEMMA NetworkKeepsProbe ==
    ASSUME ProbeInv,
           \/ \E a \in Answer : Duplicate(a)
           \/ \E s \in 1..Addresses : listenEnds(s) \/ \E a \in Answer : listenReads(s, a)
           \/ \E t \in {1, 2}, r \in BOOLEAN : ServerAnswers(t, r)
    PROVE  ProbeInv'
<1>1. UNCHANGED <<mapping, servers, natType, probe, open, strayed>>
  BY DEF Duplicate, listenEnds, listenReads, ServerAnswers
<1>2. OpenSocket' /\ NATKnown'
  BY <1>1 DEF ProbeInv, OpenSocket, NATKnown
<1>3. ASSUME net' \subseteq Datagrams, offered' \subseteq Answer, dups' \in 0..MaxDup,
             listener' \in [1..Addresses -> {"none", "reading", "offering", "ended"}],
             \A a \in net' \cup offered' : \E b \in net \cup offered : a.test = b.test
      PROVE  ProbeInv'
  <2>1. ProbeType'
    BY <1>1, <1>3 DEF ProbeInv, ProbeType
  <2>2. OneTestAtATime'
    BY <1>1, <1>3 DEF ProbeInv, OneTestAtATime
  <2> QED BY <1>2, <2>1, <2>2 DEF ProbeInv
<1>4. ASSUME NEW a \in Answer, Duplicate(a) PROVE ProbeInv'
  <2>1. net' = net \cup {[a EXCEPT !.copy = 2]} /\ a \in net /\ UNCHANGED <<offered, listener>>
    BY <1>4 DEF Duplicate
  <2>2. dups' \in 0..MaxDup
    BY <1>4, NATProbeConstants DEF Duplicate, ProbeInv, ProbeType
  <2>3. net' \subseteq Datagrams
    BY <2>1, CopyIs DEF ProbeInv, ProbeType, Datagrams
  <2>4. \A d \in net' \cup offered' : \E b \in net \cup offered : d.test = b.test
    <3> DEFINE e == [a EXCEPT !.copy = 2]
    <3>1. e.test = a.test
      BY CopyIs
    <3>2. net' = net \cup {e}
      BY <2>1
    <3> HIDE DEF e
    <3> QED BY <2>1, <3>1, <3>2
  <2>5. offered' \subseteq Answer /\ listener' \in [1..Addresses -> {"none", "reading", "offering", "ended"}]
    BY <2>1 DEF ProbeInv, ProbeType
  <2> QED BY <1>3, <2>2, <2>3, <2>4, <2>5
<1>5. ASSUME NEW s \in 1..Addresses, listenEnds(s) PROVE ProbeInv'
  <2>1. listener' \in [1..Addresses -> {"none", "reading", "offering", "ended"}]
    BY <1>5 DEF listenEnds, ProbeInv, ProbeType
  <2> QED BY <1>3, <1>5, <2>1 DEF listenEnds, ProbeInv, ProbeType
<1>6. ASSUME NEW s \in 1..Addresses, NEW a \in Answer, listenReads(s, a) PROVE ProbeInv'
  <2>1. listener' \in [1..Addresses -> {"none", "reading", "offering", "ended"}]
    BY <1>6 DEF listenReads, ProbeInv, ProbeType
  <2>2. net' \subseteq net /\ offered' \subseteq offered \cup {a} /\ a \in net /\ UNCHANGED dups
    BY <1>6 DEF listenReads
  <2> QED BY <1>3, <2>1, <2>2 DEF ProbeInv, ProbeType
<1>7. ASSUME NEW t \in {1, 2}, NEW r \in BOOLEAN, ServerAnswers(t, r) PROVE ProbeInv'
  <2> DEFINE answer == [to |-> "client", test |-> t, copy |-> 1, readable |-> r]
  <2>1. /\ Request(t) \in net /\ net' = (net \ {Request(t)}) \cup {answer}
        /\ UNCHANGED <<offered, listener, dups>>
    BY <1>7 DEF ServerAnswers
  <2>2. answer \in Answer /\ answer.test = t /\ Request(t).test = t
    BY AnswerIs, RequestIs
  <2> HIDE DEF answer
  <2>3. net' \subseteq Datagrams
    BY <2>1, <2>2 DEF ProbeInv, ProbeType, Datagrams
  <2> QED BY <1>3, <2>1, <2>2, <2>3 DEF ProbeInv, ProbeType
<1> QED BY <1>4, <1>5, <1>6, <1>7

(* Every step of the probe keeps its invariant.                             *)
LEMMA NATNextKeeps == ProbeInv /\ (NATNext \/ UNCHANGED probeVars) => ProbeInv'
<1>1. ASSUME ProbeInv, UNCHANGED probeVars PROVE ProbeInv'
  BY <1>1 DEF ProbeInv, ProbeType, OpenSocket, OneTestAtATime, NATKnown, probeVars
<1>2. ASSUME ProbeInv, NATNext PROVE ProbeInv'
  BY <1>2, ProbeMoves, TestKeeps, NetworkKeepsProbe DEF NATNext
<1> QED BY <1>1, <1>2

-----------------------------------------------------------------------------
(***************************************************************************)
(* The negotiations.  Whatever a message says of the NAT the probe found    *)
(* (OffersTrue); the counters add up because only the holder of the lock    *)
(* has read the count and not yet written it (LockHeld, ReadStands), and a  *)
(* call is denied once (DenialsBounded).                                    *)
(***************************************************************************)
HandlerStates == {"none", "sent", "posting", "denied", "counting", "answer", "error", "done"}
Offers == [candidates : BOOLEAN, nat : NATTypes \cup {"missing"}, fingerprint : Fingerprints]
Pools == {{}, {"restricted"}, {"unrestricted"}}
Handlers == [pc : HandlerStates, message : Offers, pool : Pools, read : Nat]
Counters == [all : Nat, restricted : Nat, unrestricted : Nat]

ClientType == config \in Config /\ call \in [n : 0..MaxCalls, pc : {"idle", "waiting", "answered", "failed"}]
BrokerType == pools \subseteq {"restricted", "unrestricted"} /\ handler \in [Calls -> Handlers]
MetricsType ==
    /\ denied \in Counters /\ lock \in 0..MaxCalls /\ printed \in Nat /\ actual \in Nat /\ raced \in BOOLEAN
    /\ logger \in [pc : {"waits", "zeroes"}, rounds : 0..MaxPrints, last : Nat]

\* The message of a handler, and the heap it was matched from, follow from the NAT that was found.
OffersTrue == \A n \in Calls :
    /\ handler[n].message.nat = "unrestricted" => natType = "unrestricted"
    /\ "restricted" \in handler[n].pool => natType = "unrestricted"

CallsAhead == \A n \in Calls : n > call.n => handler[n].pc = "none"

LockHeld == \A n \in Calls : lock = n <=> handler[n].pc = "counting"
ReadStands == raced = FALSE => \A n \in Calls : handler[n].pc = "counting" => handler[n].read = denied.all

\* Calls that may still be denied.
Open == {n \in Calls : handler[n].pc \in {"none", "sent", "denied", "counting"}}
DenialsBounded ==
    /\ denied.all + Cardinality(Open) <= MaxCalls
    /\ denied.restricted + Cardinality(Open) <= MaxCalls
    /\ denied.unrestricted + Cardinality(Open) <= MaxCalls
    /\ \A n \in Calls : handler[n].read + Cardinality(Open) <= MaxCalls

PrintedAddsUp ==
    raced = FALSE =>
        /\ denied.all = denied.restricted + denied.unrestricted
        /\ logger.pc = "waits" => printed + denied.all = actual
        /\ logger.pc = "zeroes" => printed + denied.all = actual + logger.last

RdvInv ==
    /\ ProbeInv /\ ClientType /\ BrokerType /\ MetricsType /\ OffersTrue /\ CallsAhead
    /\ LockHeld /\ ReadStands /\ DenialsBounded /\ PrintedAddsUp

(* A part of a finite set has at most as many members, and one that lacks a *)
(* member fewer.                                                            *)
LEMMA FewerMembers ==
    ASSUME NEW S, IsFiniteSet(S), NEW T \in SUBSET S
    PROVE  /\ Cardinality(S) \in Nat /\ Cardinality(T) \in Nat /\ Cardinality(T) <= Cardinality(S)
           /\ \A x \in S \ T : Cardinality(T) + 1 <= Cardinality(S)
<1>1. /\ Cardinality(S) \in Nat /\ IsFiniteSet(T) /\ Cardinality(T) \in Nat /\ Cardinality(T) <= Cardinality(S)
      /\ Cardinality(S) = Cardinality(T) => S = T
  BY FS_Subset, FS_CardinalityType
<1>2. ASSUME NEW x \in S \ T PROVE Cardinality(T) + 1 <= Cardinality(S)
  <2>1. Cardinality(S) # Cardinality(T)
    BY <1>1
  <2> QED BY <1>1, <2>1
<1> QED BY <1>1, <1>2

(* The calls that may still be denied are counted.                          *)
LEMMA OpenIsFinite ==
    ASSUME NEW H
    PROVE  /\ IsFiniteSet({n \in Calls : H[n].pc \in {"none", "sent", "denied", "counting"}})
           /\ Cardinality({n \in Calls : H[n].pc \in {"none", "sent", "denied", "counting"}}) \in 0..MaxCalls
<1>1. IsFiniteSet(Calls) /\ Cardinality(Calls) = MaxCalls
  <2>1. MaxCalls \in Nat
    BY RendezvousConstants
  <2>2. IsFiniteSet(1..MaxCalls) /\ Cardinality(1..MaxCalls) = IF 1 > MaxCalls THEN 0 ELSE MaxCalls - 1 + 1
    BY <2>1, FS_Interval
  <2> QED BY <2>1, <2>2 DEF Calls
<1>2. {n \in Calls : H[n].pc \in {"none", "sent", "denied", "counting"}} \in SUBSET Calls
  OBVIOUS
<1>3. IsFiniteSet({n \in Calls : H[n].pc \in {"none", "sent", "denied", "counting"}})
  BY <1>1, <1>2, FS_Subset
<1> QED BY <1>1, <1>2, <1>3, FewerMembers, RendezvousConstants

LEMMA OpenCount ==
    /\ IsFiniteSet(Open) /\ Cardinality(Open) \in Nat /\ Cardinality(Open) <= MaxCalls /\ MaxCalls \in Nat
<1>1. IsFiniteSet(Open) /\ Cardinality(Open) \in 0..MaxCalls
  BY OpenIsFinite DEF Open
<1>2. MaxCalls \in Nat
  BY RendezvousConstants
<1> HIDE DEF Open
<1> QED BY <1>1, <1>2

(* The offer a client sends says of its NAT what its probe found, and the   *)
(* heap it is matched from is the one that its NAT is for.                  *)
LEMMA OfferIs ==
    ASSUME NEW candidates \in BOOLEAN, NEW type \in NATTypes \cup {"missing"}, NEW fp \in Fingerprints
    PROVE  /\ EncodeClientPollRequest(candidates, type, fp) \in Offers
           /\ EncodeClientPollRequest(candidates, type, fp).nat = type
BY DEF EncodeClientPollRequest, Offers, Fingerprints

LEMMA MatchIs ==
    ASSUME NEW type \in NATTypes \cup {"missing"}, pools \subseteq {"restricted", "unrestricted"}
    PROVE  /\ Match(DecodeNAT(type)) \in Pools
           /\ "restricted" \in Match(DecodeNAT(type)) => type = "unrestricted"
<1>1. DecodeNAT(type) = "unrestricted" => type = "unrestricted"
  BY DEF DecodeNAT, NATTypes
<1> QED BY <1>1 DEF Match, Pools

LEMMA NoHandlerIs ==
    /\ NoHandler \in Handlers /\ NoHandler.pc = "none" /\ NoHandler.message.nat = "missing"
    /\ NoHandler.pool = {} /\ NoHandler.read = 0
<1>1. EncodeClientPollRequest(FALSE, "missing", "none") \in Offers /\ EncodeClientPollRequest(FALSE, "missing", "none").nat = "missing"
  BY OfferIs DEF Fingerprints
<1>2. NoHandler = [pc |-> "none", message |-> EncodeClientPollRequest(FALSE, "missing", "none"), pool |-> {}, read |-> 0]
  BY DEF NoHandler
<1> HIDE DEF NoHandler
<1> QED BY <1>1, <1>2 DEF Handlers, HandlerStates, Pools

LEMMA HandlerIs ==
    ASSUME NEW h \in Handlers, NEW pc \in HandlerStates
    PROVE  /\ h.pc \in HandlerStates /\ h.message \in Offers /\ h.message.nat \in NATTypes \cup {"missing"}
           /\ h.pool \in Pools /\ h.read \in Nat
           /\ [h EXCEPT !.pc = pc] \in Handlers
           /\ [h EXCEPT !.pc = pc].pc = pc /\ [h EXCEPT !.pc = pc].message = h.message
           /\ [h EXCEPT !.pc = pc].pool = h.pool /\ [h EXCEPT !.pc = pc].read = h.read
BY DEF Handlers, Offers

(* A client starts without a call and the broker without a denial.          *)
LEMMA RdvInitEstablishes == RdvInit => RdvInv
<1> SUFFICES ASSUME RdvInit PROVE RdvInv
  OBVIOUS
<1>1. ProbeInv
  BY NATInitEstablishes DEF RdvInit
<1>2. MaxCalls \in Nat /\ MaxPrints \in Nat /\ Configs \subseteq Config
  BY RendezvousConstants
<1>3. /\ call = [n |-> 0, pc |-> "idle"] /\ config \in Configs /\ pools = {}
      /\ denied = [all |-> 0, restricted |-> 0, unrestricted |-> 0] /\ lock = 0
      /\ logger = [pc |-> "waits", rounds |-> 0, last |-> 0]
      /\ printed = 0 /\ actual = 0 /\ raced = FALSE
  BY DEF RdvInit
<1>4. handler \in [Calls -> Handlers] /\ \A n \in Calls : handler[n] = NoHandler
  BY NoHandlerIs DEF RdvInit
<1>5. ClientType
  BY <1>2, <1>3 DEF ClientType
<1>6. BrokerType
  BY <1>3, <1>4 DEF BrokerType
<1>7. MetricsType
  <2>1. denied \in Counters
    BY <1>3 DEF Counters
  <2>2. logger \in [pc : {"waits", "zeroes"}, rounds : 0..MaxPrints, last : Nat]
    BY <1>2, <1>3
  <2>3. lock \in 0..MaxCalls /\ printed \in Nat /\ actual \in Nat
    BY <1>2, <1>3
  <2>4. raced \in BOOLEAN
    BY <1>3
  <2> QED BY <2>1, <2>2, <2>3, <2>4 DEF MetricsType
<1>8. OffersTrue /\ CallsAhead /\ ReadStands
  BY <1>4, NoHandlerIs DEF OffersTrue, CallsAhead, ReadStands
<1>9. LockHeld
  BY <1>2, <1>3, <1>4, NoHandlerIs DEF LockHeld, Calls
<1>10. DenialsBounded
  <2>1. Cardinality(Open) \in 0..MaxCalls
    BY OpenIsFinite DEF Open
  <2> QED BY <1>2, <1>3, <1>4, <2>1, NoHandlerIs DEF DenialsBounded
<1>11. PrintedAddsUp
  BY <1>3 DEF PrintedAddsUp
<1> QED BY <1>1, <1>5, <1>6, <1>7, <1>8, <1>9, <1>10, <1>11 DEF RdvInv

(* A handler goes on without a word to the counters.                        *)
LEMMA HandlerGoesOn ==
    ASSUME RdvInv, NEW n \in Calls, NEW h \in Handlers, handler' = [handler EXCEPT ![n] = h],
           UNCHANGED <<probeVars, pools, config, denied, logger, printed, actual, raced>>,
           call' \in [n : 0..MaxCalls, pc : {"idle", "waiting", "answered", "failed"}],
           call.n <= call'.n, n <= call'.n,
           h.message.nat = "unrestricted" => natType = "unrestricted",
           "restricted" \in h.pool => natType = "unrestricted",
           lock' \in 0..MaxCalls,
           \/ lock' = lock /\ (h.pc = "counting" <=> handler[n].pc = "counting")
           \/ lock = 0 /\ lock' = n /\ h.pc = "counting",
           h.pc \in {"none", "sent", "denied", "counting"} => handler[n].pc \in {"none", "sent", "denied", "counting"},
           h.read \in {0, handler[n].read, denied.all},
           h.pc = "counting" /\ raced = FALSE => h.read = denied.all
    PROVE  RdvInv'
<1>1. /\ handler' \in [Calls -> Handlers] /\ handler'[n] = h
      /\ \A b \in Calls \ {n} : handler'[b] = handler[b]
  BY DEF RdvInv, BrokerType
<1>2. ProbeInv'
  BY NATNextKeeps DEF RdvInv
<1>3. ClientType' /\ BrokerType' /\ MetricsType'
  BY <1>1 DEF RdvInv, ClientType, BrokerType, MetricsType
<1>4. natType' = natType
  BY DEF probeVars
<1>5. OffersTrue'
  BY <1>1, <1>4 DEF RdvInv, OffersTrue
<1>6. CallsAhead'
  <2>1. call.n \in Nat /\ call'.n \in Nat /\ Calls \subseteq Nat
    BY RendezvousConstants DEF RdvInv, ClientType, Calls
  <2>2. ASSUME NEW b \in Calls, b > call'.n PROVE b # n /\ b > call.n
    BY <2>1, <2>2
  <2> QED BY <1>1, <2>2 DEF RdvInv, CallsAhead
<1>7. LockHeld'
  <2>1. 0 \notin Calls
    BY RendezvousConstants DEF Calls
  <2> QED BY <1>1, <2>1 DEF RdvInv, LockHeld
<1>8. ReadStands'
  BY <1>1 DEF RdvInv, ReadStands
<1>9. PrintedAddsUp'
  BY DEF RdvInv, PrintedAddsUp
<1>10. DenialsBounded'
  <2>1. Open' \in SUBSET Open
    BY <1>1 DEF Open
  <2>2. IsFiniteSet(Open)
    BY OpenIsFinite DEF Open
  <2>3. /\ Cardinality(Open) \in Nat /\ Cardinality(Open') \in Nat /\ MaxCalls \in Nat
        /\ Cardinality(Open') <= Cardinality(Open) /\ Cardinality(Open) <= MaxCalls
    BY <2>1, <2>2, FewerMembers, OpenIsFinite, RendezvousConstants DEF Open
  <2>4. /\ denied.all \in Nat /\ denied.restricted \in Nat /\ denied.unrestricted \in Nat
        /\ UNCHANGED denied
        /\ \A b \in Calls : handler[b].read \in Nat /\ handler'[b].read \in Nat
    BY <1>1 DEF RdvInv, MetricsType, BrokerType, Counters, Handlers
  <2>5. ASSUME NEW b \in Calls PROVE handler'[b].read + Cardinality(Open') <= MaxCalls
    <3>1. handler'[b].read \in {0, handler[b].read, denied.all}
      BY <1>1
    <3>2. handler[b].read + Cardinality(Open) <= MaxCalls /\ denied.all + Cardinality(Open) <= MaxCalls
      BY DEF RdvInv, DenialsBounded
    <3> HIDE DEF Open
    <3> QED BY <2>3, <2>4, <3>1, <3>2
  <2>6. /\ denied'.all + Cardinality(Open') <= MaxCalls
        /\ denied'.restricted + Cardinality(Open') <= MaxCalls
        /\ denied'.unrestricted + Cardinality(Open') <= MaxCalls
    <3>1. /\ denied.all + Cardinality(Open) <= MaxCalls
          /\ denied.restricted + Cardinality(Open) <= MaxCalls
          /\ denied.unrestricted + Cardinality(Open) <= MaxCalls
      BY DEF RdvInv, DenialsBounded
    <3> QED BY <2>3, <2>4, <3>1
  <2> QED BY <2>5, <2>6 DEF DenialsBounded
<1> QED
  BY <1>2, <1>3, <1>5, <1>6, <1>7, <1>8, <1>9, <1>10 DEF RdvInv

(* A handler that is called n belongs to a call that was made.              *)
LEMMA HandlerCalled ==
    ASSUME RdvInv, NEW n \in Calls, handler[n].pc # "none"
    PROVE  n <= call.n
<1>1. n \in Nat /\ call.n \in Nat
  BY RendezvousConstants DEF RdvInv, ClientType, Calls
<1> QED BY <1>1 DEF RdvInv, CallsAhead

(* The client sends an offer, or stops waiting for one.                     *)
LEMMA NegotiateKeeps ==
    ASSUME RdvInv, NEW c \in BOOLEAN, NEW h \in BOOLEAN, Negotiate(c, h)
    PROVE  RdvInv'
<1> DEFINE n == call.n + 1
           nat == IF config.method = "legacy" /\ ~h THEN "missing" ELSE natType
           fp == IF config.method = "legacy" THEN "none" ELSE config.fingerprint
           m == EncodeClientPollRequest(c, nat, fp)
           new == [handler[n] EXCEPT !.pc = "sent", !.message = m]
<1>1. /\ n \in Calls /\ call' = [n |-> n, pc |-> "waiting"]
      /\ handler' = [handler EXCEPT ![n].pc = "sent", ![n].message = m]
      /\ UNCHANGED <<probeVars, metricsVars, config, pools>>
  BY DEF Negotiate
<1>2. nat \in NATTypes \cup {"missing"} /\ (nat = "unrestricted" => natType = "unrestricted")
  BY DEF RdvInv, ProbeInv, ProbeType
<1>3. fp \in Fingerprints
  BY DEF RdvInv, ClientType, Config, Fingerprints
<1>4. m \in Offers /\ m.nat = nat
  BY <1>2, <1>3, OfferIs
<1>5. handler \in [Calls -> Handlers] /\ call.n \in 0..MaxCalls /\ MaxCalls \in Nat
  BY RendezvousConstants DEF RdvInv, BrokerType, ClientType
<1> HIDE DEF m, nat, fp
<1>6. handler[n].pc = "none"
  BY <1>1, <1>5 DEF RdvInv, CallsAhead
<1>7. /\ new \in Handlers /\ new.pc = "sent" /\ new.message = m
      /\ new.pool = handler[n].pool /\ new.read = handler[n].read
  BY <1>1, <1>4, <1>5 DEF Handlers, HandlerStates
<1>8. handler' = [handler EXCEPT ![n] = new]
  BY <1>1, <1>5
<1>9. "restricted" \in new.pool => natType = "unrestricted"
  BY <1>1, <1>7 DEF RdvInv, OffersTrue
<1>10. /\ call' \in [n : 0..MaxCalls, pc : {"idle", "waiting", "answered", "failed"}]
       /\ call'.n = n /\ call.n <= call'.n /\ lock \in 0..MaxCalls
  BY <1>1, <1>5 DEF Calls, RdvInv, MetricsType
<1>11. n <= call'.n
  BY <1>5, <1>10
<1>12. UNCHANGED <<probeVars, pools, config, denied, logger, printed, actual, raced, lock>>
  BY <1>1 DEF metricsVars
<1> HIDE DEF new, n
<1> QED BY <1>1, <1>2, <1>4, <1>6, <1>7, <1>8, <1>9, <1>10, <1>11, <1>12, HandlerGoesOn

(* A handler moves on with its message, and its call possibly ends.         *)
LEMMA HandlerStepKeeps ==
    ASSUME RdvInv, NEW n \in Calls, NEW pc \in HandlerStates \ {"counting"},
           handler' = [handler EXCEPT ![n] = [handler[n] EXCEPT !.pc = pc]],
           handler[n].pc # "counting", handler[n].pc # "none",
           pc \in {"none", "sent", "denied"} => handler[n].pc \in {"none", "sent", "denied"},
           UNCHANGED <<probeVars, pools, config, metricsVars>>,
           call' \in [n : 0..MaxCalls, pc : {"idle", "waiting", "answered", "failed"}], call'.n = call.n
    PROVE  RdvInv'
<1> DEFINE h == [handler[n] EXCEPT !.pc = pc]
<1>1. handler[n] \in Handlers
  BY DEF RdvInv, BrokerType
<1>2. /\ h \in Handlers /\ h.pc = pc /\ h.message = handler[n].message /\ h.pool = handler[n].pool
      /\ h.read = handler[n].read
  BY <1>1, HandlerIs
<1>3. handler' = [handler EXCEPT ![n] = h]
  OBVIOUS
<1>4. n <= call.n /\ call.n <= call.n /\ lock \in 0..MaxCalls
  BY HandlerCalled, RendezvousConstants DEF RdvInv, ClientType, MetricsType
<1>5. /\ handler[n].message.nat = "unrestricted" => natType = "unrestricted"
      /\ "restricted" \in handler[n].pool => natType = "unrestricted"
  BY DEF RdvInv, OffersTrue
<1>6. UNCHANGED <<denied, logger, printed, actual, raced, lock>>
  BY DEF metricsVars
<1> HIDE DEF h
<1> QED BY <1>2, <1>3, <1>4, <1>5, <1>6, HandlerGoesOn

(* A handler that goes on without its message.                              *)
LEMMA HandlerDropsKeeps ==
    ASSUME RdvInv, NEW n \in Calls, NEW h \in Handlers, handler' = [handler EXCEPT ![n] = h],
           h.pc \in {"posting", "answer", "error", "done"}, h.message.nat # "unrestricted",
           "restricted" \in h.pool => natType = "unrestricted", h.read = 0,
           handler[n].pc \notin {"none", "counting"},
           UNCHANGED <<probeVars, pools, clientVars, metricsVars>>
    PROVE  RdvInv'
<1>1. n <= call.n /\ call.n <= call.n /\ lock \in 0..MaxCalls
  BY HandlerCalled, RendezvousConstants DEF RdvInv, ClientType, MetricsType
<1>2. /\ UNCHANGED <<denied, logger, printed, actual, raced, lock, config, call>>
      /\ call \in [n : 0..MaxCalls, pc : {"idle", "waiting", "answered", "failed"}]
  BY DEF metricsVars, clientVars, RdvInv, ClientType
<1> QED BY <1>1, <1>2, HandlerGoesOn

(* A call that ends.                                                        *)
LEMMA ReturnsKeeps ==
    ASSUME RdvInv, NEW outcome \in {"answered", "failed"}, Returns(outcome)
    PROVE  RdvInv'
<1>1. /\ call' = [call EXCEPT !.pc = outcome]
      /\ handler' = [handler EXCEPT ![call.n].pc = IF @ \in {"answer", "error"} THEN "done" ELSE @]
      /\ UNCHANGED <<probeVars, metricsVars, config, pools>>
  BY DEF Returns
<1>2. /\ handler \in [Calls -> Handlers]
      /\ call \in [n : 0..MaxCalls, pc : {"idle", "waiting", "answered", "failed"}]
  BY DEF RdvInv, BrokerType, ClientType
<1>3. call' \in [n : 0..MaxCalls, pc : {"idle", "waiting", "answered", "failed"}] /\ call'.n = call.n
  BY <1>1, <1>2
<1>4. CASE call.n \in Calls /\ handler[call.n].pc \in {"answer", "error"}
  <2>1. handler' = [handler EXCEPT ![call.n] = [handler[call.n] EXCEPT !.pc = "done"]]
    BY <1>1, <1>2, <1>4
  <2> QED BY <1>1, <1>3, <1>4, <2>1, HandlerStepKeeps DEF HandlerStates
<1>5. CASE ~(call.n \in Calls /\ handler[call.n].pc \in {"answer", "error"})
  <2>1. handler' = handler
    BY <1>1, <1>2, <1>5 DEF Handlers
  <2>2. UNCHANGED <<probeVars, pools, denied, lock, logger, printed, actual, raced, natType>>
    BY <1>1 DEF metricsVars, probeVars
  <2>3. ProbeInv' /\ ClientType' /\ BrokerType' /\ MetricsType'
    BY <1>1, <1>3, <2>1, <2>2, NATNextKeeps DEF RdvInv, ClientType, BrokerType, MetricsType
  <2>4. Open' = Open
    BY <2>1 DEF Open
  <2>5. OffersTrue' /\ CallsAhead' /\ LockHeld' /\ ReadStands' /\ DenialsBounded' /\ PrintedAddsUp'
    BY <1>3, <2>1, <2>2, <2>4 DEF RdvInv, OffersTrue, CallsAhead, LockHeld, ReadStands, DenialsBounded, PrintedAddsUp
  <2> QED BY <2>3, <2>5 DEF RdvInv
<1> QED BY <1>4, <1>5

(* A reply, an error or nothing is left of the message.                     *)
LEMMA ReplyIs ==
    ASSUME NEW pc \in HandlerStates
    PROVE  /\ [NoHandler EXCEPT !.pc = pc] \in Handlers /\ [NoHandler EXCEPT !.pc = pc].pc = pc
           /\ [NoHandler EXCEPT !.pc = pc].message.nat = "missing" /\ [NoHandler EXCEPT !.pc = pc].pool = {}
           /\ [NoHandler EXCEPT !.pc = pc].read = 0
BY NoHandlerIs, HandlerIs

LEMMA RepliesKeeps ==
    ASSUME RdvInv, NEW n \in Calls, NEW from \in {"sent", "posting"}, NEW reply \in {"answer", "error"},
           Replies(n, from, reply), UNCHANGED <<probeVars, metricsVars, clientVars, pools>>
    PROVE  RdvInv'
<1> DEFINE pc == IF call = [n |-> n, pc |-> "waiting"] THEN reply ELSE "done"
           h == [NoHandler EXCEPT !.pc = pc]
<1>1. handler[n].pc = from /\ handler' = [handler EXCEPT ![n] = h]
  BY DEF Replies
<1>2. pc \in {"answer", "error", "done"} /\ pc \in HandlerStates
  BY DEF HandlerStates
<1> HIDE DEF pc
<1>3. h \in Handlers /\ h.pc = pc /\ h.message.nat = "missing" /\ h.pool = {} /\ h.read = 0
  BY <1>2, ReplyIs
<1> HIDE DEF h
<1> QED BY <1>1, <1>2, <1>3, HandlerDropsKeeps

(* An offer is denied, or matched from a heap that suits its client.        *)
LEMMA ClientOffersKeeps ==
    ASSUME RdvInv, NEW n \in Calls, ClientOffers(n)
    PROVE  RdvInv'
<1> DEFINE pool == Match(DecodeNAT(handler[n].message.nat))
           h == [NoHandler EXCEPT !.pc = "posting", !.pool = pool]
<1>1. /\ handler[n].pc = "sent" /\ UNCHANGED <<probeVars, metricsVars, clientVars, pools>>
      /\ handler' = [handler EXCEPT ![n] = IF pool = {} THEN [@ EXCEPT !.pc = "denied"] ELSE h]
  BY DEF ClientOffers
<1>2. /\ handler[n] \in Handlers /\ handler[n].message.nat \in NATTypes \cup {"missing"}
      /\ pools \subseteq {"restricted", "unrestricted"} /\ handler \in [Calls -> Handlers]
  BY DEF RdvInv, BrokerType, Handlers, Offers
<1>3. pool \in Pools /\ ("restricted" \in pool => natType = "unrestricted")
  <2>1. "restricted" \in pool => handler[n].message.nat = "unrestricted"
    BY <1>2, MatchIs
  <2>2. handler[n].message.nat = "unrestricted" => natType = "unrestricted"
    BY DEF RdvInv, OffersTrue
  <2> QED BY <1>2, <2>1, <2>2, MatchIs
<1> HIDE DEF pool
<1>4. h \in Handlers /\ h.pc = "posting" /\ h.message.nat = "missing" /\ h.pool = pool /\ h.read = 0
  BY <1>3, NoHandlerIs DEF Handlers, HandlerStates
<1> HIDE DEF h
<1>5. CASE pool = {}
  <2>1. handler' = [handler EXCEPT ![n] = [handler[n] EXCEPT !.pc = "denied"]]
    BY <1>1, <1>2, <1>5
  <2>2. /\ call' \in [n : 0..MaxCalls, pc : {"idle", "waiting", "answered", "failed"}] /\ call'.n = call.n
        /\ UNCHANGED <<probeVars, pools, config, metricsVars>>
    BY <1>1 DEF RdvInv, ClientType, clientVars
  <2> QED BY <1>1, <2>1, <2>2, HandlerStepKeeps DEF HandlerStates
<1>6. CASE pool # {}
  <2>1. handler' = [handler EXCEPT ![n] = h]
    BY <1>1, <1>6
  <2> QED BY <1>1, <1>3, <1>4, <2>1, HandlerDropsKeeps
<1> QED BY <1>5, <1>6

(* The holder of the lock reads the count.                                  *)
LEMMA DenialLocksKeeps ==
    ASSUME RdvInv, NEW n \in Calls, DenialLocks(n)
    PROVE  RdvInv'
<1> DEFINE h == [handler[n] EXCEPT !.pc = "counting", !.read = denied.all]
<1>1. /\ handler[n].pc = "denied" /\ lock = 0 /\ lock' = n
      /\ handler' = [handler EXCEPT ![n].pc = "counting", ![n].read = denied.all]
      /\ UNCHANGED <<probeVars, clientVars, pools, denied, logger, printed, actual, raced>>
  BY DEF DenialLocks
<1>2. handler \in [Calls -> Handlers] /\ denied.all \in Nat
  BY DEF RdvInv, BrokerType, MetricsType, Counters
<1>3. /\ h \in Handlers /\ h.pc = "counting" /\ h.read = denied.all
      /\ h.message = handler[n].message /\ h.pool = handler[n].pool
  BY <1>2 DEF Handlers, HandlerStates
<1>4. handler' = [handler EXCEPT ![n] = h]
  BY <1>1, <1>2
<1>5. /\ h.message.nat = "unrestricted" => natType = "unrestricted"
      /\ "restricted" \in h.pool => natType = "unrestricted"
  BY <1>3 DEF RdvInv, OffersTrue
<1>6. /\ n <= call.n /\ call.n <= call.n /\ n \in 0..MaxCalls /\ UNCHANGED <<call, config>>
      /\ call \in [n : 0..MaxCalls, pc : {"idle", "waiting", "answered", "failed"}]
  BY <1>1, HandlerCalled, RendezvousConstants DEF RdvInv, ClientType, clientVars, Calls
<1> HIDE DEF h
<1> QED BY <1>1, <1>3, <1>4, <1>5, <1>6, HandlerGoesOn

(* The holder of the lock writes the count that it read, increased.         *)
LEMMA DenialCountsKeeps ==
    ASSUME RdvInv, NEW n \in Calls, DenialCounts(n)
    PROVE  RdvInv'
<1> DEFINE part == PoolOf(DecodeNAT(handler[n].message.nat))
           pc == IF call = [n |-> n, pc |-> "waiting"] THEN "error" ELSE "done"
           h == [NoHandler EXCEPT !.pc = pc]
<1>1. /\ handler[n].pc = "counting" /\ handler' = [handler EXCEPT ![n] = h] /\ lock' = 0
      /\ denied' = [denied EXCEPT !.all = handler[n].read + 1, ![part] = @ + 1]
      /\ actual' = actual + 1
      /\ UNCHANGED <<probeVars, clientVars, pools, logger, printed, raced>>
  BY DEF DenialCounts, Replies
<1>2. part \in {"restricted", "unrestricted"}
  BY DEF PoolOf
<1>3. pc \in {"error", "done"} /\ pc \in HandlerStates
  BY DEF HandlerStates
<1> HIDE DEF pc, part
<1>4. h \in Handlers /\ h.pc = pc /\ h.message.nat = "missing" /\ h.pool = {} /\ h.read = 0
  BY <1>3, ReplyIs
<1> HIDE DEF h
<1>5. /\ handler \in [Calls -> Handlers] /\ handler' \in [Calls -> Handlers] /\ handler'[n] = h
      /\ \A b \in Calls \ {n} : handler'[b] = handler[b]
  BY <1>1, <1>4 DEF RdvInv, BrokerType
<1>6. /\ denied \in Counters /\ handler[n].read \in Nat
      /\ denied.all \in Nat /\ denied.restricted \in Nat /\ denied.unrestricted \in Nat
  BY <1>5 DEF RdvInv, MetricsType, Counters, Handlers
<1>7. /\ denied' \in Counters /\ denied'.all = handler[n].read + 1
      /\ \/ denied'.restricted = denied.restricted + 1 /\ denied'.unrestricted = denied.unrestricted
         \/ denied'.restricted = denied.restricted /\ denied'.unrestricted = denied.unrestricted + 1
  <2> DEFINE k == handler[n].read + 1
  <2>1. k \in Nat /\ denied' = [denied EXCEPT !.all = k, ![part] = @ + 1]
    BY <1>1, <1>6
  <2> HIDE DEF k
  <2>2. CASE part = "restricted"
    <3>1. denied' = [denied EXCEPT !.all = k, !["restricted"] = @ + 1]
      BY <2>1, <2>2
    <3>2. denied' = [all |-> k, restricted |-> denied.restricted + 1, unrestricted |-> denied.unrestricted]
      BY <1>6, <3>1 DEF Counters
    <3>3. /\ denied'.all = k /\ denied'.restricted = denied.restricted + 1
          /\ denied'.unrestricted = denied.unrestricted
      BY <3>2
    <3>4. denied' \in Counters
      BY <1>6, <2>1, <3>2 DEF Counters
    <3> QED BY <3>3, <3>4 DEF k
  <2>3. CASE part = "unrestricted"
    <3>1. denied' = [denied EXCEPT !.all = k, !["unrestricted"] = @ + 1]
      BY <2>1, <2>3
    <3>2. denied' = [all |-> k, restricted |-> denied.restricted, unrestricted |-> denied.unrestricted + 1]
      BY <1>6, <3>1 DEF Counters
    <3>3. /\ denied'.all = k /\ denied'.restricted = denied.restricted
          /\ denied'.unrestricted = denied.unrestricted + 1
      BY <3>2
    <3>4. denied' \in Counters
      BY <1>6, <2>1, <3>2 DEF Counters
    <3> QED BY <3>3, <3>4 DEF k
  <2> QED BY <1>2, <2>2, <2>3
<1>8. ProbeInv' /\ ClientType' /\ BrokerType'
  BY <1>1, <1>5, NATNextKeeps DEF RdvInv, ClientType, BrokerType, clientVars
<1>9. MetricsType'
  BY <1>1, <1>7, RendezvousConstants DEF RdvInv, MetricsType
<1>10. OffersTrue' /\ CallsAhead'
  <2>1. natType' = natType /\ call' = call
    BY <1>1 DEF probeVars, clientVars
  <2>2. ASSUME NEW b \in Calls, b > call.n PROVE b # n
    BY <1>1, <2>2 DEF RdvInv, CallsAhead
  <2> QED BY <1>4, <1>5, <2>1, <2>2 DEF RdvInv, OffersTrue, CallsAhead
<1>11. LockHeld' /\ ReadStands'
  <2>1. \A b \in Calls : handler[b].pc = "counting" => b = n
    BY <1>1 DEF RdvInv, LockHeld
  <2>2. \A b \in Calls : handler'[b].pc # "counting"
    BY <1>3, <1>4, <1>5, <2>1
  <2>3. 0 \notin Calls
    BY RendezvousConstants DEF Calls
  <2> QED BY <1>1, <2>2, <2>3 DEF LockHeld, ReadStands
<1>12. DenialsBounded'
  <2>1. Open' \in SUBSET Open /\ n \in Open \ Open'
    BY <1>1, <1>3, <1>4, <1>5 DEF Open
  <2>2. IsFiniteSet(Open)
    BY OpenIsFinite DEF Open
  <2>3. /\ Cardinality(Open) \in Nat /\ Cardinality(Open') \in Nat /\ MaxCalls \in Nat
        /\ Cardinality(Open') + 1 <= Cardinality(Open) /\ Cardinality(Open) <= MaxCalls
    BY <2>1, <2>2, FewerMembers, OpenIsFinite, RendezvousConstants DEF Open
  <2>4. /\ handler[n].read + Cardinality(Open) <= MaxCalls
        /\ denied.restricted + Cardinality(Open) <= MaxCalls /\ denied.unrestricted + Cardinality(Open) <= MaxCalls
    BY DEF RdvInv, DenialsBounded
  <2>5. ASSUME NEW b \in Calls PROVE handler'[b].read + Cardinality(Open') <= MaxCalls
    <3>1. handler[b].read \in Nat /\ handler[b].read + Cardinality(Open) <= MaxCalls
      BY <1>5 DEF RdvInv, DenialsBounded, Handlers
    <3>2. handler'[b].read \in {0, handler[b].read}
      BY <1>4, <1>5
    <3> HIDE DEF Open
    <3> QED BY <2>3, <3>1, <3>2
  <2>6. /\ denied'.all + Cardinality(Open') <= MaxCalls
        /\ denied'.restricted + Cardinality(Open') <= MaxCalls
        /\ denied'.unrestricted + Cardinality(Open') <= MaxCalls
    BY <1>6, <1>7, <2>3, <2>4
  <2> QED BY <2>5, <2>6 DEF DenialsBounded
<1>13. PrintedAddsUp'
  <2> SUFFICES ASSUME raced' = FALSE
               PROVE  /\ denied'.all = denied'.restricted + denied'.unrestricted
                      /\ logger'.pc = "waits" => printed' + denied'.all = actual'
                      /\ logger'.pc = "zeroes" => printed' + denied'.all = actual' + logger'.last
    BY DEF PrintedAddsUp
  <2>1. /\ raced = FALSE /\ logger' = logger /\ printed' = printed /\ actual' = actual + 1
        /\ printed \in Nat /\ actual \in Nat /\ logger.last \in Nat
    BY <1>1 DEF RdvInv, MetricsType
  <2>2. handler[n].read = denied.all
    BY <1>1, <2>1 DEF RdvInv, ReadStands
  <2>3. /\ denied.all = denied.restricted + denied.unrestricted
        /\ logger.pc = "waits" => printed + denied.all = actual
        /\ logger.pc = "zeroes" => printed + denied.all = actual + logger.last
    BY <2>1 DEF RdvInv, PrintedAddsUp
  <2> QED BY <1>6, <1>7, <2>1, <2>2, <2>3
<1> QED
  BY <1>8, <1>9, <1>10, <1>11, <1>12, <1>13 DEF RdvInv

(* logMetrics reads the count; and wipes it out, which it does without      *)
(* anything racing only if nobody counts and nobody has counted since.      *)
LEMMA LoggerKeeps ==
    ASSUME RdvInv, printMetrics \/ zeroMetrics
    PROVE  RdvInv'
<1>1. UNCHANGED <<probeVars, clientVars, brokerVars, lock, actual>>
  BY DEF printMetrics, zeroMetrics
<1>2. UNCHANGED <<natType, call, config, pools, handler, Open>>
  BY <1>1 DEF probeVars, clientVars, brokerVars, Open
<1>3. ProbeInv' /\ ClientType' /\ BrokerType' /\ OffersTrue' /\ CallsAhead' /\ LockHeld'
  BY <1>1, <1>2, NATNextKeeps DEF RdvInv, ClientType, BrokerType, OffersTrue, CallsAhead, LockHeld
<1>4. /\ logger \in [pc : {"waits", "zeroes"}, rounds : 0..MaxPrints, last : Nat] /\ denied \in Counters
      /\ denied.all \in Nat /\ denied.restricted \in Nat /\ denied.unrestricted \in Nat
      /\ printed \in Nat /\ actual \in Nat
  BY DEF RdvInv, MetricsType, Counters
<1>5. CASE printMetrics
  <2>1. /\ logger.pc = "waits" /\ logger.rounds < MaxPrints /\ lock = 0
        /\ logger' = [pc |-> "zeroes", rounds |-> logger.rounds + 1, last |-> denied.all]
        /\ printed' = printed + denied.all /\ UNCHANGED <<denied, lock, actual, raced>>
    BY <1>5 DEF printMetrics
  <2>2. logger' \in [pc : {"waits", "zeroes"}, rounds : 0..MaxPrints, last : Nat]
    <3>1. logger.rounds \in 0..MaxPrints /\ MaxPrints \in Nat
      BY <1>4, RendezvousConstants
    <3>2. logger.rounds + 1 \in 0..MaxPrints
      BY <2>1, <3>1
    <3> QED BY <1>4, <2>1, <3>2
  <2>3. MetricsType'
    BY <1>4, <2>1, <2>2 DEF RdvInv, MetricsType
  <2>4. ReadStands' /\ DenialsBounded'
    BY <1>2, <2>1 DEF RdvInv, ReadStands, DenialsBounded
  <2>5. PrintedAddsUp'
    BY <1>4, <2>1 DEF RdvInv, PrintedAddsUp
  <2> QED BY <1>3, <2>3, <2>4, <2>5 DEF RdvInv
<1>6. CASE zeroMetrics
  <2>1. /\ logger.pc = "zeroes" /\ logger' = [logger EXCEPT !.pc = "waits"] /\ denied' = Zero
        /\ raced' = (raced \/ lock # 0 \/ denied.all # logger.last)
        /\ UNCHANGED <<lock, printed, actual>>
    BY <1>6 DEF zeroMetrics
  <2>2. /\ denied' = [all |-> 0, restricted |-> 0, unrestricted |-> 0]
        /\ denied'.all = 0 /\ denied'.restricted = 0 /\ denied'.unrestricted = 0
    <3>1. denied' = [c \in DOMAIN denied |-> 0]
      BY <2>1 DEF Zero
    <3>2. denied' = [all |-> 0, restricted |-> 0, unrestricted |-> 0]
      BY <1>4, <3>1 DEF Counters
    <3> QED BY <3>2
  <2>3. logger' \in [pc : {"waits", "zeroes"}, rounds : 0..MaxPrints, last : Nat] /\ logger'.pc = "waits"
    BY <1>4, <2>1
  <2>4. raced' \in BOOLEAN
    BY <2>1
  <2>5. denied' \in Counters
    BY <2>2 DEF Counters
  <2>6. MetricsType'
    BY <2>1, <2>3, <2>4, <2>5 DEF RdvInv, MetricsType
  <2>7. ASSUME raced' = FALSE PROVE raced = FALSE /\ lock = 0 /\ denied.all = logger.last
    <3>1. raced \in BOOLEAN
      BY DEF RdvInv, MetricsType
    <3> QED BY <2>1, <2>7, <3>1
  <2>8. ReadStands'
    <3>1. \A n \in Calls : lock = 0 => handler[n].pc # "counting"
      <4>1. 0 \notin Calls
        BY RendezvousConstants DEF Calls
      <4> QED BY <4>1 DEF RdvInv, LockHeld
    <3> QED BY <1>2, <2>7, <3>1 DEF ReadStands
  <2>9. DenialsBounded'
    <3>1. Cardinality(Open) \in Nat /\ Cardinality(Open) <= MaxCalls /\ MaxCalls \in Nat
      BY OpenCount
    <3> QED BY <1>2, <2>2, <3>1 DEF RdvInv, DenialsBounded
  <2>10. PrintedAddsUp'
    <3>1. ASSUME raced' = FALSE PROVE printed = actual
      <4>1. logger.last \in Nat /\ printed + denied.all = actual + logger.last /\ denied.all = logger.last
        BY <1>4, <2>1, <2>7, <3>1 DEF RdvInv, PrintedAddsUp
      <4> QED BY <1>4, <4>1
    <3>2. raced' = FALSE => /\ denied'.all = denied'.restricted + denied'.unrestricted
                            /\ printed' + denied'.all = actual'
      <4>1. printed' = printed /\ actual' = actual
        BY <2>1
      <4>2. printed \in Nat /\ printed + 0 = printed
        BY <1>4
      <4>3. denied'.all = 0 /\ denied'.restricted = 0 /\ denied'.unrestricted = 0
        BY <2>2
      <4>4. printed + 0 = printed /\ 0 = 0 + 0
        BY <4>2
      <4>5. printed' + denied'.all = printed /\ denied'.all = denied'.restricted + denied'.unrestricted
        BY <4>1, <4>3, <4>4
      <4> QED BY <3>1, <4>1, <4>5
    <3> QED BY <2>3, <3>2 DEF PrintedAddsUp
  <2> QED BY <1>3, <2>6, <2>8, <2>9, <2>10 DEF RdvInv
<1> QED BY <1>5, <1>6

(* What the probe and polling proxies do concerns no handler; a probe that  *)
(* has found the NAT unrestricted is over.                                  *)
LEMMA OthersKeep ==
    ASSUME RdvInv, \/ NATNext /\ UNCHANGED <<metricsVars, clientVars, brokerVars>>
                   \/ \E m \in ProxyPollRequest : ProxyPolls(m)
                   \/ UNCHANGED rdvVars
    PROVE  RdvInv'
<1>1. UNCHANGED <<metricsVars, clientVars, handler>> /\ (NATNext \/ UNCHANGED probeVars)
  BY DEF brokerVars, ProxyPolls, rdvVars
<1>2. UNCHANGED <<denied, lock, logger, printed, actual, raced, config, call, handler, Open>>
  BY <1>1 DEF metricsVars, clientVars, Open
<1>3. ProbeInv'
  BY <1>1, NATNextKeeps DEF RdvInv
<1>4. natType = "unrestricted" => natType' = "unrestricted"
  <2>1. CASE UNCHANGED probeVars
    BY <2>1 DEF probeVars
  <2>2. CASE NATNext
    <3> SUFFICES ASSUME natType = "unrestricted" PROVE UNCHANGED natType
      OBVIOUS
    <3>1. probe.pc = "done"
      BY DEF RdvInv, ProbeInv, NATKnown
    <3> QED BY <2>2, <3>1 DEF NATNext, connect, connectFails, RoundTripFails, updateNATTypeFails, Test1,
                              NotSupported, Test2, Takes, Waits, Duplicate, listenEnds, listenReads, ServerAnswers
  <2> QED BY <1>1, <2>1, <2>2
<1>5. pools' \subseteq {"restricted", "unrestricted"}
  BY DEF brokerVars, rdvVars, ProxyPolls, PoolOf, RdvInv, BrokerType
<1>6. ClientType' /\ BrokerType' /\ MetricsType' /\ OffersTrue' /\ CallsAhead'
  BY <1>2, <1>4, <1>5 DEF RdvInv, ClientType, BrokerType, MetricsType, OffersTrue, CallsAhead
<1>7. LockHeld' /\ ReadStands' /\ DenialsBounded' /\ PrintedAddsUp'
  BY <1>2 DEF RdvInv, LockHeld, ReadStands, DenialsBounded, PrintedAddsUp
<1> QED BY <1>3, <1>6, <1>7 DEF RdvInv

(* Every step of the negotiations keeps the invariant.                      *)
LEMMA RdvNextKeeps == RdvInv /\ [RdvNext]_rdvVars => RdvInv'
<1> SUFFICES ASSUME RdvInv, [RdvNext]_rdvVars PROVE RdvInv'
  OBVIOUS
<1>1. CASE \E c, h \in BOOLEAN : Negotiate(c, h)
  BY <1>1, NegotiateKeeps
<1>2. CASE ExchangeFails \/ Exchange
  BY <1>2, ReturnsKeeps DEF ExchangeFails, Exchange
<1>3. ASSUME NEW n \in Calls, ClientOffersRefused(n) \/ ProxyAnswers(n) \/ ProxyFails(n) PROVE RdvInv'
  BY <1>3, RepliesKeeps DEF ClientOffersRefused, ProxyAnswers, ProxyFails
<1>4. ASSUME NEW n \in Calls, ClientOffers(n) PROVE RdvInv'
  BY <1>4, ClientOffersKeeps
<1>5. ASSUME NEW n \in Calls, DenialLocks(n) PROVE RdvInv'
  BY <1>5, DenialLocksKeeps
<1>6. ASSUME NEW n \in Calls, DenialCounts(n) PROVE RdvInv'
  BY <1>6, DenialCountsKeeps
<1>7. CASE printMetrics \/ zeroMetrics
  BY <1>7, LoggerKeeps
<1>8. CASE \/ NATNext /\ UNCHANGED <<metricsVars, clientVars, brokerVars>>
           \/ \E m \in ProxyPollRequest : ProxyPolls(m)
           \/ UNCHANGED rdvVars
  BY <1>8, OthersKeep
<1> QED BY <1>1, <1>2, <1>3, <1>4, <1>5, <1>6, <1>7, <1>8 DEF RdvNext

(* The inductive invariant of the negotiations holds in every state.        *)
LEMMA RdvInvHolds == RdvSpec => []RdvInv
<1>1. RdvInit => RdvInv
  BY RdvInitEstablishes
<1> QED BY <1>1, RdvNextKeeps, PTL DEF RdvSpec

(* A client behind an address-dependent NAT is matched only with proxies it *)
(* can reach unless a duplicated datagram deceived its probe, for every     *)
(* configuration, bridge list and number of STUN servers and calls.         *)
THEOREM RestrictedClientReachedHolds == RdvSpec => []RestrictedClientReached
<1>1. RdvInv => RestrictedClientReached
  <2> SUFFICES ASSUME RdvInv, NEW n \in Calls, "restricted" \in handler[n].pool
               PROVE  mapping = "independent" \/ strayed
    BY DEF RestrictedClientReached
  <2>1. natType = "unrestricted"
    BY DEF RdvInv, OffersTrue
  <2> QED BY <2>1 DEF RdvInv, ProbeInv, NATKnown
<1> QED BY <1>1, RdvInvHolds, PTL

(* The denials of every number of calls add up over handlers, summaries and *)
(* resets unless an unlocked reset met one, and no call counts twice.       *)
THEOREM CountsSoundHolds == RdvSpec => []CountsSound
<1>1. RdvInv => CountsSound
  <2> SUFFICES ASSUME RdvInv PROVE CountsSound
    OBVIOUS
  <2>1. NATTypeOK
    BY DEF RdvInv, ProbeInv, ProbeType, OpenSocket, NATTypeOK, Datagrams
  <2>2. ASSUME NEW n \in Calls
        PROVE  /\ handler[n].pc \in HandlerStates /\ Cardinality(handler[n].pool) <= 1
               /\ handler[n].read \in 0..MaxCalls
    <3>1. handler[n].pc \in HandlerStates /\ handler[n].pool \in Pools /\ handler[n].read \in Nat
      BY DEF RdvInv, BrokerType, Handlers
    <3>2. Cardinality(handler[n].pool) <= 1
      <4>1. Cardinality({}) = 0 /\ Cardinality({"restricted"}) = 1 /\ Cardinality({"unrestricted"}) = 1
        BY FS_EmptySet, FS_Singleton
      <4>2. handler[n].pool = {} \/ handler[n].pool = {"restricted"} \/ handler[n].pool = {"unrestricted"}
        BY <3>1 DEF Pools
      <4> QED BY <4>1, <4>2
    <3>3. handler[n].read + Cardinality(Open) <= MaxCalls
      BY DEF RdvInv, DenialsBounded
    <3>4. Cardinality(Open) \in Nat /\ MaxCalls \in Nat
      BY OpenCount
    <3>5. handler[n].read \in 0..MaxCalls
      BY <3>1, <3>3, <3>4
    <3> QED BY <3>1, <3>2, <3>5
  <2>3. ASSUME NEW c \in DOMAIN denied PROVE denied[c] \in 0..MaxCalls
    <3>1. Cardinality(Open) \in Nat /\ MaxCalls \in Nat
      BY OpenCount
    <3>2. /\ denied.all \in Nat /\ denied.restricted \in Nat /\ denied.unrestricted \in Nat
          /\ denied.all + Cardinality(Open) <= MaxCalls /\ denied.restricted + Cardinality(Open) <= MaxCalls
          /\ denied.unrestricted + Cardinality(Open) <= MaxCalls
      BY DEF RdvInv, MetricsType, Counters, DenialsBounded
    <3>3. denied.all \in 0..MaxCalls /\ denied.restricted \in 0..MaxCalls /\ denied.unrestricted \in 0..MaxCalls
      BY <3>1, <3>2
    <3>4. c \in {"all", "restricted", "unrestricted"}
      BY <2>3 DEF RdvInv, MetricsType, Counters
    <3> QED BY <3>3, <3>4
  <2>4. RdvTypeOK
    BY <2>1, <2>2, <2>3 DEF RdvTypeOK, HandlerStates, RdvInv, ClientType, BrokerType, MetricsType
  <2>5. CountsAddUp
    <3> SUFFICES ASSUME ~raced
                 PROVE  /\ printed + (IF logger.pc = "zeroes" THEN denied.all - logger.last ELSE denied.all) = actual
                        /\ denied.all = denied.restricted + denied.unrestricted
      BY DEF CountsAddUp
    <3>1. raced = FALSE
      BY DEF RdvInv, MetricsType
    <3>2. /\ printed \in Nat /\ actual \in Nat /\ denied.all \in Nat /\ logger.last \in Nat
          /\ logger.pc \in {"waits", "zeroes"}
      BY DEF RdvInv, MetricsType, Counters
    <3>3. /\ denied.all = denied.restricted + denied.unrestricted
          /\ logger.pc = "waits" => printed + denied.all = actual
          /\ logger.pc = "zeroes" => printed + denied.all = actual + logger.last
      BY <3>1 DEF RdvInv, PrintedAddsUp
    <3> QED BY <3>2, <3>3
  <2> QED BY <2>4, <2>5 DEF CountsSound
<1> QED BY <1>1, RdvInvHolds, PTL
=============================================================================
