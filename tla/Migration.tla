----------------------------- MODULE Migration -----------------------------
(***************************************************************************)
(* One client moving between proxies: WebRTCPeer of the client             *)
(* (client/lib/webrtc.go) composed with the proxy's /add and /transfer     *)
(* handlers and its control channel (proxy/lib/snowflake.go).              *)
(* A session is one WebRTC connection, numbered in the order of creation.  *)
(*   peer[s]   what the client keeps of s: the callbacks of its channels   *)
(*             and the goroutine behind its probeTimer;                    *)
(*   chan[s]   what the proxy keeps of s, and the control messages that    *)
(*             are under way;                                              *)
(*   transfer  the client's global flag; connected is unbuffered, so only  *)
(*             who waits on it is state;                                   *)
(*   client2Dc, client2TransferIP  the proxy's maps at this client's id;   *)
(*   clean     history: no handover has met another one, an error, a dying *)
(*             session or a collected peer.                                *)
(* Push and Collect are the business of Peers; here they only decide when  *)
(* a peer is made.                                                         *)
(***************************************************************************)
EXTENDS Integers, FiniteSets, SequencesExt

CONSTANTS Proxies, First, NoProxy, TransferNow, MaxSessions, MaxConnects,
          MaxOrders, MaxQueue, MaxFaults

ASSUME MigrationAssumption == /\ {MaxSessions, MaxConnects, MaxOrders, MaxFaults} \subseteq Nat
                              /\ MaxQueue \in Nat \ {0}
                              /\ TransferNow \subseteq BOOLEAN
                              /\ First \in Proxies /\ NoProxy \notin Proxies

VARIABLES peer, chan, transfer, client2Dc, client2TransferIP,
          alive, orders, faults, crashed, clean

vars == <<peer, chan, transfer, client2Dc, client2TransferIP,
          alive, orders, faults, crashed, clean>>
proxyVars == <<client2Dc, client2TransferIP, alive, orders, faults>>

Sessions == 1..MaxSessions
NoSession == 0

(* "stopped" is a timer that was stopped, "waiting" its goroutine at
   <-connected, "woken" past it, "closing" after transfer = false. *)
Timers == {"none", "idle", "armed", "now", "stopped",
           "waiting", "woken", "closing", "done"}
Running == {"idle", "armed", "now"}

PeerStates == [st : {"none", "offered", "wired", "up", "closed", "leaked"},
               by : Sessions \cup {NoSession}, known : Proxies \cup {NoProxy},
               cb : {"idle", "now", "later"}, onOpen : {"no", "sending", "done"},
               timer : Timers, took : Sessions \cup {NoSession}]

Messages == [tv : {"now", "later"}, ip : Proxies \cup {NoProxy}]

ChanStates == [to : Proxies \cup {NoProxy}, down : BOOLEAN,
               ctl : {"no", "announced", "probing", "gone"},
               msgs : BoundedSeq(Messages, MaxQueue)]

Init == /\ peer = [s \in Sessions |->
                     [st |-> "none", by |-> NoSession, known |-> NoProxy,
                      cb |-> "idle", onOpen |-> "no", timer |-> "none",
                      took |-> NoSession]]
        /\ chan = [s \in Sessions |->
                     [to |-> NoProxy, down |-> FALSE, ctl |-> "no", msgs |-> <<>>]]
        /\ transfer = FALSE
        /\ client2Dc = [p \in Proxies |-> NoSession]
        /\ client2TransferIP = [p \in Proxies |-> NoProxy]
        /\ alive = Proxies /\ orders = 0 /\ faults = 0
        /\ crashed = FALSE /\ clean = TRUE

(***************************************************************************)
(* State formulae                                                          *)
(***************************************************************************)
Fresh(s) == peer[s].st = "none" /\ \A t \in Sessions : t < s => peer[t].st # "none"
Joined(s) == peer[s].st \in {"wired", "up"} /\ ~chan[s].down
Dialed(s, t) == peer[t].by = s /\ peer[t].st \in {"offered", "wired"}

(* No handover, no OnOpen and no expired timer is in progress. *)
Settled == /\ ~transfer
           /\ \A s \in Sessions : /\ Joined(s) => peer[s].onOpen = "done"
                                  /\ peer[s].timer \notin {"waiting", "woken", "closing"}

(* WebRTCPeer.Close once: the timer is stopped unless it has fired, both
   channels and the connection are closed. *)
Shut(r) == [r EXCEPT !.st = "closed",
                     !.timer = IF @ \in Running THEN "stopped" ELSE @]

(* A connection that is down delivers nothing more. *)
Torn(c) == [c EXCEPT !.down = TRUE, !.msgs = <<>>]

(* The end of dc2.OnMessage: Reset of the probe timer, which does nothing for
   a goroutine that is past its receive. *)
Rearmed(timer, tv) ==
    IF timer \in Running \cup {"stopped"} /\ (tv = "now" \/ ~transfer)
    THEN IF tv = "now" THEN "now" ELSE "armed"
    ELSE timer

(***************************************************************************)
(* The client                                                              *)
(***************************************************************************)

(* connect through the broker: with a capacity of one, Collect makes a peer
   when none is up. The broker hands the offer to addHandler of p, and the
   answer is set as the remote description. Proxies are interchangeable, so
   the first session may be taken to go to First. *)
Connect(s, p) ==
    /\ Cardinality({t \in Sessions : peer[t].st # "none" /\ peer[t].by = NoSession}) < MaxConnects
    /\ Fresh(s) /\ p \in alive /\ (s = 1 => p = First)
    /\ \A t \in Sessions : peer[t].st # "up" /\ ~(peer[t].st = "wired" /\ peer[t].by = NoSession)
    /\ peer' = [peer EXCEPT ![s].st = "wired"]
    /\ chan' = [chan EXCEPT ![s].to = p]
    /\ clean' = (clean /\ ~transfer /\ \A t \in Sessions : peer[t].cb = "idle")
    /\ UNCHANGED <<transfer, proxyVars, crashed>>

(* DirectConnect has the proxy's answer and sets it: from here on the channels
   can open. http.Post waits for the answer without a timeout. *)
SetRemoteDescription(s) ==
    /\ peer[s].st = "offered"
    /\ peer' = [peer EXCEPT ![s].st = "wired"]
    /\ UNCHANGED <<chan, transfer, proxyVars, crashed, clean>>

(* The data channel opened, connect returns and the timer is made. *)
Connected(s) ==
    /\ peer[s].by = NoSession /\ peer[s].st = "wired" /\ ~chan[s].down
    /\ peer' = [peer EXCEPT ![s].st = "up", ![s].timer = "idle"]
    /\ UNCHANGED <<chan, transfer, proxyVars, crashed, clean>>

(* connect gives up after DataChannelTimeout: Close before there is a timer. *)
ConnectTimesOut(s) ==
    /\ peer[s].by = NoSession /\ peer[s].st = "wired"
    /\ peer' = [peer EXCEPT ![s].st = "closed"]
    /\ chan' = [chan EXCEPT ![s] = Torn(@)]
    /\ clean' = (clean /\ ~transfer)
    /\ UNCHANGED <<transfer, proxyVars, crashed>>

(* Mutant of OnOpen: the callback does not look at transfer. *)
OnOpenSilent(s) ==
    /\ Joined(s) /\ peer[s].onOpen = "no"
    /\ peer' = [peer EXCEPT ![s].onOpen = "done"]
    /\ UNCHANGED <<chan, transfer, proxyVars, crashed, clean>>

(* dc2.OnOpen, in its own goroutine: it blocks on connected in a transfer. *)
OnOpen(s) ==
    /\ Joined(s) /\ peer[s].onOpen = "no"
    /\ peer' = [peer EXCEPT ![s].onOpen = IF transfer THEN "sending" ELSE "done"]
    /\ UNCHANGED <<chan, transfer, proxyVars, crashed, clean>>

(* dc2.OnMessage with a backup proxy that is new to this peer: transfer is
   set before DirectConnect. *)
MessageStartsTransfer(s) ==
    LET m == Head(chan[s].msgs) IN
    /\ Joined(s) /\ peer[s].cb = "idle" /\ chan[s].msgs # <<>>
    /\ m.ip \notin {NoProxy, peer[s].known}
    /\ transfer' = TRUE
    /\ clean' = (clean /\ Settled)
    /\ peer' = [peer EXCEPT ![s].known = m.ip, ![s].cb = m.tv]
    /\ chan' = [chan EXCEPT ![s].msgs = Tail(@)]
    /\ UNCHANGED <<proxyVars, crashed>>

(* dc2.OnMessage otherwise: only the timer. Before the timer is made its nil
   pointer is dereferenced and the process dies. *)
MessageSetsTimer(s) ==
    LET m == Head(chan[s].msgs) IN
    /\ Joined(s) /\ peer[s].cb = "idle" /\ chan[s].msgs # <<>>
    /\ m.ip \in {NoProxy, peer[s].known}
    /\ peer' = [peer EXCEPT ![s].timer = Rearmed(@, m.tv)]
    /\ crashed' = (peer[s].timer = "none" /\ (m.tv = "now" \/ ~transfer))
    /\ chan' = [chan EXCEPT ![s].msgs = Tail(@)]
    /\ UNCHANGED <<transfer, proxyVars, clean>>

(* DirectConnect: the offer is posted to addHandler of the backup proxy. *)
DirectConnectPosts(s, t) ==
    /\ peer[s].cb # "idle" /\ Fresh(t) /\ ~\E u \in Sessions : Dialed(s, u)
    /\ peer[s].known \in alive
    /\ peer' = [peer EXCEPT ![t].st = "offered", ![t].by = s]
    /\ chan' = [chan EXCEPT ![t].to = peer[s].known]
    /\ UNCHANGED <<transfer, proxyVars, crashed, clean>>

(* DirectConnect fails at any point before its return: the callback returns
   with transfer still set, and a peer whose answer was lost is not closed. *)
DirectConnectFails(s) ==
    /\ peer[s].cb # "idle"
    /\ \A t \in Sessions : Dialed(s, t) => peer[t].st = "offered"
    /\ peer' = [t \in Sessions |->
                  CASE t = s -> [peer[t] EXCEPT !.cb = "idle"]
                    [] t # s /\ Dialed(s, t) -> [peer[t] EXCEPT !.st = "leaked"]
                    [] OTHER -> peer[t]]
    /\ clean' = FALSE
    /\ UNCHANGED <<chan, transfer, proxyVars, crashed>>

(* Mutant of DirectConnectReturns: the timer of the new peer is reset. *)
DirectConnectResetsNew(s, t) ==
    /\ peer[s].cb # "idle" /\ Dialed(s, t) /\ peer[t].st = "wired"
    /\ peer' = [peer EXCEPT ![t].st = "up", ![t].timer = Rearmed("idle", peer[s].cb),
                            ![s].cb = "idle"]
    /\ UNCHANGED <<chan, transfer, proxyVars, crashed, clean>>

(* DirectConnect returns the peer, with its timer made; it is pushed, and the
   rest of dc2.OnMessage sets the timer of the old peer. *)
DirectConnectReturns(s, t) ==
    /\ peer[s].cb # "idle" /\ Dialed(s, t) /\ peer[t].st = "wired"
    /\ peer' = [peer EXCEPT ![t].st = "up", ![t].timer = "idle",
                            ![s].cb = "idle",
                            ![s].timer = Rearmed(@, peer[s].cb)]
    /\ crashed' = (peer[s].timer = "none" /\ (peer[s].cb = "now" \/ ~transfer))
    /\ UNCHANGED <<chan, transfer, proxyVars, clean>>

(* Nothing that takes seconds is left to happen before the initial 6000
   seconds of the timer of s are over. *)
LongAfter(s) ==
    /\ \A t \in Sessions :
         /\ peer[t].st \notin {"offered", "wired"}
         /\ Joined(t) => peer[t].onOpen # "no"
         /\ t < s => peer[t].timer \notin Running
         /\ peer[t].timer \notin {"now", "woken", "closing"}
    /\ ~\E t, u \in Sessions : peer[t].onOpen = "sending" /\ peer[u].timer = "waiting"

(* The timer goroutine gets past <-probeTimer.C. A proxy that probes every 10
   seconds keeps a timer of 20 seconds from running out unless transfer
   suppresses the resets. *)
ProbeTimerFires(s) ==
    /\ \/ peer[s].timer = "now"
       \/ /\ peer[s].timer \in {"armed", "idle"}
          /\ (transfer \/ chan[s].down \/ chan[s].ctl # "probing")
          /\ peer[s].timer = "idle" => LongAfter(s)
    /\ peer' = [peer EXCEPT ![s].timer = IF transfer THEN "waiting" ELSE "woken"]
    /\ UNCHANGED <<chan, transfer, proxyVars, crashed, clean>>

(* The rendezvous on connected: the OnOpen of t, any waiting goroutine s. *)
Signal(t, s) ==
    /\ peer[t].onOpen = "sending" /\ peer[s].timer = "waiting"
    /\ peer' = IF s = t
               THEN [peer EXCEPT ![s].onOpen = "done", ![s].timer = "woken", ![s].took = t]
               ELSE [peer EXCEPT ![t].onOpen = "done", ![s].timer = "woken", ![s].took = t]
    /\ UNCHANGED <<chan, transfer, proxyVars, crashed, clean>>

(* transfer = false *)
TimerClearsTransfer(s) ==
    /\ peer[s].timer = "woken"
    /\ transfer' = FALSE
    /\ peer' = [peer EXCEPT ![s].timer = "closing"]
    /\ UNCHANGED <<chan, proxyVars, crashed, clean>>

(* connection.Close(), which does nothing the second time. *)
TimerCloses(s) ==
    /\ peer[s].timer = "closing"
    /\ peer' = [peer EXCEPT ![s].timer = "done", ![s].st = "closed"]
    /\ chan' = [chan EXCEPT ![s] = Torn(@)]
    /\ UNCHANGED <<transfer, proxyVars, crashed, clean>>

(* dc.OnClose or dc2.OnClose after the connection went down: Close. *)
OnClose(s) ==
    /\ peer[s].st = "up" /\ chan[s].down
    /\ peer' = [peer EXCEPT ![s] = Shut(@)]
    /\ UNCHANGED <<chan, transfer, proxyVars, crashed, clean>>

(***************************************************************************)
(* The proxy                                                               *)
(***************************************************************************)
At(s) == chan[s].to

(* OnDataChannel for the control channel. *)
OnControlChannel(s) ==
    /\ Joined(s) /\ At(s) \in alive /\ chan[s].ctl = "no"
    /\ client2Dc' = [client2Dc EXCEPT ![At(s)] = s]
    /\ chan' = [chan EXCEPT ![s].ctl = "announced"]
    /\ UNCHANGED <<peer, transfer, client2TransferIP, alive,
                   orders, faults, crashed, clean>>

(* The control channel's OnOpen: the add notice (ChannelOpens of Broker) and
   the probe goroutine. *)
ControlOpens(s) ==
    /\ At(s) \in alive /\ chan[s].ctl = "announced"
    /\ chan' = [chan EXCEPT ![s].ctl = "probing"]
    /\ UNCHANGED <<peer, transfer, client2Dc, client2TransferIP, alive,
                   orders, faults, crashed, clean>>

(* Mutant of ControlCloses: the maps keep the client. *)
ControlClosesForgetting(s) ==
    /\ At(s) \in alive /\ chan[s].ctl \in {"announced", "probing"} /\ chan[s].down
    /\ chan' = [chan EXCEPT ![s].ctl = "gone"]
    /\ UNCHANGED <<peer, transfer, client2Dc, client2TransferIP, alive,
                   orders, faults, crashed, clean>>

(* The control channel's OnClose: the delete notice, then both map entries of
   the client, whichever session put them there; dcClosed stops the ticker. *)
ControlCloses(s) ==
    /\ At(s) \in alive /\ chan[s].ctl \in {"announced", "probing"} /\ chan[s].down
    /\ client2Dc' = [client2Dc EXCEPT ![At(s)] = NoSession]
    /\ client2TransferIP' = [client2TransferIP EXCEPT ![At(s)] = NoProxy]
    /\ chan' = [chan EXCEPT ![s].ctl = "gone"]
    /\ UNCHANGED <<peer, transfer, alive, orders, faults, crashed, clean>>

(* The ticker of the probe goroutine: the probe carries what the map holds. *)
Probe(s) ==
    /\ At(s) \in alive /\ chan[s].ctl = "probing" /\ ~chan[s].down
    /\ Len(chan[s].msgs) < MaxQueue
    /\ chan' = [chan EXCEPT ![s].msgs =
                  Append(@, [tv |-> "later", ip |-> client2TransferIP[At(s)]])]
    /\ UNCHANGED <<peer, transfer, proxyVars, crashed, clean>>

(* transferHandler: the backup is stored first; a client with a control
   channel is told at once when the order says so, if the channel is open.
   The POST to the new proxy's /data changes nothing there (dataHandler). *)
TransferHandler(p, q, now) ==
    LET s == client2Dc[p] IN
    /\ orders < MaxOrders /\ p \in alive /\ p # q
    /\ orders' = orders + 1
    /\ client2TransferIP' = [client2TransferIP EXCEPT ![p] = q]
    /\ IF s # NoSession /\ now /\ chan[s].ctl = "probing" /\ ~chan[s].down
       THEN /\ Len(chan[s].msgs) < MaxQueue
            /\ chan' = [chan EXCEPT ![s].msgs = Append(@, [tv |-> "now", ip |-> q])]
       ELSE UNCHANGED chan
    /\ UNCHANGED <<peer, transfer, client2Dc, alive, faults, crashed, clean>>

(* The connection of a session ends: the network fails, the proxy's wait for
   the data channel times out, or its datachannelHandler returns. *)
LinkFails(s) ==
    /\ faults < MaxFaults /\ faults' = faults + 1
    /\ peer[s].st # "none" /\ ~chan[s].down
    /\ chan' = [chan EXCEPT ![s] = Torn(@)]
    /\ clean' = (clean /\ ~transfer)
    /\ UNCHANGED <<peer, transfer, client2Dc, client2TransferIP, alive,
                   orders, crashed>>

(* The instance of a proxy is taken away, with everything it kept. *)
ProxyDies(p) ==
    /\ p \in alive /\ faults < MaxFaults /\ faults' = faults + 1
    /\ alive' = alive \ {p}
    /\ chan' = [s \in Sessions |-> IF At(s) = p THEN [Torn(chan[s]) EXCEPT !.ctl = "gone"]
                                   ELSE chan[s]]
    /\ client2Dc' = [client2Dc EXCEPT ![p] = NoSession]
    /\ client2TransferIP' = [client2TransferIP EXCEPT ![p] = NoProxy]
    /\ clean' = (clean /\ ~transfer)
    /\ UNCHANGED <<peer, transfer, orders, crashed>>

(***************************************************************************)
(* Specification                                                           *)
(***************************************************************************)
Handles(s) == \/ MessageStartsTransfer(s) \/ MessageSetsTimer(s)
              \/ \E t \in Sessions : DirectConnectPosts(s, t) \/ DirectConnectReturns(s, t)
              \/ DirectConnectFails(s)
TimerSteps(s) == ProbeTimerFires(s) \/ TimerClearsTransfer(s) \/ TimerCloses(s)
Signals == \E s, t \in Sessions : Signal(t, s)

ClientStep ==
    /\ ~crashed
    /\ \/ \E s \in Sessions :
            \/ \E p \in Proxies : Connect(s, p)
            \/ SetRemoteDescription(s) \/ Connected(s) \/ ConnectTimesOut(s)
            \/ OnOpen(s) \/ Handles(s)
            \/ TimerSteps(s) \/ OnClose(s)
       \/ Signals

ProxyStep ==
    /\ ~crashed
    /\ \/ \E s \in Sessions :
            \/ OnControlChannel(s) \/ ControlOpens(s) \/ ControlCloses(s)
            \/ Probe(s) \/ LinkFails(s)
       \/ \E p, q \in Proxies, now \in TransferNow : TransferHandler(p, q, now)
       \/ \E p \in Proxies : ProxyDies(p)

Next == ClientStep \/ ProxyStep

Spec == Init /\ [][Next]_vars

(* The goroutines of the client run, timers expire, and a connection whose two
   ends have their descriptions comes up unless it fails. Nobody promises that
   a proxy answers DirectConnect, or that DirectConnect returns. *)
FairSpec == /\ Spec
            /\ \A s \in Sessions : /\ WF_vars(~crashed /\ OnOpen(s))
                                   /\ WF_vars(~crashed /\ TimerSteps(s))
            /\ WF_vars(~crashed /\ Signals)

(***************************************************************************)
(* Properties                                                              *)
(***************************************************************************)

(* The flag, the callbacks, the timers, the maps and the counters of the
   composed system take only the values that the two programs give them. *)
TypeOK == /\ peer \in [Sessions -> PeerStates]
          /\ chan \in [Sessions -> ChanStates]
          /\ transfer \in BOOLEAN /\ crashed \in BOOLEAN /\ clean \in BOOLEAN
          /\ client2Dc \in [Proxies -> Sessions \cup {NoSession}]
          /\ client2TransferIP \in [Proxies -> Proxies \cup {NoProxy}]
          /\ alive \subseteq Proxies /\ orders \in 0..MaxOrders
          /\ faults \in 0..MaxFaults

(* As long as no handover has met another one, an error or a dying session,
   the goroutine that waits on the shared channel connected is woken by the
   control channel of the very peer that its own OnMessage connected, so the
   old connection is closed only when the new one is open. *)
MakeBeforeBreak ==
    clean => \A s \in Sessions : peer[s].took # NoSession => peer[peer[s].took].by = s

(* client2Dc never holds a control channel whose OnClose has already run, so
   transferHandler never sends its order into a channel known to be closed. *)
OrdersReachOpenChannels ==
    \A p \in Proxies : client2Dc[p] # NoSession =>
        /\ At(client2Dc[p]) = p
        /\ chan[client2Dc[p]].ctl \in {"announced", "probing"}

(* No DirectConnect is still without its proxy's answer. *)
Answered == \A s \in Sessions :
    peer[s].cb # "idle" => \E t \in Sessions : Dialed(s, t) /\ peer[t].st = "wired"

(* A timer goroutine that waits on the shared channel connected while every  *)
(* proxy that DirectConnect asked has answered is released and closes its    *)
(* peer, unless the handover meets another one, an error or a dying session. *)
(* A proxy that never answers leaves it waiting (webrtc.go:107, :436).       *)
HandoverCompletes ==
    \A s \in Sessions : (peer[s].timer = "waiting" /\ clean /\ Answered /\ ~crashed)
                          ~> (peer[s].st = "closed" \/ ~clean \/ crashed)

(* Orders go to control channels that are not known to be closed, whatever  *)
(* sessions of the same client come and go (proxy snowflake.go:496-527).    *)
OrdersArrive == TypeOK /\ OrdersReachOpenChannels
=============================================================================
