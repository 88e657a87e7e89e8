-------------------------- MODULE QueuePacketConn --------------------------
(***************************************************************************)
(* The downstream half of the server's packet connection (iceball/common/   *)
(* turbotunnel/queuepacketconn.go) with the write loops of the WebSockets   *)
(* that drain it (turbotunnelMode in iceball/server/lib/http.go).  KCP      *)
(* calls WriteTo; every WebSocket of a client takes packets from the queue  *)
(* of that client.  Both look the queue up under the map's lock and use the *)
(* channel after the lock is released, while the sweep of the ClientMap     *)
(* closes the channels of the clients it expires.                           *)
(* KCP and the WebSockets are external.                                     *)
(***************************************************************************)
EXTENDS ClientMap

CONSTANTS Writers,     \* concurrent WriteTo calls
          Conns,       \* WebSockets
          QueueSize,   \* queueSize
          MaxPackets   \* bound: packets queued

ASSUME QueueBounds == QueueSize \in Nat \ {0} /\ MaxPackets \in Nat

VARIABLES
    chan,       \* per channel: the packets in it, as the client each was written to
    closed,     \* channels that were closed
    writeTo,    \* WriteTo calls: pc, addr and channel
    conn,       \* write loops: pc, clientID, channel, and when they looked it up
    readEnded,  \* WebSockets whose read loop has closed done
    astray,     \* ghost: a packet reached the WebSocket of another client
    sent,       \* packets queued so far
    panicked    \* a send on a closed channel

vars == <<mapVars, chan, closed, writeTo, conn, readEnded, astray, sent, panicked>>

NoAddr == "none"
IdleCall == [pc |-> "idle", addr |-> NoAddr, ch |-> 0]
ConnAt(pc, a, q, t) == [pc |-> pc, addr |-> a, ch |-> q, since |-> t]
ConnDone == ConnAt("done", NoAddr, 0, 0)

Init ==
    /\ MapInit
    /\ chan = [q \in 1..MaxQueues |-> <<>>] /\ closed = {}
    /\ writeTo = [w \in Writers |-> IdleCall]
    /\ conn = [s \in Conns |-> ConnAt("new", NoAddr, 0, 0)]
    /\ readEnded = {} /\ astray = FALSE
    /\ sent = 0 /\ panicked = FALSE
-----------------------------------------------------------------------------
(* WriteTo: SendQueue(addr), then a send that never blocks.                 *)

HasRoom(q) == Len(chan[q]) < QueueSize

WriteToLooksUp(w, a) ==
    /\ writeTo[w].pc = "idle" /\ sent < MaxPackets
    /\ Touch(a)
    /\ writeTo' = [writeTo EXCEPT ![w] = [pc |-> "send", addr |-> a, ch |-> QueueOf(a)]]
    /\ UNCHANGED <<chan, closed, conn, readEnded, astray, sent, panicked>>

WriteToSends(w) ==
    /\ writeTo[w].pc = "send"
    /\ writeTo' = [writeTo EXCEPT ![w] = IdleCall]
    /\ LET q == writeTo[w].ch
       IN  IF q \in closed THEN panicked' = TRUE /\ UNCHANGED <<chan, sent>>
           ELSE IF HasRoom(q) /\ sent < MaxPackets
           THEN /\ sent' = sent + 1
                /\ chan' = [chan EXCEPT ![q] = Append(@, writeTo[w].addr)]
                /\ UNCHANGED panicked
           ELSE UNCHANGED <<chan, sent, panicked>>
    /\ UNCHANGED <<mapVars, closed, conn, readEnded, astray>>
-----------------------------------------------------------------------------
(* turbotunnelMode: a WebSocket has sent the token and its ClientID.        *)
Accepts(s, a) ==
    /\ conn[s].pc = "new"
    /\ conn' = [conn EXCEPT ![s] = ConnAt("loop", a, 0, 0)]
    /\ UNCHANGED <<mapVars, chan, closed, writeTo, readEnded, astray, sent, panicked>>

\* The select evaluates OutgoingQueue(clientID) before it waits.
LoopLooksUp(s) ==
    /\ conn[s].pc = "loop"
    /\ Touch(conn[s].addr)
    /\ conn' = [conn EXCEPT ![s] = ConnAt("wait", @.addr, QueueOf(@.addr), now)]
    /\ UNCHANGED <<chan, closed, writeTo, readEnded, astray, sent, panicked>>

Receives(s) ==
    /\ conn[s].pc = "wait" /\ chan[conn[s].ch] # <<>>
    /\ chan' = [chan EXCEPT ![conn[s].ch] = Tail(@)]
    /\ UNCHANGED <<mapVars, closed, writeTo, sent, panicked>>

\* The packet is written to the WebSocket.
LoopWrites(s) ==
    /\ Receives(s)
    /\ astray' = (astray \/ Head(chan[conn[s].ch]) # conn[s].addr)
    /\ conn' = [conn EXCEPT ![s] = ConnAt("loop", @.addr, 0, 0)]
    /\ UNCHANGED readEnded

\* The write fails: the packet is lost and the WebSocket closed.
LoopWriteFails(s) ==
    /\ Receives(s)
    /\ conn' = [conn EXCEPT ![s] = ConnDone]
    /\ readEnded' = readEnded \cup {s}
    /\ UNCHANGED astray

\* Mutant of LoopEnds: the write loop does not wait for done.
LoopEndsByQueueOnly(s) ==
    /\ conn[s].pc = "wait"
    /\ conn[s].ch \in closed /\ chan[conn[s].ch] = <<>>
    /\ conn' = [conn EXCEPT ![s] = ConnDone]
    /\ readEnded' = readEnded \cup {s}
    /\ UNCHANGED <<mapVars, chan, closed, writeTo, astray, sent, panicked>>

\* done is closed, or the queue is closed and empty.
LoopEnds(s) ==
    /\ conn[s].pc = "wait"
    /\ s \in readEnded \/ (conn[s].ch \in closed /\ chan[conn[s].ch] = <<>>)
    /\ conn' = [conn EXCEPT ![s] = ConnDone]
    /\ readEnded' = readEnded \cup {s}
    /\ UNCHANGED <<mapVars, chan, closed, writeTo, astray, sent, panicked>>

\* The read loop fails (the WebSocket broke, or the client left): close(done).
ReadLoopEnds(s) ==
    /\ conn[s].pc \in {"loop", "wait"} /\ s \notin readEnded
    /\ readEnded' = readEnded \cup {s}
    /\ UNCHANGED <<mapVars, chan, closed, writeTo, conn, astray, sent, panicked>>
-----------------------------------------------------------------------------

\* clientMapInner.Pop closes the SendQueue of every record it removes.
Sweeps ==
    /\ RemoveExpired
    /\ closed' = closed \cup {SendQueue[a] : a \in Present \ Range(inner'.flakes)}
    /\ UNCHANGED <<chan, writeTo, conn, readEnded, astray, sent, panicked>>

TimePasses ==
    /\ Tick \/ SweepReadsClock
    /\ UNCHANGED <<chan, closed, writeTo, conn, readEnded, astray, sent, panicked>>

ConnNext(s) == LoopLooksUp(s) \/ LoopWrites(s) \/ LoopWriteFails(s) \/ LoopEnds(s)

Next ==
    /\ ~panicked
    /\ \/ \E w \in Writers : WriteToSends(w) \/ \E a \in Addrs : WriteToLooksUp(w, a)
       \/ \E s \in Conns : ConnNext(s) \/ ReadLoopEnds(s) \/ \E a \in Addrs : Accepts(s, a)
       \/ Sweeps \/ TimePasses

Spec == Init /\ [][Next]_vars

(* A write loop that can go on does; the bound on the channels made must    *)
(* not stop it.  Neither KCP, the network, the clock nor the sweep has to.  *)
FairSpec == Spec /\ \A s \in Conns : WF_vars(~panicked /\ ConnNext(s))
-----------------------------------------------------------------------------
(* Every variable stays in its Go type, the channels within their capacity.    *)
TypeOK ==
    /\ MapTypeOK
    /\ \A q \in 1..MaxQueues : Len(chan[q]) <= QueueSize
    /\ closed \subseteq 1..queues
    /\ \A w \in Writers : writeTo[w].pc \in {"idle", "send"} /\ writeTo[w].ch \in 0..queues
    /\ \A s \in Conns : conn[s].pc \in {"new", "loop", "wait", "done"} /\ conn[s].ch \in 0..queues
    /\ readEnded \subseteq Conns /\ sent \in 0..MaxPackets /\ {astray, panicked} \subseteq BOOLEAN

(* What a WebSocket receives was written to its own client, whatever the    *)
(* heap has done to the positions in byAddr in the meantime.                *)
DeliveredToOwner == ~astray

(* A WebSocket whose channel is closed under it had waited for the timeout  *)
(* without a packet: no client that is being served is cut off.             *)
OnlyIdleAreCut ==
    \A s \in Conns : conn[s].pc = "wait" /\ conn[s].ch \in closed => now - conn[s].since >= Timeout

(* Only the client's newest channel is open: a queue that the map has       *)
(* forgotten is closed, so nobody waits on it for ever.                     *)
ForgottenAreClosed == \A q \in 1..queues : q \in closed \/ \E a \in Present : SendQueue[a] = q

(* When the read loop of a WebSocket ends its write loop ends too.          *)
WriteLoopEnds == \A s \in Conns : (s \in readEnded) ~> (conn[s].pc = "done" \/ panicked)

(* The positions in byAddr, the queues and the sweep agree: packets reach   *)
(* their own client, and exactly the queues of forgotten, idle clients are  *)
(* closed (clientmap.go:86, queuepacketconn.go:113).                        *)
QueuesServeOwners ==
    TypeOK /\ ByAddrConsistent /\ DeliveredToOwner /\ OnlyIdleAreCut /\ ForgottenAreClosed
=============================================================================
