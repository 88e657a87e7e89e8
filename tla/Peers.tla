------------------------------- MODULE Peers -------------------------------
(***************************************************************************)
(* The client's collection of WebRTC peers (iceball/client/lib/peers.go)    *)
(* and the goroutines of one session that share it (client/lib/snowflake.go *)
(* and webrtc.go): connectLoop calls Collect, the dialLoop of the           *)
(* RedialPacketConn calls Pop, the control-channel callbacks that follow a  *)
(* transfer call Push, and SnowflakeConn.Close calls End.  Push takes no    *)
(* lock.  Peers are numbered in the order they are made; a peer made by     *)
(* DirectConnect is "opening" until its data channel opens.                 *)
(***************************************************************************)
EXTENDS Integers, Sequences, FiniteSets, Functions

CONSTANTS Capacity,        \* Tongue.GetMax(): the capacity asked for
          Transfers,  \* control-channel callbacks that push a peer (at most once each)
          MaxPeers    \* bound: peers made during the run

ASSUME PeersBounds == Capacity \in Nat \ {0} /\ MaxPeers \in Nat

NilPeer == 0
PeerIds == 1..MaxPeers

VARIABLES
    made,           \* peers made so far
    state,          \* per peer: "none", "opening", "open" or "closed"
    snowflakeChan,  \* contents of the buffered channel, NilPeer standing for nil
    chanOpen,       \* FALSE after close(snowflakeChan)
    activePeers,    \* what the list holds, each peer once; its order does not matter
    lost,           \* elements its length counts and its links do not reach
    melted,         \* close(melt) was called
    loop,           \* connectLoop, Collect included: pc and the peer it caught
    lock,           \* TRUE while Collect or End holds collectLock
    push,           \* the transfer callbacks: pc and peer
    dial,           \* the dialLoop: pc and the peer in use
    pconn,          \* the RedialPacketConn: "open", "closed", or "failed" by a dial error
    close,          \* SnowflakeConn.Close: "open", "melt", "ended" or "done"
    panicked        \* why the process died, "no" while it lives

list == <<activePeers, lost>>
chan == <<snowflakeChan, chanOpen>>
vars == <<made, state, chan, list, melted, loop, lock, push, dial, pconn, close, panicked>>

Init ==
    /\ made = 0 /\ state = [p \in PeerIds |-> "none"]
    /\ snowflakeChan = <<>> /\ chanOpen = TRUE
    /\ activePeers = {} /\ lost = 0
    /\ melted = FALSE /\ lock = FALSE
    /\ loop = [pc |-> "start", peer |-> NilPeer]
    /\ push = [t \in Transfers |-> [pc |-> "idle", peer |-> NilPeer]]
    /\ dial = [pc |-> "top", peer |-> NilPeer]
    /\ pconn = "open" /\ close = "open" /\ panicked = "no"
-----------------------------------------------------------------------------
Closed(p) == state[p] = "closed"

Panic(why) ==
    /\ panicked' = why
    /\ UNCHANGED <<made, state, chan, list, melted, loop, lock, push, dial, pconn, close>>

\* purgeClosedPeers calls Closed on every element: a nil peer is dereferenced.
HasNil(s) == NilPeer \in s

Purged == {p \in activePeers : ~Closed(p)}

\* Count, once the list is purged: list.Len is a counter of its own.
Count == Cardinality(Purged) + lost

AtCapacity == Count >= Capacity

\* A peer that is being made takes the next number.
Make(how) == /\ made < MaxPeers
             /\ made' = made + 1
             /\ state' = [state EXCEPT ![made + 1] = how]

\* A send on snowflakeChan: blocks while it is full.
Send(p) == /\ Len(snowflakeChan) < Capacity
           /\ snowflakeChan' = Append(snowflakeChan, p)
           /\ UNCHANGED chanOpen
-----------------------------------------------------------------------------
(* connectLoop and Collect                                                  *)

\* The lock is taken, melt is looked at, then Count against the capacity.
CollectStarts ==
    /\ loop.pc = "start" /\ ~lock /\ (melted \/ ~HasNil(activePeers))
    /\ activePeers' = IF melted THEN activePeers ELSE Purged
    /\ IF melted \/ AtCapacity
         THEN loop' = [loop EXCEPT !.pc = "wait"] /\ UNCHANGED lock
         ELSE loop' = [loop EXCEPT !.pc = "catch"] /\ lock' = TRUE
    /\ UNCHANGED <<made, state, chan, lost, melted, push, dial, pconn, close, panicked>>

CollectMeetsNil ==
    /\ loop.pc = "start" /\ ~lock /\ ~melted /\ HasNil(activePeers)
    /\ Panic("nilPeer")

CatchFails ==
    /\ loop.pc = "catch"
    /\ loop' = [loop EXCEPT !.pc = "wait"] /\ lock' = FALSE
    /\ UNCHANGED <<made, state, chan, list, melted, push, dial, pconn, close, panicked>>

\* Catch returns only after the data channel has opened.
CatchReturns ==
    /\ loop.pc = "catch"
    /\ Make("open")
    /\ loop' = [pc |-> "track", peer |-> made']
    /\ UNCHANGED <<chan, list, melted, lock, push, dial, pconn, close, panicked>>

CollectTracks ==
    /\ loop.pc = "track"
    /\ activePeers' = activePeers \cup {loop.peer}
    /\ loop' = [loop EXCEPT !.pc = "send"]
    /\ UNCHANGED <<made, state, chan, lost, melted, lock, push, dial, pconn, close, panicked>>

CollectSends ==
    /\ loop.pc = "send"
    /\ IF chanOpen
         THEN /\ Send(loop.peer)
              /\ loop' = [loop EXCEPT !.pc = "wait"] /\ lock' = FALSE
              /\ UNCHANGED <<made, state, list, melted, push, dial, pconn, close, panicked>>
         ELSE Panic("sendOnClosed")

ReconnectTimeout ==
    /\ loop.pc = "wait"
    /\ loop' = [loop EXCEPT !.pc = "start"]
    /\ UNCHANGED <<made, state, chan, list, melted, lock, push, dial, pconn, close, panicked>>

ConnectLoopStops ==
    /\ loop.pc = "wait" /\ melted
    /\ loop' = [loop EXCEPT !.pc = "done"]
    /\ UNCHANGED <<made, state, chan, list, melted, lock, push, dial, pconn, close, panicked>>
-----------------------------------------------------------------------------
(* Transfer: dc2.OnMessage, DirectConnect, Push                             *)

\* A probe with a new backup proxy arrives on a connected peer.
TransferStarts(t) ==
    /\ push[t].pc = "idle" /\ \E p \in PeerIds : state[p] = "open"
    /\ push' = [push EXCEPT ![t].pc = "connect"]
    /\ UNCHANGED <<made, state, chan, list, melted, loop, lock, dial, pconn, close, panicked>>

DirectConnectFails(t) ==
    /\ push[t].pc = "connect"
    /\ push' = [push EXCEPT ![t].pc = "done"]
    /\ UNCHANGED <<made, state, chan, list, melted, loop, lock, dial, pconn, close, panicked>>

\* A status other than 200 returns a nil peer with the nil error of the POST.
DirectConnectRefused(t) ==
    /\ push[t].pc = "connect"
    /\ push' = [push EXCEPT ![t] = [pc |-> "track", peer |-> NilPeer]]
    /\ UNCHANGED <<made, state, chan, list, melted, loop, lock, dial, pconn, close, panicked>>

\* DirectConnect returns without waiting for the data channel to open.
DirectConnectReturns(t) ==
    /\ push[t].pc = "connect"
    /\ Make("opening")
    /\ push' = [push EXCEPT ![t] = [pc |-> "track", peer |-> made']]
    /\ UNCHANGED <<chan, list, melted, loop, lock, dial, pconn, close, panicked>>

PushTracks(t) ==
    /\ push[t].pc = "track"
    /\ activePeers' = activePeers \cup {push[t].peer}
    /\ push' = [push EXCEPT ![t].pc = "send"]
    /\ UNCHANGED <<made, state, chan, lost, melted, loop, lock, dial, pconn, close, panicked>>

\* Push does not hold collectLock: when its PushBack runs at the same time as
\* Collect's or another Push's, both link behind the same element, one of them
\* is unreachable, and the length counts both.
Races(p, q) ==
    /\ \E r \in {p, q} : activePeers' = activePeers \cup {r}
    /\ lost' = lost + 1
    /\ UNCHANGED <<made, state, chan, melted, lock, dial, pconn, close, panicked>>

PushBackRace(t) ==
    /\ push[t].pc = "track"
    /\ \/ /\ loop.pc = "track" /\ Races(push[t].peer, loop.peer)
          /\ push' = [push EXCEPT ![t].pc = "send"]
          /\ loop' = [loop EXCEPT !.pc = "send"]
       \/ \E u \in Transfers \ {t} :
          /\ push[u].pc = "track" /\ Races(push[t].peer, push[u].peer)
          /\ push' = [push EXCEPT ![t].pc = "send", ![u].pc = "send"]
          /\ UNCHANGED loop

PushSends(t) ==
    /\ push[t].pc = "send"
    /\ IF chanOpen
         THEN /\ Send(push[t].peer)
              /\ push' = [push EXCEPT ![t].pc = "done"]
              /\ UNCHANGED <<made, state, list, melted, loop, lock, dial, pconn, close, panicked>>
         ELSE Panic("sendOnClosed")

(* The network: a data channel opens, or closes (OnClose calls Close).      *)
Opens(p) ==
    /\ state[p] = "opening"
    /\ state' = [state EXCEPT ![p] = "open"]
    /\ UNCHANGED <<made, chan, list, melted, loop, lock, push, dial, pconn, close, panicked>>

PeerCloses(p) ==
    /\ state[p] \in {"opening", "open"}
    /\ state' = [state EXCEPT ![p] = "closed"]
    /\ UNCHANGED <<made, chan, list, melted, loop, lock, push, dial, pconn, close, panicked>>
-----------------------------------------------------------------------------
(* dialLoop, dialContext and Pop                                            *)

DialLoopTop ==
    /\ dial.pc = "top"
    /\ dial' = [dial EXCEPT !.pc = IF pconn = "open" THEN "pop" ELSE "done"]
    /\ UNCHANGED <<made, state, chan, list, melted, loop, lock, push, pconn, close, panicked>>

Pop ==
    /\ dial.pc = "pop" /\ snowflakeChan # <<>> /\ Head(snowflakeChan) # NilPeer
    /\ snowflakeChan' = Tail(snowflakeChan)
    /\ dial' = IF Closed(Head(snowflakeChan)) THEN dial
               ELSE [pc |-> "write", peer |-> Head(snowflakeChan)]
    /\ UNCHANGED <<made, state, chanOpen, list, melted, loop, lock, push, pconn, close, panicked>>

PopMeetsNil ==
    /\ dial.pc = "pop" /\ snowflakeChan # <<>> /\ Head(snowflakeChan) = NilPeer
    /\ Panic("nilPeer")

\* closeWithError does its work once; a later Close changes nothing.
DialFails ==
    /\ dial' = [dial EXCEPT !.pc = "done"]
    /\ pconn' = IF pconn = "open" THEN "failed" ELSE pconn
    /\ UNCHANGED <<made, state, chan, list, melted, loop, lock, push, close, panicked>>

\* Pop returns nil once the channel is closed and empty.
PopEnds == dial.pc = "pop" /\ snowflakeChan = <<>> /\ ~chanOpen /\ DialFails

\* The token and the ClientID are written: an error ends the dialLoop.
WriteFails == dial.pc = "write" /\ state[dial.peer] # "open" /\ DialFails

WriteSucceeds ==
    /\ dial.pc = "write" /\ state[dial.peer] = "open"
    /\ dial' = [dial EXCEPT !.pc = "exchange"]
    /\ UNCHANGED <<made, state, chan, list, melted, loop, lock, push, pconn, close, panicked>>

\* exchange returns when the peer fails or the RedialPacketConn is closed.
ExchangeEnds ==
    /\ dial.pc = "exchange" /\ (Closed(dial.peer) \/ pconn # "open")
    /\ state' = [state EXCEPT ![dial.peer] = "closed"]
    /\ dial' = [dial EXCEPT !.pc = "top"]
    /\ UNCHANGED <<made, chan, list, melted, loop, lock, push, pconn, close, panicked>>
-----------------------------------------------------------------------------
(* SnowflakeConn.Close and End                                              *)

EndMelts ==
    /\ close = "open"
    /\ melted' = TRUE /\ close' = "melt"
    /\ UNCHANGED <<made, state, chan, list, loop, lock, push, dial, pconn, panicked>>

\* Mutant of EndCloses: the lock is not waited for.
EndClosesUnlocked ==
    /\ close = "melt" /\ ~HasNil(activePeers)
    /\ chanOpen' = FALSE
    /\ state' = [p \in PeerIds |-> IF p \in activePeers THEN "closed" ELSE state[p]]
    /\ activePeers' = {}
    /\ close' = "ended"
    /\ UNCHANGED <<made, snowflakeChan, lost, melted, loop, lock, push, dial, pconn, panicked>>

\* Mutant of EndCloses: the peers waiting in the channel are closed, not the
\* ones that were popped.
EndClosesWaiting ==
    /\ close = "melt" /\ ~lock /\ ~HasNil(activePeers)
    /\ chanOpen' = FALSE
    /\ state' = [p \in PeerIds |-> IF p \in Range(snowflakeChan) THEN "closed" ELSE state[p]]
    /\ activePeers' = {}
    /\ close' = "ended"
    /\ UNCHANGED <<made, snowflakeChan, lost, melted, loop, lock, push, dial, pconn, panicked>>

\* Mutant of EndCloses: the channel is left open.
EndLeavesChannel ==
    /\ close = "melt" /\ ~lock /\ ~HasNil(activePeers)
    /\ state' = [p \in PeerIds |-> IF p \in activePeers THEN "closed" ELSE state[p]]
    /\ activePeers' = {}
    /\ close' = "ended"
    /\ UNCHANGED <<made, chan, lost, melted, loop, lock, push, dial, pconn, panicked>>

EndCloses ==
    /\ close = "melt" /\ ~lock /\ ~HasNil(activePeers)
    /\ chanOpen' = FALSE
    /\ state' = [p \in PeerIds |-> IF p \in activePeers THEN "closed" ELSE state[p]]
    /\ activePeers' = {}
    /\ close' = "ended"
    /\ UNCHANGED <<made, snowflakeChan, lost, melted, loop, lock, push, dial, pconn, panicked>>

EndMeetsNil == close = "melt" /\ ~lock /\ HasNil(activePeers) /\ Panic("nilPeer")

ClosesPconn ==
    /\ close = "ended"
    /\ pconn' = IF pconn = "open" THEN "closed" ELSE pconn
    /\ close' = "done"
    /\ UNCHANGED <<made, state, chan, list, melted, loop, lock, push, dial, panicked>>
-----------------------------------------------------------------------------
CollectNext ==
    \/ CollectStarts \/ CollectMeetsNil \/ CatchFails \/ CatchReturns
    \/ CollectTracks \/ CollectSends
    \/ ReconnectTimeout \/ ConnectLoopStops

TransferNext(t) ==
    \/ TransferStarts(t) \/ DirectConnectFails(t) \/ DirectConnectRefused(t)
    \/ DirectConnectReturns(t) \/ PushTracks(t) \/ PushBackRace(t)
    \/ PushSends(t)

DialNext ==
    \/ DialLoopTop \/ Pop \/ PopMeetsNil \/ PopEnds
    \/ WriteFails \/ WriteSucceeds \/ ExchangeEnds

CloseNext == EndMelts \/ EndCloses \/ EndMeetsNil \/ ClosesPconn

Next ==
    /\ panicked = "no"
    /\ \/ CollectNext \/ DialNext \/ CloseNext
       \/ \E t \in Transfers : TransferNext(t)
       \/ \E p \in PeerIds : Opens(p) \/ PeerCloses(p)

Spec == Init /\ [][Next]_vars

(* Collect, the dialLoop and Close go on while they can.  Nothing makes the *)
(* broker or a proxy answer (Catch and DirectConnect may never return), the *)
(* network open or close a channel, or the user close the session.          *)
Fairness ==
    /\ WF_vars(panicked = "no" /\ (CollectTracks \/ CollectSends))
    /\ WF_vars(panicked = "no" /\ DialNext)
    /\ WF_vars(panicked = "no" /\ (EndCloses \/ EndMeetsNil \/ ClosesPconn))

FairSpec == Spec /\ Fairness
-----------------------------------------------------------------------------
Live == {p \in PeerIds : state[p] \in {"opening", "open"}}
Pushed == {push[t].peer : t \in Transfers}

(* Every variable stays in its Go type, the channels within their capacity.    *)
TypeOK ==
    /\ made \in 0..MaxPeers
    /\ state \in [PeerIds -> {"none", "opening", "open", "closed"}]
    /\ snowflakeChan \in Seq(0..MaxPeers) /\ Len(snowflakeChan) <= Capacity
    /\ activePeers \subseteq 0..MaxPeers /\ lost \in Nat
    /\ {chanOpen, melted, lock} \subseteq BOOLEAN
    /\ loop \in [pc : {"start", "catch", "track", "send", "wait", "done"}, peer : 0..MaxPeers]
    /\ push \in [Transfers -> [pc : {"idle", "connect", "track", "send", "done"},
                               peer : 0..MaxPeers]]
    /\ dial \in [pc : {"top", "pop", "write", "exchange", "done"}, peer : 0..MaxPeers]
    /\ pconn \in {"open", "closed", "failed"}
    /\ close \in {"open", "melt", "ended", "done"}
    /\ panicked \in {"no", "nilPeer", "sendOnClosed"}

(* Collect looks at melt once and sends much later, yet never on the        *)
(* channel that End closes; only a transfer's unlocked Push can.            *)
CollectSendsOnOpen == loop.pc = "send" => chanOpen

(* Collect never holds more than Capacity live peers, whatever closes while it   *)
(* waits for the broker and however many peers transfers push past it.      *)
CollectedWithinMax == Cardinality(Live \ Pushed) <= Capacity

(* "End closes all active connections": when it has returned nothing that   *)
(* Collect tracked is alive, the peer that the dialLoop is using included.  *)
EndClosesAll == close \in {"ended", "done"} /\ lost = 0 => Live \subseteq Pushed

(* No live peer is out of End's reach: it is in activePeers, or Collect or  *)
(* Push is about to put it there, as long as no PushBack raced another.     *)
LivePeersTracked ==
    lost = 0 =>
        \A p \in Live :
            \/ p \in activePeers
            \/ loop = [pc |-> "track", peer |-> p]
            \/ \E t \in Transfers : push[t] = [pc |-> "track", peer |-> p]

(* Once End has closed the channel the dialLoop stops: it leaves Pop, or    *)
(* the exchange on a peer that End closed.                                  *)
DialLoopStops == (close = "ended") ~> (dial.pc = "done" \/ panicked # "no")

(* Whatever Collect, Push, Pop and End do at once, Collect stays within its *)
(* capacity, End reaches every live peer and leaves none of Collect's alive.*)
EndReachesAll == TypeOK /\ CollectedWithinMax /\ LivePeersTracked /\ EndClosesAll
=============================================================================
