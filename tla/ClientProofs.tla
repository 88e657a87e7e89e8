---------------------------- MODULE ClientProofs ----------------------------
(***************************************************************************)
(* Theorems about the client, for every value of the constants: its peers   *)
(* (Peers), its packet connection over a sequence of proxies                *)
(* (RedialPacketConn), and its SOCKS front end (Front).                     *)
(***************************************************************************)
EXTENDS Peers, RedialPacketConn, Front, FiniteSetTheorems, TLAPS

(***************************************************************************)
(* Peers.  Collect never sends on the channel that End closes, for every    *)
(* capacity and any number of transfers and peers.  The argument is about   *)
(* collectLock: Collect holds it from the moment it has seen melt open      *)
(* until it has sent, End closes the channel only while it holds the lock   *)
(* itself, and by then melt is closed, so no later Collect gets that far.   *)
(* Then End reaches every live peer and Collect keeps to its capacity: what *)
(* Collect made and the list has lost is counted by the length of the list. *)
(***************************************************************************)

LoopPCs == {"start", "catch", "track", "send", "wait", "done"}
Collecting == loop.pc \in {"catch", "track", "send"}

\* What of the types the argument needs.
LoopType == loop \in [pc : LoopPCs, peer : 0..MaxPeers] /\ made \in Nat

\* Collect holds the lock while it is past the check, and only then is it held.
LockHeld == lock <=> Collecting

\* The channel is closed only after melt, and not under a Collect past the check.
ClosedAfterMelt == close # "open" => melted
OpenWhileCollecting == ~chanOpen => melted /\ ~Collecting

IInv == LoopType /\ LockHeld /\ ClosedAfterMelt /\ OpenWhileCollecting

USE PeersBounds DEF LoopPCs, PeerIds, NilPeer

(* Initially nobody collects and melt and the channel are open.             *)
LEMMA InitEstablishes == Init => IInv
BY DEF Init, IInv, LoopType, LockHeld, ClosedAfterMelt, OpenWhileCollecting, Collecting

(* A step that leaves the loop, the lock and End alone keeps the invariant. *)
LEMMA OthersKeep ==
    ASSUME IInv, UNCHANGED <<loop, lock, melted, close>>, made' \in Nat, chanOpen' = chanOpen
    PROVE  IInv'
BY DEF IInv, LoopType, LockHeld, ClosedAfterMelt, OpenWhileCollecting, Collecting

(* A panic changes nothing that the invariant speaks of.                    *)
LEMMA PanicKeeps == ASSUME IInv, NEW why, Panic(why) PROVE IInv'
<1>1. UNCHANGED <<loop, lock, melted, close>> /\ made' = made /\ chanOpen' = chanOpen
  BY DEF Panic, chan
<1> QED BY <1>1, OthersKeep DEF IInv, LoopType

(* connectLoop and Collect: past the check the lock is held, and the check  *)
(* is passed only while melt, hence the channel, is open.                   *)
LEMMA CollectKeeps == ASSUME IInv, CollectNext PROVE IInv'
<1> USE DEF IInv, LoopType, LockHeld, ClosedAfterMelt, OpenWhileCollecting, Collecting
<1>1. CASE CollectStarts
  <2>1. UNCHANGED <<made, chanOpen, melted, close>> /\ loop.pc = "start" /\ ~lock
    BY <1>1 DEF CollectStarts, chan
  <2>2. CASE melted \/ AtCapacity
    <3>1. loop' = [loop EXCEPT !.pc = "wait"] /\ lock' = lock
      BY <1>1, <2>2 DEF CollectStarts
    <3> QED BY <2>1, <3>1
  <2>3. CASE ~(melted \/ AtCapacity)
    <3>1. loop' = [loop EXCEPT !.pc = "catch"] /\ lock' = TRUE /\ ~melted
      BY <1>1, <2>3 DEF CollectStarts
    <3> QED BY <2>1, <3>1
  <2> QED BY <2>2, <2>3
<1>2. CASE CollectMeetsNil
  BY <1>2, PanicKeeps DEF CollectMeetsNil
<1>3. CASE CatchFails
  BY <1>3 DEF CatchFails, chan
<1>4. CASE CatchReturns
  BY <1>4 DEF CatchReturns, Make, chan
<1>5. CASE CollectTracks
  BY <1>5 DEF CollectTracks, chan
<1>6. CASE CollectSends
  <2>1. CASE chanOpen
    BY <1>6, <2>1 DEF CollectSends, Send
  <2>2. CASE ~chanOpen
    BY <1>6, <2>2, PanicKeeps DEF CollectSends
  <2> QED BY <2>1, <2>2
<1>7. CASE ReconnectTimeout
  BY <1>7 DEF ReconnectTimeout, chan
<1>8. CASE ConnectLoopStops
  BY <1>8 DEF ConnectLoopStops, chan
<1> QED BY <1>1, <1>2, <1>3, <1>4, <1>5, <1>6, <1>7, <1>8 DEF CollectNext

(* End: melt is closed first, and the channel only while nobody collects.   *)
LEMMA CloseKeeps == ASSUME IInv, CloseNext PROVE IInv'
<1> USE DEF IInv, LoopType, LockHeld, ClosedAfterMelt, OpenWhileCollecting, Collecting
<1>1. CASE EndMelts
  BY <1>1 DEF EndMelts, chan
<1>2. CASE EndCloses
  BY <1>2 DEF EndCloses
<1>3. CASE EndMeetsNil
  BY <1>3, PanicKeeps DEF EndMeetsNil
<1>4. CASE ClosesPconn
  BY <1>4 DEF ClosesPconn, chan
<1> QED BY <1>1, <1>2, <1>3, <1>4 DEF CloseNext

(* A transfer takes no lock, and moves connectLoop only when its PushBack   *)
(* races Collect's: from one place past the check to the next.              *)
LEMMA TransferKeeps == ASSUME IInv, NEW t \in Transfers, TransferNext(t) PROVE IInv'
<1> USE DEF IInv, LoopType
<1>1. CASE TransferStarts(t) \/ DirectConnectFails(t) \/ DirectConnectRefused(t)
  BY <1>1, OthersKeep DEF TransferStarts, DirectConnectFails, DirectConnectRefused, chan
<1>2. CASE DirectConnectReturns(t)
  BY <1>2, OthersKeep DEF DirectConnectReturns, Make, chan
<1>3. CASE PushTracks(t)
  BY <1>3, OthersKeep DEF PushTracks, chan
<1>4. CASE PushBackRace(t)
  <2>1. UNCHANGED <<made, chanOpen, melted, lock, close>>
    BY <1>4 DEF PushBackRace, Races, chan
  <2>2. CASE UNCHANGED loop
    BY <2>1, <2>2, OthersKeep
  <2>3. CASE loop.pc = "track" /\ loop' = [loop EXCEPT !.pc = "send"]
    BY <2>1, <2>3 DEF LockHeld, ClosedAfterMelt, OpenWhileCollecting, Collecting
  <2> QED BY <1>4, <2>2, <2>3 DEF PushBackRace
<1>5. CASE PushSends(t)
  <2>1. CASE chanOpen
    <3>1. UNCHANGED <<loop, lock, melted, close, made, chanOpen>>
      BY <1>5, <2>1 DEF PushSends, Send
    <3> QED BY <3>1, OthersKeep
  <2>2. CASE ~chanOpen
    BY <1>5, <2>2, PanicKeeps DEF PushSends
  <2> QED BY <2>1, <2>2
<1> QED BY <1>1, <1>2, <1>3, <1>4, <1>5 DEF TransferNext

(* The dialLoop touches neither the lock nor End.                           *)
LEMMA DialKeeps == ASSUME IInv, DialNext PROVE IInv'
<1> USE DEF IInv, LoopType
<1>1. CASE DialLoopTop \/ Pop \/ WriteSucceeds \/ ExchangeEnds
  BY <1>1, OthersKeep DEF DialLoopTop, Pop, WriteSucceeds, ExchangeEnds, chan
<1>2. CASE PopEnds \/ WriteFails
  BY <1>2, OthersKeep DEF PopEnds, WriteFails, DialFails, chan
<1>3. CASE PopMeetsNil
  BY <1>3, PanicKeeps DEF PopMeetsNil
<1> QED BY <1>1, <1>2, <1>3 DEF DialNext

(* Nor do data channels that open or close.                                 *)
LEMMA NetworkKeeps == ASSUME IInv, NEW p \in PeerIds, Opens(p) \/ PeerCloses(p) PROVE IInv'
BY OthersKeep DEF IInv, LoopType, Opens, PeerCloses, chan

(* The invariant holds in every reachable state.                            *)
THEOREM InvHolds == Spec => []IInv
<1>1. Init => IInv
  BY InitEstablishes
<1>2. IInv /\ [Next]_vars => IInv'
  <2> SUFFICES ASSUME IInv, [Next]_vars PROVE IInv'
    OBVIOUS
  <2>1. CASE Next
    BY <2>1, CollectKeeps, DialKeeps, CloseKeeps, TransferKeeps, NetworkKeeps DEF Next
  <2>2. CASE UNCHANGED vars
    <3>1. UNCHANGED <<loop, lock, melted, close, made, chanOpen>>
      BY <2>2 DEF vars, chan
    <3> QED BY <3>1, OthersKeep DEF IInv, LoopType
  <2> QED BY <2>1, <2>2
<1> QED BY <1>1, <1>2, PTL DEF Spec

(* For every capacity, however many transfers push peers and whatever peers *)
(* die: Collect's send meets an open channel, although it was decided on    *)
(* before a wait for the broker during which End may have begun.            *)
THEOREM CollectSendsOnOpenHolds == Spec => []CollectSendsOnOpen
<1>1. IInv => CollectSendsOnOpen
  BY DEF IInv, OpenWhileCollecting, Collecting, CollectSendsOnOpen
<1> QED BY <1>1, InvHolds, PTL

-----------------------------------------------------------------------------
(***************************************************************************)
(* The second argument: End reaches every live peer and Collect stays      *)
(* within the capacity.  Collect may count less than is alive only if a    *)
(* peer of its own is neither in the list nor in its hand, and each such   *)
(* stray was counted in lost by the race that dropped it.                  *)
(***************************************************************************)

\* What Collect made, and what of it neither the list nor Collect holds.
Collected == Live \ Pushed
InHand == IF loop.pc = "track" THEN {loop.peer} ELSE {}
Strays == Collected \ (activePeers \cup InHand)

StraysCounted == Cardinality(Strays) <= lost
RoomForOne == loop.pc = "catch" => Cardinality(Collected) < Capacity

\* Peers are numbered as they are made, and a transfer holds none before that.
Numbered == /\ \A p \in PeerIds : state[p] = "none" <=> p > made
            /\ loop.peer <= made /\ dial.peer <= made /\ \A t \in Transfers : push[t].peer <= made
            /\ \A p \in activePeers : p <= made
            /\ \A i \in DOMAIN snowflakeChan : snowflakeChan[i] <= made
HoldsNone == \A t \in Transfers : push[t].pc \in {"idle", "connect"} => push[t].peer = NilPeer

Ended == close \in {"ended", "done"}
EndedIsClosed == Ended => ~chanOpen

Reach == /\ HoldsNone /\ EndedIsClosed
         /\ StraysCounted /\ RoomForOne
         /\ CollectedWithinMax /\ LivePeersTracked /\ EndClosesAll

(* Appending to and taking from the channel of peers.                       *)
LEMMA ChannelTypes ==
    ASSUME TypeOK
    PROVE  /\ \A p \in 0..MaxPeers : Send(p) =>
                 snowflakeChan' \in Seq(0..MaxPeers) /\ Len(snowflakeChan') <= Capacity
           /\ snowflakeChan # <<>> => /\ Head(snowflakeChan) \in 0..MaxPeers
                                      /\ Tail(snowflakeChan) \in Seq(0..MaxPeers)
                                      /\ Len(Tail(snowflakeChan)) <= Capacity
<1> DEFINE S == 0..MaxPeers
<1>1. snowflakeChan \in Seq(S) /\ Len(snowflakeChan) <= Capacity
  BY DEF TypeOK
<1>2. \A p \in S : Send(p) => snowflakeChan' = Append(snowflakeChan, p) /\ Len(snowflakeChan) < Capacity
  BY DEF Send
<1> HIDE DEF S
<1>3. \A p \in S : Send(p) => snowflakeChan' \in Seq(S) /\ Len(snowflakeChan') <= Capacity
  BY <1>1, <1>2
<1>4. snowflakeChan # <<>> => /\ Head(snowflakeChan) \in S /\ Tail(snowflakeChan) \in Seq(S)
                              /\ Len(Tail(snowflakeChan)) <= Capacity
  BY <1>1
<1> QED BY <1>3, <1>4 DEF S

(* Every variable keeps its Go type.                                        *)
LEMMA TypeInit == Init => TypeOK
<1> SUFFICES ASSUME Init PROVE TypeOK
  OBVIOUS
<1>1. snowflakeChan \in Seq(0..MaxPeers) /\ Len(snowflakeChan) <= Capacity
  BY DEF Init
<1>2. push \in [Transfers -> [pc : {"idle", "connect", "track", "send", "done"}, peer : 0..MaxPeers]]
  BY DEF Init
<1>3. /\ loop \in [pc : LoopPCs, peer : 0..MaxPeers]
      /\ dial \in [pc : {"top", "pop", "write", "exchange", "done"}, peer : 0..MaxPeers]
  BY DEF Init
<1>4. made \in 0..MaxPeers /\ state \in [PeerIds -> {"none", "opening", "open", "closed"}] /\ lost \in Nat
  BY DEF Init
<1> QED BY <1>1, <1>2, <1>3, <1>4 DEF Init, TypeOK

LEMMA TypeCollect == ASSUME TypeOK, CollectNext PROVE TypeOK'
<1>1. CASE CollectStarts
  <2>1. lock' \in BOOLEAN /\ loop' \in [pc : LoopPCs, peer : 0..MaxPeers]
        /\ activePeers' \subseteq 0..MaxPeers
    BY ZenonT(30), <1>1 DEF TypeOK, CollectStarts, Purged
  <2> QED BY <1>1, <2>1 DEF TypeOK, CollectStarts, chan
<1>2. CASE CollectMeetsNil
  BY <1>2 DEF TypeOK, CollectMeetsNil, Panic, chan, list
<1>3. CASE CatchFails
  BY <1>3 DEF TypeOK, CatchFails, chan, list
<1>4. CASE CatchReturns
  <2>1. made' \in 0..MaxPeers /\ state' \in [PeerIds -> {"none", "opening", "open", "closed"}]
        /\ loop' \in [pc : LoopPCs, peer : 0..MaxPeers]
    BY <1>4 DEF TypeOK, CatchReturns, Make
  <2> QED BY <1>4, <2>1 DEF TypeOK, CatchReturns, chan, list
<1>5. CASE CollectTracks
  <2>1. loop' \in [pc : LoopPCs, peer : 0..MaxPeers] /\ activePeers' \subseteq 0..MaxPeers
    BY <1>5 DEF TypeOK, CollectTracks
  <2> QED BY <1>5, <2>1 DEF TypeOK, CollectTracks, chan
<1>6. CASE CollectSends
  <2>1. CASE chanOpen
    <3>1. loop.peer \in 0..MaxPeers /\ loop' = [loop EXCEPT !.pc = "wait"] /\ Send(loop.peer) /\ lock' = FALSE
          /\ chanOpen' = chanOpen
      BY <1>6, <2>1 DEF TypeOK, CollectSends, Send
    <3>2. snowflakeChan' \in Seq(0..MaxPeers) /\ Len(snowflakeChan') <= Capacity
      BY <3>1, ChannelTypes
    <3>3. loop' \in [pc : LoopPCs, peer : 0..MaxPeers]
      BY <3>1 DEF TypeOK
    <3> QED BY <1>6, <2>1, <3>1, <3>2, <3>3 DEF TypeOK, CollectSends, list
  <2>2. CASE ~chanOpen
    BY <1>6, <2>2 DEF TypeOK, CollectSends, Panic, chan, list
  <2> QED BY <2>1, <2>2
<1>7. CASE ReconnectTimeout \/ ConnectLoopStops
  BY <1>7 DEF TypeOK, ReconnectTimeout, ConnectLoopStops, chan, list
<1> QED BY <1>1, <1>2, <1>3, <1>4, <1>5, <1>6, <1>7 DEF CollectNext

LEMMA TypeTransfer == ASSUME TypeOK, NEW t \in Transfers, TransferNext(t) PROVE TypeOK'
<1> DEFINE PushType == [pc : {"idle", "connect", "track", "send", "done"}, peer : 0..MaxPeers]
<1>0. push \in [Transfers -> PushType] /\ push[t].peer \in 0..MaxPeers
  BY DEF TypeOK
<1>1. CASE TransferStarts(t) \/ DirectConnectFails(t) \/ DirectConnectRefused(t)
  <2>1. push' \in [Transfers -> PushType]
    BY <1>0, <1>1 DEF TransferStarts, DirectConnectFails, DirectConnectRefused
  <2>2. UNCHANGED <<made, state, chan, list, melted, loop, lock, dial, pconn, close, panicked>>
    BY <1>1 DEF TransferStarts, DirectConnectFails, DirectConnectRefused
  <2> QED BY <2>1, <2>2 DEF TypeOK, chan, list
<1>2. CASE DirectConnectReturns(t)
  <2>1. made' \in 0..MaxPeers /\ state' \in [PeerIds -> {"none", "opening", "open", "closed"}]
    BY <1>2 DEF TypeOK, DirectConnectReturns, Make
  <2>2. push' = [push EXCEPT ![t] = [pc |-> "track", peer |-> made']]
    BY <1>2 DEF DirectConnectReturns
  <2>3. push' \in [Transfers -> PushType]
    BY <1>0, <2>1, <2>2
  <2> QED BY <1>2, <2>1, <2>3 DEF TypeOK, DirectConnectReturns, chan, list
<1>3. CASE PushTracks(t)
  <2>1. push' \in [Transfers -> PushType] /\ activePeers' \subseteq 0..MaxPeers
    BY <1>0, <1>3 DEF TypeOK, PushTracks
  <2> QED BY <1>3, <2>1 DEF TypeOK, PushTracks, chan
<1>4. CASE PushBackRace(t)
  <2>1. ASSUME NEW q \in 0..MaxPeers, Races(push[t].peer, q)
        PROVE  activePeers' \subseteq 0..MaxPeers /\ lost' \in Nat
               /\ UNCHANGED <<made, state, chan, melted, lock, dial, pconn, close, panicked>>
    BY <1>0, <2>1 DEF TypeOK, Races
  <2>2. CASE loop.pc = "track" /\ Races(push[t].peer, loop.peer)
             /\ push' = [push EXCEPT ![t].pc = "send"] /\ loop' = [loop EXCEPT !.pc = "send"]
    <3>1. push' \in [Transfers -> PushType] /\ loop' \in [pc : LoopPCs, peer : 0..MaxPeers]
          /\ loop.peer \in 0..MaxPeers
      BY <1>0, <2>2 DEF TypeOK
    <3> QED BY <2>1, <2>2, <3>1 DEF TypeOK, chan
  <2>3. ASSUME NEW u \in Transfers \ {t}, Races(push[t].peer, push[u].peer),
               push' = [push EXCEPT ![t].pc = "send", ![u].pc = "send"], UNCHANGED loop
        PROVE  TypeOK'
    <3>1. push' \in [Transfers -> PushType] /\ push[u].peer \in 0..MaxPeers
      BY <1>0, <2>3
    <3> QED BY ZenonT(30), <2>1, <2>3, <3>1 DEF TypeOK, chan
  <2> QED BY <1>4, <2>2, <2>3 DEF PushBackRace
<1>5. CASE PushSends(t)
  <2>1. CASE chanOpen
    <3>1. Send(push[t].peer) /\ push' = [push EXCEPT ![t].pc = "done"] /\ chanOpen' = chanOpen
      BY <1>5, <2>1 DEF PushSends, Send
    <3>2. snowflakeChan' \in Seq(0..MaxPeers) /\ Len(snowflakeChan') <= Capacity
      BY <1>0, <3>1, ChannelTypes
    <3>3. push' \in [Transfers -> PushType]
      BY <1>0, <3>1
    <3> QED BY <1>5, <2>1, <3>1, <3>2, <3>3 DEF TypeOK, PushSends, list
  <2>2. CASE ~chanOpen
    BY <1>5, <2>2 DEF TypeOK, PushSends, Panic, chan, list
  <2> QED BY <2>1, <2>2
<1> QED BY <1>1, <1>2, <1>3, <1>4, <1>5 DEF TransferNext

LEMMA TypeOthers ==
    ASSUME TypeOK, DialNext \/ CloseNext \/ \E p \in PeerIds : Opens(p) \/ PeerCloses(p)
    PROVE  TypeOK'
<1>1. CASE DialLoopTop \/ WriteSucceeds
  BY <1>1 DEF TypeOK, DialLoopTop, WriteSucceeds, chan, list
<1>2. CASE Pop
  <2>1. snowflakeChan # <<>> /\ snowflakeChan' = Tail(snowflakeChan)
    BY <1>2 DEF Pop
  <2> DEFINE h == Head(snowflakeChan)
  <2>2. snowflakeChan' \in Seq(0..MaxPeers) /\ Len(snowflakeChan') <= Capacity /\ h \in 0..MaxPeers
    BY <2>1, ChannelTypes
  <2>3. dial' = IF Closed(h) THEN dial ELSE [pc |-> "write", peer |-> h]
    BY <1>2 DEF Pop
  <2> HIDE DEF h
  <2>4. dial' \in [pc : {"top", "pop", "write", "exchange", "done"}, peer : 0..MaxPeers]
    BY <2>2, <2>3 DEF TypeOK
  <2> QED BY <1>2, <2>2, <2>4 DEF TypeOK, Pop, list
<1>3. CASE PopMeetsNil \/ EndMeetsNil
  BY <1>3 DEF TypeOK, PopMeetsNil, EndMeetsNil, Panic, chan, list
<1>4. CASE PopEnds \/ WriteFails
  <2>1. DialFails
    BY <1>4 DEF PopEnds, WriteFails
  <2> QED BY <2>1 DEF TypeOK, DialFails, chan, list
<1>5. CASE ExchangeEnds
  <2>1. state' \in [PeerIds -> {"none", "opening", "open", "closed"}]
        /\ dial' \in [pc : {"top", "pop", "write", "exchange", "done"}, peer : 0..MaxPeers]
    BY <1>5 DEF TypeOK, ExchangeEnds
  <2> QED BY <1>5, <2>1 DEF TypeOK, ExchangeEnds, chan, list
<1>6. CASE EndMelts \/ ClosesPconn
  BY <1>6 DEF TypeOK, EndMelts, ClosesPconn, chan, list
<1>7. CASE EndCloses
  <2>1. state' \in [PeerIds -> {"none", "opening", "open", "closed"}] /\ activePeers' \subseteq 0..MaxPeers
    BY <1>7 DEF TypeOK, EndCloses
  <2> QED BY <1>7, <2>1 DEF TypeOK, EndCloses
<1>8. ASSUME NEW p \in PeerIds, Opens(p) \/ PeerCloses(p) PROVE TypeOK'
  <2>1. state' \in [PeerIds -> {"none", "opening", "open", "closed"}]
    BY <1>8 DEF TypeOK, Opens, PeerCloses
  <2> QED BY ZenonT(30), <1>8, <2>1 DEF TypeOK, Opens, PeerCloses, chan, list
<1> QED BY <1>1, <1>2, <1>3, <1>4, <1>5, <1>6, <1>7, <1>8 DEF DialNext, CloseNext

LEMMA TypeNext == TypeOK /\ [Next]_vars => TypeOK'
<1> SUFFICES ASSUME TypeOK, [Next]_vars PROVE TypeOK'
  OBVIOUS
<1>1. CASE Next
  BY <1>1, TypeCollect, TypeTransfer, TypeOthers DEF Next
<1>2. CASE UNCHANGED vars
  BY <1>2 DEF TypeOK, vars, chan, list
<1> QED BY <1>1, <1>2

(* A step that makes no peer and takes none from elsewhere.                 *)
LEMMA NumberedStep ==
    ASSUME TypeOK, Numbered, UNCHANGED made,
           \A p \in PeerIds : state'[p] = "none" <=> state[p] = "none",
           loop'.peer = loop.peer, \A t \in Transfers : push'[t].peer \in {NilPeer, push[t].peer},
           \/ dial'.peer = dial.peer
           \/ snowflakeChan # <<>> /\ dial'.peer = Head(snowflakeChan),
           \A p \in activePeers' : p \in activePeers \/ p = loop.peer \/ \E t \in Transfers : p = push[t].peer,
           \/ UNCHANGED snowflakeChan
           \/ snowflakeChan # <<>> /\ snowflakeChan' = Tail(snowflakeChan)
           \/ snowflakeChan' = Append(snowflakeChan, loop.peer)
           \/ \E t \in Transfers : snowflakeChan' = Append(snowflakeChan, push[t].peer)
    PROVE  Numbered'
<1>1. snowflakeChan \in Seq(0..MaxPeers) /\ made \in Nat
  BY DEF TypeOK
<1>2. \A i \in DOMAIN snowflakeChan : snowflakeChan[i] <= made
  BY DEF Numbered
<1>3. dial'.peer <= made
  <2>1. CASE snowflakeChan # <<>> /\ dial'.peer = Head(snowflakeChan)
    <3>1. 1 \in DOMAIN snowflakeChan /\ Head(snowflakeChan) = snowflakeChan[1]
      BY <1>1, <2>1
    <3> QED BY <1>2, <2>1, <3>1
  <2> QED BY <2>1 DEF Numbered
<1>4. \A i \in DOMAIN snowflakeChan' : snowflakeChan'[i] <= made
  <2>1. ASSUME NEW p, p <= made, snowflakeChan' = Append(snowflakeChan, p), NEW i \in DOMAIN snowflakeChan'
        PROVE  snowflakeChan'[i] <= made
    <3>1. i \in 1..(Len(snowflakeChan) + 1)
      BY <1>1, <2>1
    <3>2. CASE i = Len(snowflakeChan) + 1
      BY <1>1, <2>1, <3>2
    <3>3. CASE i # Len(snowflakeChan) + 1
      <4>1. i \in DOMAIN snowflakeChan /\ snowflakeChan'[i] = snowflakeChan[i]
        BY <1>1, <2>1, <3>1, <3>3
      <4> QED BY <1>2, <4>1
    <3> QED BY <3>2, <3>3
  <2>2. ASSUME snowflakeChan # <<>>, snowflakeChan' = Tail(snowflakeChan), NEW i \in DOMAIN snowflakeChan'
        PROVE  snowflakeChan'[i] <= made
    <3>1. i + 1 \in DOMAIN snowflakeChan /\ snowflakeChan'[i] = snowflakeChan[i + 1]
      BY <1>1, <2>2
    <3> QED BY <1>2, <3>1
  <2>3. loop.peer <= made /\ \A t \in Transfers : push[t].peer <= made
    BY DEF Numbered
  <2> QED BY <1>2, <2>1, <2>2, <2>3
<1>5. \A t \in Transfers : push'[t].peer <= made
  BY <1>1 DEF Numbered
<1>6. \A p \in activePeers' : p <= made
  BY DEF Numbered
<1> QED BY <1>3, <1>4, <1>5, <1>6 DEF Numbered

LEMMA NumberedNext == TypeOK /\ Numbered /\ [Next]_vars => Numbered'
<1> SUFFICES ASSUME TypeOK, Numbered, [Next]_vars PROVE Numbered'
  OBVIOUS
<1>0. /\ push \in [Transfers -> [pc : {"idle", "connect", "track", "send", "done"}, peer : 0..MaxPeers]]
      /\ loop \in [pc : LoopPCs, peer : 0..MaxPeers] /\ made \in Nat
      /\ dial \in [pc : {"top", "pop", "write", "exchange", "done"}, peer : 0..MaxPeers]
      /\ state \in [PeerIds -> {"none", "opening", "open", "closed"}]
  BY DEF TypeOK
<1>1. ASSUME NEW why, Panic(why) PROVE Numbered'
  BY <1>1, NumberedStep DEF Panic, chan, list
<1>2. CASE CollectNext
  <2>1. CASE CollectStarts
    BY <1>0, <2>1, NumberedStep DEF CollectStarts, Purged, chan
  <2>2. CASE CatchFails \/ ReconnectTimeout \/ ConnectLoopStops
    BY <1>0, <2>2, NumberedStep DEF CatchFails, ReconnectTimeout, ConnectLoopStops, chan, list
  <2>3. CASE CatchReturns
    <3>1. made' = made + 1 /\ made + 1 \in PeerIds /\ state' = [state EXCEPT ![made + 1] = "open"]
          /\ loop' = [pc |-> "track", peer |-> made + 1]
          /\ UNCHANGED <<snowflakeChan, activePeers, push, dial>>
      BY <1>0, <2>3 DEF CatchReturns, Make, chan, list
    <3> QED BY <1>0, <3>1 DEF Numbered, TypeOK
  <2>4. CASE CollectTracks
    BY <1>0, <2>4, NumberedStep DEF CollectTracks, chan
  <2>5. CASE CollectSends
    <3>1. CASE chanOpen
      BY <1>0, <2>5, <3>1, NumberedStep DEF CollectSends, Send, list
    <3> QED BY <1>1, <2>5, <3>1 DEF CollectSends
  <2> QED BY <1>1, <1>2, <2>1, <2>2, <2>3, <2>4, <2>5 DEF CollectNext, CollectMeetsNil
<1>3. ASSUME NEW t \in Transfers, TransferNext(t) PROVE Numbered'
  <2>1. CASE TransferStarts(t) \/ DirectConnectFails(t) \/ DirectConnectRefused(t)
    <3>1. UNCHANGED <<made, state, snowflakeChan, activePeers, loop, dial>>
      BY <2>1 DEF TransferStarts, DirectConnectFails, DirectConnectRefused, chan, list
    <3>2. ASSUME NEW e, push' = [push EXCEPT ![t].pc = e]
          PROVE  \A u \in Transfers : push'[u].peer = push[u].peer
      BY <1>0, <3>2
    <3>3. ASSUME push' = [push EXCEPT ![t] = [pc |-> "track", peer |-> NilPeer]]
          PROVE  \A u \in Transfers : push'[u].peer \in {NilPeer, push[u].peer}
      BY <1>0, <3>3
    <3>4. \A u \in Transfers : push'[u].peer \in {NilPeer, push[u].peer}
      BY <2>1, <3>2, <3>3 DEF TransferStarts, DirectConnectFails, DirectConnectRefused
    <3> QED BY <3>1, <3>4, NumberedStep
  <2>2. CASE DirectConnectReturns(t)
    <3>1. made' = made + 1 /\ made + 1 \in PeerIds /\ state' = [state EXCEPT ![made + 1] = "opening"]
          /\ push' = [push EXCEPT ![t] = [pc |-> "track", peer |-> made + 1]]
          /\ UNCHANGED <<snowflakeChan, activePeers, loop, dial>>
      BY <1>0, <2>2 DEF DirectConnectReturns, Make, chan, list
    <3>2. \A u \in Transfers : push'[u].peer <= made + 1
      BY <1>0, <3>1 DEF Numbered
    <3> QED BY <1>0, <3>1, <3>2 DEF Numbered, TypeOK
  <2>3. CASE PushTracks(t)
    BY <1>0, <2>3, NumberedStep DEF PushTracks, chan
  <2>4. CASE PushBackRace(t)
    <3>1. /\ loop'.peer = loop.peer /\ \A u \in Transfers : push'[u].peer = push[u].peer
          /\ UNCHANGED <<made, state, snowflakeChan, dial>>
          /\ \A p \in activePeers' : p \in activePeers \/ p = loop.peer \/ \E u \in Transfers : p = push[u].peer
      <4>1. ASSUME NEW p, NEW q, Races(p, q)
            PROVE  UNCHANGED <<made, state, snowflakeChan, dial>> /\ activePeers' \subseteq activePeers \cup {p, q}
        BY <4>1 DEF Races, chan
      <4>2. CASE Races(push[t].peer, loop.peer) /\ push' = [push EXCEPT ![t].pc = "send"]
                 /\ loop' = [loop EXCEPT !.pc = "send"]
        BY <1>0, <4>1, <4>2
      <4>3. ASSUME NEW u \in Transfers \ {t}, Races(push[t].peer, push[u].peer), UNCHANGED loop,
                   push' = [push EXCEPT ![t].pc = "send", ![u].pc = "send"]
            PROVE  /\ loop'.peer = loop.peer /\ \A v \in Transfers : push'[v].peer = push[v].peer
                   /\ UNCHANGED <<made, state, snowflakeChan, dial>>
                   /\ \A p \in activePeers' : p \in activePeers \/ p = loop.peer \/ \E v \in Transfers : p = push[v].peer
        BY <1>0, <4>1, <4>3
      <4> QED BY <2>4, <4>2, <4>3 DEF PushBackRace
    <3> QED BY <3>1, NumberedStep
  <2>5. CASE PushSends(t)
    <3>1. CASE chanOpen
      <4>1. /\ snowflakeChan' = Append(snowflakeChan, push[t].peer)
            /\ \A u \in Transfers : push'[u].peer = push[u].peer
            /\ UNCHANGED <<made, state, activePeers, loop, dial>>
        <5>1. /\ push' = [push EXCEPT ![t].pc = "done"] /\ Send(push[t].peer)
              /\ UNCHANGED <<made, state, activePeers, loop, dial>>
          BY <2>5, <3>1 DEF PushSends, list
        <5>2. \A u \in Transfers : push'[u].peer = push[u].peer
          BY <1>0, <5>1
        <5> QED BY <5>1, <5>2 DEF Send
      <4> QED BY <4>1, NumberedStep
    <3> QED BY <1>1, <2>5, <3>1 DEF PushSends
  <2> QED BY <1>3, <2>1, <2>2, <2>3, <2>4, <2>5 DEF TransferNext
<1>4. CASE DialNext
  <2>1. CASE DialLoopTop \/ WriteSucceeds
    BY <1>0, <2>1, NumberedStep DEF DialLoopTop, WriteSucceeds, chan, list
  <2>2. CASE Pop
    <3>1. UNCHANGED <<made, state, activePeers, loop, push>> /\ snowflakeChan # <<>>
          /\ snowflakeChan' = Tail(snowflakeChan)
      BY <2>2 DEF Pop, list
    <3>2. dial'.peer = dial.peer \/ dial'.peer = Head(snowflakeChan)
      BY <2>2 DEF Pop
    <3> QED BY <3>1, <3>2, NumberedStep
  <2>3. CASE PopEnds \/ WriteFails
    BY <1>0, <2>3, NumberedStep DEF PopEnds, WriteFails, DialFails, chan, list
  <2>4. CASE ExchangeEnds
    <3>1. UNCHANGED <<made, snowflakeChan, activePeers, loop, push>> /\ dial'.peer = dial.peer
          /\ state' = [state EXCEPT ![dial.peer] = "closed"]
      BY <1>0, <2>4 DEF ExchangeEnds, chan, list
    <3>2. \A p \in PeerIds : state'[p] = "none" <=> state[p] = "none"
      BY <1>0, <3>1 DEF Numbered
    <3> QED BY <3>1, <3>2, NumberedStep
  <2> QED BY <1>1, <1>4, <2>1, <2>2, <2>3, <2>4 DEF DialNext, PopMeetsNil
<1>5. CASE CloseNext
  <2>1. CASE EndMelts \/ ClosesPconn
    BY <2>1, NumberedStep DEF EndMelts, ClosesPconn, chan, list
  <2>2. CASE EndCloses
    <3>1. UNCHANGED <<made, snowflakeChan, loop, push, dial>> /\ activePeers' = {}
          /\ state' = [p \in PeerIds |-> IF p \in activePeers THEN "closed" ELSE state[p]]
      BY <2>2 DEF EndCloses
    <3>2. \A p \in PeerIds : state'[p] = "none" <=> state[p] = "none"
      BY <1>0, <3>1 DEF Numbered
    <3> QED BY <3>1, <3>2, NumberedStep
  <2> QED BY <1>1, <1>5, <2>1, <2>2 DEF CloseNext, EndMeetsNil
<1>6. ASSUME NEW p \in PeerIds, Opens(p) \/ PeerCloses(p) PROVE Numbered'
  BY <1>0, <1>6, NumberedStep DEF Opens, PeerCloses, chan, list
<1>7. CASE UNCHANGED vars
  BY <1>7, NumberedStep DEF vars, chan, list
<1> QED BY <1>2, <1>3, <1>4, <1>5, <1>6, <1>7 DEF Next
-----------------------------------------------------------------------------
(* The sets of peers that are counted are finite.                           *)
LEMMA CountedFinite ==
    ASSUME TypeOK
    PROVE  /\ IsFiniteSet(Live) /\ IsFiniteSet(Collected) /\ IsFiniteSet(Strays)
           /\ IsFiniteSet(activePeers) /\ IsFiniteSet(Purged)
           /\ Collected \subseteq Live /\ Strays \subseteq Collected
<1>1. IsFiniteSet(PeerIds) /\ IsFiniteSet(0..MaxPeers)
  BY FS_Interval
<1>2. Live \subseteq PeerIds /\ Collected \subseteq Live /\ Strays \subseteq Collected
      /\ activePeers \subseteq 0..MaxPeers /\ Purged \subseteq 0..MaxPeers
  BY DEF Live, Collected, Strays, TypeOK, Purged
<1> QED BY <1>1, <1>2, FS_Subset

(* A step that makes no peer and drops none from the list keeps Reach.      *)
Quiet ==
    /\ UNCHANGED <<made, lost, chanOpen>>
    /\ \A p \in PeerIds : state[p] \in {"none", "closed"} => state'[p] = state[p]
    /\ \A t \in Transfers : /\ push'[t].peer = push[t].peer
                            /\ push[t].pc = "track" => push'[t] = push[t]
                            /\ push'[t].pc \in {"idle", "connect"} => push[t].pc \in {"idle", "connect"}
    /\ \A p \in activePeers : p \in activePeers' \/ state[p] = "closed"
    /\ loop.pc = "track" => loop' = loop
    /\ loop'.pc \in {"track", "catch"} => loop'.pc = loop.pc
    /\ close' \in {"ended", "done"} => Ended

LEMMA QuietKeeps == ASSUME TypeOK, TypeOK', Reach, Quiet PROVE Reach'
<1>1. Live' \subseteq Live /\ Pushed' = Pushed
  <2>1. Live' \subseteq Live
    BY DEF Quiet, Live, TypeOK
  <2>2. \A t \in Transfers : push'[t].peer = push[t].peer
    BY DEF Quiet
  <2> QED BY <2>1, <2>2 DEF Pushed
<1>2. Collected' \subseteq Collected
  BY <1>1 DEF Collected
<1>3. InHand \cap Live' \subseteq InHand'
  BY DEF InHand, Quiet
<1>4. Strays' \subseteq Strays
  <2>1. \A p \in Live' \cap activePeers : p \in activePeers'
    BY <1>1 DEF Quiet, Live
  <2> QED BY <1>1, <1>2, <1>3, <2>1 DEF Strays, Collected
<1>5. /\ Cardinality(Collected') <= Cardinality(Collected) /\ Cardinality(Strays') <= Cardinality(Strays)
      /\ Cardinality(Collected) \in Nat /\ Cardinality(Strays) \in Nat
      /\ Cardinality(Collected') \in Nat /\ Cardinality(Strays') \in Nat
  BY <1>2, <1>4, CountedFinite, FS_Subset, FS_CardinalityType
<1>6. StraysCounted' /\ RoomForOne' /\ CollectedWithinMax'
  BY SMTT(30), <1>5 DEF Reach, StraysCounted, RoomForOne, CollectedWithinMax, Collected, Quiet, TypeOK
<1>7. HoldsNone' /\ EndedIsClosed'
  BY DEF Reach, HoldsNone, EndedIsClosed, Ended, Quiet
<1>8. LivePeersTracked'
  <2>1. ASSUME lost = 0, NEW p \in Live'
        PROVE  \/ p \in activePeers' \/ loop' = [pc |-> "track", peer |-> p]
               \/ \E t \in Transfers : push'[t] = [pc |-> "track", peer |-> p]
    <3>1. p \in Live /\ state[p] # "closed"
      BY <1>1, <2>1 DEF Live
    <3>2. \/ p \in activePeers \/ loop = [pc |-> "track", peer |-> p]
          \/ \E t \in Transfers : push[t] = [pc |-> "track", peer |-> p]
      BY <2>1, <3>1 DEF Reach, LivePeersTracked
    <3> QED BY <3>1, <3>2 DEF Quiet
  <2> QED BY <2>1 DEF LivePeersTracked, Quiet
<1>9. EndClosesAll'
  BY <1>1 DEF Reach, EndClosesAll, Ended, Quiet
<1> QED BY <1>6, <1>7, <1>8, <1>9 DEF Reach

(* The steps of Collect.  Past the check there is room for one more peer:   *)
(* what it counted is at least what is alive.                               *)
LEMMA ReachCollect ==
    ASSUME TypeOK, TypeOK', Numbered, IInv, Reach, CollectNext
    PROVE  Reach'
<1>1. CASE CollectStarts
  <2>1. UNCHANGED <<made, state, chanOpen, lost, push, close>> /\ loop.pc = "start"
        /\ activePeers' = (IF melted THEN activePeers ELSE Purged)
    BY <1>1 DEF CollectStarts, chan
  <2>2. \A p \in activePeers : p \in activePeers' \/ state[p] = "closed"
    BY <2>1 DEF Purged, Closed
  <2>3. CASE melted \/ AtCapacity
    <3>1. loop' = [loop EXCEPT !.pc = "wait"]
      BY <1>1, <2>3 DEF CollectStarts
    <3>2. loop'.pc = "wait"
      BY <3>1 DEF TypeOK
    <3> QED BY <2>1, <2>2, <3>2, QuietKeeps DEF Quiet, Ended
  <2>4. CASE ~(melted \/ AtCapacity)
    <3>1. loop' = [loop EXCEPT !.pc = "catch"] /\ activePeers' = Purged
      BY <1>1, <2>1, <2>4 DEF CollectStarts
    <3>2. loop'.pc = "catch"
      BY <3>1 DEF TypeOK
    <3>3. Live' = Live /\ Pushed' = Pushed /\ Collected' = Collected
      BY <2>1 DEF Live, Pushed, Collected
    <3>4. Strays' = Strays
      BY <2>1, <2>2, <3>1, <3>2, <3>3 DEF Strays, InHand, Collected, Live, Purged
    <3>5. Collected \subseteq Purged \cup Strays
      BY <2>1 DEF Strays, InHand, Collected, Live, Purged, Closed
    <3>6. Cardinality(Collected) < Capacity
      <4>1. IsFiniteSet(Purged \cup Strays)
            /\ Cardinality(Purged \cup Strays) <= Cardinality(Purged) + Cardinality(Strays)
        <5>1. /\ IsFiniteSet(Purged) /\ IsFiniteSet(Strays)
          BY CountedFinite
        <5>2. /\ IsFiniteSet(Purged \cup Strays)
              /\ Cardinality(Purged \cup Strays) =
                   Cardinality(Purged) + Cardinality(Strays) - Cardinality(Purged \cap Strays)
              /\ IsFiniteSet(Purged \cap Strays)
          BY <5>1, FS_Union, FS_Intersection
        <5> QED BY <5>1, <5>2, FS_CardinalityType
      <4>2. Cardinality(Collected) <= Cardinality(Purged \cup Strays)
        BY <3>5, <4>1, FS_Subset
      <4>3. Cardinality(Purged) + lost < Capacity /\ Cardinality(Strays) <= lost
        <5>1. IsFiniteSet(Purged)
          BY CountedFinite
        <5>2. Cardinality(Purged) \in Nat /\ lost \in Nat
          BY <5>1, FS_CardinalityType DEF TypeOK
        <5> QED BY <2>4, <5>2 DEF AtCapacity, Count, Reach, StraysCounted
      <4>4. /\ Cardinality(Collected) \in Nat /\ Cardinality(Purged) \in Nat /\ Cardinality(Strays) \in Nat
            /\ Cardinality(Purged \cup Strays) \in Nat /\ lost \in Nat
        BY <4>1, CountedFinite, FS_CardinalityType DEF TypeOK
      <4> QED BY <4>1, <4>2, <4>3, <4>4
    <3>7. StraysCounted' /\ RoomForOne' /\ CollectedWithinMax'
      BY <2>1, <3>3, <3>4, <3>6 DEF Reach, StraysCounted, RoomForOne, CollectedWithinMax, Collected
    <3>8. HoldsNone' /\ EndedIsClosed' /\ EndClosesAll'
      BY <2>1, <3>3 DEF Reach, HoldsNone, EndedIsClosed, Ended, EndClosesAll
    <3>9. LivePeersTracked'
      BY <2>1, <2>2, <3>3 DEF Reach, LivePeersTracked, Live
    <3> QED BY <3>7, <3>8, <3>9 DEF Reach
  <2> QED BY <2>3, <2>4
<1>2. CASE CollectMeetsNil
  BY <1>2, QuietKeeps DEF CollectMeetsNil, Panic, Quiet, chan, list, Ended
<1>3. CASE CatchFails
  BY <1>3, QuietKeeps DEF CatchFails, Quiet, chan, list, Ended, TypeOK
<1>4. CASE CatchReturns
  <2> DEFINE p == made + 1
  <2>1. /\ made < MaxPeers /\ made' = p /\ state' = [state EXCEPT ![p] = "open"]
        /\ loop' = [pc |-> "track", peer |-> p] /\ loop.pc = "catch"
        /\ UNCHANGED <<chanOpen, activePeers, lost, push, close>>
    BY <1>4 DEF CatchReturns, Make, chan, list
  <2>2. p \in PeerIds /\ p > made /\ made \in Nat
    BY <2>1 DEF TypeOK
  <2> HIDE DEF p
  <2>3. state[p] = "none" /\ p \notin Pushed
    BY <2>2 DEF Numbered, Pushed, TypeOK
  <2>4. Live' = Live \cup {p} /\ Pushed' = Pushed
    BY <2>1, <2>2 DEF Live, Pushed, TypeOK
  <2>5. Collected' = Collected \cup {p} /\ p \notin Collected
    BY <2>3, <2>4 DEF Collected, Live
  <2>6. InHand' = {p} /\ InHand = {}
    BY <2>1 DEF InHand
  <2>7. Strays' \subseteq Strays
    BY <2>1, <2>5, <2>6 DEF Strays
  <2>8. Cardinality(Collected') = Cardinality(Collected) + 1
    BY <2>5, CountedFinite, FS_AddElement
  <2>9. Cardinality(Strays') <= Cardinality(Strays) /\ Cardinality(Collected) \in Nat
        /\ Cardinality(Strays) \in Nat /\ Cardinality(Strays') \in Nat
    BY <2>7, CountedFinite, FS_Subset, FS_CardinalityType
  <2>10. StraysCounted' /\ RoomForOne' /\ CollectedWithinMax'
    BY <2>1, <2>8, <2>9 DEF Reach, StraysCounted, RoomForOne, CollectedWithinMax, Collected, TypeOK
  <2>12. HoldsNone' /\ EndedIsClosed'
    BY <2>1 DEF Reach, HoldsNone, EndedIsClosed, Ended
  <2>13. LivePeersTracked'
    BY <2>1, <2>4 DEF Reach, LivePeersTracked
  <2>14. EndClosesAll'
    <3>1. ~Ended
      BY <2>1 DEF Reach, EndedIsClosed, IInv, OpenWhileCollecting, Collecting
    <3> QED BY <2>1, <3>1 DEF EndClosesAll, Ended
  <2> QED BY <2>10, <2>12, <2>13, <2>14 DEF Reach
<1>5. CASE CollectTracks
  <2>1. /\ UNCHANGED <<made, state, chanOpen, lost, push, close>> /\ loop.pc = "track"
        /\ activePeers' = activePeers \cup {loop.peer} /\ loop'.pc = "send"
    BY <1>5 DEF CollectTracks, chan, TypeOK
  <2>2. Live' = Live /\ Pushed' = Pushed /\ Collected' = Collected
    BY <2>1 DEF Live, Pushed, Collected
  <2>3. Strays' = Strays
    BY <2>1, <2>2 DEF Strays, InHand
  <2>4. StraysCounted' /\ RoomForOne' /\ CollectedWithinMax'
    BY <2>1, <2>2, <2>3 DEF Reach, StraysCounted, RoomForOne, CollectedWithinMax, Collected
  <2>5. HoldsNone' /\ EndedIsClosed' /\ EndClosesAll'
    BY <2>1, <2>2 DEF Reach, HoldsNone, EndedIsClosed, Ended, EndClosesAll
  <2>6. LivePeersTracked'
    BY <2>1, <2>2 DEF Reach, LivePeersTracked
  <2> QED BY <2>4, <2>5, <2>6 DEF Reach
<1>6. CASE CollectSends
  BY <1>6, QuietKeeps DEF CollectSends, Send, Panic, Quiet, chan, list, Ended, TypeOK
<1>7. CASE ReconnectTimeout \/ ConnectLoopStops
  BY Zenon, <1>7, QuietKeeps DEF ReconnectTimeout, ConnectLoopStops, Quiet, chan, list, Ended, TypeOK
<1> QED BY <1>1, <1>2, <1>3, <1>4, <1>5, <1>6, <1>7 DEF CollectNext

(* The steps of the transfers.  A Push that races drops at most one peer,   *)
(* and lost counts it.                                                      *)
LEMMA ReachTransfer ==
    ASSUME TypeOK, TypeOK', Numbered, IInv, Reach, NEW t \in Transfers, TransferNext(t)
    PROVE  Reach'
<1>0. push \in [Transfers -> [pc : {"idle", "connect", "track", "send", "done"}, peer : 0..MaxPeers]]
  BY DEF TypeOK
<1>1. CASE TransferStarts(t) \/ DirectConnectFails(t)
  BY <1>0, <1>1, QuietKeeps DEF TransferStarts, DirectConnectFails, Quiet, chan, list, Ended
<1>2. CASE DirectConnectRefused(t)
  <2>1. push[t].peer = NilPeer
    BY <1>2 DEF DirectConnectRefused, Reach, HoldsNone
  <2> QED BY <1>0, <1>2, <2>1, QuietKeeps DEF DirectConnectRefused, Quiet, chan, list, Ended
<1>3. CASE DirectConnectReturns(t)
  <2> DEFINE p == made + 1
  <2>1. /\ made < MaxPeers /\ made' = p /\ state' = [state EXCEPT ![p] = "opening"]
        /\ push' = [push EXCEPT ![t] = [pc |-> "track", peer |-> p]] /\ push[t].pc = "connect"
        /\ UNCHANGED <<chanOpen, activePeers, lost, loop, close>>
    BY <1>3 DEF DirectConnectReturns, Make, chan, list
  <2>2. p \in PeerIds /\ p > made /\ made \in Nat
    BY <2>1 DEF TypeOK
  <2> HIDE DEF p
  <2>3. push[t].peer = NilPeer /\ push'[t] = [pc |-> "track", peer |-> p]
        /\ \A u \in Transfers : u # t => push'[u] = push[u]
    BY <1>0, <2>1 DEF Reach, HoldsNone
  <2>4. Live' = Live \cup {p}
    BY <2>1, <2>2 DEF Live, TypeOK
  <2>5. p \in Pushed' /\ NilPeer \notin Live
    BY <2>3 DEF Pushed, Live
  <2>6. Pushed \subseteq Pushed' \cup {NilPeer}
    BY <2>3 DEF Pushed
  <2>7. Collected' \subseteq Collected
    BY <2>4, <2>5, <2>6 DEF Collected
  <2>8. Strays' \subseteq Strays
    BY <2>1, <2>7 DEF Strays, InHand
  <2>9. /\ Cardinality(Collected') <= Cardinality(Collected) /\ Cardinality(Strays') <= Cardinality(Strays)
        /\ Cardinality(Collected) \in Nat /\ Cardinality(Strays) \in Nat
        /\ Cardinality(Collected') \in Nat /\ Cardinality(Strays') \in Nat
    BY <2>7, <2>8, CountedFinite, FS_Subset, FS_CardinalityType
  <2>10. StraysCounted' /\ RoomForOne' /\ CollectedWithinMax'
    BY <2>1, <2>9 DEF Reach, StraysCounted, RoomForOne, CollectedWithinMax, Collected, TypeOK
  <2>12. HoldsNone' /\ EndedIsClosed'
    BY <2>1, <2>3 DEF Reach, HoldsNone, EndedIsClosed, Ended
  <2>13. LivePeersTracked'
    BY <2>1, <2>3, <2>4 DEF Reach, LivePeersTracked
  <2>14. EndClosesAll'
    BY <2>1, <2>4, <2>5, <2>6 DEF Reach, EndClosesAll
  <2> QED BY <2>10, <2>12, <2>13, <2>14 DEF Reach
<1>4. CASE PushTracks(t)
  <2>1. /\ UNCHANGED <<made, state, chanOpen, lost, loop, close>> /\ push[t].pc = "track"
        /\ activePeers' = activePeers \cup {push[t].peer} /\ push' = [push EXCEPT ![t].pc = "send"]
    BY <1>4 DEF PushTracks, chan
  <2>2. /\ \A u \in Transfers : push'[u].peer = push[u].peer /\ (u # t => push'[u] = push[u])
        /\ push'[t].pc = "send"
    BY <1>0, <2>1
  <2>3. Live' = Live /\ Pushed' = Pushed /\ Collected' = Collected
    BY <2>1, <2>2 DEF Live, Pushed, Collected
  <2>4. Strays' \subseteq Strays
    BY <2>1, <2>3 DEF Strays, InHand
  <2>5. Cardinality(Strays') <= Cardinality(Strays)
        /\ Cardinality(Strays) \in Nat /\ Cardinality(Strays') \in Nat
    BY <2>4, CountedFinite, FS_Subset, FS_CardinalityType
  <2>6. StraysCounted' /\ RoomForOne' /\ CollectedWithinMax'
    BY <2>1, <2>3, <2>5 DEF Reach, StraysCounted, RoomForOne, CollectedWithinMax, Collected, TypeOK
  <2>7. HoldsNone' /\ EndedIsClosed' /\ EndClosesAll'
    BY <2>1, <2>2, <2>3 DEF Reach, HoldsNone, EndedIsClosed, Ended, EndClosesAll
  <2>8. LivePeersTracked'
    BY <2>1, <2>2, <2>3 DEF Reach, LivePeersTracked
  <2> QED BY <2>6, <2>7, <2>8 DEF Reach
<1>5. CASE PushBackRace(t)
  <2>1. /\ UNCHANGED <<made, state, chanOpen, close>> /\ lost' = lost + 1
        /\ \E q : activePeers' = activePeers \cup {q}
    BY <1>5 DEF PushBackRace, Races, chan
  <2>2. \A u \in Transfers : /\ push'[u].peer = push[u].peer
                             /\ push'[u].pc \in {"idle", "connect"} => push'[u] = push[u]
    BY <1>0, <1>5 DEF PushBackRace
  <2>3. loop' = loop \/ (loop.pc = "track" /\ loop'.pc = "send")
    BY <1>5 DEF PushBackRace, TypeOK
  <2>4. Live' = Live /\ Pushed' = Pushed /\ Collected' = Collected
    BY <2>1, <2>2 DEF Live, Pushed, Collected
  <2>5. Strays' \subseteq Strays \cup {loop.peer}
    BY <2>1, <2>3, <2>4 DEF Strays, InHand
  <2>6. Cardinality(Strays') <= Cardinality(Strays) + 1
        /\ Cardinality(Strays) \in Nat /\ Cardinality(Strays') \in Nat
    <3>1. IsFiniteSet(Strays) /\ Cardinality(Strays) \in Nat
      BY CountedFinite, FS_CardinalityType
    <3>2. IsFiniteSet(Strays \cup {loop.peer})
          /\ Cardinality(Strays \cup {loop.peer}) \in {Cardinality(Strays), Cardinality(Strays) + 1}
      <4>1. CASE loop.peer \in Strays
        <5>1. Strays \cup {loop.peer} = Strays
          BY <4>1
        <5> QED BY <3>1, <5>1
      <4>2. CASE loop.peer \notin Strays
        BY <3>1, <4>2, FS_AddElement
      <4> QED BY <4>1, <4>2
    <3>3. IsFiniteSet(Strays') /\ Cardinality(Strays') <= Cardinality(Strays \cup {loop.peer})
      BY <2>5, <3>2, FS_Subset
    <3>4. Cardinality(Strays') \in Nat
      BY <3>3, FS_CardinalityType
    <3> QED BY <3>1, <3>2, <3>3, <3>4
  <2>7. StraysCounted' /\ RoomForOne' /\ CollectedWithinMax'
    <3>1. StraysCounted'
      BY SMTT(30), <2>1, <2>6 DEF Reach, StraysCounted, TypeOK
    <3>2. RoomForOne'
      <4>1. loop'.pc = "catch" => loop.pc = "catch"
        BY <2>3
      <4>2. RoomForOne
        BY DEF Reach
      <4> QED BY <2>4, <4>1, <4>2 DEF RoomForOne
    <3>3. CollectedWithinMax'
      BY <2>4 DEF Reach, CollectedWithinMax
    <3> QED BY <3>1, <3>2, <3>3
  <2>8. HoldsNone' /\ EndedIsClosed'
    BY <2>1, <2>2 DEF Reach, HoldsNone, EndedIsClosed, Ended
  <2>9. LivePeersTracked' /\ EndClosesAll'
    BY <2>1 DEF LivePeersTracked, EndClosesAll, TypeOK
  <2> QED BY <2>7, <2>8, <2>9 DEF Reach
<1>6. CASE PushSends(t)
  BY <1>0, <1>6, QuietKeeps DEF PushSends, Send, Panic, Quiet, chan, list, Ended
<1> QED BY <1>1, <1>2, <1>3, <1>4, <1>5, <1>6 DEF TransferNext

(* The dialLoop, the network and Close.  End closes what the list holds, so *)
(* what stays alive is in the hands of a transfer.                          *)
LEMMA ReachOthers ==
    ASSUME TypeOK, TypeOK', Numbered, IInv, Reach,
           DialNext \/ CloseNext \/ \E p \in PeerIds : Opens(p) \/ PeerCloses(p)
    PROVE  Reach'
<1>1. CASE DialLoopTop \/ Pop \/ WriteSucceeds \/ PopMeetsNil \/ EndMeetsNil \/ EndMelts \/ ClosesPconn
  BY <1>1, QuietKeeps DEF DialLoopTop, Pop, WriteSucceeds, PopMeetsNil, EndMeetsNil, EndMelts, ClosesPconn,
                          Panic, Quiet, chan, list, Ended
<1>2. CASE PopEnds \/ WriteFails
  BY <1>2, QuietKeeps DEF PopEnds, WriteFails, DialFails, Quiet, chan, list, Ended
<1>3. CASE ExchangeEnds
  <2>1. UNCHANGED <<made, lost, chanOpen, push, activePeers, loop, close>>
        /\ state' = [state EXCEPT ![dial.peer] = "closed"]
    BY <1>3 DEF ExchangeEnds, chan, list
  <2>2. dial.peer \in PeerIds => state[dial.peer] # "none"
    BY DEF Numbered, TypeOK
  <2> QED BY <2>1, <2>2, QuietKeeps DEF Quiet, Ended, TypeOK
<1>4. ASSUME NEW p \in PeerIds, Opens(p) \/ PeerCloses(p) PROVE Reach'
  BY SMTT(30), <1>4, QuietKeeps DEF Opens, PeerCloses, Quiet, chan, list, Ended, TypeOK
<1>5. CASE EndCloses
  <2>1. /\ UNCHANGED <<made, lost, loop, push>> /\ ~lock /\ close' = "ended" /\ chanOpen' = FALSE
        /\ activePeers' = {}
        /\ state' = [p \in PeerIds |-> IF p \in activePeers THEN "closed" ELSE state[p]]
    BY <1>5 DEF EndCloses
  <2>2. ~Collecting
    BY <2>1 DEF IInv, LockHeld
  <2>3. Live' = Live \ activePeers /\ Pushed' = Pushed /\ InHand = {} /\ InHand' = {}
    BY <2>1, <2>2 DEF Live, Pushed, InHand, Collecting
  <2>4. Collected' \subseteq Collected /\ Strays' \subseteq Strays
    BY <2>1, <2>3 DEF Collected, Strays
  <2>5. /\ Cardinality(Collected') <= Cardinality(Collected) /\ Cardinality(Strays') <= Cardinality(Strays)
        /\ Cardinality(Collected) \in Nat /\ Cardinality(Strays) \in Nat
        /\ Cardinality(Collected') \in Nat /\ Cardinality(Strays') \in Nat
    BY <2>4, CountedFinite, FS_Subset, FS_CardinalityType
  <2>6. StraysCounted' /\ RoomForOne' /\ CollectedWithinMax'
    BY <2>1, <2>5 DEF Reach, StraysCounted, RoomForOne, CollectedWithinMax, Collected, TypeOK
  <2>8. HoldsNone' /\ EndedIsClosed'
    BY <2>1 DEF Reach, HoldsNone, EndedIsClosed
  <2>9. LivePeersTracked'
    BY <2>1, <2>3 DEF Reach, LivePeersTracked
  <2>10. EndClosesAll'
    <3>1. ASSUME lost = 0, NEW p \in Live' PROVE p \in Pushed
      <4>1. p \in Live /\ p \notin activePeers /\ loop.pc # "track"
        BY <2>2, <2>3, <3>1 DEF Collecting
      <4>2. PICK u \in Transfers : push[u] = [pc |-> "track", peer |-> p]
        BY <3>1, <4>1 DEF Reach, LivePeersTracked
      <4> QED BY <4>2 DEF Pushed
    <3> QED BY <2>1, <2>3, <3>1 DEF EndClosesAll
  <2> QED BY <2>6, <2>8, <2>9, <2>10 DEF Reach
<1> QED BY <1>1, <1>2, <1>3, <1>4, <1>5 DEF DialNext, CloseNext

LEMMA ReachInit == Init => Numbered /\ Reach
<1> SUFFICES ASSUME Init PROVE Numbered /\ Reach
  OBVIOUS
<1>1. Live = {}
  BY DEF Init, Live
<1>2. Collected = {} /\ Strays = {}
  BY <1>1 DEF Collected, Strays
<1>3. Cardinality({}) = 0
  BY FS_EmptySet
<1>4. StraysCounted /\ RoomForOne /\ CollectedWithinMax
  <2>1. Cardinality(Collected) = 0 /\ Cardinality(Strays) = 0
    BY <1>2, <1>3
  <2> QED BY <2>1 DEF StraysCounted, RoomForOne, CollectedWithinMax, Collected, Init
<1>5. HoldsNone /\ EndedIsClosed /\ LivePeersTracked /\ EndClosesAll
  BY <1>1 DEF Init, HoldsNone, EndedIsClosed, Ended, LivePeersTracked, EndClosesAll
<1>6. Numbered
  BY DEF Init, Numbered
<1> QED BY <1>4, <1>5, <1>6 DEF Reach

LEMMA ReachNext ==
    TypeOK /\ TypeOK' /\ Numbered /\ IInv /\ Reach /\ [Next]_vars => Reach'
<1> SUFFICES ASSUME TypeOK, TypeOK', Numbered, IInv, Reach, [Next]_vars PROVE Reach'
  OBVIOUS
<1>1. CASE Next
  BY <1>1, ReachCollect, ReachTransfer, ReachOthers DEF Next
<1>2. CASE UNCHANGED vars
  BY <1>2, QuietKeeps DEF vars, Quiet, chan, list, Ended
<1> QED BY <1>1, <1>2

(* For every capacity and any number of transfers and peers, whatever peers *)
(* die and however the unlocked Push of a transfer races Collect: Collect   *)
(* stays within its capacity, and as long as no two insertions into the     *)
(* list met, every live peer is within End's reach and End leaves none of   *)
(* Collect's alive.                                                         *)
THEOREM EndReachesAllHolds == Spec => []EndReachesAll
<1>1. Init => TypeOK /\ Numbered /\ Reach
  BY TypeInit, ReachInit
<1>2. TypeOK /\ Numbered /\ Reach /\ IInv /\ [Next]_vars => (TypeOK /\ Numbered /\ Reach)'
  BY TypeNext, NumberedNext, ReachNext
<1>3. TypeOK /\ Reach => EndReachesAll
  BY DEF Reach, EndReachesAll
<1> QED BY <1>1, <1>2, <1>3, InvHolds, PTL DEF Spec

HIDE PeersBounds DEF LoopPCs, PeerIds, NilPeer
-----------------------------------------------------------------------------
(***************************************************************************)
(* RedialPacketConn: what the goroutines of an abandoned conn can do.       *)
(* The inductive invariant.  Neither property is inductive: that an old     *)
(* writer steals one packet at most holds because its next WriteTo fails    *)
(* and leaves it blocked or done (StolenStops), and that two goroutines are *)
(* not both blocked because dialLoop leaves an exchange only when one of    *)
(* them has returned (LeftHasOneDone).                                      *)
(***************************************************************************)
StolenStops ==
    \A d \in Dials :
        /\ stolen[d] \in {0, 1}
        /\ stolen[d] = 1 => conn[d] = "closed" /\ writer[d] \in {"write", "send", "done"}

OneDone(d) == reader[d] = "done" \/ writer[d] = "done"

LeftHasOneDone ==
    /\ \A d \in Dials : conn[d] = "closed" => OneDone(d)
    /\ dialLoop = "close" => OneDone(dialled)

InUse == dialLoop \in {"exchange", "close"} => dialled \in Dials

\* The part of RedialTypeOK that the argument needs.
Shape ==
    /\ dialled \in Nat
    /\ conn \in [Dials -> {"none", "open", "broken", "closed"}]
    /\ reader \in [Dials -> {"none", "check", "read", "send", "done"}]
    /\ writer \in [Dials -> {"none", "select", "write", "send", "done"}]
    /\ stolen \in [Dials -> Int]

Fresh == \A d \in Dials : d > dialled => conn[d] = "none"

RedialInv == Shape /\ InUse /\ Fresh /\ StolenStops /\ LeftHasOneDone

USE RedialBounds DEF Dials

(* Initially no conn was dialled and nothing was stolen.                    *)
LEMMA RedialInitEstablishes == RedialInit => RedialInv
BY DEF RedialInit, RedialInv, Shape, InUse, Fresh, StolenStops, LeftHasOneDone, OneDone

(* A step of dialLoop keeps the invariant: the loop leaves an exchange only *)
(* with one goroutine done, and a conn is closed only after that.           *)
LEMMA LoopPreserves == RedialInv /\ LoopNext => RedialInv'
<1> SUFFICES ASSUME RedialInv, LoopNext PROVE RedialInv'
  OBVIOUS
<1> USE DEF RedialInv, Shape, InUse, Fresh, StolenStops, LeftHasOneDone, OneDone, queueVars
<1>1. CASE LoopTop
  BY <1>1 DEF LoopTop
<1>2. CASE DialSucceeds
  BY <1>2 DEF DialSucceeds
<1>3. CASE DialContextFails
  BY <1>3 DEF DialContextFails
<1>4. CASE LoopSeesReader
  BY <1>4 DEF LoopSeesReader
<1>5. CASE LoopSeesWriter
  BY <1>5 DEF LoopSeesWriter
<1>6. CASE LoopCloses
  BY <1>6 DEF LoopCloses
<1> QED
  BY <1>1, <1>2, <1>3, <1>4, <1>5, <1>6 DEF LoopNext

(* A step of a conn's reader keeps the invariant.                           *)
LEMMA ReaderPreserves == \A d \in Dials : RedialInv /\ ReaderNext(d) => RedialInv'
<1> SUFFICES ASSUME NEW d \in Dials, RedialInv, ReaderNext(d) PROVE RedialInv'
  OBVIOUS
<1> USE DEF RedialInv, Shape, InUse, Fresh, StolenStops, LeftHasOneDone, OneDone, queueVars
<1>1. CASE ReaderChecks(d)
  BY <1>1 DEF ReaderChecks
<1>2. CASE ReaderReturns(d)
  BY <1>2, ZenonT(40) DEF ReaderReturns
<1>3. CASE ReaderReads(d)
  BY <1>3 DEF ReaderReads
<1>4. CASE ReaderFails(d)
  BY <1>4 DEF ReaderFails
<1> QED
  BY <1>1, <1>2, <1>3, <1>4 DEF ReaderNext

(* A step of a conn's writer keeps the invariant: a writer that has taken a *)
(* packet after its conn was closed never comes back to its select.         *)
LEMMA WriterPreserves == \A d \in Dials : RedialInv /\ WriterNext(d) => RedialInv'
<1> SUFFICES ASSUME NEW d \in Dials, RedialInv, WriterNext(d) PROVE RedialInv'
  OBVIOUS
<1> USE DEF RedialInv, Shape, InUse, Fresh, StolenStops, LeftHasOneDone, OneDone, queueVars
<1>1. CASE WriterReturns(d)
  BY <1>1 DEF WriterReturns
<1>2. CASE WriterTakes(d)
  BY <1>2 DEF WriterTakes
<1>3. CASE WriterWrites(d)
  BY <1>3 DEF WriterWrites
<1> QED
  BY <1>1, <1>2, <1>3 DEF WriterNext

(* Every step keeps the invariant.                                          *)
LEMMA NextPreserves == RedialInv /\ [RedialNext]_redialVars => RedialInv'
<1> SUFFICES ASSUME RedialInv, [RedialNext]_redialVars PROVE RedialInv'
  OBVIOUS
<1>1. CASE LoopNext
  BY <1>1, LoopPreserves
<1>2. CASE \E d \in Dials : ReaderNext(d)
  BY <1>2, ReaderPreserves
<1>3. CASE \E d \in Dials : WriterNext(d)
  BY <1>3, WriterPreserves
<1>4. CASE \E d \in Dials : Breaks(d)
  BY <1>4 DEF Breaks, RedialInv, Shape, InUse, Fresh, StolenStops, LeftHasOneDone, OneDone, queueVars
<1>5. CASE WriteTo \/ ReadFrom \/ Close \/ UNCHANGED redialVars
  BY <1>5 DEF WriteTo, ReadFrom, Close, redialVars, RedialInv, Shape, InUse, Fresh,
              StolenStops, LeftHasOneDone, OneDone, queueVars
<1> QED
  BY <1>1, <1>2, <1>3, <1>4, <1>5 DEF RedialNext

(* The inductive invariant holds in every state.                            *)
THEOREM RedialInvHolds == RedialSpec => []RedialInv
<1>1. RedialInit => RedialInv
  BY RedialInitEstablishes
<1>2. RedialInv /\ [RedialNext]_redialVars => RedialInv'
  BY NextPreserves
<1> QED
  BY <1>1, <1>2, PTL DEF RedialSpec

(* The writer of an abandoned conn takes at most one packet from the conns  *)
(* that follow, whatever the sizes of the queues and the number of redials. *)
THEOREM StealsAtMostOneHolds == RedialSpec => []StealsAtMostOne
<1>1. RedialInv => StealsAtMostOne
  BY DEF RedialInv, StolenStops, StealsAtMostOne
<1> QED
  BY <1>1, RedialInvHolds, PTL

(* At most one goroutine of an abandoned exchange is left blocked.          *)
THEOREM AtMostOneBlockedHolds == RedialSpec => []AtMostOneBlocked
<1>1. RedialInv => AtMostOneBlocked
  BY DEF RedialInv, LeftHasOneDone, OneDone, AtMostOneBlocked
<1> QED
  BY <1>1, RedialInvHolds, PTL

HIDE RedialBounds DEF Dials
-----------------------------------------------------------------------------
(***************************************************************************)
(* Front.  A handler's option is safe between its override of the shared    *)
(* config and its transport only because an override that changes the       *)
(* config marks every other handler in between (ArgStands); and a dialer    *)
(* returns with nothing held because what is still to be released is        *)
(* exactly what is held (ReleasesAll).                                      *)
(***************************************************************************)
Resources == {"peers", "pconn", "sess", "stream"}
HandlerPCs == {"none", "accepted", "options", "transport", "waiting", "done"}
DialerPCs == {"none", "peers", "session", "stream", "copy", "closing", "hung", "done"}

HandlerType == handler \in [Conns -> [pc : HandlerPCs, arg : Options \cup {NoArg},
                                      used : Options \cup {NoArg, CommandLine}]]
DialerType == dialer \in [Conns -> [pc : DialerPCs, held : SUBSET Resources, todo : Seq(Resources)]]
MainType == main \in {"serving", "closed", "waiting", "exited"} /\ option \in Options \cup {CommandLine}

\* Before a handler makes its transport its connection uses nothing and dials nothing.
UnusedBefore == \A c \in Conns :
    /\ handler[c].pc \in {"none", "accepted", "options", "transport"}
           => handler[c].used = NoArg /\ dialer[c].pc = "none"
    /\ handler[c].pc = "none" => c \notin socks

ArgStands == \A c \in Conns :
    handler[c].pc = "transport" /\ handler[c].arg # NoArg /\ c \notin mixed => option = handler[c].arg

\* What is released in which order, and what is held meanwhile.
Plan(todo, held) ==
    \/ todo = <<>> /\ held = {}
    \/ todo = <<"sess">> /\ held = {"sess"}
    \/ todo = <<"pconn", "sess">> /\ held = {"pconn", "sess"}
    \/ todo = <<"peers", "pconn", "sess">> /\ held = {"peers", "pconn", "sess"}
    \/ todo = <<"stream", "peers", "pconn", "sess">> /\ held = Resources
    \/ todo = <<"peers">> /\ held = {"peers"}
    \/ todo = <<"sess", "peers">> /\ held = {"sess", "peers"}
    \/ todo = <<"pconn", "sess", "peers">> /\ held = {"pconn", "sess", "peers"}

HeldAt(d) ==
    /\ d.pc \in {"none", "peers", "done"} => d.held = {}
    /\ d.pc = "session" => d.held = {"peers"}
    /\ d.pc = "stream" => d.held = {"peers", "pconn", "sess"}
    /\ d.pc = "copy" => d.held = Resources
    /\ d.pc = "closing" => Plan(d.todo, d.held)

ReleasesAll == \A c \in Conns : HeldAt(dialer[c])

FrontInv == HandlerType /\ DialerType /\ MainType /\ UnusedBefore /\ ArgStands /\ OwnOption /\ ReleasesAll

(* One release goes on with the plan.                                       *)
LEMMA PlanGoesOn ==
    ASSUME NEW todo, NEW held, Plan(todo, held), todo # <<>>
    PROVE  Plan(Tail(todo), held \ {Head(todo)})
<1>1. CASE todo = <<"sess">> /\ held = {"sess"}
  BY <1>1 DEF Plan
<1>2. CASE todo = <<"pconn", "sess">> /\ held = {"pconn", "sess"}
  BY <1>2 DEF Plan
<1>3. CASE todo = <<"peers", "pconn", "sess">> /\ held = {"peers", "pconn", "sess"}
  BY <1>3 DEF Plan
<1>4. CASE todo = <<"stream", "peers", "pconn", "sess">> /\ held = Resources
  BY <1>4 DEF Plan, Resources
<1>5. CASE todo = <<"peers">> /\ held = {"peers"}
  BY <1>5 DEF Plan
<1>6. CASE todo = <<"sess", "peers">> /\ held = {"sess", "peers"}
  BY <1>6 DEF Plan
<1>7. CASE todo = <<"pconn", "sess", "peers">> /\ held = {"pconn", "sess", "peers"}
  BY <1>7 DEF Plan
<1> QED BY <1>1, <1>2, <1>3, <1>4, <1>5, <1>6, <1>7 DEF Plan

(* Initially nothing was accepted.                                          *)
LEMMA FrontInitEstablishes == FrontInit => FrontInv
<1> SUFFICES ASSUME FrontInit PROVE FrontInv
  OBVIOUS
<1>1. HandlerType /\ MainType
  BY DEF FrontInit, HandlerType, MainType, HandlerPCs
<1>2. DialerType
  BY DEF FrontInit, DialerType, DialerPCs
<1>3. UnusedBefore /\ ArgStands /\ OwnOption
  BY DEF FrontInit, UnusedBefore, ArgStands, OwnOption
<1>4. ReleasesAll
  BY DEF FrontInit, ReleasesAll, HeldAt
<1> QED BY <1>1, <1>2, <1>3, <1>4 DEF FrontInv

(* A handler joins the group or is done: neither touches the config, its    *)
(* argument or what its connection uses.                                    *)
LEMMA HandlerMoves ==
    ASSUME FrontInv, NEW c \in Conns, NEW from \in HandlerPCs \ {"none"}, NEW to \in {"options", "done"},
           Goes(c, from, to), to = "options" => from = "accepted",
           UNCHANGED <<main, option, dialer, mixed>>, socks' \subseteq socks
    PROVE  FrontInv'
<1>1. HandlerType' /\ MainType' /\ DialerType' /\ ReleasesAll'
  BY ZenonT(30) DEF FrontInv, HandlerType, MainType, DialerType, ReleasesAll, Goes, HandlerPCs
<1>2. /\ \A b \in Conns : handler'[b].arg = handler[b].arg /\ handler'[b].used = handler[b].used
      /\ \A b \in Conns \ {c} : handler'[b].pc = handler[b].pc
      /\ handler'[c].pc = to /\ handler[c].pc = from
  BY DEF FrontInv, HandlerType, Goes
<1>3. UnusedBefore'
  BY <1>2 DEF FrontInv, UnusedBefore
<1>4. ArgStands' /\ OwnOption'
  BY <1>2 DEF FrontInv, ArgStands, OwnOption
<1> QED BY <1>1, <1>3, <1>4 DEF FrontInv

(* The config is overwritten: whoever is about to make a transport from it  *)
(* is marked if it changes.                                                 *)
LEMMA OverrideKeeps ==
    ASSUME FrontInv, NEW c \in Conns, OverrideOptions(c)
    PROVE  FrontInv'
<1>1. HandlerType' /\ DialerType' /\ ReleasesAll'
  BY ZenonT(30) DEF FrontInv, HandlerType, DialerType, ReleasesAll, OverrideOptions, Goes, HandlerPCs
<1>2. MainType'
  <2>1. handler[c].arg \in Options \cup {NoArg}
    BY DEF FrontInv, HandlerType
  <2> QED BY <2>1 DEF FrontInv, MainType, OverrideOptions
<1>3. /\ \A b \in Conns : handler'[b].arg = handler[b].arg /\ handler'[b].used = handler[b].used
      /\ \A b \in Conns \ {c} : handler'[b].pc = handler[b].pc
      /\ handler'[c].pc = "transport" /\ handler[c].pc = "options"
  BY DEF FrontInv, HandlerType, OverrideOptions, Goes
<1>4. UnusedBefore'
  BY <1>3 DEF FrontInv, UnusedBefore, OverrideOptions
<1>5. mixed \subseteq mixed'
  BY DEF OverrideOptions
<1>6. ArgStands'
  <2> SUFFICES ASSUME NEW b \in Conns, handler'[b].pc = "transport", handler'[b].arg # NoArg, b \notin mixed'
               PROVE  option' = handler'[b].arg
    BY DEF ArgStands
  <2>1. CASE b = c
    BY <1>3, <2>1 DEF OverrideOptions
  <2>2. CASE b # c
    <3>1. handler[b].pc = "transport" /\ handler[b].arg # NoArg /\ b \notin mixed
      BY <1>3, <1>5, <2>2
    <3>2. option' = option
      BY <2>2, <3>1 DEF OverrideOptions
    <3> QED BY <1>3, <3>1, <3>2 DEF FrontInv, ArgStands
  <2> QED BY <2>1, <2>2
<1>7. OwnOption'
  BY <1>3, <1>5 DEF FrontInv, OwnOption
<1> QED BY <1>1, <1>2, <1>4, <1>6, <1>7 DEF FrontInv

(* The transport takes the option that stands in the config.                *)
LEMMA MakeTransportKeeps ==
    ASSUME FrontInv, NEW c \in Conns, MakeTransport(c)
    PROVE  FrontInv'
<1>1. HandlerType' /\ MainType'
  BY ZenonT(30) DEF FrontInv, HandlerType, MainType, MakeTransport, HandlerPCs
<1>2. /\ \A b \in Conns \ {c} : handler'[b] = handler[b] /\ dialer'[b] = dialer[b]
      /\ handler'[c].pc = "waiting" /\ handler'[c].used = option /\ handler'[c].arg = handler[c].arg
      /\ handler[c].pc = "transport"
  BY DEF FrontInv, HandlerType, DialerType, MakeTransport
<1>3. DialerType' /\ dialer'[c].pc = "peers" /\ dialer'[c].held = dialer[c].held
  BY DEF FrontInv, DialerType, MakeTransport, DialerPCs
<1>4. UnusedBefore'
  BY ZenonT(30), <1>2 DEF FrontInv, UnusedBefore, MakeTransport
<1>5. ArgStands' /\ OwnOption'
  BY ZenonT(30), <1>2 DEF FrontInv, ArgStands, OwnOption, MakeTransport
<1>6. ReleasesAll'
  <2>1. HeldAt(dialer[c]) /\ dialer[c].pc = "none"
    BY <1>2 DEF FrontInv, ReleasesAll, UnusedBefore
  <2>2. HeldAt(dialer'[c])
    BY <2>1, <1>3 DEF HeldAt
  <2> QED BY <2>2, <1>2 DEF FrontInv, ReleasesAll
<1> QED BY <1>1, <1>3, <1>4, <1>5, <1>6 DEF FrontInv

(* A connection is accepted with its own arguments.                         *)
LEMMA AcceptSocksKeeps ==
    ASSUME FrontInv, NEW c \in Conns, NEW arg \in Options \cup {NoArg}, AcceptSocks(c, arg)
    PROVE  FrontInv'
<1>1. HandlerType' /\ MainType' /\ DialerType' /\ ReleasesAll'
  <2>1. HandlerType'
    BY ZenonT(30) DEF FrontInv, HandlerType, AcceptSocks, HandlerPCs
  <2>2. DialerType' /\ ReleasesAll'
    BY DEF FrontInv, DialerType, ReleasesAll, AcceptSocks
  <2> QED BY <2>1, <2>2 DEF FrontInv, MainType, AcceptSocks
<1>2. /\ \A b \in Conns \ {c} : handler'[b] = handler[b]
      /\ handler'[c].pc = "accepted" /\ handler'[c].used = handler[c].used
      /\ handler[c].pc = "none"
  BY DEF FrontInv, HandlerType, AcceptSocks
<1>3. UnusedBefore'
  BY Zenon, <1>2 DEF FrontInv, UnusedBefore, AcceptSocks
<1>4. handler[c].used = NoArg
  BY <1>2 DEF FrontInv, UnusedBefore
<1>5. ArgStands'
  BY <1>2, <1>4 DEF FrontInv, ArgStands, AcceptSocks
<1>6. OwnOption'
  BY <1>2, <1>4 DEF FrontInv, OwnOption, AcceptSocks
<1> QED BY <1>1, <1>3, <1>5, <1>6 DEF FrontInv

(* What the dialer of a connection does concerns what it holds and is to    *)
(* release, and nothing of any handler.                                     *)
LEMMA DialerMoves ==
    ASSUME FrontInv, NEW c \in Conns, dialer[c].pc # "none",
           NEW pc \in DialerPCs, NEW held \in SUBSET Resources, NEW todo \in Seq(Resources),
           Dialer(c, pc, held, todo), HeldAt([pc |-> pc, held |-> held, todo |-> todo])
    PROVE  FrontInv'
<1>1. /\ dialer'[c] = [pc |-> pc, held |-> held, todo |-> todo]
      /\ \A b \in Conns \ {c} : dialer'[b] = dialer[b]
  BY DEF FrontInv, DialerType, Dialer
<1>2. HandlerType' /\ MainType' /\ ArgStands' /\ OwnOption'
  BY DEF FrontInv, HandlerType, MainType, ArgStands, OwnOption, Dialer
<1>3. DialerType'
  BY DEF FrontInv, DialerType, Dialer
<1>4. UnusedBefore'
  BY <1>1 DEF FrontInv, UnusedBefore, Dialer
<1>5. ReleasesAll'
  BY <1>1 DEF FrontInv, ReleasesAll
<1> QED BY <1>2, <1>3, <1>4, <1>5 DEF FrontInv

(* Dial takes its resources one after the other.                            *)
LEMMA DialStepsKeep ==
    ASSUME FrontInv, NEW c \in Conns, DialSteps(c)
    PROVE  FrontInv'
<1>1. HeldAt(dialer[c])
  BY DEF FrontInv, ReleasesAll
<1>2. <<>> \in Seq(Resources)
  OBVIOUS
<1>3. CASE DialPeers(c)
  <2>1. HeldAt([pc |-> "session", held |-> {"peers"}, todo |-> <<>>])
    BY DEF HeldAt
  <2> QED BY <1>2, <1>3, <2>1, DialerMoves DEF DialPeers, DialerPCs, Resources
<1>4. CASE DialSession(c)
  <2>1. HeldAt([pc |-> "stream", held |-> {"peers", "pconn", "sess"}, todo |-> <<>>])
    BY DEF HeldAt
  <2> QED BY <1>2, <1>4, <2>1, DialerMoves DEF DialSession, DialerPCs, Resources
<1>5. CASE DialStream(c)
  <2>1. dialer[c].held \cup {"stream"} = Resources
    BY <1>1, <1>5 DEF DialStream, HeldAt, Resources
  <2>2. HeldAt([pc |-> "copy", held |-> Resources, todo |-> <<>>])
    BY DEF HeldAt
  <2>3. Dialer(c, "copy", Resources, <<>>) /\ dialer[c].pc # "none"
    BY <1>5, <2>1 DEF DialStream
  <2> QED BY <1>2, <2>2, <2>3, DialerMoves DEF DialerPCs
<1> QED BY <1>3, <1>4, <1>5 DEF DialSteps

(* A Dial that fails is left with what it cleans up.                        *)
LEMMA SessionFailsKeeps ==
    ASSUME FrontInv, NEW c \in Conns, SessionFails(c)
    PROVE  FrontInv'
<1>1. HeldAt(dialer[c]) /\ dialer[c].held \in SUBSET Resources /\ dialer[c].pc # "none"
  BY DEF FrontInv, ReleasesAll, DialerType, SessionFails
<1>2. Plan(Cleanup(dialer[c].held), dialer[c].held)
  <2>1. CASE dialer[c].pc = "session"
    BY <1>1, <2>1 DEF HeldAt, Plan, Cleanup
  <2>2. CASE dialer[c].pc = "stream"
    BY <1>1, <2>2 DEF HeldAt, Plan, Cleanup
  <2> QED BY <2>1, <2>2 DEF SessionFails
<1>3. Cleanup(dialer[c].held) \in Seq(Resources)
  <2>1. <<"pconn", "sess", "peers">> \in Seq(Resources) /\ <<"peers">> \in Seq(Resources)
    BY DEF Resources
  <2> QED BY <2>1 DEF Cleanup
<1>4. HeldAt([pc |-> "closing", held |-> dialer[c].held, todo |-> Cleanup(dialer[c].held)])
  BY <1>2 DEF HeldAt
<1> QED BY <1>1, <1>3, <1>4, DialerMoves DEF SessionFails, DialerPCs

(* A conn that is closed releases one resource after the other.             *)
LEMMA ReleaseKeeps ==
    ASSUME FrontInv, NEW c \in Conns, ReleaseNext(c) \/ EndHangs(c)
    PROVE  FrontInv'
<1>1. HeldAt(dialer[c]) /\ dialer[c].held \in SUBSET Resources /\ dialer[c].todo \in Seq(Resources)
  BY DEF FrontInv, ReleasesAll, DialerType
<1>2. CASE CopyLoopReturns(c)
  <2>1. HeldAt([pc |-> "closing", held |-> dialer[c].held, todo |-> <<"stream", "peers", "pconn", "sess">>])
    BY <1>1, <1>2 DEF CopyLoopReturns, HeldAt, Plan
  <2>2. <<"stream", "peers", "pconn", "sess">> \in Seq(Resources)
    BY DEF Resources
  <2> QED BY <1>1, <1>2, <2>1, <2>2, DialerMoves DEF CopyLoopReturns, DialerPCs
<1>3. CASE Releases(c)
  <2> DEFINE held == dialer[c].held \ {Head(dialer[c].todo)}
             todo == Tail(dialer[c].todo)
  <2>1. Plan(todo, held)
    BY <1>1, <1>3, PlanGoesOn DEF Releases, HeldAt
  <2>2. HeldAt([pc |-> "closing", held |-> held, todo |-> todo])
    BY <2>1 DEF HeldAt
  <2>3. held \in SUBSET Resources /\ todo \in Seq(Resources)
    BY <1>1, <1>3 DEF Releases
  <2>4. Dialer(c, "closing", held, todo) /\ dialer[c].pc # "none" /\ "closing" \in DialerPCs
    BY <1>3 DEF Releases, DialerPCs
  <2> HIDE DEF held, todo
  <2> QED BY <2>2, <2>3, <2>4, DialerMoves
<1>4. CASE DialerReturns(c)
  <2>1. HeldAt([pc |-> "done", held |-> dialer[c].held, todo |-> <<>>])
    BY <1>1, <1>4 DEF DialerReturns, HeldAt, Plan
  <2> QED BY <1>1, <1>4, <2>1, DialerMoves DEF DialerReturns, DialerPCs
<1>5. CASE EndHangs(c)
  <2>1. HeldAt([pc |-> "hung", held |-> dialer[c].held, todo |-> dialer[c].todo])
    BY DEF HeldAt
  <2> QED BY <1>1, <1>5, <2>1, DialerMoves DEF EndHangs, DialerPCs
<1> QED BY <1>2, <1>3, <1>4, <1>5 DEF ReleaseNext

(* Every step of the front end keeps the invariant.                         *)
LEMMA FrontNextKeeps == FrontInv /\ [FrontNext]_frontVars => FrontInv'
<1> SUFFICES ASSUME FrontInv, [FrontNext]_frontVars PROVE FrontInv'
  OBVIOUS
<1>1. ASSUME UNCHANGED <<option, handler, dialer, socks, mixed>>, main' \in {"serving", "closed", "waiting", "exited"}
      PROVE  FrontInv'
  BY <1>1 DEF FrontInv, HandlerType, DialerType, MainType, UnusedBefore, ArgStands, OwnOption, ReleasesAll
<1>2. main \in {"serving", "closed", "waiting", "exited"}
  BY DEF FrontInv, MainType
<1>3. CASE UNCHANGED frontVars
  BY <1>1, <1>2, <1>3 DEF frontVars
<1>4. CASE Signal \/ CloseShutdown \/ MainReturns
  BY <1>1, <1>4 DEF Signal, CloseShutdown, MainReturns
<1>5. ASSUME NEW c \in Conns, HandlerNext(c) \/ Rejects(c) PROVE FrontInv'
  <2>1. CASE AddToGroup(c)
    BY <2>1, HandlerMoves DEF AddToGroup, HandlerPCs
  <2>2. CASE HandlerReturns(c)
    BY <2>2, HandlerMoves DEF HandlerReturns, Leaves, HandlerPCs
  <2>3. CASE Rejects(c)
    <3>1. ASSUME NEW from \in {"options", "transport"}, Leaves(c, from) PROVE FrontInv'
      BY <2>3, <3>1, HandlerMoves DEF Rejects, Leaves, HandlerPCs
    <3> QED BY <2>3, <3>1 DEF Rejects
  <2> QED BY <1>5, <2>1, <2>2, <2>3, OverrideKeeps, MakeTransportKeeps DEF HandlerNext
<1>6. ASSUME NEW c \in Conns, NEW d \in {"up", "down"}, CopyEnds(c, d) \/ LeftCopyEnds(c, d) PROVE FrontInv'
  BY <1>1, <1>2, <1>6 DEF CopyEnds, LeftCopyEnds
<1>7. ASSUME NEW c \in Conns, DialSteps(c) \/ ReleaseNext(c) \/ SessionFails(c) \/ EndHangs(c) PROVE FrontInv'
  BY <1>7, DialStepsKeep, SessionFailsKeeps, ReleaseKeeps
<1>8. ASSUME NEW c \in Conns, NEW arg \in Options \cup {NoArg}, AcceptSocks(c, arg) PROVE FrontInv'
  BY <1>8, AcceptSocksKeeps
<1> QED
  BY <1>3, <1>4, <1>5, <1>6, <1>7, <1>8 DEF FrontNext

(* The handlers make their transports with the option of their own SOCKS    *)
(* connection unless another handler came in between, and no dialer returns *)
(* with anything held, however many connections share the config.           *)
THEOREM OptionsSoundHolds == FrontSpec => []OptionsSound
<1>1. FrontInit => FrontInv
  BY FrontInitEstablishes
<1>2. FrontInv /\ [FrontNext]_frontVars => FrontInv'
  BY FrontNextKeeps
<1>3. FrontInv => OptionsSound
  <2> SUFFICES ASSUME FrontInv PROVE FrontTypeOK
    BY DEF FrontInv, OptionsSound
  <2>1. \A c \in Conns : dialer[c].held \subseteq {"peers", "pconn", "sess", "stream"}
    BY DEF FrontInv, DialerType, Resources
  <2>2. \A c \in Conns : dialer[c].pc \in {"none", "peers", "done"} => dialer[c].held = {}
    BY DEF FrontInv, ReleasesAll, HeldAt
  <2>3. \A c \in Conns : handler[c].pc = "none" => dialer[c].pc = "none" /\ c \notin socks
    BY DEF FrontInv, UnusedBefore
  <2> QED BY <2>1, <2>2, <2>3 DEF FrontInv, MainType, FrontTypeOK
<1> QED BY <1>1, <1>2, <1>3, PTL DEF FrontSpec
=============================================================================
