------------------------------- MODULE Relay -------------------------------
(***************************************************************************)
(* One session of a proxy from the /add request to its end: addHandler and *)
(* its wait, datachannelHandler with copyLoop (proxy/lib/snowflake.go), the *)
(* webRTCConn towards the client (webrtcconn.go) and the websocketconn.Conn *)
(* towards the relay. Payloads are left out: what matters is who is blocked *)
(* on which pipe, lock or channel. A pipe has no state of its own beyond    *)
(* being closed, since a write completes only with the read that takes it.  *)
(*   add       addHandler and the goroutine that waits for dataChan;       *)
(*   handler   datachannelHandler;                                         *)
(*   tl        timeoutLoop;                                                *)
(*   msg       the read loop of the data channel: OnMessage, then OnClose; *)
(*   up, down  the two copyers; wl, rl  writeLoop and readLoop;            *)
(*   conn      the fields of webRTCConn and the state of its pc;           *)
(*   ws        the WebSocket; clients  tokens.clients.                     *)
(* pion calls OnMessage in the channel's read loop and OnClose after it.   *)
(***************************************************************************)
EXTENDS Integers

CONSTANTS Capacities     \* the capacities the proxy may be started with

ASSUME CapacitiesAssumption == Capacities \subseteq Nat

VARIABLES capacity, add, handler, tl, msg, up, down, wl, rl, conn, ws,
          shutdown, clients

relayVars == <<capacity, add, handler, tl, msg, up, down, wl, rl, conn, ws,
          shutdown, clients>>
loops == <<msg, up, down, wl, rl>>

RelayInit ==
    /\ capacity \in Capacities /\ clients = 0 /\ shutdown = FALSE
    /\ add = "new" /\ handler = "none" /\ tl = "none"
    /\ msg = "none" /\ up = "none" /\ down = "none" /\ wl = "none" /\ rl = "none"
    /\ conn = [isClosing |-> FALSE, sendMore |-> FALSE, cancelled |-> FALSE,
               pc |-> "open", dcNil |-> FALSE, pw |-> "open", returned |-> 0]
    /\ ws = [gone |-> FALSE, closed |-> FALSE]

(* The data channel delivers nothing more. *)
DcGone == conn.pc # "open"

(* tokens.ret: with a capacity it receives from a channel nobody sends to,
   since no live code calls tokens.get. *)
Blocks == capacity # 0
Ret(c) == [c EXCEPT !.returned = @ + 1]

(***************************************************************************)
(* addHandler                                                              *)
(***************************************************************************)

(* makePeerConnectionFromOffer fails: a token goes back; then pc.Close on the
   nil pc panics, which net/http recovers from. *)
AddFails == /\ add = "new"
            /\ add' = IF Blocks THEN "blocked" ELSE "failed"
            /\ clients' = clients - 1
            /\ UNCHANGED <<capacity, handler, tl, loops, conn, ws, shutdown>>

(* The answer is written and the waiting goroutine starts. *)
AddAnswers == /\ add = "new" /\ add' = "waiting"
              /\ UNCHANGED <<capacity, handler, tl, loops, conn, ws, shutdown, clients>>

(* Mutant of AddSucceeds: the token goes back on success as well. *)
AddSucceedsReturns == /\ add = "waiting" /\ handler # "none" /\ add' = "succeeded"
                      /\ conn' = Ret(conn) /\ clients' = clients - 1
                      /\ UNCHANGED <<capacity, handler, tl, loops, ws, shutdown>>

(* The goroutine's select sees the closed dataChan. *)
AddSucceeds == /\ add = "waiting" /\ handler # "none" /\ add' = "succeeded"
               /\ UNCHANGED <<capacity, handler, tl, loops, conn, ws, shutdown, clients>>

(* The select takes dataChannelTimeout, which it may do even when dataChan has
   just been closed. *)
AddTimesOut == /\ add = "waiting" /\ add' = "closing"
               /\ UNCHANGED <<capacity, handler, tl, loops, conn, ws, shutdown, clients>>

(* pc.Close and tokens.ret after the timeout. *)
AddCloses == /\ add = "closing"
             /\ add' = IF Blocks THEN "blocked" ELSE "timedout"
             /\ conn' = Ret([conn EXCEPT !.pc = "closed"])
             /\ clients' = clients - 1
             /\ UNCHANGED <<capacity, handler, tl, loops, ws, shutdown>>

(***************************************************************************)
(* OnDataChannel, the callbacks of the channel and webRTCConn              *)
(***************************************************************************)

(* dataChan is closed, the webRTCConn and its timeoutLoop are made, and
   datachannelHandler starts. *)
OnDataChannel == /\ add \in {"waiting", "closing"} /\ handler = "none" /\ ~DcGone
                 /\ handler' = "dialing" /\ msg' = "idle" /\ tl' = "run"
                 /\ UNCHANGED <<capacity, add, up, down, wl, rl, conn, ws, shutdown, clients>>

(* OnMessage: pw.Write blocks until the copyer reads. *)
OnMessage == /\ msg = "idle" /\ ~DcGone /\ msg' = "writing"
             /\ UNCHANGED <<capacity, add, handler, tl, up, down, wl, rl, conn, ws, shutdown, clients>>

(* The read loop of the channel ends and calls OnClose. *)
DcLoopEnds == /\ msg = "idle" /\ DcGone /\ msg' = "onclose"
              /\ UNCHANGED <<capacity, add, handler, tl, up, down, wl, rl, conn, ws, shutdown, clients>>

(* OnClose gets conn.lock, which Write holds while it waits for sendMoreCh:
   the end of the connection is reported, dc is dropped and pw closed. *)
OnClose == /\ msg = "onclose" /\ down # "waiting"
           /\ msg' = "closed"
           /\ conn' = [conn EXCEPT !.dcNil = TRUE, !.pw = "closed"]
           /\ UNCHANGED <<capacity, add, handler, tl, up, down, wl, rl, ws, shutdown, clients>>

(* OnBufferedAmountLow: the client has taken what was buffered. *)
OnBufferedAmountLow ==
    /\ handler # "none" /\ ~DcGone
    /\ conn' = [conn EXCEPT !.sendMore = TRUE]
    /\ UNCHANGED <<capacity, add, handler, tl, loops, ws, shutdown, clients>>

(* webRTCConn.Close in two steps, since isClosing is set without the lock. *)
Marked == [conn EXCEPT !.isClosing = TRUE]

Woken == [conn EXCEPT !.sendMore = TRUE, !.cancelled = TRUE, !.pc = "closed"]

(* timeoutLoop: nothing was written to the client for the whole timeout. *)
InactivityTimeout ==
    /\ tl = "run" /\ down \in {"none", "read", "waiting", "done"}
    /\ tl' = "marked" /\ conn' = Marked
    /\ UNCHANGED <<capacity, add, handler, loops, ws, shutdown, clients>>

TimeoutLoopCloses ==
    /\ tl = "marked" /\ tl' = "done" /\ conn' = Woken
    /\ UNCHANGED <<capacity, add, handler, loops, ws, shutdown, clients>>

TimeoutLoopCancelled ==
    /\ tl = "run" /\ conn.cancelled /\ tl' = "done"
    /\ UNCHANGED <<capacity, add, handler, loops, conn, ws, shutdown, clients>>

(***************************************************************************)
(* The two directions of copyLoop                                          *)
(***************************************************************************)

(* Up: the pipe of OnMessage, the copyer, the pipe of writeLoop, the relay. *)
UpReads == /\ up = "read" /\ msg = "writing"
           /\ up' = "write" /\ msg' = "idle"
           /\ UNCHANGED <<capacity, add, handler, tl, down, wl, rl, conn, ws, shutdown, clients>>

UpWrites == /\ up = "write" /\ wl = "read" /\ ~ws.closed
            /\ up' = "read" /\ wl' = "send"
            /\ UNCHANGED <<capacity, add, handler, tl, msg, down, rl, conn, ws, shutdown, clients>>

UpEnds == /\ \/ up = "read" /\ conn.pw = "closed"
             \/ up = "write" /\ (ws.closed \/ wl = "done")
          /\ up' = "done"
          /\ UNCHANGED <<capacity, add, handler, tl, msg, down, wl, rl, conn, ws, shutdown, clients>>

WriteLoopSends == /\ wl = "send" /\ wl' = (IF ws.gone THEN "done" ELSE "read")
                  /\ UNCHANGED <<capacity, add, handler, tl, msg, up, down, rl, conn, ws, shutdown, clients>>

WriteLoopEnds == /\ wl = "read" /\ ws.closed /\ wl' = "done"
                 /\ UNCHANGED <<capacity, add, handler, tl, msg, up, down, rl, conn, ws, shutdown, clients>>

(* Down: the relay, readLoop and its pipe, the copyer, webRTCConn.Write. *)
ReadLoopReads == /\ rl = "next" /\ ~ws.gone /\ rl' = "write"
                 /\ UNCHANGED <<capacity, add, handler, tl, msg, up, down, wl, conn, ws, shutdown, clients>>

ReadLoopEnds == /\ \/ rl = "next" /\ ws.gone
                   \/ rl = "write" /\ ws.closed
                /\ rl' = "done"
                /\ UNCHANGED <<capacity, add, handler, tl, msg, up, down, wl, conn, ws, shutdown, clients>>

DownReads == /\ down = "read" /\ rl = "write" /\ ~ws.closed
             /\ down' = "write" /\ rl' = "next"
             /\ UNCHANGED <<capacity, add, handler, tl, msg, up, wl, conn, ws, shutdown, clients>>

DownEnds == /\ down = "read" /\ (rl = "done" \/ ws.closed) /\ down' = "done"
            /\ UNCHANGED <<capacity, add, handler, tl, msg, up, wl, rl, conn, ws, shutdown, clients>>

(* Write: Send, and with the lock held a wait for sendMoreCh if too much is
   buffered (full) and the connection is not being closed. *)
DownWrites(full) ==
    /\ down = "write"
    /\ down' = IF ~conn.dcNil /\ ~conn.isClosing /\ full THEN "waiting" ELSE "read"
    /\ UNCHANGED <<capacity, add, handler, tl, msg, up, wl, rl, conn, ws, shutdown, clients>>

DownIsWoken == /\ down = "waiting" /\ conn.sendMore
               /\ conn' = [conn EXCEPT !.sendMore = FALSE]
               /\ down' = "read"
               /\ UNCHANGED <<capacity, add, handler, tl, msg, up, wl, rl, ws, shutdown, clients>>

(***************************************************************************)
(* datachannelHandler                                                      *)
(***************************************************************************)
DialRelay == /\ handler = "dialing" /\ handler' = "relaying"
             /\ up' = "read" /\ down' = "read" /\ wl' = "read" /\ rl' = "next"
             /\ UNCHANGED <<capacity, add, tl, msg, conn, ws, shutdown, clients>>

DialRelayFails == /\ handler = "dialing" /\ handler' = "ret"
                  /\ UNCHANGED <<capacity, add, tl, loops, conn, ws, shutdown, clients>>

(* Mutant of CopyLoopEnds: both copyers have to end. *)
CopyLoopWaitsForBoth ==
    /\ handler = "relaying" /\ ((up = "done" /\ down = "done") \/ shutdown)
    /\ handler' = "marked" /\ conn' = Marked
    /\ UNCHANGED <<capacity, add, tl, loops, ws, shutdown, clients>>

(* done or shutdown ends copyLoop, whose deferred c1.Close begins. *)
CopyLoopEnds ==
    /\ handler = "relaying" /\ (up = "done" \/ down = "done" \/ shutdown)
    /\ handler' = "marked" /\ conn' = Marked
    /\ UNCHANGED <<capacity, add, tl, loops, ws, shutdown, clients>>

(* Mutant of CopyLoopCloses: the pipes of the WebSocket stay open. *)
CopyLoopClosesSocketOnly ==
    /\ handler = "marked" /\ handler' = "ret"
    /\ conn' = Woken
    /\ ws' = [ws EXCEPT !.gone = TRUE]
    /\ UNCHANGED <<capacity, add, tl, loops, shutdown, clients>>

(* The rest of c1.Close, then c2.Close: both pipes, then the WebSocket. *)
CopyLoopCloses ==
    /\ handler = "marked" /\ handler' = "ret"
    /\ conn' = Woken
    /\ ws' = [gone |-> TRUE, closed |-> TRUE]
    /\ UNCHANGED <<capacity, add, tl, loops, shutdown, clients>>

(* The deferred tokens.ret, before the deferred conn.Close. *)
HandlerReturnsToken ==
    /\ handler = "ret"
    /\ clients' = clients - 1 /\ conn' = Ret(conn)
    /\ handler' = IF Blocks THEN "blocked" ELSE "close"
    /\ UNCHANGED <<capacity, add, tl, loops, ws, shutdown>>

HandlerCloses ==
    /\ handler = "close" /\ handler' = "done"
    /\ conn' = [Woken EXCEPT !.isClosing = TRUE]
    /\ UNCHANGED <<capacity, add, tl, loops, ws, shutdown, clients>>

(***************************************************************************)
(* The environment: the client or the relay goes away, the proxy stops     *)
(***************************************************************************)
ClientLeaves == /\ handler # "none" /\ conn.pc = "open"
                /\ conn' = [conn EXCEPT !.pc = "left"]
                /\ UNCHANGED <<capacity, add, handler, tl, loops, ws, shutdown, clients>>

RelayLeaves == /\ handler = "relaying" /\ ~ws.gone
               /\ ws' = [ws EXCEPT !.gone = TRUE]
               /\ UNCHANGED <<capacity, add, handler, tl, loops, conn, shutdown, clients>>

Stop == /\ ~shutdown /\ shutdown' = TRUE
        /\ UNCHANGED <<capacity, add, handler, tl, loops, conn, ws, clients>>

(***************************************************************************)
(* Specification                                                           *)
(***************************************************************************)
AddStep == AddSucceeds \/ AddTimesOut \/ AddCloses
DcStep == DcLoopEnds \/ OnClose
TimeoutStep == InactivityTimeout \/ TimeoutLoopCloses \/ TimeoutLoopCancelled
UpStep == UpReads \/ UpWrites \/ UpEnds
WriteLoopStep == WriteLoopSends \/ WriteLoopEnds
ReadLoopStep == ReadLoopReads \/ ReadLoopEnds
DownStep == DownReads \/ DownEnds \/ (\E full \in BOOLEAN : DownWrites(full)) \/ DownIsWoken
HandlerStep == DialRelay \/ DialRelayFails \/ CopyLoopEnds \/ CopyLoopCloses
               \/ HandlerReturnsToken \/ HandlerCloses

RelayNext == \/ AddFails \/ AddAnswers \/ AddStep
        \/ OnDataChannel \/ OnMessage \/ OnBufferedAmountLow \/ DcStep
        \/ TimeoutStep \/ UpStep \/ WriteLoopStep \/ ReadLoopStep \/ DownStep
        \/ HandlerStep \/ ClientLeaves \/ RelayLeaves \/ Stop

RelaySpec == RelayInit /\ [][RelayNext]_relayVars

(* Every goroutine that can go on does so; the inactivity timer runs out when
   nothing is written for long enough. Nothing is assumed of the client, the
   relay, OnBufferedAmountLow and Stop. *)
RelayFairSpec ==
        /\ RelaySpec
        /\ WF_relayVars(AddStep) /\ WF_relayVars(DcStep) /\ WF_relayVars(TimeoutStep)
        /\ WF_relayVars(UpStep) /\ WF_relayVars(WriteLoopStep) /\ WF_relayVars(ReadLoopStep)
        /\ WF_relayVars(DownStep) /\ WF_relayVars(HandlerStep)

(***************************************************************************)
(* Properties                                                              *)
(***************************************************************************)

(* The goroutines of a session are at the points the code gives them, and the
   token counter is never above zero: no live code takes a token. *)
RelayTypeOK ==
    /\ capacity \in Capacities /\ shutdown \in BOOLEAN /\ clients \in -2..0
    /\ add \in {"new", "failed", "blocked", "waiting", "succeeded", "closing", "timedout"}
    /\ handler \in {"none", "dialing", "relaying", "marked", "ret", "blocked", "close", "done"}
    /\ tl \in {"none", "run", "marked", "done"}
    /\ msg \in {"none", "idle", "writing", "onclose", "closed"}
    /\ up \in {"none", "read", "write", "done"}
    /\ down \in {"none", "read", "write", "waiting", "done"}
    /\ wl \in {"none", "read", "send", "done"} /\ rl \in {"none", "next", "write", "done"}
    /\ conn \in [isClosing : BOOLEAN, sendMore : BOOLEAN, cancelled : BOOLEAN,
                 pc : {"open", "left", "closed"}, dcNil : BOOLEAN,
                 pw : {"open", "closed"}, returned : 0..2]
    /\ ws \in [gone : BOOLEAN, closed : BOOLEAN]

(* A session gives back two tokens only when its wait for the data channel
   timed out although the channel came: a session that was taken in time
   returns one. *)
OneTokenPerSession == conn.returned = 2 => add \in {"timedout", "blocked"}

(* Once the client or the relay has left, or the proxy is stopped, a relaying
   handler closes both connections and returns, even when the copyer holds the
   lock and waits for a buffer that will never drain, unless a capacity makes
   tokens.ret block. *)
SessionEnds ==
    (handler = "relaying" /\ (DcGone \/ ws.gone \/ shutdown))
        ~> (handler = "done" \/ Blocks)

(* When a handler is done its data channel's OnClose runs and reports the end
   of the connection, unless a message is stuck in the pipe that nobody reads
   any more. *)
EndIsReported == handler = "done" ~> msg \in {"closed", "writing"}

(* When a handler is done, its helper goroutines end: both copyers, both loops
   of the WebSocket and the timeoutLoop. *)
NoGoroutineLeft ==
    handler = "done" ~> {up, down, wl, rl} \subseteq {"none", "done"} /\ tl = "done"

(* Tokens are returned once per session, but for the timeout that races the *)
(* data channel (proxy snowflake.go:917-930).                               *)
TokensReturned == RelayTypeOK /\ OneTokenPerSession

(* A handler that is done leaves nothing behind: the end is reported and    *)
(* the helpers end, although Write holds the lock that OnClose needs.       *)
NothingLeft == EndIsReported /\ NoGoroutineLeft
=============================================================================
