----------------------------- MODULE ProxyProofs -----------------------------
(***************************************************************************)
(* Theorems about the proxy: what a session gives back to the token counter *)
(* (Relay, for any set of capacities), and what its periodic tasks and its  *)
(* traffic summary do (ProxyTasks, for any number of starts, goroutines,    *)
(* connections and bytes).                                                  *)
(***************************************************************************)
EXTENDS Relay, ProxyTasks, FiniteSetTheorems, TLAPS

(***************************************************************************)
(* Relay.  OneTokenPerSession is not inductive: a second token is excluded  *)
(* only by where addHandler and the handler are, so the invariant counts    *)
(* one token for each of the two that has passed its tokens.ret.            *)
(***************************************************************************)
AddTokens == IF add \in {"failed", "timedout", "blocked"} THEN 1 ELSE 0
HandlerTokens == IF handler \in {"blocked", "close", "done"} THEN 1 ELSE 0

TokensCounted ==
    /\ clients + AddTokens + HandlerTokens = 0
    /\ conn.returned <= AddTokens + HandlerTokens

\* Without an answer to the client there is no data channel, hence no handler.
NoAnswerNoHandler == add \in {"new", "failed"} => handler = "none"

RelayInv == RelayTypeOK /\ TokensCounted /\ NoAnswerNoHandler

ConnType == [isClosing : BOOLEAN, sendMore : BOOLEAN, cancelled : BOOLEAN,
             pc : {"open", "left", "closed"}, dcNil : BOOLEAN,
             pw : {"open", "closed"}, returned : 0..2]
WsType == [gone : BOOLEAN, closed : BOOLEAN]

(* The type of a session without its two records, and with them.            *)
PointsOK ==
    /\ capacity \in Capacities /\ shutdown \in BOOLEAN /\ clients \in -2..0
    /\ add \in {"new", "failed", "blocked", "waiting", "succeeded", "closing", "timedout"}
    /\ handler \in {"none", "dialing", "relaying", "marked", "ret", "blocked", "close", "done"}
    /\ tl \in {"none", "run", "marked", "done"}
    /\ msg \in {"none", "idle", "writing", "onclose", "closed"}
    /\ up \in {"none", "read", "write", "done"}
    /\ down \in {"none", "read", "write", "waiting", "done"}
    /\ wl \in {"none", "read", "send", "done"} /\ rl \in {"none", "next", "write", "done"}

LEMMA RelayTypeParts ==
    /\ RelayTypeOK <=> PointsOK /\ conn \in ConnType /\ ws \in WsType
    /\ RelayTypeOK' <=> PointsOK' /\ conn' \in ConnType /\ ws' \in WsType
BY DEF RelayTypeOK, PointsOK, ConnType, WsType

(* Initially no token was returned and nobody runs.                         *)
LEMMA RelayInitEstablishes == RelayInit => RelayInv
<1> SUFFICES ASSUME RelayInit PROVE RelayInv
  OBVIOUS
<1>1. PointsOK
  <2>1. shutdown \in BOOLEAN
    BY DEF RelayInit
  <2>2. clients \in -2..0
    BY DEF RelayInit
  <2> QED
    BY <2>1, <2>2 DEF RelayInit, PointsOK
<1>2. ws \in WsType
  BY DEF RelayInit, WsType
<1>3. conn \in ConnType
  BY DEF RelayInit, ConnType
<1>4. conn.returned = 0 /\ clients = 0 /\ add = "new" /\ handler = "none"
  BY DEF RelayInit
<1>5. TokensCounted
  BY <1>4 DEF TokensCounted, AddTokens, HandlerTokens
<1> QED
  BY <1>1, <1>2, <1>3, <1>4, <1>5, RelayTypeParts DEF RelayInv, NoAnswerNoHandler

(* A step that moves neither addHandler nor the handler past its token      *)
(* keeps the count.                                                         *)
LEMMA TokensUntouched ==
    ASSUME RelayInv, RelayTypeOK', UNCHANGED clients, conn'.returned = conn.returned,
           AddTokens' = AddTokens, HandlerTokens' = HandlerTokens, NoAnswerNoHandler'
    PROVE  RelayInv'
BY DEF RelayInv, TokensCounted

(* addHandler ends with a token returned.                                   *)
LEMMA AddReturned ==
    ASSUME TokensCounted, clients' = clients - 1, conn'.returned <= conn.returned + 1,
           clients \in Int, conn.returned \in Int, conn'.returned \in Int,
           handler' = handler, add \in {"new", "closing"}, add' \in {"failed", "timedout", "blocked"}
    PROVE  TokensCounted'
<1> USE DEF AddTokens, HandlerTokens
<1>1. clients' + AddTokens' + HandlerTokens' = 0
  BY DEF TokensCounted
<1>2. conn'.returned <= AddTokens' + HandlerTokens'
  BY DEF TokensCounted
<1> QED BY <1>1, <1>2 DEF TokensCounted

(* The handler passes its tokens.ret.                                       *)
LEMMA HandlerReturned ==
    ASSUME TokensCounted, clients' = clients - 1, conn'.returned <= conn.returned + 1,
           clients \in Int, conn.returned \in Int, conn'.returned \in Int,
           add' = add, handler = "ret", handler' \in {"blocked", "close"}
    PROVE  TokensCounted'
<1> USE DEF AddTokens, HandlerTokens
<1>1. clients' + AddTokens' + HandlerTokens' = 0
  BY DEF TokensCounted
<1>2. conn'.returned <= AddTokens' + HandlerTokens'
  BY DEF TokensCounted
<1> QED BY <1>1, <1>2 DEF TokensCounted

(* A change of the connection that returns no token.                        *)
Keeps(c, d) == d \in ConnType /\ d.returned = c.returned

LEMMA ConnUpdates ==
    ASSUME NEW c \in ConnType
    PROVE  /\ c.returned \in 0..2
           /\ Keeps(c, [c EXCEPT !.isClosing = TRUE])
           /\ Keeps(c, [c EXCEPT !.sendMore = TRUE])
           /\ Keeps(c, [c EXCEPT !.sendMore = FALSE])
           /\ Keeps(c, [c EXCEPT !.dcNil = TRUE, !.pw = "closed"])
           /\ Keeps(c, [c EXCEPT !.pc = "left"])
           /\ Keeps(c, [c EXCEPT !.pc = "closed"])
           /\ Keeps(c, [c EXCEPT !.sendMore = TRUE, !.cancelled = TRUE, !.pc = "closed"])
<1>0. c.returned \in 0..2
  BY DEF ConnType
<1>1. Keeps(c, [c EXCEPT !.isClosing = TRUE])
  BY DEF ConnType, Keeps
<1>2. Keeps(c, [c EXCEPT !.sendMore = TRUE])
  BY DEF ConnType, Keeps
<1>3. Keeps(c, [c EXCEPT !.sendMore = FALSE])
  BY DEF ConnType, Keeps
<1>4. Keeps(c, [c EXCEPT !.dcNil = TRUE, !.pw = "closed"])
  BY DEF ConnType, Keeps
<1>5. Keeps(c, [c EXCEPT !.pc = "left"])
  BY DEF ConnType, Keeps
<1>6. Keeps(c, [c EXCEPT !.pc = "closed"])
  BY DEF ConnType, Keeps
<1>7. Keeps(c, [c EXCEPT !.sendMore = TRUE, !.cancelled = TRUE, !.pc = "closed"])
  BY DEF ConnType, Keeps
<1> QED
  BY <1>0, <1>1, <1>2, <1>3, <1>4, <1>5, <1>6, <1>7

(* A token more on the connection of a session that returned less than two. *)
LEMMA RetType ==
    ASSUME NEW c \in ConnType, c.returned < 2
    PROVE  Ret(c) \in ConnType /\ Ret(c).returned = c.returned + 1
<1>1. c.returned + 1 \in 0..2
  BY DEF ConnType
<1> QED
  BY <1>1 DEF ConnType, Ret

(* addHandler keeps the invariant: it returns a token only where it ends.   *)
LEMMA AddKeeps == RelayInv /\ (AddFails \/ AddAnswers \/ AddStep) => RelayInv'
<1> SUFFICES ASSUME RelayInv, AddFails \/ AddAnswers \/ AddStep PROVE RelayInv'
  OBVIOUS
<1>t. PointsOK /\ conn \in ConnType /\ ws \in WsType
  BY RelayTypeParts DEF RelayInv
<1>c. /\ conn.returned \in 0..2
      /\ conn.returned <= AddTokens + HandlerTokens /\ clients + AddTokens + HandlerTokens = 0
  BY <1>t, ConnUpdates DEF RelayInv, TokensCounted
<1>1. CASE AddFails
  <2>1. handler' = handler /\ add = "new" /\ add' \in {"failed", "blocked"}
    BY <1>1 DEF AddFails
  <2>2. conn.returned < 2 /\ clients \in -1..0
    BY <1>t, <1>c, <2>1 DEF PointsOK, AddTokens, HandlerTokens
  <2>3. PointsOK' /\ clients' = clients - 1
    BY <1>t, <2>2, <1>1 DEF AddFails, PointsOK, loops
  <2>4. UNCHANGED conn /\ ws' = ws
    BY <1>1 DEF AddFails
  <2>5. conn' \in ConnType /\ conn'.returned <= conn.returned + 1
    BY <1>t, <1>c, <2>2, <2>4, RetType
  <2>6. conn'.returned \in Int
    BY <2>5 DEF ConnType
  <2> QED
    <3>1. RelayTypeOK' /\ conn.returned \in Int /\ clients \in Int
      BY <1>t, <1>c, <2>2, <2>3, <2>4, <2>5, RelayTypeParts
    <3>2. TokensCounted /\ TokensCounted'
      BY <2>1, <2>3, <2>5, <2>6, <3>1, AddReturned DEF RelayInv
    <3> QED BY <2>1, <3>1, <3>2 DEF RelayInv, NoAnswerNoHandler
<1>2. CASE AddAnswers
  <2>1. PointsOK' /\ UNCHANGED clients
    BY <1>t, <1>2 DEF AddAnswers, PointsOK, loops
  <2>2. conn' \in ConnType /\ conn'.returned = conn.returned
    BY <1>t, <1>2 DEF AddAnswers, loops
  <2>3. ws' \in WsType
    BY <1>t, <1>2 DEF AddAnswers, WsType, loops
  <2>4. AddTokens' = AddTokens /\ HandlerTokens' = HandlerTokens /\ NoAnswerNoHandler'
    BY <1>2 DEF AddAnswers, loops, AddTokens, HandlerTokens, RelayInv, NoAnswerNoHandler
  <2> QED
    BY <2>1, <2>2, <2>3, <2>4, TokensUntouched, RelayTypeParts
<1>3. CASE AddSucceeds
  <2>1. PointsOK' /\ UNCHANGED clients
    BY <1>t, <1>3 DEF AddSucceeds, PointsOK, loops
  <2>2. conn' \in ConnType /\ conn'.returned = conn.returned
    BY <1>t, <1>3 DEF AddSucceeds, loops
  <2>3. ws' \in WsType
    BY <1>t, <1>3 DEF AddSucceeds, WsType, loops
  <2>4. AddTokens' = AddTokens /\ HandlerTokens' = HandlerTokens /\ NoAnswerNoHandler'
    BY <1>3 DEF AddSucceeds, loops, AddTokens, HandlerTokens, RelayInv, NoAnswerNoHandler
  <2> QED
    BY <2>1, <2>2, <2>3, <2>4, TokensUntouched, RelayTypeParts
<1>4. CASE AddTimesOut
  <2>1. PointsOK' /\ UNCHANGED clients
    BY <1>t, <1>4 DEF AddTimesOut, PointsOK, loops
  <2>2. conn' \in ConnType /\ conn'.returned = conn.returned
    BY <1>t, <1>4 DEF AddTimesOut, loops
  <2>3. ws' \in WsType
    BY <1>t, <1>4 DEF AddTimesOut, WsType, loops
  <2>4. AddTokens' = AddTokens /\ HandlerTokens' = HandlerTokens /\ NoAnswerNoHandler'
    BY <1>4 DEF AddTimesOut, loops, AddTokens, HandlerTokens, RelayInv, NoAnswerNoHandler
  <2> QED
    BY <2>1, <2>2, <2>3, <2>4, TokensUntouched, RelayTypeParts
<1>5. CASE AddCloses
  <2>1. handler' = handler /\ add = "closing" /\ add' \in {"timedout", "blocked"}
    BY <1>5 DEF AddCloses
  <2>2. conn.returned < 2 /\ clients \in -1..0
    BY <1>t, <1>c, <2>1 DEF PointsOK, AddTokens, HandlerTokens
  <2>3. PointsOK' /\ clients' = clients - 1
    BY <1>t, <2>2, <1>5 DEF AddCloses, PointsOK, loops
  <2>4. conn' = Ret([conn EXCEPT !.pc = "closed"]) /\ ws' = ws
    BY <1>5 DEF AddCloses
  <2>5. conn' \in ConnType /\ conn'.returned <= conn.returned + 1
    <3> DEFINE c == [conn EXCEPT !.pc = "closed"]
    <3>1. c \in ConnType /\ c.returned = conn.returned
      BY <1>t, ConnUpdates DEF Keeps
    <3>2. Ret(c) \in ConnType /\ Ret(c).returned = conn.returned + 1
      <4> HIDE DEF c
      <4> QED BY <2>2, <3>1, RetType
    <3> QED BY SMTT(30), <1>c, <2>4, <3>2
  <2>6. conn'.returned \in Int
    BY <2>5 DEF ConnType
  <2> QED
    <3>1. RelayTypeOK' /\ conn.returned \in Int /\ clients \in Int
      BY <1>t, <1>c, <2>2, <2>3, <2>4, <2>5, RelayTypeParts
    <3>2. TokensCounted /\ TokensCounted'
      BY <2>1, <2>3, <2>5, <2>6, <3>1, AddReturned DEF RelayInv
    <3> QED BY <2>1, <3>1, <3>2 DEF RelayInv, NoAnswerNoHandler
<1> QED
  BY <1>1, <1>2, <1>3, <1>4, <1>5 DEF AddStep

(* The callbacks of the data channel and timeoutLoop return no token.       *)
LEMMA ChannelKeeps == RelayInv /\ (OnDataChannel \/ OnMessage \/ DcStep \/ OnBufferedAmountLow \/ TimeoutStep) => RelayInv'
<1> SUFFICES ASSUME RelayInv, OnDataChannel \/ OnMessage \/ DcStep \/ OnBufferedAmountLow \/ TimeoutStep PROVE RelayInv'
  OBVIOUS
<1>t. PointsOK /\ conn \in ConnType /\ ws \in WsType
  BY Zenon, RelayTypeParts DEF RelayInv
<1>c. /\ conn.returned \in 0..2
      /\ conn.returned <= AddTokens + HandlerTokens /\ clients + AddTokens + HandlerTokens = 0
  BY <1>t, ConnUpdates DEF RelayInv, TokensCounted
<1>1. CASE OnDataChannel
  <2>1. PointsOK' /\ UNCHANGED clients
    BY <1>t, <1>1 DEF OnDataChannel, PointsOK, loops
  <2>2. conn' \in ConnType /\ conn'.returned = conn.returned
    BY <1>t, <1>1 DEF OnDataChannel, loops
  <2>3. ws' \in WsType
    BY <1>t, <1>1 DEF OnDataChannel, WsType, loops
  <2>4. AddTokens' = AddTokens /\ HandlerTokens' = HandlerTokens /\ NoAnswerNoHandler'
    BY <1>1 DEF OnDataChannel, loops, AddTokens, HandlerTokens, RelayInv, NoAnswerNoHandler
  <2> QED
    BY <2>1, <2>2, <2>3, <2>4, TokensUntouched, RelayTypeParts
<1>2. CASE OnMessage
  <2>1. PointsOK' /\ UNCHANGED clients
    BY <1>t, <1>2 DEF OnMessage, PointsOK, loops
  <2>2. conn' \in ConnType /\ conn'.returned = conn.returned
    BY <1>t, <1>2 DEF OnMessage, loops
  <2>3. ws' \in WsType
    BY <1>t, <1>2 DEF OnMessage, WsType, loops
  <2>4. AddTokens' = AddTokens /\ HandlerTokens' = HandlerTokens /\ NoAnswerNoHandler'
    BY <1>2 DEF OnMessage, loops, AddTokens, HandlerTokens, RelayInv, NoAnswerNoHandler
  <2> QED
    BY <2>1, <2>2, <2>3, <2>4, TokensUntouched, RelayTypeParts
<1>3. CASE DcLoopEnds
  <2>1. PointsOK' /\ UNCHANGED clients
    BY <1>t, <1>3 DEF DcLoopEnds, PointsOK, loops
  <2>2. conn' \in ConnType /\ conn'.returned = conn.returned
    BY <1>t, <1>3 DEF DcLoopEnds, loops
  <2>3. ws' \in WsType
    BY <1>t, <1>3 DEF DcLoopEnds, WsType, loops
  <2>4. AddTokens' = AddTokens /\ HandlerTokens' = HandlerTokens /\ NoAnswerNoHandler'
    BY <1>3 DEF DcLoopEnds, loops, AddTokens, HandlerTokens, RelayInv, NoAnswerNoHandler
  <2> QED
    BY <2>1, <2>2, <2>3, <2>4, TokensUntouched, RelayTypeParts
<1>4. CASE OnClose
  <2>1. PointsOK' /\ UNCHANGED clients
    BY SMTT(30), <1>t, <1>4 DEF OnClose, PointsOK, loops
  <2>2. conn' \in ConnType /\ conn'.returned = conn.returned
    BY <1>t, <1>4, ConnUpdates DEF OnClose, Keeps
  <2>3. ws' \in WsType
    BY <1>t, <1>4 DEF OnClose, WsType, loops
  <2>4. AddTokens' = AddTokens /\ HandlerTokens' = HandlerTokens /\ NoAnswerNoHandler'
    BY <1>4 DEF OnClose, loops, AddTokens, HandlerTokens, RelayInv, NoAnswerNoHandler
  <2> QED
    BY <2>1, <2>2, <2>3, <2>4, TokensUntouched, RelayTypeParts
<1>5. CASE OnBufferedAmountLow
  <2>1. PointsOK' /\ UNCHANGED clients
    BY SMTT(30), <1>t, <1>5 DEF OnBufferedAmountLow, PointsOK, loops
  <2>2. conn' \in ConnType /\ conn'.returned = conn.returned
    BY <1>t, <1>5, ConnUpdates DEF OnBufferedAmountLow, Keeps
  <2>3. ws' \in WsType
    BY <1>t, <1>5 DEF OnBufferedAmountLow, WsType, loops
  <2>4. AddTokens' = AddTokens /\ HandlerTokens' = HandlerTokens /\ NoAnswerNoHandler'
    BY <1>5 DEF OnBufferedAmountLow, loops, AddTokens, HandlerTokens, RelayInv, NoAnswerNoHandler
  <2> QED
    BY <2>1, <2>2, <2>3, <2>4, TokensUntouched, RelayTypeParts
<1>6. CASE InactivityTimeout
  <2>1. PointsOK' /\ UNCHANGED clients
    BY SMTT(30), <1>t, <1>6 DEF InactivityTimeout, PointsOK, loops
  <2>2. conn' \in ConnType /\ conn'.returned = conn.returned
    BY <1>t, <1>6, ConnUpdates DEF InactivityTimeout, Keeps, Marked
  <2>3. ws' \in WsType
    BY <1>t, <1>6 DEF InactivityTimeout, WsType, loops
  <2>4. AddTokens' = AddTokens /\ HandlerTokens' = HandlerTokens /\ NoAnswerNoHandler'
    BY <1>6 DEF InactivityTimeout, loops, AddTokens, HandlerTokens, RelayInv, NoAnswerNoHandler
  <2> QED
    BY <2>1, <2>2, <2>3, <2>4, TokensUntouched, RelayTypeParts
<1>7. CASE TimeoutLoopCloses
  <2>1. PointsOK' /\ UNCHANGED clients
    BY SMTT(30), <1>t, <1>7 DEF TimeoutLoopCloses, PointsOK, loops
  <2>2. conn' \in ConnType /\ conn'.returned = conn.returned
    BY <1>t, <1>7, ConnUpdates DEF TimeoutLoopCloses, Keeps, Woken
  <2>3. ws' \in WsType
    BY <1>t, <1>7 DEF TimeoutLoopCloses, WsType, loops
  <2>4. AddTokens' = AddTokens /\ HandlerTokens' = HandlerTokens /\ NoAnswerNoHandler'
    BY <1>7 DEF TimeoutLoopCloses, loops, AddTokens, HandlerTokens, RelayInv, NoAnswerNoHandler
  <2> QED
    BY <2>1, <2>2, <2>3, <2>4, TokensUntouched, RelayTypeParts
<1>8. CASE TimeoutLoopCancelled
  <2>1. PointsOK' /\ UNCHANGED clients
    BY <1>t, <1>8 DEF TimeoutLoopCancelled, PointsOK, loops
  <2>2. conn' \in ConnType /\ conn'.returned = conn.returned
    BY <1>t, <1>8 DEF TimeoutLoopCancelled, loops
  <2>3. ws' \in WsType
    BY <1>t, <1>8 DEF TimeoutLoopCancelled, WsType, loops
  <2>4. AddTokens' = AddTokens /\ HandlerTokens' = HandlerTokens /\ NoAnswerNoHandler'
    BY <1>8 DEF TimeoutLoopCancelled, loops, AddTokens, HandlerTokens, RelayInv, NoAnswerNoHandler
  <2> QED
    BY <2>1, <2>2, <2>3, <2>4, TokensUntouched, RelayTypeParts
<1> QED
  BY <1>1, <1>2, <1>3, <1>4, <1>5, <1>6, <1>7, <1>8 DEF DcStep, TimeoutStep

(* Neither direction of copyLoop returns a token.                           *)
LEMMA CopyKeeps == RelayInv /\ (UpStep \/ WriteLoopStep \/ ReadLoopStep \/ DownStep) => RelayInv'
<1> SUFFICES ASSUME RelayInv, UpStep \/ WriteLoopStep \/ ReadLoopStep \/ DownStep PROVE RelayInv'
  OBVIOUS
<1>t. PointsOK /\ conn \in ConnType /\ ws \in WsType
  BY Zenon, RelayTypeParts DEF RelayInv
<1>c. /\ conn.returned \in 0..2
      /\ conn.returned <= AddTokens + HandlerTokens /\ clients + AddTokens + HandlerTokens = 0
  BY <1>t, ConnUpdates DEF RelayInv, TokensCounted
<1>1. CASE UpReads
  <2>1. PointsOK' /\ UNCHANGED clients
    BY <1>t, <1>1 DEF UpReads, PointsOK, loops
  <2>2. conn' \in ConnType /\ conn'.returned = conn.returned
    BY <1>t, <1>1 DEF UpReads, loops
  <2>3. ws' \in WsType
    BY <1>t, <1>1 DEF UpReads, WsType, loops
  <2>4. AddTokens' = AddTokens /\ HandlerTokens' = HandlerTokens /\ NoAnswerNoHandler'
    BY <1>1 DEF UpReads, loops, AddTokens, HandlerTokens, RelayInv, NoAnswerNoHandler
  <2> QED
    BY <2>1, <2>2, <2>3, <2>4, TokensUntouched, RelayTypeParts
<1>2. CASE UpWrites
  <2>1. PointsOK' /\ UNCHANGED clients
    BY <1>t, <1>2 DEF UpWrites, PointsOK, loops
  <2>2. conn' \in ConnType /\ conn'.returned = conn.returned
    BY <1>t, <1>2 DEF UpWrites, loops
  <2>3. ws' \in WsType
    BY <1>t, <1>2 DEF UpWrites, WsType, loops
  <2>4. AddTokens' = AddTokens /\ HandlerTokens' = HandlerTokens /\ NoAnswerNoHandler'
    BY <1>2 DEF UpWrites, loops, AddTokens, HandlerTokens, RelayInv, NoAnswerNoHandler
  <2> QED
    BY <2>1, <2>2, <2>3, <2>4, TokensUntouched, RelayTypeParts
<1>3. CASE UpEnds
  <2>1. PointsOK' /\ UNCHANGED clients
    BY <1>t, <1>3 DEF UpEnds, PointsOK, loops
  <2>2. conn' \in ConnType /\ conn'.returned = conn.returned
    BY <1>t, <1>3 DEF UpEnds, loops
  <2>3. ws' \in WsType
    BY <1>t, <1>3 DEF UpEnds, WsType, loops
  <2>4. AddTokens' = AddTokens /\ HandlerTokens' = HandlerTokens /\ NoAnswerNoHandler'
    BY <1>3 DEF UpEnds, loops, AddTokens, HandlerTokens, RelayInv, NoAnswerNoHandler
  <2> QED
    BY <2>1, <2>2, <2>3, <2>4, TokensUntouched, RelayTypeParts
<1>4. CASE WriteLoopSends
  <2>1. PointsOK' /\ UNCHANGED clients
    BY <1>t, <1>4 DEF WriteLoopSends, PointsOK, loops
  <2>2. conn' \in ConnType /\ conn'.returned = conn.returned
    BY <1>t, <1>4 DEF WriteLoopSends, loops
  <2>3. ws' \in WsType
    BY <1>t, <1>4 DEF WriteLoopSends, WsType, loops
  <2>4. AddTokens' = AddTokens /\ HandlerTokens' = HandlerTokens /\ NoAnswerNoHandler'
    BY <1>4 DEF WriteLoopSends, loops, AddTokens, HandlerTokens, RelayInv, NoAnswerNoHandler
  <2> QED
    BY <2>1, <2>2, <2>3, <2>4, TokensUntouched, RelayTypeParts
<1>5. CASE WriteLoopEnds
  <2>1. PointsOK' /\ UNCHANGED clients
    BY <1>t, <1>5 DEF WriteLoopEnds, PointsOK, loops
  <2>2. conn' \in ConnType /\ conn'.returned = conn.returned
    BY <1>t, <1>5 DEF WriteLoopEnds, loops
  <2>3. ws' \in WsType
    BY <1>t, <1>5 DEF WriteLoopEnds, WsType, loops
  <2>4. AddTokens' = AddTokens /\ HandlerTokens' = HandlerTokens /\ NoAnswerNoHandler'
    BY <1>5 DEF WriteLoopEnds, loops, AddTokens, HandlerTokens, RelayInv, NoAnswerNoHandler
  <2> QED
    BY <2>1, <2>2, <2>3, <2>4, TokensUntouched, RelayTypeParts
<1>6. CASE ReadLoopReads
  <2>1. PointsOK' /\ UNCHANGED clients
    BY <1>t, <1>6 DEF ReadLoopReads, PointsOK, loops
  <2>2. conn' \in ConnType /\ conn'.returned = conn.returned
    BY <1>t, <1>6 DEF ReadLoopReads, loops
  <2>3. ws' \in WsType
    BY <1>t, <1>6 DEF ReadLoopReads, WsType, loops
  <2>4. AddTokens' = AddTokens /\ HandlerTokens' = HandlerTokens /\ NoAnswerNoHandler'
    BY <1>6 DEF ReadLoopReads, loops, AddTokens, HandlerTokens, RelayInv, NoAnswerNoHandler
  <2> QED
    BY <2>1, <2>2, <2>3, <2>4, TokensUntouched, RelayTypeParts
<1>7. CASE ReadLoopEnds
  <2>1. PointsOK' /\ UNCHANGED clients
    BY <1>t, <1>7 DEF ReadLoopEnds, PointsOK, loops
  <2>2. conn' \in ConnType /\ conn'.returned = conn.returned
    BY <1>t, <1>7 DEF ReadLoopEnds, loops
  <2>3. ws' \in WsType
    BY <1>t, <1>7 DEF ReadLoopEnds, WsType, loops
  <2>4. AddTokens' = AddTokens /\ HandlerTokens' = HandlerTokens /\ NoAnswerNoHandler'
    BY <1>7 DEF ReadLoopEnds, loops, AddTokens, HandlerTokens, RelayInv, NoAnswerNoHandler
  <2> QED
    BY <2>1, <2>2, <2>3, <2>4, TokensUntouched, RelayTypeParts
<1>8. CASE DownReads
  <2>1. PointsOK' /\ UNCHANGED clients
    BY <1>t, <1>8 DEF DownReads, PointsOK, loops
  <2>2. conn' \in ConnType /\ conn'.returned = conn.returned
    BY <1>t, <1>8 DEF DownReads, loops
  <2>3. ws' \in WsType
    BY <1>t, <1>8 DEF DownReads, WsType, loops
  <2>4. AddTokens' = AddTokens /\ HandlerTokens' = HandlerTokens /\ NoAnswerNoHandler'
    BY <1>8 DEF DownReads, loops, AddTokens, HandlerTokens, RelayInv, NoAnswerNoHandler
  <2> QED
    BY <2>1, <2>2, <2>3, <2>4, TokensUntouched, RelayTypeParts
<1>9. CASE DownEnds
  <2>1. PointsOK' /\ UNCHANGED clients
    BY <1>t, <1>9 DEF DownEnds, PointsOK, loops
  <2>2. conn' \in ConnType /\ conn'.returned = conn.returned
    BY <1>t, <1>9 DEF DownEnds, loops
  <2>3. ws' \in WsType
    BY <1>t, <1>9 DEF DownEnds, WsType, loops
  <2>4. AddTokens' = AddTokens /\ HandlerTokens' = HandlerTokens /\ NoAnswerNoHandler'
    BY <1>9 DEF DownEnds, loops, AddTokens, HandlerTokens, RelayInv, NoAnswerNoHandler
  <2> QED
    BY <2>1, <2>2, <2>3, <2>4, TokensUntouched, RelayTypeParts
<1>10. CASE \E full \in BOOLEAN : DownWrites(full)
  <2>1. PointsOK' /\ UNCHANGED clients
    BY <1>t, <1>10 DEF DownWrites, PointsOK, loops
  <2>2. conn' \in ConnType /\ conn'.returned = conn.returned
    BY <1>t, <1>10 DEF DownWrites, loops
  <2>3. ws' \in WsType
    BY <1>t, <1>10 DEF DownWrites, WsType, loops
  <2>4. AddTokens' = AddTokens /\ HandlerTokens' = HandlerTokens /\ NoAnswerNoHandler'
    BY <1>10 DEF DownWrites, loops, AddTokens, HandlerTokens, RelayInv, NoAnswerNoHandler
  <2> QED
    BY <2>1, <2>2, <2>3, <2>4, TokensUntouched, RelayTypeParts
<1>11. CASE DownIsWoken
  <2>1. PointsOK' /\ UNCHANGED clients
    BY SMTT(30), <1>t, <1>11 DEF DownIsWoken, PointsOK, loops
  <2>2. conn' \in ConnType /\ conn'.returned = conn.returned
    BY <1>t, <1>11, ConnUpdates DEF DownIsWoken, Keeps
  <2>3. ws' \in WsType
    BY <1>t, <1>11 DEF DownIsWoken, WsType, loops
  <2>4. AddTokens' = AddTokens /\ HandlerTokens' = HandlerTokens /\ NoAnswerNoHandler'
    BY <1>11 DEF DownIsWoken, loops, AddTokens, HandlerTokens, RelayInv, NoAnswerNoHandler
  <2> QED
    BY <2>1, <2>2, <2>3, <2>4, TokensUntouched, RelayTypeParts
<1> QED
  BY <1>1, <1>2, <1>3, <1>4, <1>5, <1>6, <1>7, <1>8, <1>9, <1>10, <1>11 DEF UpStep, WriteLoopStep, ReadLoopStep, DownStep

(* datachannelHandler returns one token, after which it is past its return. *)
LEMMA HandlerKeeps == RelayInv /\ (HandlerStep) => RelayInv'
<1> SUFFICES ASSUME RelayInv, HandlerStep PROVE RelayInv'
  OBVIOUS
<1>t. PointsOK /\ conn \in ConnType /\ ws \in WsType
  BY Zenon, RelayTypeParts DEF RelayInv
<1>c. /\ conn.returned \in 0..2
      /\ conn.returned <= AddTokens + HandlerTokens /\ clients + AddTokens + HandlerTokens = 0
  BY <1>t, ConnUpdates DEF RelayInv, TokensCounted
<1>1. CASE DialRelay
  <2>1. PointsOK' /\ UNCHANGED clients
    BY <1>t, <1>1 DEF DialRelay, PointsOK, loops
  <2>2. conn' \in ConnType /\ conn'.returned = conn.returned
    BY <1>t, <1>1 DEF DialRelay, loops
  <2>3. ws' \in WsType
    BY <1>t, <1>1 DEF DialRelay, WsType, loops
  <2>4. AddTokens' = AddTokens /\ HandlerTokens' = HandlerTokens /\ NoAnswerNoHandler'
    BY <1>1 DEF DialRelay, loops, AddTokens, HandlerTokens, RelayInv, NoAnswerNoHandler
  <2> QED
    BY <2>1, <2>2, <2>3, <2>4, TokensUntouched, RelayTypeParts
<1>2. CASE DialRelayFails
  <2>1. PointsOK' /\ UNCHANGED clients
    BY <1>t, <1>2 DEF DialRelayFails, PointsOK, loops
  <2>2. conn' \in ConnType /\ conn'.returned = conn.returned
    BY <1>t, <1>2 DEF DialRelayFails, loops
  <2>3. ws' \in WsType
    BY <1>t, <1>2 DEF DialRelayFails, WsType, loops
  <2>4. AddTokens' = AddTokens /\ HandlerTokens' = HandlerTokens /\ NoAnswerNoHandler'
    BY <1>2 DEF DialRelayFails, loops, AddTokens, HandlerTokens, RelayInv, NoAnswerNoHandler
  <2> QED
    BY <2>1, <2>2, <2>3, <2>4, TokensUntouched, RelayTypeParts
<1>3. CASE CopyLoopEnds
  <2>1. PointsOK' /\ UNCHANGED clients
    BY SMTT(30), <1>t, <1>3 DEF CopyLoopEnds, PointsOK, loops
  <2>2. conn' \in ConnType /\ conn'.returned = conn.returned
    BY <1>t, <1>3, ConnUpdates DEF CopyLoopEnds, Keeps, Marked
  <2>3. ws' \in WsType
    BY <1>t, <1>3 DEF CopyLoopEnds, WsType, loops
  <2>4. AddTokens' = AddTokens /\ HandlerTokens' = HandlerTokens /\ NoAnswerNoHandler'
    BY <1>3 DEF CopyLoopEnds, loops, AddTokens, HandlerTokens, RelayInv, NoAnswerNoHandler
  <2> QED
    BY <2>1, <2>2, <2>3, <2>4, TokensUntouched, RelayTypeParts
<1>4. CASE CopyLoopCloses
  <2>1. PointsOK' /\ UNCHANGED clients
    BY SMTT(30), <1>t, <1>4 DEF CopyLoopCloses, PointsOK, loops
  <2>2. conn' \in ConnType /\ conn'.returned = conn.returned
    BY <1>t, <1>4, ConnUpdates DEF CopyLoopCloses, Keeps, Woken
  <2>3. ws' \in WsType
    BY <1>t, <1>4 DEF CopyLoopCloses, WsType, loops
  <2>4. AddTokens' = AddTokens /\ HandlerTokens' = HandlerTokens /\ NoAnswerNoHandler'
    BY <1>4 DEF CopyLoopCloses, loops, AddTokens, HandlerTokens, RelayInv, NoAnswerNoHandler
  <2> QED
    BY <2>1, <2>2, <2>3, <2>4, TokensUntouched, RelayTypeParts
<1>5. CASE HandlerReturnsToken
  <2>1. add' = add /\ handler = "ret" /\ handler' \in {"blocked", "close"}
    BY <1>5 DEF HandlerReturnsToken
  <2>2. conn.returned < 2 /\ clients \in -1..0
    BY <1>t, <1>c, <2>1 DEF PointsOK, AddTokens, HandlerTokens
  <2>3. PointsOK' /\ clients' = clients - 1
    BY <1>t, <2>2, <1>5 DEF HandlerReturnsToken, PointsOK, loops
  <2>4. conn' = Ret(conn) /\ ws' = ws
    BY <1>5 DEF HandlerReturnsToken
  <2>5. conn' \in ConnType /\ conn'.returned <= conn.returned + 1
    BY <1>t, <1>c, <2>2, <2>4, RetType
  <2>6. conn'.returned \in Int
    BY <2>5 DEF ConnType
  <2> QED
    <3>1. RelayTypeOK' /\ conn.returned \in Int /\ clients \in Int
      BY <1>t, <1>c, <2>2, <2>3, <2>4, <2>5, RelayTypeParts
    <3>2. TokensCounted /\ TokensCounted'
      BY <2>1, <2>3, <2>5, <2>6, <3>1, HandlerReturned DEF RelayInv
    <3> QED BY <2>1, <3>1, <3>2 DEF RelayInv, NoAnswerNoHandler
<1>6. CASE HandlerCloses
  <2>1. PointsOK' /\ UNCHANGED clients
    BY SMTT(30), <1>t, <1>6 DEF HandlerCloses, PointsOK, loops
  <2>2. conn' \in ConnType /\ conn'.returned = conn.returned
    BY <1>t, <1>6, ConnUpdates DEF HandlerCloses, Keeps, Woken
  <2>3. ws' \in WsType
    BY <1>t, <1>6 DEF HandlerCloses, WsType, loops
  <2>4. AddTokens' = AddTokens /\ HandlerTokens' = HandlerTokens /\ NoAnswerNoHandler'
    BY <1>6 DEF HandlerCloses, loops, AddTokens, HandlerTokens, RelayInv, NoAnswerNoHandler
  <2> QED
    BY <2>1, <2>2, <2>3, <2>4, TokensUntouched, RelayTypeParts
<1> QED
  BY <1>1, <1>2, <1>3, <1>4, <1>5, <1>6 DEF HandlerStep

(* Who leaves or stops returns no token.                                    *)
LEMMA PeersKeep == RelayInv /\ (ClientLeaves \/ RelayLeaves \/ Stop) => RelayInv'
<1> SUFFICES ASSUME RelayInv, ClientLeaves \/ RelayLeaves \/ Stop PROVE RelayInv'
  OBVIOUS
<1>t. PointsOK /\ conn \in ConnType /\ ws \in WsType
  BY RelayTypeParts DEF RelayInv
<1>c. /\ conn.returned \in 0..2
      /\ conn.returned <= AddTokens + HandlerTokens /\ clients + AddTokens + HandlerTokens = 0
  BY <1>t, ConnUpdates DEF RelayInv, TokensCounted
<1>1. CASE ClientLeaves
  <2>1. PointsOK' /\ UNCHANGED clients
    BY SMTT(30), <1>t, <1>1 DEF ClientLeaves, PointsOK, loops
  <2>2. conn' \in ConnType /\ conn'.returned = conn.returned
    BY <1>t, <1>1, ConnUpdates DEF ClientLeaves, Keeps
  <2>3. ws' \in WsType
    BY <1>t, <1>1 DEF ClientLeaves, WsType, loops
  <2>4. AddTokens' = AddTokens /\ HandlerTokens' = HandlerTokens /\ NoAnswerNoHandler'
    BY <1>1 DEF ClientLeaves, loops, AddTokens, HandlerTokens, RelayInv, NoAnswerNoHandler
  <2> QED
    BY <2>1, <2>2, <2>3, <2>4, TokensUntouched, RelayTypeParts
<1>2. CASE RelayLeaves
  <2>1. PointsOK' /\ UNCHANGED clients
    BY <1>t, <1>2 DEF RelayLeaves, PointsOK, loops
  <2>2. conn' \in ConnType /\ conn'.returned = conn.returned
    BY <1>t, <1>2 DEF RelayLeaves, loops
  <2>3. ws' \in WsType
    BY <1>t, <1>2 DEF RelayLeaves, WsType, loops
  <2>4. AddTokens' = AddTokens /\ HandlerTokens' = HandlerTokens /\ NoAnswerNoHandler'
    BY <1>2 DEF RelayLeaves, loops, AddTokens, HandlerTokens, RelayInv, NoAnswerNoHandler
  <2> QED
    BY <2>1, <2>2, <2>3, <2>4, TokensUntouched, RelayTypeParts
<1>3. CASE Stop
  <2>1. PointsOK' /\ UNCHANGED clients
    BY <1>t, <1>3 DEF Stop, PointsOK, loops
  <2>2. conn' \in ConnType /\ conn'.returned = conn.returned
    BY <1>t, <1>3 DEF Stop, loops
  <2>3. ws' \in WsType
    BY <1>t, <1>3 DEF Stop, WsType, loops
  <2>4. AddTokens' = AddTokens /\ HandlerTokens' = HandlerTokens /\ NoAnswerNoHandler'
    BY <1>3 DEF Stop, loops, AddTokens, HandlerTokens, RelayInv, NoAnswerNoHandler
  <2> QED
    BY <2>1, <2>2, <2>3, <2>4, TokensUntouched, RelayTypeParts
<1> QED
  BY <1>1, <1>2, <1>3

(* Every step of a session keeps the invariant.                             *)
LEMMA RelayNextKeeps == RelayInv /\ [RelayNext]_relayVars => RelayInv'
<1> SUFFICES ASSUME RelayInv, [RelayNext]_relayVars PROVE RelayInv'
  OBVIOUS
<1>1. CASE UNCHANGED relayVars
  <2>1. PointsOK' /\ conn' \in ConnType /\ ws' \in WsType
    BY <1>1, RelayTypeParts DEF relayVars, RelayInv, PointsOK
  <2> QED
    BY <1>1, <2>1, RelayTypeParts DEF relayVars, RelayInv, TokensCounted, NoAnswerNoHandler,
                                      AddTokens, HandlerTokens
<1>2. CASE RelayNext
  BY <1>2, AddKeeps, ChannelKeeps, CopyKeeps, HandlerKeeps, PeersKeep DEF RelayNext
<1> QED
  BY <1>1, <1>2

(* What the count says: two tokens came from both ends of the session.      *)
LEMMA RelayInvImplies == RelayInv => TokensReturned
<1> SUFFICES ASSUME RelayInv PROVE TokensReturned
  OBVIOUS
<1>1. conn.returned = 2 => AddTokens = 1 /\ HandlerTokens = 1
  BY DEF RelayInv, TokensCounted, AddTokens, HandlerTokens
<1>2. OneTokenPerSession
  BY <1>1 DEF RelayInv, NoAnswerNoHandler, OneTokenPerSession, AddTokens, HandlerTokens
<1> QED
  BY <1>2 DEF RelayInv, TokensReturned

(* A session gives back one token, and a second one only when its wait for  *)
(* the data channel timed out although the channel came (proxy              *)
(* snowflake.go:917-930); the counter never rises above zero.               *)
THEOREM TokensReturnedHolds == RelaySpec => []TokensReturned
<1>1. RelayInit => RelayInv
  BY RelayInitEstablishes
<1>2. RelayInv /\ [RelayNext]_relayVars => RelayInv'
  BY RelayNextKeeps
<1>3. RelayInv => TokensReturned
  BY RelayInvImplies
<1> QED
  BY <1>1, <1>2, <1>3, PTL DEF RelaySpec

-----------------------------------------------------------------------------
(***************************************************************************)
(* Periodic.  Chains counts a set of goroutines; the invariant says the     *)
(* same without a cardinality: of a task that nobody closed at most one     *)
(* goroutine is past its check and then no timer is pending, and a task     *)
(* that is not running has neither, which is what lets Start begin a chain. *)
(***************************************************************************)
WorkPCs == {"idle", "start", "check", "exec", "measure", "reset", "rearm"}
AtRest == {"idle", "start"}
PerRecords == [running : BOOLEAN, armed : BOOLEAN, loose : Nat, waiting : Nat]

PerType ==
    /\ per \in [Tasks -> PerRecords] /\ work \in [Tasks -> [Workers -> WorkPCs]]
    /\ starts \in [Tasks -> Nat] /\ closed \in [Tasks -> {"no", "yes", "last"}]

WaitingStarted == \A t \in Tasks : per[t].waiting <= starts[t] /\ starts[t] <= MaxStarts

SingleChain(p, k) ==
    /\ ~p.running => ~p.armed /\ p.loose = 0 /\ \A w \in Workers : k[w] \in AtRest
    /\ p.armed => p.loose = 0
    /\ p.loose <= 1
    /\ \A v \in Workers : k[v] \notin AtRest =>
         ~p.armed /\ p.loose = 0 /\ \A w \in Workers \ {v} : k[w] \in AtRest

ChainsInv == \A t \in Tasks : closed[t] = "no" => SingleChain(per[t], work[t])

(* One goroutine of a task moves; the others stay where they are.           *)
LEMMA MovesOne ==
    ASSUME PerType, NEW t \in Tasks, NEW w \in Workers, NEW from \in WorkPCs, NEW to \in WorkPCs,
           Moves(t, w, from, to)
    PROVE  /\ work' \in [Tasks -> [Workers -> WorkPCs]]
           /\ \A s \in Tasks \ {t} : work'[s] = work[s]
           /\ work[t][w] = from /\ work'[t] = [work[t] EXCEPT ![w] = to]
           /\ work[t] \in [Workers -> WorkPCs]
BY DEF PerType, Moves

(* How a chain goes on, one lemma per kind of step: a goroutine moves       *)
(* without a timer, ...                                                     *)
LEMMA ChainMoves ==
    ASSUME NEW p \in PerRecords, NEW k \in [Workers -> WorkPCs], NEW w \in Workers, NEW to \in WorkPCs,
           SingleChain(p, k), k[w] \in AtRest => to \in AtRest
    PROVE  SingleChain(p, [k EXCEPT ![w] = to])
BY DEF SingleChain, AtRest

(* ... Start begins the one chain of a task that was not running, ...       *)
LEMMA ChainBegins ==
    ASSUME NEW p \in PerRecords, NEW k \in [Workers -> WorkPCs], NEW w \in Workers,
           SingleChain(p, k), ~p.running
    PROVE  SingleChain([p EXCEPT !.running = TRUE], [k EXCEPT ![w] = "check"])
BY DEF SingleChain, AtRest, PerRecords

(* ... a timer becomes a goroutine, ...                                     *)
LEMMA ChainFires ==
    ASSUME NEW p \in PerRecords, NEW k \in [Workers -> WorkPCs], NEW w \in Workers,
           SingleChain(p, k)
    PROVE  /\ p.armed => SingleChain([p EXCEPT !.armed = FALSE], [k EXCEPT ![w] = "check"])
           /\ p.loose > 0 => SingleChain([p EXCEPT !.loose = p.loose - 1], [k EXCEPT ![w] = "check"])
BY DEF SingleChain, AtRest, PerRecords

(* ... and a goroutine becomes a timer.                                     *)
LEMMA ChainRearms ==
    ASSUME NEW p \in PerRecords, NEW k \in [Workers -> WorkPCs], NEW w \in Workers,
           SingleChain(p, k), k[w] = "rearm"
    PROVE  SingleChain([p EXCEPT !.armed = TRUE, !.loose = p.loose + IF p.armed THEN 1 ELSE 0],
                       [k EXCEPT ![w] = "idle"])
BY DEF SingleChain, AtRest, PerRecords

TasksInv == PerType /\ WaitingStarted /\ ChainsInv

(* A step that concerns one task keeps the invariant if it does for that.   *)
LEMMA OneTaskSteps ==
    ASSUME TasksInv, NEW t \in Tasks, NEW p \in PerRecords, NEW k \in [Workers -> WorkPCs],
           per' = [per EXCEPT ![t] = p], work' = [work EXCEPT ![t] = k], UNCHANGED <<starts, closed>>,
           p.waiting <= per[t].waiting, p.waiting \in Nat,
           SingleChain(per[t], work[t]) => SingleChain(p, k)
    PROVE  TasksInv'
<1>1. PerType'
  BY DEF TasksInv, PerType
<1>2. \A s \in Tasks \ {t} : per'[s] = per[s] /\ work'[s] = work[s]
  BY DEF TasksInv, PerType
<1>3. per'[t] = p /\ work'[t] = k
  BY DEF TasksInv, PerType
<1>4. ChainsInv'
  BY <1>2, <1>3 DEF TasksInv, ChainsInv
<1>5. WaitingStarted'
  <2> SUFFICES ASSUME NEW s \in Tasks PROVE per'[s].waiting <= starts'[s] /\ starts'[s] <= MaxStarts
    BY DEF WaitingStarted
  <2>1. per[t].waiting \in Nat /\ starts[t] \in Nat
    BY DEF TasksInv, PerType, PerRecords
  <2>2. per[s].waiting <= starts[s] /\ starts[s] <= MaxStarts
    BY DEF TasksInv, WaitingStarted
  <2>3. CASE s = t
    BY <1>3, <2>1, <2>2, <2>3
  <2>4. CASE s # t
    BY <1>2, <2>2, <2>4
  <2> QED BY <2>3, <2>4
<1> QED BY <1>1, <1>4, <1>5 DEF TasksInv

(* A goroutine that moves without touching the task keeps the invariant,    *)
(* unless it leaves its rest.                                               *)
LEMMA MovesKeep ==
    ASSUME TasksInv, NEW t \in Tasks, NEW w \in Workers, NEW from \in WorkPCs, NEW to \in WorkPCs,
           Moves(t, w, from, to), from \in AtRest => to \in AtRest, UNCHANGED <<per, starts, closed>>
    PROVE  TasksInv'
<1>0. PerType
  BY DEF TasksInv
<1>1. per[t] \in PerRecords /\ per' = [per EXCEPT ![t] = per[t]] /\ per[t].waiting \in Nat
  BY <1>0 DEF PerType, PerRecords
<1>2. work[t] \in [Workers -> WorkPCs] /\ work[t][w] = from
  <2>1. work[t] \in [Workers -> WorkPCs]
    BY <1>0 DEF PerType
  <2> QED BY <2>1 DEF Moves
<1> DEFINE k == [work[t] EXCEPT ![w] = to]
<1>3. k \in [Workers -> WorkPCs] /\ work' = [work EXCEPT ![t] = k]
  BY <1>0, <1>2 DEF Moves, PerType
<1>4. SingleChain(per[t], work[t]) => SingleChain(per[t], k)
  BY <1>1, <1>2, ChainMoves
<1>5. per[t].waiting <= per[t].waiting
  BY <1>1
<1> QED
  BY <1>1, <1>3, <1>4, <1>5, OneTaskSteps

(* A goroutine that moves and its task with it.                             *)
LEMMA MovesBoth ==
    ASSUME TasksInv, NEW t \in Tasks, NEW w \in Workers, NEW from \in WorkPCs, NEW to \in WorkPCs,
           Moves(t, w, from, to), NEW p \in PerRecords, per' = [per EXCEPT ![t] = p],
           UNCHANGED <<starts, closed>>, p.waiting <= per[t].waiting,
           SingleChain(per[t], work[t]) => SingleChain(p, [work[t] EXCEPT ![w] = to])
    PROVE  TasksInv'
<1>0. PerType
  BY DEF TasksInv
<1>1. p.waiting \in Nat
  BY DEF PerRecords
<1>2. work[t] \in [Workers -> WorkPCs]
  BY <1>0 DEF PerType
<1> DEFINE k == [work[t] EXCEPT ![w] = to]
<1>3. k \in [Workers -> WorkPCs] /\ work' = [work EXCEPT ![t] = k]
  BY <1>0, <1>2 DEF Moves, PerType
<1> QED
  BY <1>1, <1>3, OneTaskSteps

(* A timer fires: a goroutine calls Start or goes to its check.             *)
LEMMA TimerKeeps ==
    ASSUME TasksInv, NEW t \in Tasks, NEW w \in Workers, TimerFires(t, w)
    PROVE  TasksInv'
<1>t. per[t] \in PerRecords /\ work[t] \in [Workers -> WorkPCs] /\ UNCHANGED <<starts, closed>>
  BY DEF TasksInv, PerType, TimerFires
<1>n. per[t].waiting \in Nat /\ per[t].loose \in Nat /\ per[t].running \in BOOLEAN /\ per[t].armed \in BOOLEAN
  BY <1>t DEF PerRecords
<1>1. CASE per[t].waiting > 0 /\ per' = [per EXCEPT ![t].waiting = @ - 1] /\ Spawns(t, w, "start")
  <2> DEFINE p == [per[t] EXCEPT !.waiting = per[t].waiting - 1]
  <2>1. p \in PerRecords /\ p.waiting = per[t].waiting - 1 /\ p.waiting <= per[t].waiting
    BY <1>t, <1>n, <1>1 DEF PerRecords
  <2>2. per' = [per EXCEPT ![t] = p]
    BY <1>1
  <2>3. Moves(t, w, "idle", "start") /\ work[t][w] = "idle"
    BY <1>1 DEF Spawns, Moves
  <2>4. SingleChain(per[t], work[t]) => SingleChain(p, work[t])
    BY <1>t, <1>n DEF SingleChain, PerRecords
  <2>5. SingleChain(p, work[t]) => SingleChain(p, [work[t] EXCEPT ![w] = "start"])
    <3> HIDE DEF p
    <3>1. "start" \in AtRest /\ "start" \in WorkPCs
      BY DEF AtRest, WorkPCs
    <3> QED BY <1>t, <2>1, <3>1, ChainMoves
  <2>6. "idle" \in WorkPCs /\ "start" \in WorkPCs
    BY DEF WorkPCs
  <2> HIDE DEF p
  <2> QED BY <1>t, <2>1, <2>2, <2>3, <2>4, <2>5, <2>6, MovesBoth
<1>2. CASE per[t].armed /\ per' = [per EXCEPT ![t].armed = FALSE] /\ Spawns(t, w, "check")
  <2> DEFINE p == [per[t] EXCEPT !.armed = FALSE]
  <2>1. p \in PerRecords /\ p.waiting <= per[t].waiting
    <3>1. p \in PerRecords
      BY <1>t DEF PerRecords
    <3>2. p.waiting = per[t].waiting
      BY <1>t DEF PerRecords
    <3> QED BY <1>n, <3>1, <3>2
  <2>2. per' = [per EXCEPT ![t] = p]
    BY <1>2
  <2>3. Moves(t, w, "idle", "check")
    BY <1>2 DEF Spawns
  <2>4. SingleChain(per[t], work[t]) => SingleChain(p, [work[t] EXCEPT ![w] = "check"])
    BY <1>t, <1>2, ChainFires
  <2>6. "idle" \in WorkPCs /\ "check" \in WorkPCs
    BY DEF WorkPCs
  <2> HIDE DEF p
  <2> QED BY <1>t, <2>1, <2>2, <2>3, <2>4, <2>6, MovesBoth
<1>3. CASE per[t].loose > 0 /\ per' = [per EXCEPT ![t].loose = @ - 1] /\ Spawns(t, w, "check")
  <2> DEFINE p == [per[t] EXCEPT !.loose = per[t].loose - 1]
  <2>1. p \in PerRecords /\ p.waiting <= per[t].waiting
    <3>1. p \in PerRecords
      BY <1>t, <1>n, <1>3 DEF PerRecords
    <3>2. p.waiting = per[t].waiting
      BY <1>t DEF PerRecords
    <3> QED BY <1>n, <3>1, <3>2
  <2>2. per' = [per EXCEPT ![t] = p]
    BY <1>3
  <2>3. Moves(t, w, "idle", "check")
    BY <1>3 DEF Spawns
  <2>4. SingleChain(per[t], work[t]) => SingleChain(p, [work[t] EXCEPT ![w] = "check"])
    BY <1>t, <1>3, ChainFires
  <2>6. "idle" \in WorkPCs /\ "check" \in WorkPCs
    BY DEF WorkPCs
  <2> HIDE DEF p
  <2> QED BY <1>t, <2>1, <2>2, <2>3, <2>4, <2>6, MovesBoth
<1> QED
  BY <1>1, <1>2, <1>3 DEF TimerFires

(* Start, checkedExecute up to its Execute, and the setting of the next     *)
(* timer.                                                                   *)
LEMMA WorkerKeeps ==
    ASSUME TasksInv, NEW t \in Tasks, NEW w \in Workers, WorkerNext(t, w)
    PROVE  TasksInv'
<1>t. per[t] \in PerRecords /\ work[t] \in [Workers -> WorkPCs] /\ UNCHANGED <<starts, closed>>
  BY DEF TasksInv, PerType, WorkerNext, Start, HasClosed, Rearm
<1>n. per[t].waiting \in Nat /\ per[t].loose \in Nat /\ per[t].running \in BOOLEAN /\ per[t].armed \in BOOLEAN
  BY <1>t DEF PerRecords
<1>w. "idle" \in WorkPCs /\ "start" \in WorkPCs /\ "check" \in WorkPCs /\ "exec" \in WorkPCs /\ "rearm" \in WorkPCs
      /\ "idle" \in AtRest
  BY DEF WorkPCs, AtRest
<1>0. ASSUME NEW from \in WorkPCs, NEW to \in WorkPCs, Moves(t, w, from, to), UNCHANGED per,
             from \in AtRest => to \in AtRest
      PROVE  TasksInv'
  BY <1>0, <1>t, MovesKeep
<1>1. CASE Start(t, w)
  <2>1. CASE per[t].running
    BY <1>0, <1>1, <1>w, <2>1 DEF Start
  <2>2. CASE ~per[t].running
    <3> DEFINE p == [per[t] EXCEPT !.running = TRUE]
    <3>1. p \in PerRecords
      BY <1>t DEF PerRecords
    <3>2. p.waiting = per[t].waiting
      BY <1>t DEF PerRecords
    <3>3. per' = [per EXCEPT ![t] = p] /\ Moves(t, w, "start", "check")
      BY <1>1, <2>2 DEF Start
    <3>4. SingleChain(per[t], work[t]) => SingleChain(p, [work[t] EXCEPT ![w] = "check"])
      BY <1>t, <2>2, ChainBegins
    <3>5. p.waiting <= per[t].waiting
      BY <1>n, <3>2
    <3> HIDE DEF p
    <3> QED BY <1>t, <1>w, <3>1, <3>3, <3>4, <3>5, MovesBoth
  <2> QED BY <2>1, <2>2
<1>2. CASE HasClosed(t, w)
  <2>1. PICK to \in {"exec", "idle"} : Moves(t, w, "check", to) /\ UNCHANGED per
    BY <1>2 DEF HasClosed
  <2>2. "check" \notin AtRest /\ to \in WorkPCs
    BY <1>w DEF AtRest
  <2> QED BY <1>0, <1>w, <2>1, <2>2
<1>3. CASE Rearm(t, w)
  <2>0. Moves(t, w, "rearm", "idle")
    BY <1>3 DEF Rearm
  <2>1. CASE ~per[t].running
    BY <1>0, <1>3, <1>w, <2>1 DEF Rearm
  <2>2. CASE per[t].running
    <3> DEFINE p == [per[t] EXCEPT !.armed = TRUE, !.loose = per[t].loose + IF per[t].armed THEN 1 ELSE 0]
    <3>0. per[t].loose + (IF per[t].armed THEN 1 ELSE 0) \in Nat
      BY <1>n
    <3>1. p \in PerRecords
      BY <1>t, <3>0 DEF PerRecords
    <3>2. p.waiting = per[t].waiting
      BY <1>t DEF PerRecords
    <3>3. per' = [per EXCEPT ![t] = p]
      BY <1>3, <2>2 DEF Rearm
    <3>6. work[t][w] = "rearm"
      BY <2>0 DEF Moves
    <3>4. SingleChain(per[t], work[t]) => SingleChain(p, [work[t] EXCEPT ![w] = "idle"])
      BY <1>t, <3>6, ChainRearms
    <3>5. p.waiting <= per[t].waiting
      BY <1>n, <3>2
    <3> HIDE DEF p
    <3> QED BY <1>t, <1>w, <2>0, <3>1, <3>3, <3>4, <3>5, MovesBoth
  <2> QED BY <2>1, <2>2
<1> QED
  BY <1>1, <1>2, <1>3 DEF WorkerNext

(* The callers: a closed task is nobody's concern, and a call of Start or   *)
(* WaitThenStart only begins.                                               *)
LEMMA CallsKeep ==
    ASSUME TasksInv, NEW t \in Tasks, CallsNext(t)
    PROVE  TasksInv'
<1>t. PerType /\ per[t] \in PerRecords /\ work[t] \in [Workers -> WorkPCs] /\ starts[t] \in Nat
  BY DEF TasksInv, PerType
<1>n. per[t].waiting \in Nat /\ per[t].loose \in Nat /\ per[t].waiting <= starts[t]
  BY <1>t DEF PerRecords, TasksInv, WaitingStarted
<1>0. \A s \in Tasks \ {t} : per[s].waiting <= starts[s] /\ starts[s] <= MaxStarts
  BY DEF TasksInv, WaitingStarted
<1>1. CASE Close(t)
  <2> DEFINE p == [per[t] EXCEPT !.running = FALSE, !.armed = FALSE]
  <2>1. p \in PerRecords
    BY <1>t DEF PerRecords
  <2>2. p.waiting = per[t].waiting
    BY <1>t DEF PerRecords
  <2>3. per' = [per EXCEPT ![t] = p] /\ UNCHANGED <<work, starts>>
    BY <1>1 DEF Close
  <2>4. closed' \in [Tasks -> {"no", "yes", "last"}] /\ closed'[t] # "no"
        /\ \A s \in Tasks \ {t} : closed'[s] = closed[s]
    BY <1>1, <1>t DEF Close, PerType
  <2> HIDE DEF p
  <2>5. PerType' /\ per'[t] = p /\ \A s \in Tasks \ {t} : per'[s] = per[s]
    BY <1>t, <2>1, <2>3, <2>4 DEF PerType
  <2>6. WaitingStarted'
    BY <2>2, <2>3, <2>5 DEF TasksInv, WaitingStarted
  <2>7. ChainsInv'
    BY <2>3, <2>4, <2>5 DEF TasksInv, ChainsInv
  <2> QED BY <2>5, <2>6, <2>7 DEF TasksInv
<1>2. CASE WaitThenStart(t)
  <2> DEFINE p == [per[t] EXCEPT !.waiting = per[t].waiting + 1]
  <2>1. p \in PerRecords /\ p.waiting = per[t].waiting + 1
    BY <1>t, <1>n DEF PerRecords
  <2>2. SingleChain(per[t], work[t]) => SingleChain(p, work[t])
    BY <1>t DEF SingleChain, PerRecords
  <2>3. per' = [per EXCEPT ![t] = p] /\ UNCHANGED <<work, closed>>
        /\ starts[t] < MaxStarts /\ starts' = [starts EXCEPT ![t] = starts[t] + 1]
    BY <1>2 DEF WaitThenStart
  <2> HIDE DEF p
  <2>5. PerType' /\ per'[t] = p /\ starts'[t] = starts[t] + 1
        /\ \A s \in Tasks \ {t} : per'[s] = per[s] /\ starts'[s] = starts[s]
    BY <1>t, <2>1, <2>3 DEF PerType
  <2>6. WaitingStarted'
    <3>1. p.waiting <= starts[t] + 1 /\ starts[t] + 1 <= MaxStarts
      BY <1>t, <1>n, <2>1, <2>3, PeriodicBounds
    <3> QED BY <1>0, <2>5, <3>1 DEF WaitingStarted
  <2>7. ChainsInv'
    BY <2>2, <2>3, <2>5 DEF TasksInv, ChainsInv
  <2> QED BY <2>5, <2>6, <2>7 DEF TasksInv
<1>3. ASSUME NEW w \in Workers, CallStart(t, w) PROVE TasksInv'
  <2> DEFINE k == [work[t] EXCEPT ![w] = "start"]
  <2>1. k \in [Workers -> WorkPCs] /\ work' = [work EXCEPT ![t] = k] /\ UNCHANGED <<per, closed>>
    BY <1>t, <1>3 DEF CallStart, Spawns, Moves, PerType, WorkPCs
  <2>2. SingleChain(per[t], work[t]) => SingleChain(per[t], k)
    <3>1. "start" \in AtRest /\ "start" \in WorkPCs
      BY DEF AtRest, WorkPCs
    <3> QED BY <1>t, <3>1, ChainMoves
  <2>3. starts[t] < MaxStarts /\ starts' = [starts EXCEPT ![t] = starts[t] + 1]
    BY <1>3 DEF CallStart
  <2> HIDE DEF k
  <2>5. PerType' /\ work'[t] = k /\ starts'[t] = starts[t] + 1
        /\ \A s \in Tasks \ {t} : work'[s] = work[s] /\ starts'[s] = starts[s]
    BY <1>t, <2>1, <2>3 DEF PerType
  <2>6. WaitingStarted'
    <3>1. per[t].waiting <= starts[t] + 1 /\ starts[t] + 1 <= MaxStarts
      BY <1>t, <1>n, <2>3, PeriodicBounds
    <3> QED BY <1>0, <2>1, <2>5, <3>1 DEF WaitingStarted
  <2>7. ChainsInv'
    BY <2>1, <2>2, <2>5 DEF TasksInv, ChainsInv
  <2> QED BY <2>5, <2>6, <2>7 DEF TasksInv
<1> QED
  BY <1>1, <1>2, <1>3 DEF CallsNext

-----------------------------------------------------------------------------
(***************************************************************************)
(* ProxyTasks.  As long as no event met a logTick, every amount relayed is  *)
(* in one place: queued, counted, on the bus, in the sum or printed; during *)
(* a logTick, when it is printed and still in the sum, the sum does not     *)
(* count and no event is under way.                                         *)
(***************************************************************************)
NatOK ==
    /\ nat \in NATs /\ told \in NATs \cup {""}
    /\ loaded \in [Workers \cup {StartCaller} -> NATs]

AmountsOK ==
    /\ traffic \in [queued : Nat, counted : Nat] /\ traffic.queued <= ChanCap /\ sum \in Nat
    /\ totals \in [relayed : Nat, printed : Nat] /\ raced \in BOOLEAN
    /\ bus = NoEvent \/ bus \in Nat \X Nat

InTransit == totals.printed + traffic.queued + traffic.counted

OneTicks == \A v, w \in Workers : work["log"][v] = "reset" /\ work["log"][w] = "reset" => v = w

AmountsSound == ~raced =>
    /\ OneTicks
    /\ Ticking => bus = NoEvent /\ InTransit <= totals.relayed
    /\ ~Ticking /\ bus = NoEvent => InTransit + sum <= totals.relayed
    /\ ~Ticking /\ bus # NoEvent => bus[1] = sum /\ InTransit + sum + bus[2] <= totals.relayed

ProxyInv == TasksInv /\ NatOK /\ AmountsOK /\ AmountsSound

(* Initially no task runs and nothing was relayed.                          *)
LEMMA TasksInitEstablishes == Init => ProxyInv
<1> SUFFICES ASSUME Init PROVE ProxyInv
  OBVIOUS
<1>1. PerType
  BY DEF Init, PerInit, PerType, PerRecords, WorkPCs
<1>f. \A t \in Tasks : /\ per[t] = [running |-> FALSE, armed |-> FALSE, loose |-> 0, waiting |-> 0]
                       /\ starts[t] = 0 /\ \A w \in Workers : work[t][w] = "idle"
  BY DEF Init, PerInit
<1>g. \A t \in Tasks : per[t].waiting = 0 /\ per[t].loose = 0 /\ ~per[t].armed
  BY <1>f
<1>2. WaitingStarted
  BY <1>f, <1>g, PeriodicBounds DEF WaitingStarted
<1>3. ChainsInv
  BY <1>f, <1>g DEF ChainsInv, SingleChain, AtRest
<1>4. NatOK
  BY DEF Init, NatOK, NATs
<1>h. /\ traffic.queued = 0 /\ traffic.counted = 0 /\ sum = 0
      /\ totals.relayed = 0 /\ totals.printed = 0
  BY DEF Init, Fresh
<1>5. AmountsOK
  <2>1. traffic \in [queued : Nat, counted : Nat]
    BY DEF Init, Fresh
  <2>2. totals \in [relayed : Nat, printed : Nat]
    BY DEF Init
  <2>3. bus = NoEvent /\ raced \in BOOLEAN
    BY DEF Init
  <2> QED BY <1>h, <2>1, <2>2, <2>3, TaskNames DEF AmountsOK
<1>6. AmountsSound
  <2>1. ~Ticking /\ OneTicks
    BY <1>f, TaskNames DEF Ticking, OneTicks
  <2>2. InTransit + sum <= totals.relayed
    BY <1>h DEF InTransit
  <2>3. bus = NoEvent
    BY DEF Init
  <2> QED BY <2>1, <2>2, <2>3 DEF AmountsSound
<1> QED
  BY <1>1, <1>2, <1>3, <1>4, <1>5, <1>6 DEF ProxyInv, TasksInv

(* A step that moves neither the traffic nor a logTick keeps the amounts.   *)
LEMMA AmountsUntouched ==
    ASSUME ProxyInv, UNCHANGED logVars,
           \A w \in Workers : (work'["log"][w] = "reset") <=> (work["log"][w] = "reset")
    PROVE  AmountsOK' /\ AmountsSound'
<1>1. AmountsOK'
  BY DEF ProxyInv, AmountsOK, logVars
<1>2. (Ticking' <=> Ticking) /\ (OneTicks => OneTicks')
  BY DEF Ticking, OneTicks
<1>3. AmountsSound'
  BY <1>2 DEF ProxyInv, AmountsSound, InTransit, logVars
<1> QED BY <1>1, <1>3

(* A step of the tasks that is not the printing's leaves the amounts alone. *)
LEMMA TaskStepsKeep ==
    ASSUME ProxyInv, NEW t \in Tasks, UNCHANGED taskVars,
           (\E w \in Workers : WorkerNext(t, w)) \/ TimersNext(t) \/ CallsNext(t)
    PROVE  ProxyInv'
<1>1. TasksInv'
  BY WorkerKeeps, TimerKeeps, CallsKeep DEF ProxyInv, TimersNext
<1>2. NatOK'
  BY DEF ProxyInv, NatOK, taskVars
<1>p. PerType
  BY DEF ProxyInv, TasksInv
<1>3. \A w \in Workers : (work'["log"][w] = "reset") <=> (work["log"][w] = "reset")
  <2>1. work \in [Tasks -> [Workers -> WorkPCs]] /\ "log" \in Tasks
    BY <1>p, TaskNames DEF PerType
  <2>2. CASE UNCHANGED work
    BY <2>2
  <2>3. ASSUME NEW w \in Workers, NEW from \in WorkPCs \ {"reset"}, NEW to \in WorkPCs \ {"reset"}, Moves(t, w, from, to)
        PROVE  \A v \in Workers : (work'["log"][v] = "reset") <=> (work["log"][v] = "reset")
    BY <2>1, <2>3 DEF Moves
  <2>4. UNCHANGED work \/ \E w \in Workers : \E from, to \in WorkPCs \ {"reset"} : Moves(t, w, from, to)
    <3>1. ASSUME NEW w \in Workers, WorkerNext(t, w) \/ TimerFires(t, w) \/ CallStart(t, w)
          PROVE  \E from, to \in WorkPCs \ {"reset"} : Moves(t, w, from, to)
      <4>1. {"idle", "start", "check", "exec", "rearm"} \subseteq WorkPCs \ {"reset"}
        BY DEF WorkPCs
      <4>2. \/ \E to \in {"idle", "check"} : Moves(t, w, "start", to)
            \/ \E to \in {"idle", "exec"} : Moves(t, w, "check", to)
            \/ Moves(t, w, "rearm", "idle")
            \/ \E to \in {"start", "check"} : Moves(t, w, "idle", to)
        BY <3>1 DEF WorkerNext, Start, HasClosed, Rearm, TimerFires, CallStart, Spawns
      <4> QED BY <4>1, <4>2
    <3>2. Close(t) \/ WaitThenStart(t) => UNCHANGED work
      BY DEF Close, WaitThenStart
    <3> QED BY <3>1, <3>2 DEF TimersNext, CallsNext
  <2> QED BY <2>2, <2>3, <2>4
<1>4. AmountsOK' /\ AmountsSound'
  BY <1>3, AmountsUntouched DEF taskVars, logVars
<1> QED BY <1>1, <1>2, <1>4 DEF ProxyInv

(* checkNATType stores a type that was measured or the one it loaded.       *)
LEMMA MeasureKeeps ==
    ASSUME NatOK, NEW x \in Workers \cup {StartCaller}, told' = told,
           Probe(x) \/ Measure(x) \/ ProbeFails
    PROVE  NatOK'
<1>1. CASE Probe(x)
  BY <1>1 DEF NatOK, Probe
<1>2. CASE Measure(x)
  BY <1>2 DEF NatOK, Measure, Stored, NATs
<1>3. CASE ProbeFails
  BY <1>3 DEF NatOK, ProbeFails
<1> QED BY <1>1, <1>2, <1>3

(* The NAT retest moves a goroutine of its own task.                        *)
LEMMA NatExecuteKeeps ==
    ASSUME ProxyInv, NEW w \in Workers, NatExecute(w)
    PROVE  ProxyInv'
<1>t. "nat" \in Tasks /\ "log" \in Tasks /\ "nat" # "log" /\ PerType /\ TasksInv /\ NatOK
  BY TaskNames DEF ProxyInv, TasksInv
<1>u. UNCHANGED <<per, starts, closed, start, told, logVars>>
  BY DEF NatExecute
<1>1. PICK from \in {"exec", "measure"}, to \in {"measure", "rearm"} : Moves("nat", w, from, to)
  BY DEF NatExecute
<1>2. TasksInv'
  <2>1. from \in WorkPCs /\ to \in WorkPCs /\ from \notin AtRest
    BY DEF WorkPCs, AtRest
  <2> QED BY <1>t, <1>u, <1>1, <2>1, MovesKeep
<1>3. NatOK'
  BY <1>t, <1>u, MeasureKeeps DEF NatExecute
<1>4. work'["log"] = work["log"]
  BY <1>t, <1>1 DEF Moves, PerType
<1>5. AmountsOK' /\ AmountsSound'
  BY <1>4, <1>u, AmountsUntouched DEF logVars
<1> QED BY <1>2, <1>3, <1>5 DEF ProxyInv

(* Start measures, tells the broker and starts the NAT retest.              *)
LEMMA StartKeeps ==
    ASSUME ProxyInv, StartChecks \/ StartPolls
    PROVE  ProxyInv'
<1>t. "nat" \in Tasks /\ TasksInv /\ NatOK /\ UNCHANGED work
  BY TaskNames DEF ProxyInv, StartChecks, StartPolls, perVars, WaitThenStart
<1>4. UNCHANGED logVars
  BY DEF StartChecks, StartPolls, logVars
<1>5. AmountsOK' /\ AmountsSound'
  BY <1>t, <1>4, AmountsUntouched
<1>1. CASE StartChecks
  <2>1. TasksInv'
    BY <1>t, <1>1 DEF StartChecks, perVars, TasksInv, PerType, WaitingStarted, ChainsInv
  <2>2. NatOK'
    BY <1>t, <1>1, MeasureKeeps DEF StartChecks
  <2> QED BY <2>1, <2>2, <1>5 DEF ProxyInv
<1>2. CASE StartPolls
  <2>1. TasksInv'
    BY <1>t, <1>2, CallsKeep DEF StartPolls, CallsNext
  <2>2. NatOK'
    BY <1>t, <1>2 DEF StartPolls, NatOK
  <2> QED BY <2>1, <2>2, <1>5 DEF ProxyInv
<1> QED BY <1>1, <1>2

(* The amounts as numbers.                                                  *)
LEMMA AmountsAreNat ==
    ASSUME AmountsOK
    PROVE  /\ traffic.queued \in Nat /\ traffic.counted \in Nat /\ sum \in Nat
           /\ totals.relayed \in Nat /\ totals.printed \in Nat
           /\ bus # NoEvent => bus[1] \in Nat /\ bus[2] \in Nat
BY DEF AmountsOK

(* A step that leaves the tasks alone and keeps the amounts in type.        *)
LEMMA TrafficSteps ==
    ASSUME ProxyInv, UNCHANGED <<perVars, natVars>>, AmountsOK', AmountsSound'
    PROVE  ProxyInv'
<1>1. TasksInv'
  BY DEF ProxyInv, perVars, TasksInv, PerType, WaitingStarted, ChainsInv
<1>2. NatOK'
  BY DEF ProxyInv, NatOK, natVars
<1> QED BY <1>1, <1>2 DEF ProxyInv

(* An amount is queued: it is relayed and in transit.                       *)
LEMMA AddKeepsAmounts == ASSUME ProxyInv, AddOutbound PROVE ProxyInv'
<1>n. AmountsOK /\ traffic.queued \in Nat /\ traffic.counted \in Nat /\ sum \in Nat
      /\ totals.relayed \in Nat /\ totals.printed \in Nat
  BY AmountsAreNat DEF ProxyInv
<1>u. UNCHANGED <<perVars, natVars, sum, bus, events, raced>>
  BY DEF AddOutbound
<1>1. /\ traffic' \in [queued : Nat, counted : Nat] /\ totals' \in [relayed : Nat, printed : Nat]
      /\ traffic'.queued = traffic.queued + 1 /\ traffic'.counted = traffic.counted
      /\ totals'.relayed = totals.relayed + 1 /\ totals'.printed = totals.printed
  BY <1>n DEF AddOutbound, AmountsOK
<1>2. AmountsOK'
  BY <1>n, <1>u, <1>1, TaskNames DEF AddOutbound, AmountsOK
<1>3. (Ticking' <=> Ticking) /\ (OneTicks' <=> OneTicks)
  BY <1>u DEF Ticking, OneTicks, perVars
<1>4. AmountsSound'
  <2> SUFFICES ASSUME ~raced' PROVE AmountsSound'
    BY DEF AmountsSound
  <2>0. ~raced /\ bus' = bus /\ sum' = sum
    BY <1>u
  <2>1. OneTicks'
    BY <1>3, <2>0 DEF ProxyInv, AmountsSound
  <2>2. CASE Ticking
    BY <1>1, <1>3, <1>n, <2>0, <2>1, <2>2 DEF ProxyInv, AmountsSound, InTransit
  <2>3. CASE ~Ticking /\ bus = NoEvent
    BY <1>1, <1>3, <1>n, <2>0, <2>1, <2>3 DEF ProxyInv, AmountsSound, InTransit
  <2>4. CASE ~Ticking /\ bus # NoEvent
    <3>1. bus[1] = sum /\ bus[2] \in Nat /\ InTransit + sum + bus[2] <= totals.relayed
      BY <2>0, <2>4, AmountsAreNat, <1>n DEF ProxyInv, AmountsSound
    <3> QED BY <3>1, <1>1, <1>3, <1>n, <2>0, <2>1, <2>4 DEF AmountsSound, InTransit
  <2> QED BY <2>2, <2>3, <2>4
<1> QED BY <1>u, <1>2, <1>4, TrafficSteps

(* A queued amount is counted.                                              *)
LEMMA BytesLogKeeps == ASSUME ProxyInv, BytesLog PROVE ProxyInv'
<1>n. AmountsOK /\ traffic.queued \in Nat /\ traffic.counted \in Nat /\ sum \in Nat
      /\ totals.relayed \in Nat /\ totals.printed \in Nat
  BY AmountsAreNat DEF ProxyInv
<1>u. UNCHANGED <<perVars, natVars, sum, bus, events, totals, raced>>
  BY DEF BytesLog
<1>1. /\ traffic' \in [queued : Nat, counted : Nat]
      /\ traffic'.queued = traffic.queued - 1 /\ traffic'.counted = traffic.counted + 1
  BY <1>n DEF BytesLog
<1>2. AmountsOK'
  BY <1>n, <1>u, <1>1, TaskNames DEF AmountsOK
<1>3. (Ticking' <=> Ticking) /\ (OneTicks' <=> OneTicks)
  BY <1>u DEF Ticking, OneTicks, perVars
<1>4. AmountsSound'
  BY <1>1, <1>3, <1>n, <1>u DEF ProxyInv, AmountsSound, InTransit
<1> QED BY <1>u, <1>2, <1>4, TrafficSteps

(* A connection ends: what it counted goes to the bus, which loads the sum. *)
LEMMA EventLoadsKeeps == ASSUME ProxyInv, EventLoads PROVE ProxyInv'
<1>n. AmountsOK /\ traffic.queued \in Nat /\ traffic.counted \in Nat /\ sum \in Nat
      /\ totals.relayed \in Nat /\ totals.printed \in Nat
  BY AmountsAreNat DEF ProxyInv
<1>u. UNCHANGED <<perVars, natVars, sum, totals>> /\ bus = NoEvent /\ (~raced' <=> ~raced /\ ~Ticking)
  BY DEF EventLoads
<1>1. /\ traffic' = Fresh /\ traffic'.queued = 0 /\ traffic'.counted = 0
      /\ bus' = <<sum, traffic.counted>> /\ bus'[1] = sum /\ bus'[2] = traffic.counted /\ bus' # NoEvent
  BY DEF EventLoads, Fresh, NoEvent
<1>2. AmountsOK'
  <2>1. traffic' \in [queued : Nat, counted : Nat] /\ traffic'.queued <= ChanCap
    BY <1>1, TaskNames DEF Fresh
  <2>2. bus' \in Nat \X Nat
    BY <1>1, <1>n
  <2>3. raced' \in BOOLEAN
    BY <1>n DEF EventLoads, AmountsOK, Ticking
  <2> QED BY <2>1, <2>2, <2>3, <1>u, <1>n DEF AmountsOK
<1>3. (Ticking' <=> Ticking) /\ (OneTicks' <=> OneTicks)
  BY <1>u DEF Ticking, OneTicks, perVars
<1>4. AmountsSound'
  <2> SUFFICES ASSUME ~raced' PROVE AmountsSound'
    BY DEF AmountsSound
  <2>1. ~raced /\ ~Ticking /\ OneTicks /\ InTransit + sum <= totals.relayed
    BY <1>u DEF ProxyInv, AmountsSound
  <2>2. totals.printed + 0 + 0 + sum + traffic.counted <= totals.relayed
    BY <1>n, <2>1 DEF InTransit
  <2>3. InTransit' + sum' + bus'[2] <= totals'.relayed
    BY <2>2, <1>1, <1>u, <1>n DEF InTransit
  <2> QED BY <2>1, <2>3, <1>1, <1>3, <1>u DEF AmountsSound
<1> QED BY <1>u, <1>2, <1>4, TrafficSteps

(* The bus stores the sum: nobody reset it in between, or raced says so.    *)
LEMMA EventStoresKeeps == ASSUME ProxyInv, EventStores PROVE ProxyInv'
<1>n. AmountsOK /\ traffic.queued \in Nat /\ traffic.counted \in Nat /\ sum \in Nat
      /\ totals.relayed \in Nat /\ totals.printed \in Nat
      /\ bus # NoEvent /\ bus[1] \in Nat /\ bus[2] \in Nat
  BY AmountsAreNat DEF ProxyInv, EventStores
<1>u. /\ UNCHANGED <<perVars, natVars, traffic, totals>> /\ (~raced' <=> ~raced /\ ~Ticking)
      /\ bus' = NoEvent /\ sum' = bus[1] + bus[2]
  BY DEF EventStores
<1>2. AmountsOK'
  <2>1. raced' \in BOOLEAN
    BY <1>n DEF EventStores, AmountsOK, Ticking
  <2> QED BY <2>1, <1>u, <1>n DEF AmountsOK
<1>3. (Ticking' <=> Ticking) /\ (OneTicks' <=> OneTicks)
  BY <1>u DEF Ticking, OneTicks, perVars
<1>4. AmountsSound'
  <2> SUFFICES ASSUME ~raced' PROVE AmountsSound'
    BY DEF AmountsSound
  <2>1. ~raced /\ ~Ticking /\ OneTicks /\ bus[1] = sum /\ InTransit + sum + bus[2] <= totals.relayed
    BY <1>u, <1>n DEF ProxyInv, AmountsSound
  <2>2. InTransit' + sum' <= totals'.relayed
    BY <2>1, <1>u, <1>n DEF InTransit
  <2> QED BY <2>1, <2>2, <1>3, <1>u DEF AmountsSound
<1> QED BY <1>u, <1>2, <1>4, TrafficSteps

(* The sum is printed: from here to the reset it counts as printed only.    *)
LEMMA LogPrintKeeps == ASSUME ProxyInv, NEW w \in Workers, LogPrint(w) PROVE ProxyInv'
<1>n. AmountsOK /\ traffic.queued \in Nat /\ traffic.counted \in Nat /\ sum \in Nat
      /\ totals.relayed \in Nat /\ totals.printed \in Nat
  BY AmountsAreNat DEF ProxyInv
<1>t. "log" \in Tasks /\ TasksInv /\ PerType
  BY TaskNames DEF ProxyInv, TasksInv
<1>u. /\ UNCHANGED <<per, starts, closed, natVars, traffic, sum, bus, events>>
      /\ Moves("log", w, "exec", "reset") /\ (~raced' <=> ~raced /\ bus = NoEvent /\ ~Ticking)
  BY DEF LogPrint
<1>w. "exec" \in WorkPCs /\ "reset" \in WorkPCs /\ "exec" \notin AtRest
  BY DEF WorkPCs, AtRest
<1>1. TasksInv'
  BY <1>t, <1>u, <1>w, MovesKeep
<1>2. NatOK'
  BY <1>u DEF ProxyInv, NatOK, natVars
<1>3. /\ totals' \in [relayed : Nat, printed : Nat]
      /\ totals'.relayed = totals.relayed /\ totals'.printed = totals.printed + sum
  BY <1>n DEF LogPrint, AmountsOK
<1>4. AmountsOK'
  <2>1. raced' \in BOOLEAN
    BY <1>n DEF LogPrint, AmountsOK, Ticking
  <2> QED BY <2>1, <1>3, <1>u, <1>n DEF AmountsOK
<1>5. work'["log"][w] = "reset" /\ \A v \in Workers \ {w} : work'["log"][v] = work["log"][v]
  BY <1>t, <1>u DEF Moves, PerType
<1>6. AmountsSound'
  <2> SUFFICES ASSUME ~raced' PROVE AmountsSound'
    BY DEF AmountsSound
  <2>1. ~raced /\ ~Ticking /\ bus = NoEvent /\ InTransit + sum <= totals.relayed
    BY <1>u DEF ProxyInv, AmountsSound
  <2>2. Ticking' /\ OneTicks'
    BY <1>5, <2>1 DEF Ticking, OneTicks
  <2>3. InTransit' <= totals'.relayed
    BY <2>1, <1>3, <1>u, <1>n DEF InTransit
  <2> QED BY <2>1, <2>2, <2>3, <1>u DEF AmountsSound
<1> QED BY <1>1, <1>2, <1>4, <1>6 DEF ProxyInv

(* The sum is reset: without a race nobody else is at the reset.            *)
LEMMA LogResetKeeps == ASSUME ProxyInv, NEW w \in Workers, LogReset(w) PROVE ProxyInv'
<1>n. AmountsOK /\ traffic.queued \in Nat /\ traffic.counted \in Nat /\ sum \in Nat
      /\ totals.relayed \in Nat /\ totals.printed \in Nat
  BY AmountsAreNat DEF ProxyInv
<1>t. "log" \in Tasks /\ TasksInv /\ PerType
  BY TaskNames DEF ProxyInv, TasksInv
<1>u. /\ UNCHANGED <<per, starts, closed, natVars, traffic, bus, events, totals, raced>> /\ sum' = 0
      /\ Moves("log", w, "reset", "rearm")
  BY DEF LogReset
<1>w. "reset" \in WorkPCs /\ "rearm" \in WorkPCs /\ "reset" \notin AtRest
  BY DEF WorkPCs, AtRest
<1>1. TasksInv'
  BY <1>t, <1>u, <1>w, MovesKeep
<1>2. NatOK'
  BY <1>u DEF ProxyInv, NatOK, natVars
<1>4. AmountsOK'
  BY <1>u, <1>n DEF AmountsOK
<1>5. /\ work["log"][w] = "reset" /\ work'["log"][w] = "rearm"
      /\ \A v \in Workers \ {w} : work'["log"][v] = work["log"][v]
  BY <1>t, <1>u DEF Moves, PerType
<1>6. AmountsSound'
  <2> SUFFICES ASSUME ~raced' PROVE AmountsSound'
    BY DEF AmountsSound
  <2>1. ~raced /\ Ticking /\ OneTicks /\ bus = NoEvent /\ InTransit <= totals.relayed
    BY <1>5, <1>u DEF ProxyInv, AmountsSound, Ticking
  <2>2. ~Ticking' /\ OneTicks'
    BY <1>5, <2>1 DEF Ticking, OneTicks
  <2>3. InTransit' + sum' <= totals'.relayed
    BY <2>1, <1>u, <1>n DEF InTransit
  <2> QED BY <2>1, <2>2, <2>3, <1>u DEF AmountsSound
<1> QED BY <1>1, <1>2, <1>4, <1>6 DEF ProxyInv

(* Every step of the tasks, the measurements and the traffic.               *)
LEMMA TasksNextKeeps == ProxyInv /\ [Next]_vars => ProxyInv'
<1> SUFFICES ASSUME ProxyInv, [Next]_vars PROVE ProxyInv'
  OBVIOUS
<1>1. CASE TaskWorkers
  BY <1>1, TaskStepsKeep, NatExecuteKeeps, LogPrintKeeps, LogResetKeeps DEF TaskWorkers
<1>2. CASE StartChecks \/ StartPolls
  BY <1>2, StartKeeps
<1>3. CASE AddOutbound \/ BytesLog \/ EventLoads \/ EventStores
  BY <1>3, AddKeepsAmounts, BytesLogKeeps, EventLoadsKeeps, EventStoresKeeps
<1>4. CASE \E t \in Tasks : Timers(t)
  BY <1>4, TaskStepsKeep DEF Timers
<1>5. CASE CallsNext("log") /\ UNCHANGED taskVars
  <2>1. "log" \in Tasks
    BY TaskNames
  <2> QED BY <1>5, <2>1, TaskStepsKeep
<1>6. CASE UNCHANGED vars
  <2>1. AmountsOK' /\ AmountsSound'
    BY <1>6, AmountsUntouched DEF vars, perVars, taskVars, logVars
  <2> QED BY <1>6, <2>1, TrafficSteps DEF vars, perVars, taskVars, natVars
<1> QED BY <1>1, <1>2, <1>3, <1>4, <1>5, <1>6 DEF Next

(* At most one goroutine past its check, or one timer: at most one chain.   *)
LEMMA ChainCounts ==
    ASSUME TasksInv, NEW t \in Tasks, closed[t] = "no"
    PROVE  Chains(t) <= 1
<1>1. SingleChain(per[t], work[t])
  BY DEF TasksInv, ChainsInv
<1>2. per[t].loose \in Nat /\ work[t] \in [Workers -> WorkPCs]
  BY DEF TasksInv, PerType, PerRecords
<1>3. CASE Busy(t) = {}
  <2>1. Cardinality(Busy(t)) = 0
    BY <1>3, FS_EmptySet
  <2> QED BY <1>1, <1>2, <2>1 DEF SingleChain, Chains
<1>4. CASE Busy(t) # {}
  <2>1. PICK w \in Busy(t) : TRUE
    BY <1>4
  <2>2. Busy(t) = {w} /\ per[t].loose = 0 /\ ~per[t].armed
    BY <1>1, <2>1 DEF SingleChain, Busy, AtRest
  <2>3. Cardinality(Busy(t)) = 1
    BY <2>2, FS_Singleton
  <2> QED BY <2>2, <2>3 DEF Chains
<1> QED BY <1>3, <1>4

(* What the invariant says of the tasks and of the amounts.                 *)
LEMMA ProxyInvImplies == ProxyInv => ChainsSound /\ TrafficNotInvented
<1> SUFFICES ASSUME ProxyInv PROVE ChainsSound /\ TrafficNotInvented
  OBVIOUS
<1>1. OneChain
  BY ChainCounts DEF OneChain, ProxyInv
<1>2. TypeOK
  <2>1. \A t \in Tasks : per[t].loose \in Nat /\ per[t].waiting \in 0..MaxStarts
    <3> SUFFICES ASSUME NEW t \in Tasks PROVE per[t].loose \in Nat /\ per[t].waiting \in 0..MaxStarts
      OBVIOUS
    <3>1. per[t].loose \in Nat /\ per[t].waiting \in Nat /\ starts[t] \in Nat
      BY DEF ProxyInv, TasksInv, PerType, PerRecords
    <3>2. per[t].waiting <= starts[t] /\ starts[t] <= MaxStarts
      BY DEF ProxyInv, TasksInv, WaitingStarted
    <3> QED BY <3>1, <3>2, PeriodicBounds
  <2>2. {nat} \cup {loaded[x] : x \in DOMAIN loaded} \subseteq NATs /\ told \in NATs \cup {""}
    BY DEF ProxyInv, NatOK
  <2>3. traffic.queued \in 0..ChanCap /\ sum \in Nat
    BY TaskNames, AmountsAreNat DEF ProxyInv, AmountsOK
  <2> QED BY <2>1, <2>2, <2>3 DEF TypeOK
<1>3. TrafficNotInvented
  <2> SUFFICES ASSUME ~raced, ~Ticking PROVE totals.printed + sum <= totals.relayed
    BY DEF TrafficNotInvented
  <2>1. /\ traffic.queued \in Nat /\ traffic.counted \in Nat /\ sum \in Nat
        /\ totals.relayed \in Nat /\ totals.printed \in Nat
    BY AmountsAreNat DEF ProxyInv
  <2>2. CASE bus = NoEvent
    BY <2>1, <2>2 DEF ProxyInv, AmountsSound, InTransit
  <2>3. CASE bus # NoEvent
    <3>1. bus[2] \in Nat /\ InTransit + sum + bus[2] <= totals.relayed
      BY <2>3, AmountsAreNat DEF ProxyInv, AmountsSound
    <3> QED BY <2>1, <3>1 DEF InTransit
  <2> QED BY <2>2, <2>3
<1> QED BY <1>1, <1>2, <1>3 DEF ChainsSound

(* A task that nobody closed runs as one chain, however often Start and     *)
(* WaitThenStart are called and whatever timers fire meanwhile, and the     *)
(* state of tasks, NAT type and logger stays in type (periodic.go:48-102).  *)
THEOREM ChainsSoundHolds == SSpec => []ChainsSound
<1>1. Init => ProxyInv
  BY TasksInitEstablishes
<1>2. ProxyInv /\ [Next]_vars => ProxyInv'
  BY TasksNextKeeps
<1>3. ProxyInv => ChainsSound
  BY ProxyInvImplies
<1> QED BY <1>1, <1>2, <1>3, PTL DEF SSpec

(* The printed summaries and the running sum claim no traffic that was not  *)
(* relayed, unless a connection ended during a logTick or two logTicks met  *)
(* (pt_event_logger.go:28-50).                                              *)
THEOREM TrafficNotInventedHolds == SSpec => []TrafficNotInvented
<1>1. Init => ProxyInv
  BY TasksInitEstablishes
<1>2. ProxyInv /\ [Next]_vars => ProxyInv'
  BY TasksNextKeeps
<1>3. ProxyInv => TrafficNotInvented
  BY ProxyInvImplies
<1> QED BY <1>1, <1>2, <1>3, PTL DEF SSpec
=============================================================================
