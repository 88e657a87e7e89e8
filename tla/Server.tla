------------------------------- MODULE Server -------------------------------
(***************************************************************************)
(* The Snowflake server: main's bind loop and shutdown (iceball/server/     *)
(* server.go), SnowflakeListener (iceball/server/lib/snowflake.go) and the  *)
(* part of the WebSocket handler that feeds the client address memory       *)
(* (ServeHTTP in iceball/server/lib/http.go), composed with ClientIDMap.    *)
(* A listener runs an HTTP server, an acceptSessions goroutine, one         *)
(* acceptStreams goroutine per KCP session, and an acceptLoop that starts a *)
(* handleConn per stream.  All listeners share one ClientIDMap.             *)
(* net/http, KCP, smux and the ORPort are external: they fail, end and      *)
(* answer at any time.  The packets themselves are in QueuePacketConn.      *)
(***************************************************************************)
EXTENDS ClientIDMap, Sequences, FiniteSets, Functions

CONSTANTS Bindaddrs,   \* ptInfo.Bindaddrs, a sequence
          Sessions,    \* KCP sessions
          Streams,     \* smux streams, numbered as they are opened
          Params,      \* values of the client_ip query parameter
          Empty,       \* ClientMapAddr("")
          QueueCap,    \* capacity of SnowflakeListener.queue
          WithTLS      \* whether --disable-tls is absent

ASSUME ServerConstants ==
    /\ Streams \subseteq Nat \ {0} /\ Empty \in Addrs /\ QueueCap \in Nat \ {0} /\ WithTLS \in BOOLEAN
    \* Every entry is a listener of its own.
    /\ Bindaddrs \in Seq(Range(Bindaddrs)) /\ IsInjective(Bindaddrs)

VARIABLES
    main,      \* main: pc, next (bindaddr it is at)
    http01,    \* the HTTP-01 listener: "needed", "open", "closed" or "unneeded"
    srv,       \* per listener: its http.Server
    reported,  \* per listener: what main told tor, "" before
    lns,       \* per listener: closed (the channel), queue, and the goroutines accept and kcp
    sess,      \* acceptStreams goroutines: pc, client, listener, address, stream in hand
    conn,      \* streams: pc, listener, address, ends (who has ended it), copiers still running
    last       \* ghost: the address of each client's latest WebSocket

mapState == <<entries, oldest, current, last>>
procVars == <<main, http01, srv, reported, lns>>
svars == <<mapState, procVars, sess, conn>>

Ls == Range(Bindaddrs)
NoStream == 0
IdleSess == [pc |-> "none", client |-> ZeroID, ln |-> Bindaddrs[1], addr |-> NoAddr, k |-> NoStream]
IdleConn == [pc |-> "none", sess |-> CHOOSE s \in Sessions : TRUE, ln |-> Bindaddrs[1],
             addr |-> NoAddr, ends |-> {}, copiers |-> {}]

SInit ==
    /\ newClientIDMap /\ last = [c \in ClientIDs |-> NoAddr]
    /\ main = [pc |-> "binding", next |-> 1]
    /\ http01 = IF WithTLS THEN "needed" ELSE "unneeded"
    /\ srv = [l \in Ls |-> "none"] /\ reported = [l \in Ls |-> ""]
    /\ lns = [l \in Ls |-> [closed |-> FALSE, queue |-> <<>>, accept |-> "off", kcp |-> "off"]]
    /\ sess = [s \in Sessions |-> IdleSess] /\ conn = [k \in Streams |-> IdleConn]
-----------------------------------------------------------------------------
(* main: one bindaddr after the other.                                      *)
At(l) == main.next <= Len(Bindaddrs) /\ l = Bindaddrs[main.next]
Report(l, r) ==
    /\ reported' = [reported EXCEPT ![l] = r]
    /\ main' = [main EXCEPT !.pc = "binding", !.next = @ + 1]

\* The HTTP-01 listener is opened for the first bindaddr that gets this far.
OpenHTTP01 == http01' = IF http01 = "needed" THEN "open" ELSE http01

\* "no such method", or the HTTP-01 listener does not open.
BindRefused(l) ==
    /\ main.pc = "binding" /\ At(l)
    /\ Report(l, "error")
    /\ UNCHANGED <<mapState, http01, srv, lns, sess, conn>>

\* Port 0, or an option that does not parse: the HTTP-01 listener stays open.
BindMisconfigured(l) ==
    /\ main.pc = "binding" /\ At(l)
    /\ OpenHTTP01 /\ Report(l, "error")
    /\ UNCHANGED <<mapState, srv, lns, sess, conn>>

\* Listen starts ListenAndServe in a goroutine and waits a short time for its error.
ListenStarts(l) ==
    /\ main.pc = "binding" /\ At(l)
    /\ OpenHTTP01
    /\ srv' = [srv EXCEPT ![l] = "starting"]
    /\ main' = [main EXCEPT !.pc = "listening"]
    /\ UNCHANGED <<mapState, reported, lns, sess, conn>>

\* ListenAndServe binds, or fails and waits for somebody to take its error.
ServerBinds(l) ==
    /\ srv[l] = "starting"
    /\ srv' = [srv EXCEPT ![l] = "open"]
    /\ UNCHANGED <<mapState, main, http01, reported, lns, sess, conn>>
ServerFails(l) ==
    /\ srv[l] = "starting"
    /\ srv' = [srv EXCEPT ![l] = "failed"]
    /\ UNCHANGED <<mapState, main, http01, reported, lns, sess, conn>>

ListenGetsError(l) ==
    /\ main.pc = "listening" /\ At(l) /\ srv[l] = "failed"
    /\ Report(l, "error")
    /\ UNCHANGED <<mapState, http01, srv, lns, sess, conn>>

\* server.Close(): a server that has not bound yet never will.
Closed(l) == [srv EXCEPT ![l] = CASE @ = "open" -> "closed" [] @ = "starting" -> "failed" [] OTHER -> @]

\* Mutant of ListenFails: without server.Close().
ListenFailsServing(l) ==
    /\ main.pc = "listening" /\ At(l)
    /\ srv[l] # "none" /\ UNCHANGED srv
    /\ Report(l, "error")
    /\ UNCHANGED <<mapState, http01, lns, sess, conn>>

\* After the wait kcp.ServeConn fails for one of the instances.
ListenFails(l) ==
    /\ main.pc = "listening" /\ At(l)
    /\ srv' = Closed(l)
    /\ Report(l, "error")
    /\ UNCHANGED <<mapState, http01, lns, sess, conn>>

\* After the wait, with no error taken: the listener is up.
ListenReturns(l) ==
    /\ main.pc = "listening" /\ At(l)
    /\ lns' = [lns EXCEPT ![l].accept = "on", ![l].kcp = "on"]
    /\ Report(l, "ok")
    /\ UNCHANGED <<mapState, http01, srv, sess, conn>>

\* SmethodsDone, then SIGTERM or the end of stdin.
Signal ==
    /\ main.pc = "binding" /\ main.next > Len(Bindaddrs)
    /\ main' = [main EXCEPT !.pc = "closing", !.next = 1]
    /\ UNCHANGED <<mapState, http01, srv, reported, lns, sess, conn>>

\* The listeners that came up.
Up == {l \in Ls : reported[l] = "ok"}
\* SnowflakeListener.Close.
CloseListener(l) ==
    IF lns[l].closed THEN UNCHANGED <<lns, srv>>
    ELSE lns' = [lns EXCEPT ![l].closed = TRUE] /\ srv' = Closed(l)

\* The HTTP-01 listener is the first of listeners; once it is closed its
\* goroutine calls log.Fatal.
MainClosesHTTP01 ==
    /\ main.pc = "closing" /\ http01 = "open"
    /\ http01' = "closed"
    /\ UNCHANGED <<mapState, main, srv, reported, lns, sess, conn>>
HTTP01Fatal ==
    /\ http01 = "closed" /\ main.pc # "exited"
    /\ main' = [main EXCEPT !.pc = "exited"]
    /\ UNCHANGED <<mapState, http01, srv, reported, lns, sess, conn>>

\* The loop over listeners, in their order, then the deferred Close of each,
\* in reverse; a bindaddr that failed has none.
MainCloses ==
    LET l == Bindaddrs[main.next]
        last1 == main.pc = "closing" /\ main.next = Len(Bindaddrs)
    IN  /\ main.pc \in {"closing", "deferred"} /\ http01 # "open" /\ main.next \in DOMAIN Bindaddrs
        /\ IF l \in Up THEN CloseListener(l) ELSE UNCHANGED <<lns, srv>>
        /\ main' = [main EXCEPT !.pc = IF last1 THEN "deferred" ELSE @,
                                !.next = CASE last1 -> @ [] main.pc = "closing" -> @ + 1 [] OTHER -> @ - 1]
        /\ UNCHANGED <<mapState, http01, reported, sess, conn>>

\* Mutant of MainReturns: main waits for the accept queues to drain.
MainReturnsDrained ==
    /\ main.pc = "deferred" /\ main.next = 0
    /\ \A l \in Up : lns[l].queue = <<>>
    /\ main' = [main EXCEPT !.pc = "exited"]
    /\ UNCHANGED <<mapState, http01, srv, reported, lns, sess, conn>>
MainReturns ==
    /\ main.pc = "deferred" /\ main.next = 0
    /\ main' = [main EXCEPT !.pc = "exited"]
    /\ UNCHANGED <<mapState, http01, srv, reported, lns, sess, conn>>
-----------------------------------------------------------------------------
(* The WebSocket handler.                                                   *)

\* "" without client_ip, for what is no IP address, and for 0.0.0.0 and [::].
clientAddr(p) == IF p \in Addrs THEN p ELSE Empty

\* A WebSocket has sent the token and its ClientID; it survives server.Close().
\* One that fails before leaves no trace.
ServeHTTP(l, c, p) ==
    /\ srv[l] \in {"open", "closed"}
    /\ Set(c, clientAddr(p))
    /\ last' = [last EXCEPT ![c] = clientAddr(p)]
    /\ UNCHANGED <<procVars, sess, conn>>
-----------------------------------------------------------------------------
(* acceptSessions and acceptStreams.                                        *)

\* A client has one KCP session at a time, on the instance its ClientID hashes to.
AcceptSession(l, s, c) ==
    /\ lns[l].kcp = "on" /\ srv[l] \in {"open", "closed"} /\ last[c] # NoAddr
    /\ sess[s].pc = "none"
    /\ \A t \in Sessions : sess[t].pc \in {"none", "ended"} \/ sess[t].client # c \/ sess[t].ln # l
    /\ sess' = [sess EXCEPT ![s] = [IdleSess EXCEPT !.pc = "accepted", !.client = c, !.ln = l]]
    /\ UNCHANGED <<mapState, procVars, conn>>

AcceptSessionsEnds(l) ==
    /\ lns[l].kcp = "on" /\ lns[l].closed
    /\ lns' = [lns EXCEPT ![l].kcp = "ended"]
    /\ UNCHANGED <<mapState, main, http01, srv, reported, sess, conn>>

\* acceptStreams begins: clientIDAddrMap.Get.
LookUpAddress(s) ==
    /\ sess[s].pc = "accepted"
    /\ sess' = [sess EXCEPT ![s].pc = "streams", ![s].addr = Get(sess[s].client)]
    /\ UNCHANGED <<mapState, procVars, conn>>

AcceptStream(s, k) ==
    /\ sess[s].pc = "streams" /\ conn[k].pc = "none" /\ \A j \in Streams : j < k => conn[j].pc # "none"
    /\ conn' = [conn EXCEPT ![k] =
           [IdleConn EXCEPT !.pc = "offered", !.sess = s, !.ln = sess[s].ln, !.addr = sess[s].addr]]
    /\ sess' = [sess EXCEPT ![s].pc = "queueing", ![s].k = k]
    /\ UNCHANGED <<mapState, procVars>>

\* queueConn: with the listener closed and room in the queue, either may happen.
QueueConn(s) ==
    LET l == sess[s].ln  k == sess[s].k
    IN  /\ sess[s].pc = "queueing"
        /\ \/ /\ Len(lns[l].queue) < QueueCap
              /\ lns' = [lns EXCEPT ![l].queue = Append(@, k)]
              /\ conn' = [conn EXCEPT ![k].pc = "queued"]
           \/ /\ lns[l].closed
              /\ conn' = [conn EXCEPT ![k].pc = "refused"]
              /\ UNCHANGED lns
        /\ sess' = [sess EXCEPT ![s].pc = "streams", ![s].k = NoStream]
        /\ UNCHANGED <<mapState, main, http01, srv, reported>>

\* AcceptStream fails for good (the KCP session broke or timed out): its
\* streams end too.
SessionEnds(s) ==
    /\ sess[s].pc = "streams"
    /\ sess' = [sess EXCEPT ![s].pc = "ended", ![s].addr = NoAddr]
    /\ conn' = [k \in Streams |-> IF conn[k].sess = s /\ conn[k].pc \notin {"none", "done"}
                                  THEN [conn[k] EXCEPT !.ends = @ \cup {"client"}] ELSE conn[k]]
    /\ UNCHANGED <<mapState, procVars>>
-----------------------------------------------------------------------------
(* acceptLoop and handleConn.                                               *)

\* Accept: with the listener closed and a connection queued, either may happen.
Accept(l) ==
    /\ lns[l].accept = "on"
    /\ \/ /\ lns[l].queue # <<>>
          /\ lns' = [lns EXCEPT ![l].queue = Tail(@)]
          /\ conn' = [conn EXCEPT ![Head(lns[l].queue)].pc = "accepted"]
       \/ /\ lns[l].closed
          /\ lns' = [lns EXCEPT ![l].accept = "ended"]
          /\ UNCHANGED conn
    /\ UNCHANGED <<mapState, main, http01, srv, reported, sess>>

\* RemoteAddr().String(): a nil net.Addr panics, and with it the process.
HandleConnPanics(k) ==
    /\ conn[k].pc = "accepted" /\ conn[k].addr = NoAddr
    /\ conn' = [conn EXCEPT ![k].pc = "panicked"]
    /\ UNCHANGED <<mapState, procVars, sess>>

Done(k) == [conn[k] EXCEPT !.pc = "done", !.addr = NoAddr, !.ends = {}, !.copiers = {}]

\* randIPAddr or the dial of the ORPort fails, and the deferred Close runs.
DialFails(k) ==
    /\ conn[k].pc = "accepted" /\ conn[k].addr # NoAddr
    /\ conn' = [conn EXCEPT ![k] = Done(k)]
    /\ UNCHANGED <<mapState, procVars, sess>>
ProxyStarts(k) ==
    /\ conn[k].pc = "accepted" /\ conn[k].addr # NoAddr
    /\ conn' = [conn EXCEPT ![k].pc = "proxy", ![k].addr = NoAddr, ![k].copiers = {"down", "up"}]
    /\ UNCHANGED <<mapState, procVars, sess>>

\* The client closes its stream, or the ORPort its connection.
PeerEnds(k, who) ==
    /\ conn[k].pc = "proxy" /\ who \notin conn[k].ends
    /\ conn' = [conn EXCEPT ![k].ends = @ \cup {who}]
    /\ UNCHANGED <<mapState, procVars, sess>>

\* Mutant of StreamClosed: the copiers half-close the ORPort connection only.
StreamClosedNot(k) == FALSE
\* A copier that ended has closed the stream.
StreamClosed(k) == conn[k].pc = "proxy" /\ conn[k].copiers # {"down", "up"}

\* An io.Copy returns: its source ended, its destination is gone or the stream
\* was closed by the other copier.
CopierEnds(k, d) ==
    /\ conn[k].pc = "proxy" /\ d \in conn[k].copiers
    /\ conn[k].ends # {} \/ StreamClosed(k)
    /\ conn' = [conn EXCEPT ![k].copiers = @ \ {d}]
    /\ UNCHANGED <<mapState, procVars, sess>>

\* wg.Wait returns: or.Close() and conn.Close().
ProxyReturns(k) ==
    /\ conn[k].pc = "proxy" /\ conn[k].copiers = {}
    /\ conn' = [conn EXCEPT ![k] = Done(k)]
    /\ UNCHANGED <<mapState, procVars, sess>>
-----------------------------------------------------------------------------
Panicked == \E k \in Streams : conn[k].pc = "panicked"
Running == main.pc # "exited" /\ ~Panicked

MainNext ==
    \/ \E l \in Ls : ListenGetsError(l) \/ ListenReturns(l) \/ ListenFails(l)
    \/ MainCloses \/ MainClosesHTTP01 \/ MainReturns
BindNext == \E l \in Ls :
    \/ BindRefused(l) \/ BindMisconfigured(l) \/ ListenStarts(l) \/ ServerBinds(l) \/ ServerFails(l)
SessionNext == \E s \in Sessions :
    \/ LookUpAddress(s) \/ QueueConn(s) \/ SessionEnds(s)
    \/ \E k \in Streams : AcceptStream(s, k)
    \/ \E l \in Ls, c \in ClientIDs : AcceptSession(l, s, c)
HandleNext(k) ==
    \/ HandleConnPanics(k) \/ DialFails(k) \/ ProxyStarts(k)
    \/ ProxyReturns(k) \/ \E d \in {"down", "up"} : CopierEnds(k, d)

SNext ==
    /\ Running
    /\ \/ MainNext \/ BindNext \/ Signal \/ HTTP01Fatal \/ SessionNext
       \/ \E l \in Ls : Accept(l) \/ AcceptSessionsEnds(l)
       \/ \E l \in Ls, c \in ClientIDs, p \in Params : ServeHTTP(l, c, p)
       \/ \E k \in Streams : HandleNext(k) \/ \E who \in {"client", "or"} : PeerEnds(k, who)

(* Once a copier has ended, the other one ends by what that closed: the     *)
(* stream it reads is closed, or the ORPort sees the half-close and closes. *)
\* A copier whose own source has ended returns.
CopierMustEnd(k, d) ==
    /\ Running /\ CopierEnds(k, d)
    /\ IF d = "up" THEN "client" \in conn[k].ends \/ StreamClosed(k) ELSE "or" \in conn[k].ends
\* The ORPort closes a connection that was half-closed.
ORPortCloses(k) == Running /\ "up" \notin conn[k].copiers /\ PeerEnds(k, "or")

(* main's own steps, the goroutines' and the ORPort's answer to a           *)
(* half-close happen; clients, sessions, signals and failures need not.     *)
SSpec == SInit /\ [][SNext]_svars
SFairSpec ==
    /\ SSpec
    /\ WF_svars(Running /\ MainNext)
    /\ \A k \in Streams :
        /\ WF_svars(Running /\ ProxyReturns(k))
        /\ WF_svars(ORPortCloses(k))
        /\ \A d \in {"down", "up"} : WF_svars(CopierMustEnd(k, d))
-----------------------------------------------------------------------------
(* Every variable of the server stays in its Go type, the queue within its  *)
(* capacity.                                                                *)
ServerTypeOK ==
    /\ TypeOK /\ last \in [ClientIDs -> Addrs \cup {NoAddr}]
    /\ \A l \in Ls : Len(lns[l].queue) <= QueueCap /\ reported[l] \in {"", "ok", "error"}
    /\ \A k \in Streams : conn[k].addr \in Addrs \cup {NoAddr}

(* "the IP address of the most recent WebSocket connection that has had to  *)
(* do with a session, at the time the session is established, is the IP     *)
(* address that should be credited": acceptStreams gets that address or     *)
(* none, and never another client's, however often the memory wrapped.      *)
LookUpStep ==
    \A s \in Sessions : sess[s].pc = "accepted" /\ sess'[s].pc = "streams"
        => sess'[s].addr \in {last[sess[s].client], NoAddr}
CreditsMostRecent == [][LookUpStep]_svars

(* A bindaddr that tor was told has failed is not served, although Listen   *)
(* gives up on a server that it has only given a tenth of a second to fail. *)
RefusedIsNotServed == \A l \in Ls : reported[l] = "error" => srv[l] # "open"

(* The server exits after a signal, whatever its listeners hold and however *)
(* the HTTP-01 goroutine's log.Fatal races main.                            *)
SignalEnds == (main.pc = "closing") ~> ~Running

(* When one side of a proxied connection ends, both copiers end and both    *)
(* connections are closed.                                                  *)
ProxyEnds == \A k \in Streams :
    (conn[k].pc = "proxy" /\ conn[k].ends # {}) ~> (conn[k].pc = "done" \/ ~Running)

(* Listeners, reports to tor and the address memory agree: a bindaddr that  *)
(* was refused is not served, and the memory's lookup map points into the   *)
(* buffer at its own client.                                                *)
ListenersSound == ServerTypeOK /\ CurrentPointsHome /\ RefusedIsNotServed
=============================================================================
