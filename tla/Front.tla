-------------------------------- MODULE Front --------------------------------
(***************************************************************************)
(* The client's front end: main and socksAcceptLoop (iceball/client/        *)
(* snowflake.go) with Transport.Dial and SnowflakeConn.Close (iceball/      *)
(* client/lib/snowflake.go).  Every SOCKS connection has a handler and a    *)
(* goroutine that dials and copies.  The handlers share one config, which   *)
(* they captured by reference: option stands for each of its fields.        *)
(* goptlib, KCP, smux and tor are external.  Peers.End may never return     *)
(* (module Peers shows when).                                               *)
(***************************************************************************)
EXTENDS Sequences, FiniteSets

CONSTANTS Conns,       \* SOCKS connections
          Options,     \* values of an option among the SOCKS arguments
          NoArg,       \* the option is not among the arguments
          CommandLine  \* the option's value on the command line

ASSUME FrontConstants == NoArg \notin Options /\ CommandLine \notin Options \cup {NoArg}

VARIABLES
    main,     \* "serving", "closed" (listeners), "waiting" (shutdown closed, wg.Wait), "exited"
    option,   \* the shared config
    handler,  \* per connection: pc, its own argument, and the option its transport was made with
    dialer,   \* per connection: pc, what Dial holds, and what is still to be released
    socks,    \* SOCKS connections that are open
    copiers,  \* per connection: the io.Copy goroutines
    mixed     \* ghost: connections whose options another handler overwrote before their use

frontVars == <<main, option, handler, dialer, socks, copiers, mixed>>

FrontInit ==
    /\ main = "serving" /\ option = CommandLine
    /\ handler = [c \in Conns |-> [pc |-> "none", arg |-> NoArg, used |-> NoArg]]
    /\ dialer = [c \in Conns |-> [pc |-> "none", held |-> {}, todo |-> <<>>]]
    /\ socks = {} /\ copiers = [c \in Conns |-> {}] /\ mixed = {}
-----------------------------------------------------------------------------
(* main                                                                     *)
Signal ==
    /\ main = "serving" /\ main' = "closed"
    /\ UNCHANGED <<option, handler, dialer, socks, copiers, mixed>>
CloseShutdown ==
    /\ main = "closed" /\ main' = "waiting"
    /\ UNCHANGED <<option, handler, dialer, socks, copiers, mixed>>

\* A connection is in the WaitGroup from wg.Add to wg.Done.
InGroup(c) == handler[c].pc \notin {"none", "accepted", "done"}
MainReturns ==
    /\ main = "waiting" /\ \A c \in Conns : ~InGroup(c)
    /\ main' = "exited"
    /\ UNCHANGED <<option, handler, dialer, socks, copiers, mixed>>
-----------------------------------------------------------------------------
(* socksAcceptLoop and its handlers.                                        *)
AcceptSocks(c, arg) ==
    /\ main = "serving" /\ handler[c].pc = "none"
    /\ handler' = [handler EXCEPT ![c].pc = "accepted", ![c].arg = arg]
    /\ socks' = socks \cup {c}
    /\ UNCHANGED <<main, option, dialer, copiers, mixed>>

Goes(c, from, to) == handler[c].pc = from /\ handler' = [handler EXCEPT ![c].pc = to]

AddToGroup(c) ==
    /\ Goes(c, "accepted", "options")
    /\ UNCHANGED <<main, option, dialer, socks, copiers, mixed>>

Leaves(c, from) == Goes(c, from, "done") /\ socks' = socks \ {c}

\* Mutant of OverrideOptions: the argument is ignored.
OverrideOptionsNot(c) ==
    /\ Goes(c, "options", "transport")
    /\ UNCHANGED <<main, option, dialer, socks, copiers, mixed>>
\* The SOCKS arguments overwrite the config; one that is absent leaves it as it is.
OverrideOptions(c) ==
    /\ Goes(c, "options", "transport")
    /\ option' = IF handler[c].arg = NoArg THEN option ELSE handler[c].arg
    /\ mixed' = IF option' = option THEN mixed
                ELSE mixed \cup {b \in Conns \ {c} : handler[b].pc = "transport"}
    /\ UNCHANGED <<main, dialer, socks, copiers>>

\* NewSnowflakeClient copies the config; then conn.Grant, then Dial in a goroutine.
MakeTransport(c) ==
    /\ handler[c].pc = "transport"
    /\ handler' = [handler EXCEPT ![c].pc = "waiting", ![c].used = option]
    /\ dialer' = [dialer EXCEPT ![c].pc = "peers"]
    /\ UNCHANGED <<main, option, socks, copiers, mixed>>

\* A bad argument, a transport that cannot be made, or a failed Grant.
Rejects(c) ==
    /\ Leaves(c, "options") \/ Leaves(c, "transport")
    /\ UNCHANGED <<main, option, dialer, copiers, mixed>>

\* Mutant of HandlerReturns: it waits for the connection only.
HandlerReturnsLate(c) ==
    /\ dialer[c].pc = "done"
    /\ Leaves(c, "waiting")
    /\ UNCHANGED <<main, option, dialer, copiers, mixed>>
\* The select: shutdown or the end of the dialer; then conn.Close and wg.Done.
HandlerReturns(c) ==
    /\ main = "waiting" \/ dialer[c].pc = "done"
    /\ Leaves(c, "waiting")
    /\ UNCHANGED <<main, option, dialer, copiers, mixed>>
-----------------------------------------------------------------------------
(* Dial                                                                     *)
Dialer(c, pc, held, todo) ==
    /\ dialer' = [dialer EXCEPT ![c] = [pc |-> pc, held |-> held, todo |-> todo]]
    /\ UNCHANGED <<main, option, handler, socks, mixed>>

\* NewPeers, and connectLoop begins.
DialPeers(c) ==
    /\ dialer[c].pc = "peers" /\ Dialer(c, "session", {"peers"}, <<>>) /\ UNCHANGED copiers
DialSession(c) ==
    /\ dialer[c].pc = "session"
    /\ Dialer(c, "stream", {"peers", "pconn", "sess"}, <<>>) /\ UNCHANGED copiers
DialStream(c) ==
    /\ dialer[c].pc = "stream"
    /\ Dialer(c, "copy", dialer[c].held \cup {"stream"}, <<>>)
    /\ copiers' = [copiers EXCEPT ![c] = {"up", "down"}]

\* Mutant of Cleanup: the peers are not ended.
CleanupKeepsPeers(held) == IF "sess" \in held THEN <<"pconn", "sess">> ELSE <<>>
\* The cleanup list, in reverse.
Cleanup(held) == IF "sess" \in held THEN <<"pconn", "sess", "peers">> ELSE <<"peers">>

\* newSession (which closes its own pconn) or OpenStream fails.
SessionFails(c) ==
    /\ dialer[c].pc \in {"session", "stream"}
    /\ Dialer(c, "closing", dialer[c].held, Cleanup(dialer[c].held)) /\ UNCHANGED copiers

\* tor or the other end closes: one io.Copy returns.
CopyEnds(c, d) ==
    /\ dialer[c].pc = "copy" /\ d \in copiers[c]
    /\ copiers' = [copiers EXCEPT ![c] = @ \ {d}]
    /\ UNCHANGED <<main, option, handler, dialer, socks, mixed>>

\* copyLoop returns after the first; SnowflakeConn.Close.
CopyLoopReturns(c) ==
    /\ dialer[c].pc = "copy" /\ copiers[c] # {"up", "down"}
    /\ Dialer(c, "closing", dialer[c].held, <<"stream", "peers", "pconn", "sess">>) /\ UNCHANGED copiers

Releases(c) ==
    /\ dialer[c].pc = "closing" /\ dialer[c].todo # <<>>
    /\ Dialer(c, "closing", dialer[c].held \ {Head(dialer[c].todo)}, Tail(dialer[c].todo))
    /\ UNCHANGED copiers
EndHangs(c) ==
    /\ dialer[c].pc = "closing" /\ dialer[c].todo # <<>> /\ Head(dialer[c].todo) = "peers"
    /\ Dialer(c, "hung", dialer[c].held, dialer[c].todo) /\ UNCHANGED copiers
DialerReturns(c) ==
    /\ dialer[c].pc = "closing" /\ dialer[c].todo = <<>>
    /\ Dialer(c, "done", dialer[c].held, <<>>) /\ UNCHANGED copiers

\* The copy that is left ends with what it reads or writes: the stream is
\* closed by SnowflakeConn.Close, the SOCKS connection by the handler.
LeftCopyEnds(c, d) ==
    /\ dialer[c].pc \notin {"none", "copy"} /\ d \in copiers[c]
    /\ IF d = "down" THEN "stream" \notin dialer[c].held ELSE c \notin socks
    /\ copiers' = [copiers EXCEPT ![c] = @ \ {d}]
    /\ UNCHANGED <<main, option, handler, dialer, socks, mixed>>
-----------------------------------------------------------------------------
Up == main # "exited"
HandlerNext(c) == AddToGroup(c) \/ OverrideOptions(c) \/ MakeTransport(c) \/ HandlerReturns(c)
DialSteps(c) == DialPeers(c) \/ DialSession(c) \/ DialStream(c)
ReleaseNext(c) == CopyLoopReturns(c) \/ Releases(c) \/ DialerReturns(c)

FrontNext ==
    /\ Up
    /\ \/ Signal \/ CloseShutdown \/ MainReturns
       \/ \E c \in Conns :
            \/ HandlerNext(c) \/ DialSteps(c) \/ ReleaseNext(c) \/ Rejects(c) \/ SessionFails(c) \/ EndHangs(c)
            \/ \E arg \in Options \cup {NoArg} : AcceptSocks(c, arg)
            \/ \E d \in {"up", "down"} : CopyEnds(c, d) \/ LeftCopyEnds(c, d)

FrontSpec == FrontInit /\ [][FrontNext]_frontVars

(* Goroutines that can go on do; tor, the network and signals need not, and *)
(* nobody has to end a copy.                                                *)
FrontFairSpec ==
    /\ FrontSpec /\ WF_frontVars(Up /\ (CloseShutdown \/ MainReturns))
    /\ \A c \in Conns :
        /\ WF_frontVars(Up /\ HandlerNext(c)) /\ WF_frontVars(Up /\ DialSteps(c)) /\ WF_frontVars(Up /\ ReleaseNext(c))
        /\ \A d \in {"up", "down"} : WF_frontVars(Up /\ LeftCopyEnds(c, d))
-----------------------------------------------------------------------------
Hung(c) == dialer[c].pc = "hung"

(* Every variable stays in its Go type; only a connection that has been     *)
(* accepted holds anything, and nothing is held by a dialer that returned.  *)
FrontTypeOK ==
    /\ main \in {"serving", "closed", "waiting", "exited"} /\ option \in Options \cup {CommandLine}
    /\ \A c \in Conns : handler[c].pc = "none" => dialer[c].pc = "none" /\ c \notin socks
    /\ \A c \in Conns : dialer[c].held \subseteq {"peers", "pconn", "sess", "stream"}
    /\ \A c \in Conns : dialer[c].pc \in {"none", "peers", "done"} => dialer[c].held = {}

(* A transport is made with the option its own SOCKS connection asked for,  *)
(* unless another handler overwrote the shared config in between.           *)
OwnOption == \A c \in Conns :
    handler[c].used # NoArg /\ handler[c].arg # NoArg /\ c \notin mixed
        => handler[c].used = handler[c].arg

(* A failed Dial and a closed SnowflakeConn release the peers, the packet   *)
(* connection, the session and the stream, unless End never returns.        *)
DialReleases == \A c \in Conns :
    (dialer[c].pc = "closing") ~> (dialer[c].held = {} \/ Hung(c) \/ ~Up)

(* When either copy of a connection ends, the other ends and tor's SOCKS    *)
(* connection is closed, unless End never returns.                          *)
CopyEndsBoth == \A c \in Conns :
    (dialer[c].pc = "copy" /\ copiers[c] # {"up", "down"})
        ~> ((copiers[c] = {} /\ c \notin socks) \/ Hung(c) \/ ~Up)

(* After a signal the client exits, whatever its connections are doing,     *)
(* even when an End never returns.                                          *)
SignalExits == (main = "closed") ~> ~Up

(* Handlers that share the configuration make their transports with the     *)
(* option of their own connection, unless another handler came in between   *)
(* (client snowflake.go:80-138).                                            *)
OptionsSound == FrontTypeOK /\ OwnOption

(* A connection that fails or ends on either side is released whole: its    *)
(* four resources, both copies and the SOCKS connection.                    *)
DialsReleased == DialReleases /\ CopyEndsBoth
=============================================================================
