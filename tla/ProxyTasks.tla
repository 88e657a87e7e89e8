----------------------------- MODULE ProxyTasks -----------------------------
(***************************************************************************)
(* The proxy's two periodic tasks and what they work on: the NAT type       *)
(* measured by checkNATType (iceball/proxy/lib/snowflake.go), first by      *)
(* Start and then by NatRetestTask, and the traffic summary of the event    *)
(* logger (pt_event_logger.go), fed by the bytesSyncLogger of a connection  *)
(* (util.go) through the event bus (iceball/common/event/bus.go).           *)
(* The bus's lock orders events among each other, not with logTick.  The    *)
(* sums of the logger are added and reset together; one stands for all.     *)
(* The probe service, the data channel and the traffic are external.  The   *)
(* logger's task is started and closed by arbitrary callers; NatRetestTask  *)
(* is closed only when the process is about to end, which ends the model.   *)
(***************************************************************************)
EXTENDS Periodic

CONSTANTS MaxBytes,   \* bound: amounts relayed
          MaxEvents,  \* bound: connections over
          ChanCap     \* capacity of outboundChan

ASSUME TaskNames == Tasks = {"nat", "log"} /\ ChanCap \in Nat

VARIABLES
    start,    \* SnowflakeProxy.Start: "check", "measure", "report", "serve"
    nat,      \* currentNATType
    told,     \* the NAT type the broker was told, "" before
    loaded,   \* per measurement (worker or StartCaller): the type it loaded before it waited
    traffic,  \* the open connection: relayed, queued (in the channel), counted (b.outbound)
    sum,      \* logEventLogger.outboundSum
    bus,      \* the event under way: the sum it loaded and the amount it adds, or NoEvent
    events,   \* connections over
    totals,   \* ghost: amounts relayed by all connections, amounts printed
    raced     \* ghost: an event and a logTick touched the sums at the same time

taskVars == <<start, nat, told, loaded, traffic, sum, bus, events, totals, raced>>
natVars == <<start, nat, told, loaded>>
logVars == <<traffic, sum, bus, events, totals, raced>>
vars == <<perVars, taskVars>>

NATs == {"unknown", "restricted", "unrestricted"}
NoEvent == <<>>
StartCaller == 0
Fresh == [queued |-> 0, counted |-> 0]

Init ==
    /\ PerInit
    /\ start = "check" /\ nat = "unknown" /\ told = ""
    /\ loaded = [x \in Workers \cup {StartCaller} |-> "unknown"]
    /\ traffic = Fresh /\ sum = 0 /\ bus = NoEvent /\ events = 0
    /\ totals = [relayed |-> 0, printed |-> 0] /\ raced = FALSE
-----------------------------------------------------------------------------
(* checkNATType, by Start (x = StartCaller) or by a worker of NatRetestTask.    *)

\* The switch: only a test without a result leaves the old type.
Stored(old, result) == IF result = "unknown" THEN old ELSE result

\* The offer was answered; the type is loaded before the wait for the data channel.
Probe(x) == loaded' = [loaded EXCEPT ![x] = nat] /\ UNCHANGED nat
\* The data channel opened (unrestricted) or dataChannelTimeout passed.
Measure(x) ==
    /\ \E result \in {"restricted", "unrestricted"} : nat' = Stored(loaded[x], result)
    /\ loaded' = [loaded EXCEPT ![x] = "unknown"]
\* No connection, no offer, no answer: an early return.
ProbeFails == UNCHANGED <<nat, loaded>>

NatExecute(w) ==
    /\ \/ Moves("nat", w, "exec", "measure") /\ Probe(w)
       \/ Moves("nat", w, "exec", "rearm") /\ ProbeFails
       \/ Moves("nat", w, "measure", "rearm") /\ Measure(w)
    /\ UNCHANGED <<per, starts, closed, start, told, logVars>>

\* Start: the first check, then the one poll of the broker, then the HTTP server.
StartChecks ==
    /\ \/ start = "check" /\ Probe(StartCaller) /\ start' = "measure"
       \/ start = "check" /\ ProbeFails /\ start' = "report"
       \/ start = "measure" /\ Measure(StartCaller) /\ start' = "report"
    /\ UNCHANGED <<perVars, told, logVars>>
StartPolls ==
    /\ start = "report" /\ told' = nat /\ start' = "serve"
    /\ WaitThenStart("nat")
    /\ UNCHANGED <<nat, loaded, logVars>>
-----------------------------------------------------------------------------
(* The traffic of a connection.                                             *)
AddOutbound ==
    /\ start = "serve" /\ totals.relayed < MaxBytes /\ traffic.queued < ChanCap
    /\ traffic' = [traffic EXCEPT !.queued = @ + 1]
    /\ totals' = [totals EXCEPT !.relayed = @ + 1]
    /\ UNCHANGED <<perVars, natVars, sum, bus, events, raced>>

BytesLog ==
    /\ traffic.queued > 0
    /\ traffic' = [queued |-> traffic.queued - 1, counted |-> traffic.counted + 1]
    /\ UNCHANGED <<perVars, natVars, sum, bus, events, totals, raced>>

Ticking == \E w \in Workers : work["log"][w] = "reset"

\* OnClose: GetStat, then the event, whose addition loads the sum ...
EventLoads ==
    /\ start = "serve" /\ bus = NoEvent /\ events < MaxEvents
    /\ bus' = <<sum, traffic.counted>> /\ traffic' = Fresh /\ events' = events + 1
    /\ raced' = (raced \/ Ticking)
    /\ UNCHANGED <<perVars, natVars, sum, totals>>
\* ... and stores it.
EventStores ==
    /\ bus # NoEvent
    /\ sum' = bus[1] + bus[2] /\ bus' = NoEvent
    /\ raced' = (raced \/ Ticking)
    /\ UNCHANGED <<perVars, natVars, traffic, events, totals>>

\* Mutant of LogReset: the sums are not reset.
LogResetNot(w) ==
    /\ Moves("log", w, "reset", "rearm")
    /\ UNCHANGED <<per, starts, closed, natVars, logVars>>
LogPrint(w) ==
    /\ Moves("log", w, "exec", "reset")
    /\ totals' = [totals EXCEPT !.printed = @ + sum]
    /\ raced' = (raced \/ bus # NoEvent \/ Ticking)
    /\ UNCHANGED <<per, starts, closed, natVars, traffic, sum, bus, events>>
LogReset(w) ==
    /\ Moves("log", w, "reset", "rearm")
    /\ sum' = 0
    /\ UNCHANGED <<per, starts, closed, natVars, traffic, bus, events, totals, raced>>
-----------------------------------------------------------------------------
TaskWorkers == \E w \in Workers :
    \/ (\E t \in Tasks : WorkerNext(t, w)) /\ UNCHANGED taskVars
    \/ NatExecute(w) \/ LogPrint(w) \/ LogReset(w)
Timers(t) == TimersNext(t) /\ UNCHANGED taskVars

Next ==
    \/ TaskWorkers \/ StartChecks \/ StartPolls
    \/ AddOutbound \/ BytesLog \/ EventLoads \/ EventStores
    \/ \E t \in Tasks : Timers(t)
    \/ CallsNext("log") /\ UNCHANGED taskVars

(* Timers fire and goroutines go on; callers, traffic and events need not.  *)
SSpec == Init /\ [][Next]_vars
FairSpec ==
    /\ Init /\ [][Next]_vars
    /\ \A t \in Tasks : WF_vars(Timers(t))
    /\ \A w \in Workers :
        /\ \A t \in Tasks : WF_vars(WorkerNext(t, w) /\ UNCHANGED taskVars)
        /\ WF_vars(NatExecute(w)) /\ WF_vars((LogPrint(w) \/ LogReset(w)))
-----------------------------------------------------------------------------
(* Every variable stays in its Go type, the channel within its capacity.    *)
TypeOK ==
    /\ \A t \in Tasks : per[t].loose \in Nat /\ per[t].waiting \in 0..MaxStarts
    /\ {nat} \cup {loaded[x] : x \in DOMAIN loaded} \subseteq NATs /\ told \in NATs \cup {""}
    /\ traffic.queued \in 0..ChanCap /\ sum \in Nat

(* As long as no connection ended during a logTick, the summaries and the   *)
(* running sum never claim more traffic than was relayed.                   *)
TrafficNotInvented == ~raced /\ ~Ticking => totals.printed + sum <= totals.relayed

(* Traffic that was summed up is printed, unless the logger is closed or    *)
(* was never started.                                                       *)
GetsReported ==
    (sum > 0 /\ per["log"].running) ~> (sum = 0 \/ closed["log"] # "no")

(* The periodic tasks of the proxy run as one chain each for as long as     *)
(* nobody closes them, whatever their callers do (periodic.go:48-85).       *)
ChainsSound == TypeOK /\ OneChain
=============================================================================
