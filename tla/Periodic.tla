------------------------------ MODULE Periodic ------------------------------
(***************************************************************************)
(* task.Periodic (iceball/common/task/periodic.go), for a set of tasks.     *)
(* A worker is a goroutine in one of its functions: a caller of Start or    *)
(* the goroutine of a timer.  Each access to the fields is under the lock,  *)
(* Execute is not.  Callers may call Start, WaitThenStart and Close in any  *)
(* order; no Execute of this repository returns an error, so the error      *)
(* paths are never taken.                                                   *)
(***************************************************************************)
EXTENDS Naturals, FiniteSets

CONSTANTS Tasks,
          Workers,     \* bound: goroutines at a time, per task, numbered
          MaxStarts    \* bound: calls of Start and WaitThenStart, per task

ASSUME PeriodicBounds == MaxStarts \in Nat /\ Workers \subseteq Nat \ {0}

VARIABLES
    per,    \* per task: running; armed (t.timer is pending); loose (pending
            \* timers t.timer no longer points to); waiting (timers of WaitThenStart)
    work,   \* per task and worker: where it is
    starts, \* per task: calls of Start and WaitThenStart so far
    closed  \* ghost, per task: "no" Close yet, "yes", "last" (nobody can start it again)

perVars == <<per, work, starts, closed>>

PerInit ==
    /\ per = [t \in Tasks |-> [running |-> FALSE, armed |-> FALSE, loose |-> 0, waiting |-> 0]]
    /\ work = [t \in Tasks |-> [w \in Workers |-> "idle"]]
    /\ starts = [t \in Tasks |-> 0] /\ closed = [t \in Tasks |-> "no"]

Moves(t, w, from, to) == work[t][w] = from /\ work' = [work EXCEPT ![t][w] = to]
\* A new goroutine of t is the first worker that is idle.
Spawns(t, w, pc) == Moves(t, w, "idle", pc) /\ \A v \in Workers : v < w => work[t][v] # "idle"
-----------------------------------------------------------------------------
CallStart(t, w) ==
    /\ starts[t] < MaxStarts /\ starts' = [starts EXCEPT ![t] = @ + 1]
    /\ Spawns(t, w, "start")
    /\ UNCHANGED <<per, closed>>

WaitThenStart(t) ==
    /\ starts[t] < MaxStarts /\ starts' = [starts EXCEPT ![t] = @ + 1]
    /\ per' = [per EXCEPT ![t].waiting = @ + 1]
    /\ UNCHANGED <<work, closed>>

\* A timer fires: the one of WaitThenStart calls Start, the others checkedExecute.
TimerFires(t, w) ==
    /\ \/ /\ per[t].waiting > 0 /\ per' = [per EXCEPT ![t].waiting = @ - 1]
          /\ Spawns(t, w, "start")
       \/ /\ per[t].armed /\ per' = [per EXCEPT ![t].armed = FALSE]
          /\ Spawns(t, w, "check")
       \/ /\ per[t].loose > 0 /\ per' = [per EXCEPT ![t].loose = @ - 1]
          /\ Spawns(t, w, "check")
    /\ UNCHANGED <<starts, closed>>

\* Mutant of Start: without the test of running.
StartAlways(t, w) ==
    /\ per' = [per EXCEPT ![t].running = TRUE]
    /\ Moves(t, w, "start", "check")
    /\ UNCHANGED <<starts, closed>>
Start(t, w) ==
    /\ IF per[t].running
         THEN Moves(t, w, "start", "idle") /\ UNCHANGED per
         ELSE Moves(t, w, "start", "check") /\ per' = [per EXCEPT ![t].running = TRUE]
    /\ UNCHANGED <<starts, closed>>

\* checkedExecute: hasClosed, then (outside the lock) Execute, then the timer.
HasClosed(t, w) ==
    /\ Moves(t, w, "check", IF per[t].running THEN "exec" ELSE "idle")
    /\ UNCHANGED <<per, starts, closed>>

\* Mutant of Rearm: the next timer is not set.
RearmNot(t, w) ==
    /\ Moves(t, w, "rearm", "idle")
    /\ UNCHANGED <<per, starts, closed>>
Rearm(t, w) ==
    /\ Moves(t, w, "rearm", "idle")
    /\ per' = IF per[t].running
              THEN [per EXCEPT ![t].armed = TRUE, ![t].loose = @ + IF per[t].armed THEN 1 ELSE 0]
              ELSE per
    /\ UNCHANGED <<starts, closed>>

\* Nobody is left who could start the task.
LastClose(t) ==
    /\ per[t].waiting = 0 /\ starts[t] = MaxStarts
    /\ \A w \in Workers : work[t][w] # "start"

\* Mutant of Close: only the timer is stopped.
CloseTimerOnly(t) ==
    /\ per' = [per EXCEPT ![t].armed = FALSE]
    /\ closed' = [closed EXCEPT ![t] = IF LastClose(t) THEN "last" ELSE "yes"]
    /\ UNCHANGED <<work, starts>>
Close(t) ==
    /\ per' = [per EXCEPT ![t].running = FALSE, ![t].armed = FALSE]
    /\ closed' = [closed EXCEPT ![t] = IF LastClose(t) THEN "last" ELSE "yes"]
    /\ UNCHANGED <<work, starts>>

WorkerNext(t, w) == Start(t, w) \/ HasClosed(t, w) \/ Rearm(t, w)
TimersNext(t) == \E w \in Workers : TimerFires(t, w)
CallsNext(t) == Close(t) \/ WaitThenStart(t) \/ \E w \in Workers : CallStart(t, w)
-----------------------------------------------------------------------------
Busy(t) == {w \in Workers : work[t][w] \notin {"idle", "start"}}
Chains(t) == Cardinality(Busy(t)) + per[t].loose + IF per[t].armed THEN 1 ELSE 0

(* However often Start and WaitThenStart are called, a task that was never  *)
(* closed runs as one chain: at most one Execute under way or scheduled.    *)
OneChain == \A t \in Tasks : closed[t] = "no" => Chains(t) <= 1

(* After a Close that no Start can follow the task comes to rest, even when *)
(* it was executing at the time or an earlier Close left a second chain.    *)
ClosedEnds == \A t \in Tasks : (closed[t] = "last") ~> [](Chains(t) = 0)
=============================================================================
