-------------------------- MODULE RedialPacketConn --------------------------
(***************************************************************************)
(* The client's packet connection over a sequence of proxies (iceball/      *)
(* common/turbotunnel/redialpacketconn.go).  dialLoop dials a conn and runs *)
(* exchange on it: a reader and a writer goroutine that tell each other and *)
(* dialLoop of an error through the unbuffered readErrCh and writeErrCh,    *)
(* which they close when they return.  A goroutine at "send" is blocked     *)
(* until somebody receives; a closed channel can be received for ever.      *)
(* Conns are numbered by dial; the goroutines of an old conn live on.       *)
(* External: dialContext, the conns, KCP (which writes and reads packets).  *)
(***************************************************************************)
EXTENDS Integers, Sequences, FiniteSets

CONSTANTS QueueSize,   \* queueSize
          MaxDials,    \* bound: conns dialled
          MaxPackets   \* bound: packets written, and packets read from conns

ASSUME RedialBounds == QueueSize \in Nat \ {0} /\ MaxDials \in Nat /\ MaxPackets \in Nat

Dials == 1..MaxDials

VARIABLES
    closed,      \* closeWithError was called
    dialLoop,    \* dialLoop: "top", "dial", "exchange", "close" or "done"
    dialled,     \* conns so far; the last is the one in use
    conn,        \* per conn: "none", "open", "broken" (its peer failed) or "closed"
    reader, writer,      \* per conn: where its goroutine is
    sendQueue, recvQueue,\* packets; one from a conn is the number of the conn
    written, received,   \* packets so far
    stolen       \* per conn: packets its writer took after the conn was closed

queueVars == <<sendQueue, recvQueue, written, received, stolen>>
redialVars == <<closed, dialLoop, dialled, conn, reader, writer, queueVars>>

RedialInit ==
    /\ closed = FALSE /\ dialLoop = "top" /\ dialled = 0
    /\ conn = [d \in Dials |-> "none"]
    /\ reader = [d \in Dials |-> "none"] /\ writer = [d \in Dials |-> "none"]
    /\ sendQueue = <<>> /\ recvQueue = <<>> /\ written = 0 /\ received = 0
    /\ stolen = [d \in Dials |-> 0]
-----------------------------------------------------------------------------
(* dialLoop                                                                 *)
LoopTop ==
    /\ dialLoop = "top"
    /\ dialLoop' = IF closed THEN "done" ELSE "dial"
    /\ UNCHANGED <<closed, dialled, conn, reader, writer, queueVars>>

DialSucceeds ==
    /\ dialLoop = "dial" /\ dialled < MaxDials
    /\ dialled' = dialled + 1
    /\ conn' = [conn EXCEPT ![dialled + 1] = "open"]
    /\ reader' = [reader EXCEPT ![dialled + 1] = "check"]
    /\ writer' = [writer EXCEPT ![dialled + 1] = "select"]
    /\ dialLoop' = "exchange"
    /\ UNCHANGED <<closed, queueVars>>

DialContextFails ==
    /\ dialLoop = "dial"
    /\ closed' = TRUE /\ dialLoop' = "done"
    /\ UNCHANGED <<dialled, conn, reader, writer, queueVars>>

\* Mutant of LoopSeesReader: exchange also returns when it sees closed.
LoopSeesReaderOrClosed ==
    /\ dialLoop = "exchange" /\ (closed \/ reader[dialled] \in {"send", "done"})
    /\ reader' = [reader EXCEPT ![dialled] = IF @ = "send" THEN "done" ELSE @]
    /\ dialLoop' = "close"
    /\ UNCHANGED <<closed, dialled, conn, writer, queueVars>>

\* exchange returns on an error sent to it, or on a channel that was closed.
LoopSeesReader ==
    /\ dialLoop = "exchange" /\ reader[dialled] \in {"send", "done"}
    /\ reader' = [reader EXCEPT ![dialled] = "done"]
    /\ dialLoop' = "close"
    /\ UNCHANGED <<closed, dialled, conn, writer, queueVars>>

LoopSeesWriter ==
    /\ dialLoop = "exchange" /\ writer[dialled] \in {"send", "done"}
    /\ writer' = [writer EXCEPT ![dialled] = "done"]
    /\ dialLoop' = "close"
    /\ UNCHANGED <<closed, dialled, conn, reader, queueVars>>

LoopCloses ==
    /\ dialLoop = "close"
    /\ conn' = [conn EXCEPT ![dialled] = "closed"]
    /\ dialLoop' = "top"
    /\ UNCHANGED <<closed, dialled, reader, writer, queueVars>>
-----------------------------------------------------------------------------
(* The reader: a select with a default, then ReadFrom.                      *)
ReaderChecks(d) ==
    /\ reader[d] = "check"
    /\ ~closed /\ writer[d] \notin {"send", "done"}
    /\ reader' = [reader EXCEPT ![d] = "read"]
    /\ UNCHANGED <<closed, dialLoop, dialled, conn, writer, queueVars>>

ReaderReturns(d) ==
    /\ reader[d] = "check"
    /\ \/ closed /\ UNCHANGED writer
       \/ writer[d] \in {"send", "done"} /\ writer' = [writer EXCEPT ![d] = "done"]
    /\ reader' = [reader EXCEPT ![d] = "done"]
    /\ UNCHANGED <<closed, dialLoop, dialled, conn, queueVars>>

\* A packet arrives; it is dropped when recvQueue is full.
ReaderReads(d) ==
    /\ reader[d] = "read" /\ conn[d] = "open" /\ received < MaxPackets
    /\ received' = received + 1
    /\ recvQueue' = IF Len(recvQueue) < QueueSize THEN Append(recvQueue, d) ELSE recvQueue
    /\ reader' = [reader EXCEPT ![d] = "check"]
    /\ UNCHANGED <<closed, dialLoop, dialled, conn, writer, sendQueue, written, stolen>>

\* Mutant of ReaderFails: the error is dropped and the read tried again.
ReaderIgnores(d) ==
    /\ reader[d] = "read" /\ conn[d] # "open"
    /\ reader' = [reader EXCEPT ![d] = "check"]
    /\ UNCHANGED <<closed, dialLoop, dialled, conn, writer, queueVars>>

ReaderFails(d) ==
    /\ reader[d] = "read" /\ conn[d] # "open"
    /\ reader' = [reader EXCEPT ![d] = "send"]
    /\ UNCHANGED <<closed, dialLoop, dialled, conn, writer, queueVars>>

(* The writer: a select of closed, readErrCh and the send queue.            *)
WriterReturns(d) ==
    /\ writer[d] = "select"
    /\ \/ closed /\ UNCHANGED reader
       \/ reader[d] \in {"send", "done"} /\ reader' = [reader EXCEPT ![d] = "done"]
    /\ writer' = [writer EXCEPT ![d] = "done"]
    /\ UNCHANGED <<closed, dialLoop, dialled, conn, queueVars>>

WriterTakes(d) ==
    /\ writer[d] = "select" /\ sendQueue # <<>>
    /\ sendQueue' = Tail(sendQueue)
    /\ stolen' = [stolen EXCEPT ![d] = IF conn[d] = "closed" THEN @ + 1 ELSE @]
    /\ writer' = [writer EXCEPT ![d] = "write"]
    /\ UNCHANGED <<closed, dialLoop, dialled, conn, reader, recvQueue, written, received>>

\* Mutant of WriterWrites: an error of WriteTo is not looked at.
WriterWritesAnyway(d) ==
    /\ writer[d] = "write"
    /\ writer' = [writer EXCEPT ![d] = "select"]
    /\ UNCHANGED <<closed, dialLoop, dialled, conn, reader, queueVars>>

WriterWrites(d) ==
    /\ writer[d] = "write"
    /\ writer' = [writer EXCEPT ![d] = IF conn[d] = "open" THEN "select" ELSE "send"]
    /\ UNCHANGED <<closed, dialLoop, dialled, conn, reader, queueVars>>
-----------------------------------------------------------------------------
(* The methods, and the network.                                            *)

HasRoom == Len(sendQueue) < QueueSize

\* WriteTo: dropped when the queue is full, an error once closed.
WriteTo ==
    /\ ~closed /\ written < MaxPackets
    /\ written' = written + 1
    /\ sendQueue' = IF HasRoom THEN Append(sendQueue, written + 1) ELSE sendQueue
    /\ UNCHANGED <<closed, dialLoop, dialled, conn, reader, writer, recvQueue, received, stolen>>

ReadFrom ==
    /\ ~closed /\ recvQueue # <<>>
    /\ recvQueue' = Tail(recvQueue)
    /\ UNCHANGED <<closed, dialLoop, dialled, conn, reader, writer, sendQueue, written, received, stolen>>

Close ==
    /\ ~closed /\ closed' = TRUE
    /\ UNCHANGED <<dialLoop, dialled, conn, reader, writer, queueVars>>

Breaks(d) ==
    /\ conn[d] = "open" /\ conn' = [conn EXCEPT ![d] = "broken"]
    /\ UNCHANGED <<closed, dialLoop, dialled, reader, writer, queueVars>>

LoopNext ==
    \/ LoopTop \/ DialSucceeds \/ DialContextFails
    \/ LoopSeesReader \/ LoopSeesWriter \/ LoopCloses
ReaderNext(d) == ReaderChecks(d) \/ ReaderReturns(d) \/ ReaderReads(d) \/ ReaderFails(d)
WriterNext(d) == WriterReturns(d) \/ WriterTakes(d) \/ WriterWrites(d)

RedialNext ==
    \/ LoopNext \/ WriteTo \/ ReadFrom \/ Close
    \/ \E d \in Dials : ReaderNext(d) \/ WriterNext(d) \/ Breaks(d)

RedialSpec == RedialInit /\ [][RedialNext]_redialVars

(* Runnable goroutines run; packets, Close and failures need not come, and  *)
(* dialContext, which waits for a peer of the broker's, need not return.    *)
RedialFairSpec ==
    /\ RedialSpec
    /\ WF_redialVars(LoopTop \/ LoopSeesReader \/ LoopSeesWriter \/ LoopCloses)
    /\ \A d \in Dials : WF_redialVars(ReaderNext(d)) /\ WF_redialVars(WriterNext(d))
-----------------------------------------------------------------------------
(* Every variable stays in its Go type, the channels within their capacity.    *)
RedialTypeOK ==
    /\ closed \in BOOLEAN /\ dialLoop \in {"top", "dial", "exchange", "close", "done"}
    /\ dialled \in 0..MaxDials
    /\ conn \in [Dials -> {"none", "open", "broken", "closed"}]
    /\ reader \in [Dials -> {"none", "check", "read", "send", "done"}]
    /\ writer \in [Dials -> {"none", "select", "write", "send", "done"}]
    /\ sendQueue \in Seq(1..MaxPackets) /\ Len(sendQueue) <= QueueSize
    /\ recvQueue \in Seq(Dials) /\ Len(recvQueue) <= QueueSize
    /\ written \in 0..MaxPackets /\ received \in 0..MaxPackets
    /\ stolen \in [Dials -> 0..MaxPackets]

(* The writer of a conn that was left behind still shares the send queue:   *)
(* it takes at most one packet meant for the conns that follow.             *)
StealsAtMostOne == \A d \in Dials : stolen[d] <= 1

(* Nobody receives from the channels of an exchange that has returned, and  *)
(* yet at most one of its two goroutines is left blocked on its error: the  *)
(* other has returned or will.                                              *)
AtMostOneBlocked ==
    \A d \in Dials :
        conn[d] = "closed" => ~(reader[d] = "send" /\ writer[d] = "send")

(* A conn that fails is left: the loop comes to dial the next, although the *)
(* reader may give its error to the writer instead of the loop.             *)
FailedConnIsLeft ==
    \A d \in Dials : (conn[d] = "broken") ~> (conn[d] = "closed")

(* Close ends the loop, whatever exchange it is in, unless it is waiting    *)
(* for dialContext.                                                         *)
CloseEndsLoop == (closed /\ dialLoop # "dial") ~> (dialLoop = "done")

(* The dialLoop leaves every conn that fails and ends after Close, although *)
(* exchange takes only one of the two errors (redialpacketconn.go:129).     *)
ConnsAreLeft == []RedialTypeOK /\ FailedConnIsLeft /\ CloseEndsLoop
=============================================================================
