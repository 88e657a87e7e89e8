------------------------------ MODULE Upstream ------------------------------
(***************************************************************************)
(* Packets on their way from the clients' KCP to the server's:              *)
(* encapsulationPacketConn.WriteTo (iceball/client/lib/turbotunnel.go)      *)
(* writes chunks to a WebSocket, the read loop of turbotunnelMode           *)
(* (iceball/server/lib/http.go) reads them with ReadData, QueueIncoming     *)
(* puts them, copied into a pooled buffer, into the queue that all clients  *)
(* share, and ReadFrom hands them to KCP (iceball/common/turbotunnel/       *)
(* queuepacketconn.go).  A WebSocket can be cut at any byte.                *)
(***************************************************************************)
EXTENDS Encapsulation, FiniteSets

CONSTANTS Clients,     \* ClientIDs, one WebSocket each
          Lengths,     \* packet lengths
          Paddings,    \* amounts of padding
          Budgets,     \* sizes given to MaxDataForSize
          MaxWrites,   \* bound: packets and paddings written, of all clients together
          Buffers,     \* buffers that the pool can hand out
          MTU,         \* size of a buffer
          QueueSize    \* capacity of recvQueue

ASSUME UpstreamConstants ==
    /\ Lengths \cup {MTU, MaxWrites} \subseteq Nat
    /\ Budgets \cup Paddings \cup {QueueSize} \subseteq Nat \ {0} /\ \A b \in Budgets : b < 1048576
    /\ IsFiniteSet(Clients) /\ IsFiniteSet(Buffers) /\ Cardinality(Buffers) > QueueSize + Cardinality(Clients)

VARIABLES
    sent,       \* per client, the lengths of the packets written
    stream,     \* per client, what is in the WebSocket
    cut,        \* per client: "no", or where the WebSocket was cut, "boundary" or "middle" of a chunk
    reader,     \* per client, the read loop: pc, the packet and the buffer it has in hand, its error
    content,    \* what a buffer holds
    bufPool,    \* buffers in the pool or not allocated yet
    recvQueue,  \* buffers with their address
    closed,     \* QueuePacketConn closed
    kcp,        \* the reader of the PacketConn: "idle", "selecting" or "ended"
    delivered,  \* packets that ReadFrom returned, with their address
    dropped,    \* ghost: clients that lost a packet to a full queue or to Close
    padded      \* WritePadding: what was asked for, by which client, what is left and, ghost, what was written

upVars == <<sent, stream, cut, reader, content, bufPool, recvQueue, closed, kcp, delivered, dropped, padded>>

NoPacket == [len |-> 0, id |-> 0]

UpInit ==
    /\ sent = [c \in Clients |-> <<>>] /\ stream = [c \in Clients |-> <<>>]
    /\ cut = [c \in Clients |-> "no"]
    /\ reader = [c \in Clients |-> [pc |-> "reading", packet |-> NoPacket, buffers |-> {}, error |-> "none"]]
    /\ content = [b \in Buffers |-> NoPacket] /\ bufPool = Buffers
    /\ recvQueue = <<>> /\ closed = FALSE /\ kcp = "idle"
    /\ delivered = <<>> /\ dropped = {} /\ padded = [asked |-> 0, left |-> 0, by |-> {}, written |-> 0]
-----------------------------------------------------------------------------
(* The client and its WebSocket.                                            *)

Padding(c) == c \in padded.by /\ padded.left > 0
Writes == FoldSet(LAMBDA c, n : n + Len(sent[c]), Cardinality(padded.by), Clients)

\* A packet too long for a prefix is refused; nothing is written.
WriteTo(c, len) ==
    LET id == Len(sent[c]) + 1 IN
    /\ cut[c] = "no" /\ ~Padding(c) /\ Writes < MaxWrites
    /\ WriteData(len, id) # <<>>
    /\ stream' = [stream EXCEPT ![c] = @ \o WriteData(len, id)]
    /\ sent' = [sent EXCEPT ![c] = Append(@, len)]
    /\ UNCHANGED <<cut, reader, content, bufPool, recvQueue, closed, kcp, delivered, dropped, padded>>

\* WritePadding, which the format allows between packets: once per behaviour is enough.
WritePadding(c, n) ==
    /\ cut[c] = "no" /\ padded.asked = 0 /\ Writes < MaxWrites
    /\ padded' = [asked |-> n, left |-> n, by |-> {c}, written |-> 0]
    /\ UNCHANGED <<sent, stream, cut, reader, content, bufPool, recvQueue, closed, kcp, delivered, dropped>>
\* One chunk, of at most the 1024 bytes of paddingBuffer.
PadsChunk(c) ==
    LET p == Min({1024, padded.left}) IN
    /\ Padding(c) /\ cut[c] = "no"
    /\ stream' = [stream EXCEPT ![c] = @ \o PaddingChunk(p)]
    /\ padded' = [padded EXCEPT !.left = @ - p, !.written = @ + Size(PaddingChunk(p))]
    /\ UNCHANGED <<sent, cut, reader, content, bufPool, recvQueue, closed, kcp, delivered, dropped>>

\* What a cut may leave: whole items, the last run perhaps in part.
Remains(s) ==
    {SubSeq(s, 1, k) : k \in 0..Len(s)} \cup
    {[SubSeq(s, 1, k) EXCEPT ![k].n = 1, ![k].last = FALSE] : k \in {k \in 1..Len(s) : s[k].kind = "run" /\ s[k].n > 1}}

Cut(c) ==
    /\ cut[c] = "no"
    /\ \E left \in Remains(stream[c]) :
          /\ stream' = [stream EXCEPT ![c] = left]
          /\ cut' = [cut EXCEPT ![c] = IF left = <<>> \/ Last(left).last THEN "boundary" ELSE "middle"]
    /\ UNCHANGED <<sent, reader, content, bufPool, recvQueue, closed, kcp, delivered, dropped, padded>>
-----------------------------------------------------------------------------
(* The read loop of turbotunnelMode.                                        *)
ReadsData(c) ==
    LET n == ChunkLength(stream[c]) IN
    /\ reader[c].pc = "reading" /\ HasChunk(stream[c]) /\ IsData(stream[c])
    /\ reader' = [reader EXCEPT ![c].pc = "queueing",
          ![c].packet = [len |-> n, id |-> IF n = 0 THEN stream[c][1].id ELSE Content(stream[c])[1].id]]
    /\ stream' = [stream EXCEPT ![c] = AfterChunk(@)]
    /\ UNCHANGED <<sent, cut, content, bufPool, recvQueue, closed, kcp, delivered, dropped, padded>>
SkipsPadding(c) ==
    /\ reader[c].pc = "reading" /\ HasChunk(stream[c]) /\ ~IsData(stream[c])
    /\ stream' = [stream EXCEPT ![c] = AfterChunk(@)]
    /\ UNCHANGED <<sent, cut, reader, content, bufPool, recvQueue, closed, kcp, delivered, dropped, padded>>

\* Mutant of ReadError: an end within the prefix is passed on as it is.
ReadErrorPlain(s) == IF HasPrefix(s) THEN "unexpected EOF" ELSE "EOF"
\* The end of the stream is io.EOF only before the first byte of a prefix.
ReadError(s) == IF s = <<>> THEN "EOF" ELSE "unexpected EOF"
ReadFails(c) ==
    /\ reader[c].pc = "reading" /\ ~HasChunk(stream[c])
    /\ cut[c] # "no" \/ TooLong(stream[c])
    /\ reader' = [reader EXCEPT ![c].pc = "ended",
          ![c].error = IF TooLong(stream[c]) THEN "too long" ELSE ReadError(stream[c])]
    /\ UNCHANGED <<sent, stream, cut, content, bufPool, recvQueue, closed, kcp, delivered, dropped, padded>>

\* QueueIncoming: nothing if closed, else the packet is cut to the MTU and copied into a buffer,
IncomingDropped(c) ==
    /\ reader[c].pc = "queueing" /\ closed
    /\ reader' = [reader EXCEPT ![c].pc = "reading", ![c].packet = NoPacket] /\ dropped' = dropped \cup {c}
    /\ UNCHANGED <<sent, stream, cut, content, bufPool, recvQueue, closed, kcp, delivered, padded>>
IncomingCopied(c) ==
    /\ reader[c].pc = "queueing" /\ ~closed
    /\ LET b == CHOOSE b \in bufPool : TRUE IN \* any will do
          /\ bufPool' = bufPool \ {b}
          /\ content' = [content EXCEPT ![b] = [reader[c].packet EXCEPT !.len = Min({@, MTU})]]
          /\ reader' = [reader EXCEPT ![c].pc = "copied", ![c].packet = NoPacket, ![c].buffers = {b}]
    /\ UNCHANGED <<sent, stream, cut, recvQueue, closed, kcp, delivered, dropped, padded>>

\* Mutant of AfterSend: the buffer is restored on either path.
AfterSendRestores(buffers, queued) == buffers
\* Only a buffer that found no room goes back to the pool.
AfterSend(buffers, queued) == IF queued THEN {} ELSE buffers
HasRoom == Len(recvQueue) < QueueSize
\* and the buffer is sent if there is room.
IncomingSent(c) ==
    LET room == HasRoom IN
    /\ reader[c].pc = "copied"
    /\ \E b \in reader[c].buffers :
          recvQueue' = IF room THEN Append(recvQueue, [buffer |-> b, addr |-> c]) ELSE recvQueue
    /\ bufPool' = bufPool \cup AfterSend(reader[c].buffers, room)
    /\ dropped' = IF room THEN dropped ELSE dropped \cup {c}
    /\ reader' = [reader EXCEPT ![c].pc = "reading", ![c].buffers = {}]
    /\ UNCHANGED <<sent, stream, cut, content, closed, kcp, delivered, padded>>
-----------------------------------------------------------------------------
(* KCP's reader, and Close.                                                 *)
ReadFromStarts ==
    /\ kcp = "idle" /\ kcp' = IF closed THEN "ended" ELSE "selecting"
    /\ UNCHANGED <<sent, stream, cut, reader, content, bufPool, recvQueue, closed, delivered, dropped, padded>>
ReadFromReturns ==
    /\ kcp = "selecting" /\ recvQueue # <<>>
    /\ delivered' = Append(delivered, [packet |-> content[Head(recvQueue).buffer], addr |-> Head(recvQueue).addr])
    /\ bufPool' = bufPool \cup {Head(recvQueue).buffer}
    /\ content' = [content EXCEPT ![Head(recvQueue).buffer] = NoPacket] \* stale from here on
    /\ recvQueue' = Tail(recvQueue) /\ kcp' = "idle"
    /\ UNCHANGED <<sent, stream, cut, reader, closed, dropped, padded>>
\* Mutant of ReadFromFails: the select does not look at closed.
ReadFromFailsNot == FALSE /\ UNCHANGED upVars
ReadFromFails ==
    /\ kcp = "selecting" /\ closed /\ kcp' = "ended"
    /\ UNCHANGED <<sent, stream, cut, reader, content, bufPool, recvQueue, closed, delivered, dropped, padded>>
Close ==
    /\ ~closed /\ closed' = TRUE
    /\ UNCHANGED <<sent, stream, cut, reader, content, bufPool, recvQueue, kcp, delivered, dropped, padded>>
-----------------------------------------------------------------------------
UpNext ==
    \/ \E c \in Clients :
          \/ \E n \in Lengths : WriteTo(c, n)
          \/ \E n \in Paddings : WritePadding(c, n)
          \/ PadsChunk(c)
          \/ Cut(c)
          \/ ReadsData(c) \/ SkipsPadding(c) \/ ReadFails(c)
          \/ IncomingDropped(c) \/ IncomingCopied(c) \/ IncomingSent(c)
    \/ ReadFromStarts \/ ReadFromReturns \/ ReadFromFails \/ Close
UpSpec == UpInit /\ [][UpNext]_upVars

\* The goroutines run.
UpFairSpec ==
    /\ UpSpec
    /\ WF_upVars(ReadFromStarts) /\ WF_upVars(ReadFromReturns \/ ReadFromFails)
    /\ \A c \in Clients : WF_upVars(\/ ReadsData(c) \/ SkipsPadding(c) \/ ReadFails(c)
                                  \/ IncomingDropped(c) \/ IncomingCopied(c) \/ IncomingSent(c))

UpTypeOK ==
    /\ \A c \in Clients :
          /\ sent[c] \in Seq(Lengths) /\ cut[c] \in {"no", "boundary", "middle"}
          /\ reader[c].pc \in {"reading", "queueing", "copied", "ended"}
          /\ reader[c].buffers \subseteq Buffers
          /\ reader[c].error \in {"none", "EOF", "unexpected EOF", "too long"}
    /\ bufPool \subseteq Buffers /\ Len(recvQueue) <= QueueSize
    /\ kcp \in {"idle", "selecting", "ended"} /\ closed \in BOOLEAN

\* What came out under a client's address.
Mine(c) == {k \in 1..Len(delivered) : delivered[k].addr = c}

(* A client's packets reach KCP in the order written, each once, under its   *)
(* own address and cut to the MTU, whatever other clients do with the same   *)
(* queue and buffers, and without a gap as long as none found the queue      *)
(* full or closed (queuepacketconn.go:61-73).                                *)
DeliveredInOrder ==
    \A c \in Clients : \A k \in Mine(c) : LET id(j) == delivered[j].packet.id IN
        /\ id(k) \in 1..Len(sent[c]) /\ delivered[k].packet.len = Min({sent[c][id(k)], MTU})
        /\ \A j \in Mine(c) : j < k => id(j) < id(k)
        /\ c \notin dropped => \A n \in 1..id(k) : \E j \in Mine(c) : id(j) = n

(* The read loop ends with io.EOF exactly if the stream ended between two    *)
(* chunks, and never because a prefix it was sent looks too long             *)
(* (encapsulation.go:58-59).                                                 *)
EOFIffBetweenChunks ==
    \A c \in Clients : reader[c].pc = "ended" =>
        reader[c].error = IF cut[c] = "boundary" THEN "EOF" ELSE "unexpected EOF"

(* WritePadding writes exactly what was asked for, and data of MaxDataForSize *)
(* bytes fits its budget and leaves at most one byte of it                   *)
(* (encapsulation.go:143, :183).                                             *)
EncodedSizes ==
    /\ padded.written = padded.asked - padded.left
    /\ padded.asked > 0 => \A b \in Budgets : LET n == MaxDataForSize(b) IN
          n + Len(dataPrefixForLength(n)) \in {b - 1, b}

(* Every read loop whose WebSocket is cut ends, and Close ends the reader of *)
(* the PacketConn (queuepacketconn.go:100).                                  *)
ReadersEnd ==
    /\ \A c \in Clients : cut[c] # "no" ~> reader[c].pc = "ended"
    /\ closed ~> kcp = "ended"

(* What the encapsulation writes has the promised size, and its reader      *)
(* tells the end of a stream from the middle of a chunk.                    *)
ChunksSound == UpTypeOK /\ EncodedSizes /\ EOFIffBetweenChunks
=============================================================================
