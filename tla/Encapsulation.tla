--------------------------- MODULE Encapsulation ---------------------------
(***************************************************************************)
(* iceball/common/encapsulation: chunks of data or padding behind a length  *)
(* prefix of one to three bytes.  In the first byte bit 7 says data, bit 6  *)
(* says that another byte follows; in the others bit 7 says so.  A stream   *)
(* is a sequence of items: a byte of a prefix, or a run of n bytes of       *)
(* content; the bytes within a run do not matter.                           *)
(***************************************************************************)
EXTENDS Naturals, Sequences, FiniteSetsExt, SequencesExt

\* A chunk; last marks where it ends and id says of which packet it is, which the reader does not see.
Chunk(prefix, n, id) ==
    LET item(kind, m, last) == [kind |-> kind, n |-> m, id |-> id, last |-> last]
        bytes == [i \in 1..Len(prefix) |-> item("byte", prefix[i], n = 0 /\ i = Len(prefix))]
    IN  IF n = 0 THEN bytes ELSE Append(bytes, item("run", n, TRUE))
Size(chunk) == IF Last(chunk).kind = "run" THEN Len(chunk) - 1 + Last(chunk).n ELSE Len(chunk)
-----------------------------------------------------------------------------
\* The shortest prefix; empty for ErrTooLong.
dataPrefixForLength(n) ==
    IF n < 64 THEN <<128 + n>>
    ELSE IF n < 8192 THEN <<192 + n \div 128, n % 128>>
    ELSE IF n < 1048576 THEN <<192 + n \div 16384, 128 + ((n \div 128) % 128), n % 128>>
    ELSE <<>>

\* One round of WritePadding's loop writes p bytes, their prefix included.
PaddingPrefix(p) == IF p - 1 < 64 THEN <<p - 1>> ELSE <<64 + (p - 2) \div 128, (p - 2) % 128>>
\* Mutant of PaddingChunk: the prefix is not counted.
PaddingChunkLonger(p) == Chunk(PaddingPrefix(p), p, 0)
PaddingChunk(p) == Chunk(PaddingPrefix(p), p - Len(PaddingPrefix(p)), 0)

WriteData(n, id) ==
    IF dataPrefixForLength(n) = <<>> THEN <<>> ELSE Chunk(dataPrefixForLength(n), n, id)

MaxDataForSize(n) ==
    LET prefix == dataPrefixForLength(n) IN
    IF prefix = <<>> THEN 1048575 - 3 ELSE n - Len(prefix)
-----------------------------------------------------------------------------
(* One round of ReadData's loop on what has arrived.                        *)

IsByte(stream, i) == i <= Len(stream) /\ stream[i].kind = "byte"
More(stream, i) == IF i = 1 THEN stream[1].n % 128 >= 64 ELSE stream[i].n >= 128

\* Bytes of the prefix that are there, up to the first without a continuation bit.
PrefixLength(stream) ==
    Max({0} \cup {i \in 1..3 : \A j \in 1..i : IsByte(stream, j) /\ (j > 1 => More(stream, j - 1))})
TooLong(stream) == PrefixLength(stream) = 3 /\ More(stream, 3)
HasPrefix(stream) == PrefixLength(stream) > 0 /\ ~More(stream, PrefixLength(stream))

IsData(stream) == stream[1].n >= 128
ChunkLength(stream) ==
    LET part(i) == stream[i].n % 128
        first == stream[1].n % 64
    IN  IF PrefixLength(stream) = 1 THEN first
        ELSE IF PrefixLength(stream) = 2 THEN first * 128 + part(2)
        ELSE first * 16384 + part(2) * 128 + part(3)

\* The content follows the prefix; less of it than the prefix says means that the rest is missing.
Content(stream) == SubSeq(stream, PrefixLength(stream) + 1, Min({PrefixLength(stream) + 1, Len(stream)}))
HasChunk(stream) ==
    HasPrefix(stream) /\ LET n == ChunkLength(stream) IN
                         n = 0 \/ (Content(stream) # <<>> /\ Content(stream)[1].kind = "run" /\ Content(stream)[1].n = n)
AfterChunk(stream) ==
    SubSeq(stream, PrefixLength(stream) + (IF ChunkLength(stream) = 0 THEN 1 ELSE 2), Len(stream))
=============================================================================
