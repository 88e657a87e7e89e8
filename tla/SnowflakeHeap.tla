--------------------------- MODULE SnowflakeHeap ---------------------------
(***************************************************************************)
(* SnowflakeHeap (iceball/broker/snowflake-heap.go) and the operations of   *)
(* Go's container/heap that the broker runs on it.  A heap sh is a record   *)
(* of the slice (flakes, positions counted from 1) and of the index field   *)
(* of every Snowflake (counted from 0 as in the code, -1 when popped).      *)
(***************************************************************************)
EXTENDS Integers, Sequences, SequencesExt

Less(clients, x, y) == clients[x] < clients[y]

Swap(sh, i, j) ==
    LET f == [sh.flakes EXCEPT ![i] = sh.flakes[j], ![j] = sh.flakes[i]]
    IN  [flakes |-> f, index |-> [sh.index EXCEPT ![f[i]] = i - 1, ![f[j]] = j - 1]]

\* SnowflakeHeap.Push and SnowflakeHeap.Pop work at the end of the slice.
PushLast(sh, x) ==
    [flakes |-> Append(sh.flakes, x), index |-> [sh.index EXCEPT ![x] = Len(sh.flakes)]]

PopLast(sh) ==
    [flakes |-> Front(sh.flakes), index |-> [sh.index EXCEPT ![Last(sh.flakes)] = -1]]

\* SnowflakeHeap.Remove: slices.Delete at the first occurrence; neither index
\* fields nor heap order are restored.
SliceRemove(sh, x) == [sh EXCEPT !.flakes = RemoveFirst(@, x)]
-----------------------------------------------------------------------------
\* container/heap up: one round of its loop, and all of them.
UpRound(clients, s) ==
    IF s.pos > 1 /\ Less(clients, s.sh.flakes[s.pos], s.sh.flakes[s.pos \div 2])
    THEN [sh |-> Swap(s.sh, s.pos, s.pos \div 2), pos |-> s.pos \div 2]
    ELSE s

Up(clients, sh, j) ==
    LET round[k \in 0..Len(sh.flakes)] ==
            IF k = 0 THEN [sh |-> sh, pos |-> j] ELSE UpRound(clients, round[k - 1])
    IN  round[Len(sh.flakes)].sh

\* container/heap down within the first m positions.
DownRound(clients, m, s) ==
    LET left  == 2 * s.pos
        f     == s.sh.flakes
        child == IF left < m /\ Less(clients, f[left + 1], f[left]) THEN left + 1 ELSE left
    IN  IF left <= m /\ Less(clients, f[child], f[s.pos])
        THEN [sh |-> Swap(s.sh, s.pos, child), pos |-> child]
        ELSE s

Down(clients, sh, i, m) ==
    LET round[k \in 0..m] ==
            IF k = 0 THEN [sh |-> sh, pos |-> i] ELSE DownRound(clients, m, round[k - 1])
    IN  round[m]

HeapPush(clients, sh, x) == Up(clients, PushLast(sh, x), Len(sh.flakes) + 1)

\* The popped Snowflake is Head(sh.flakes); this is the heap that is left.
HeapPop(clients, sh) ==
    LET n == Len(sh.flakes)
    IN  PopLast(Down(clients, Swap(sh, 1, n), 1, n - 1).sh)

\* heap.Remove at position i (the code passes the index field, i - 1).
HeapRemove(clients, sh, i) ==
    LET n    == Len(sh.flakes)
        down == Down(clients, Swap(sh, i, n), i, n - 1)
    IN  PopLast(IF i = n THEN sh
                ELSE IF down.pos = i THEN Up(clients, down.sh, i) ELSE down.sh)
=============================================================================
