------------------------------ MODULE ByteQueue ------------------------------
(***************************************************************************)
(* What CircularBuffer promises to who writes to it and reads from it: a   *)
(* queue of at most RingSize bytes, that takes as much of what is written  *)
(* as it has room for, and gives the bytes back once each, in order.       *)
(***************************************************************************)
EXTENDS Naturals, Sequences

CONSTANTS Octet,          \* the bytes
          RingSize,       \* the capacity
          Piece,          \* the sequences of bytes that are written
          MaxRead         \* a bound on how much a reader asks for

VARIABLES queue,          \* the bytes written and not yet read
          reply           \* what the last call was given and answered

queueVars == <<queue, reply>>

Smaller(a, b) == IF a < b THEN a ELSE b

Count(data, n) == [given |-> data, count |-> n, bytes |-> <<>>]

Bytes(data) == [given |-> <<>>, count |-> 0, bytes |-> data]

QueueInit == queue = <<>> /\ reply = Count(<<>>, 0)

Accept(data) ==
    LET n == Smaller(Len(data), RingSize - Len(queue))
    IN queue' = queue \o SubSeq(data, 1, n) /\ reply' = Count(data, n)

Look(n) ==
    /\ reply' = Bytes(SubSeq(queue, 1, Smaller(n, Len(queue))))
    /\ UNCHANGED queue

Take(n) ==
    LET k == Smaller(n, Len(queue))
    IN /\ reply' = Bytes(SubSeq(queue, 1, k))
       /\ queue' = SubSeq(queue, k + 1, Len(queue))

Drop == queue' = <<>> /\ reply' = Count(<<>>, 0)

QueueNext ==
    \/ \E data \in Piece : Accept(data)
    \/ \E n \in 0 .. MaxRead : Look(n) \/ Take(n)
    \/ Drop

QueueSpec == QueueInit /\ [][QueueNext]_queueVars
==============================================================================
