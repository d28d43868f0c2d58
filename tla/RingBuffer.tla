------------------------------ MODULE RingBuffer ------------------------------
(***************************************************************************)
(* CircularBuffer of streaming/buffer.py: a byte array of a fixed size with *)
(* the positions of the next byte to read and to write, and the number of   *)
(* bytes between them, which alone tells a full buffer from an empty one.   *)
(***************************************************************************)
EXTENDS Naturals, Sequences

CONSTANTS
    Octet,      \* the bytes
    RingSize,   \* size
    Piece,      \* what write() is given
    MaxRead     \* a bound on the size read() and peek() are given

ASSUME RingAssumption == RingSize \in Nat \ {0} /\ MaxRead \in Nat /\ 0 \in Octet /\ Piece \subseteq Seq(Octet)

VARIABLES
    cells,      \* buffer
    readPos,    \* read_pos
    writePos,   \* write_pos
    dataSize,   \* data_size
    answer      \* what the last call was given, and returned

ringVars == <<cells, readPos, writePos, dataSize, answer>>

Cell == 0 .. RingSize - 1

RingTypeOK ==
    /\ cells \in [Cell -> Octet]
    /\ readPos \in Cell /\ writePos \in Cell /\ dataSize \in 0 .. RingSize

RingInit ==
    /\ cells = [c \in Cell |-> 0]
    /\ readPos = 0 /\ writePos = 0 /\ dataSize = 0
    /\ answer = [given |-> <<>>, count |-> 0, bytes |-> <<>>]

AtMost(a, b) == IF a < b THEN a ELSE b

\* pos % size, for a position that is at most the size.
Wrapped(pos) == IF pos = RingSize THEN 0 ELSE pos

\* Mutant: what does not fit at the end of the array is written from the
\* position just before the beginning of the rest.
SecondSliceShifted(data, n, first) ==
    [c \in Cell |-> IF c >= writePos THEN data[c - writePos + 1]
                    ELSE IF c < n - first THEN data[c + 1] ELSE cells[c]]

\* The two slices of the array that are assigned when the data wraps around.
SecondSlice(data, n, first) ==
    [c \in Cell |-> IF c >= writePos THEN data[c - writePos + 1]
                    ELSE IF c < n - first THEN data[first + c + 1] ELSE cells[c]]

FirstSlice(data, n) ==
    [c \in Cell |-> IF c >= writePos /\ c < writePos + n THEN data[c - writePos + 1] ELSE cells[c]]

\* write().
RingWrite(data) ==
    LET n == AtMost(Len(data), RingSize - dataSize)
        first == RingSize - writePos
    IN /\ IF writePos + n <= RingSize
          THEN /\ cells' = FirstSlice(data, n)
               /\ writePos' = Wrapped(writePos + n)
          ELSE /\ cells' = SecondSlice(data, n, first)
               /\ writePos' = n - first
       /\ dataSize' = dataSize + n
       /\ answer' = [given |-> data, count |-> n, bytes |-> <<>>]
       /\ UNCHANGED readPos

\* The first n bytes from the read position: one slice, or the end of the
\* array and the beginning of it.
Leading(n) ==
    LET first == RingSize - readPos
    IN IF readPos + n <= RingSize
       THEN [i \in 1 .. n |-> cells[readPos + i - 1]]
       ELSE [i \in 1 .. n |-> IF i <= first THEN cells[readPos + i - 1] ELSE cells[i - first - 1]]

\* peek().
RingPeek(size) ==
    /\ answer' = [given |-> <<>>, count |-> 0, bytes |-> Leading(AtMost(size, dataSize))]
    /\ UNCHANGED <<cells, readPos, writePos, dataSize>>

\* read().
RingRead(size) ==
    LET n == AtMost(size, dataSize)
    IN /\ answer' = [given |-> <<>>, count |-> 0, bytes |-> Leading(n)]
       /\ readPos' = IF readPos + n <= RingSize THEN Wrapped(readPos + n) ELSE n - (RingSize - readPos)
       /\ dataSize' = dataSize - n
       /\ UNCHANGED <<cells, writePos>>

\* clear(): the bytes stay in the array.
RingClear ==
    /\ readPos' = 0 /\ writePos' = 0 /\ dataSize' = 0
    /\ answer' = [given |-> <<>>, count |-> 0, bytes |-> <<>>]
    /\ UNCHANGED cells

RingNext ==
    \/ \E data \in Piece : RingWrite(data)
    \/ \E size \in 0 .. MaxRead : RingPeek(size) \/ RingRead(size)
    \/ RingClear

RingSpec == RingInit /\ [][RingNext]_ringVars

-----------------------------------------------------------------------------
(* Properties *)

\* The positions and the count agree: the write position is the read position
\* advanced by the bytes held, around the end of the array (the three are
\* updated separately, in two branches each).
PositionsAgree == writePos = readPos + dataSize \/ writePos = readPos + dataSize - RingSize

RingInv == RingTypeOK /\ PositionsAgree

Stored == Leading(dataSize)

Queue == INSTANCE ByteQueue WITH queue <- Stored, reply <- answer

\* The buffer is a queue of bytes: whatever the positions, what is written comes
\* out once, in order, and no byte that a reader has not taken is overwritten
\* (CircularBuffer, whose branches for data that wraps around no test reaches).
RingIsQueue == Queue!QueueInit /\ [][Queue!QueueNext]_<<Stored, answer>>
==============================================================================
