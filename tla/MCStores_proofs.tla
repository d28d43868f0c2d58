---------------------------- MODULE MCStores_proofs ----------------------------
(***************************************************************************)
(* What holds of the stores and services, for every size, every alphabet,  *)
(* every set of callers and every sequence of calls: the positions of the  *)
(* ring agree and it implements ByteQueue; a stream is cut into the lines  *)
(* that were written; the transport, the commands, the search for          *)
(* executables, the process monitor and the clean-up of the process        *)
(* database keep their invariants.                                         *)
(***************************************************************************)
EXTENDS Storage_proofs

USE RingAssumption

\* The array position of the i-th byte that is held.
Position(i) == IF readPos + i <= RingSize THEN readPos + i - 1 ELSE readPos + i - RingSize - 1

LEMMA RingStep == RingInv /\ [RingNext]_ringVars => RingInv'
  <1> SUFFICES ASSUME RingInv, [RingNext]_ringVars PROVE RingInv'
    OBVIOUS
  <1> USE DEF RingInv, RingTypeOK, PositionsAgree, Cell, Wrapped
  <1>1. ASSUME NEW data \in Piece, RingWrite(data) PROVE RingInv'
    <2>1. Len(data) \in Nat /\ \A i \in 1 .. Len(data) : data[i] \in Octet
      OBVIOUS
    <2>2. PICK n \in 0 .. RingSize - dataSize : n <= Len(data) /\ n = AtMost(Len(data), RingSize - dataSize)
      BY <2>1 DEF AtMost
    <2>3. CASE writePos + n <= RingSize
      <3>1. cells' = FirstSlice(data, n) /\ writePos' = Wrapped(writePos + n) /\ dataSize' = dataSize + n /\ readPos' = readPos
        BY <1>1, <2>2, <2>3 DEF RingWrite
      <3>2. cells' \in [Cell -> Octet]
        <4>1. \A c \in Cell : c >= writePos /\ c < writePos + n => c - writePos + 1 \in 1 .. Len(data)
          BY <2>1, <2>2
        <4> QED BY <2>1, <3>1, <4>1 DEF FirstSlice
      <3>3. readPos' \in Cell /\ writePos' \in Cell /\ dataSize' \in 0 .. RingSize
        BY ONLY RingAssumption, RingInv, n \in 0 .. RingSize - dataSize, <2>3, <3>1
      <3>4. PositionsAgree'
        BY ONLY RingAssumption, RingInv, n \in 0 .. RingSize - dataSize, <2>3, <3>1
      <3> QED BY <3>2, <3>3, <3>4
    <2>4. CASE ~ writePos + n <= RingSize
      <3>1. cells' = SecondSlice(data, n, RingSize - writePos) /\ writePos' = n - (RingSize - writePos)
            /\ dataSize' = dataSize + n /\ readPos' = readPos
        BY <1>1, <2>2, <2>4 DEF RingWrite
      <3>2. cells' \in [Cell -> Octet]
        <4>1. \A c \in Cell : c >= writePos => c - writePos + 1 \in 1 .. Len(data)
          BY <2>1, <2>2, <2>4
        <4>2. \A c \in Cell : c < n - (RingSize - writePos) => RingSize - writePos + c + 1 \in 1 .. Len(data)
          BY <2>1, <2>2, <2>4
        <4> QED BY <2>1, <3>1, <4>1, <4>2 DEF SecondSlice
      <3>3. readPos' \in Cell /\ writePos' \in Cell /\ dataSize' \in 0 .. RingSize
        BY ONLY RingAssumption, RingInv, n \in 0 .. RingSize - dataSize, <2>4, <3>1
      <3>4. PositionsAgree'
        BY ONLY RingAssumption, RingInv, n \in 0 .. RingSize - dataSize, <2>4, <3>1
      <3> QED BY <3>2, <3>3, <3>4
    <2> QED BY <2>2, <2>3, <2>4
  <1>2. ASSUME NEW size \in 0 .. MaxRead, RingPeek(size) PROVE RingInv'
    BY <1>2 DEF RingPeek
  <1>3. ASSUME NEW size \in 0 .. MaxRead, RingRead(size) PROVE RingInv'
    BY <1>3 DEF RingRead, AtMost
  <1>4. CASE RingClear
    BY <1>4 DEF RingClear
  <1>5. CASE UNCHANGED ringVars
    BY <1>5 DEF ringVars
  <1> QED BY <1>1, <1>2, <1>3, <1>4, <1>5 DEF RingNext

\* The positions of the buffer and its count of bytes agree, whatever its size:
\* no call leaves the write position elsewhere than the bytes held end
\* (CircularBuffer.write, read, clear).
THEOREM RingSafe == RingSpec => []RingInv
  <1>1. RingInit => RingInv
    BY DEF RingInit, RingInv, RingTypeOK, PositionsAgree, Cell
  <1> QED BY <1>1, RingStep, PTL DEF RingSpec

-----------------------------------------------------------------------------
\* The first n bytes are the contents of the first n positions.
Reads(n) ==
    /\ Leading(n) \in Seq(Octet) /\ Len(Leading(n)) = n
    /\ \A i \in 1 .. n : Leading(n)[i] = cells[Position(i)]

LEMMA LeadingBytes == RingInv => \A n \in 0 .. dataSize : Reads(n)
  <1> SUFFICES ASSUME RingInv, NEW n \in 0 .. dataSize PROVE Reads(n)
    OBVIOUS
  <1> USE DEF RingInv, RingTypeOK, Cell, Position, Reads
  <1>1. CASE readPos + n <= RingSize
    <2>1. Leading(n) = [i \in 1 .. n |-> cells[readPos + i - 1]]
      BY <1>1 DEF Leading
    <2> QED BY <1>1, <2>1
  <1>2. CASE readPos + n > RingSize
    <2>1. Leading(n) = [i \in 1 .. n |-> IF i <= RingSize - readPos THEN cells[readPos + i - 1]
                                         ELSE cells[i - (RingSize - readPos) - 1]]
      BY <1>2 DEF Leading
    <2> QED BY <1>2, <2>1
  <1> QED BY <1>1, <1>2

ReadsAll ==
    /\ Stored \in Seq(Octet) /\ Len(Stored) = dataSize
    /\ \A i \in 1 .. dataSize : Stored[i] = cells[Position(i)]

LEMMA StoredBytes == RingInv => ReadsAll
  BY LeadingBytes DEF RingInv, RingTypeOK, Reads, ReadsAll, Stored

LEMMA StoredBytesNext == RingInv' => ReadsAll'
  BY StoredBytes, PTL

LEMMA LeadingIsPrefix == RingInv => \A n \in 0 .. dataSize : Leading(n) = SubSeq(Stored, 1, n)
  <1> SUFFICES ASSUME RingInv, NEW n \in 0 .. dataSize PROVE Leading(n) = SubSeq(Stored, 1, n)
    OBVIOUS
  <1>1. dataSize \in Nat /\ n \in Nat /\ n <= dataSize
    BY DEF RingInv, RingTypeOK
  <1>2. ReadsAll /\ Reads(n)
    BY StoredBytes, LeadingBytes
  <1>3. /\ SubSeq(Stored, 1, n) \in Seq(Octet)
        /\ Len(SubSeq(Stored, 1, n)) = n
        /\ \A i \in 1 .. n : SubSeq(Stored, 1, n)[i] = Stored[i]
    BY <1>1, <1>2 DEF ReadsAll
  <1>4. \A i \in 1 .. n : Leading(n)[i] = SubSeq(Stored, 1, n)[i]
    BY <1>1, <1>2, <1>3 DEF Reads, ReadsAll
  <1> QED BY <1>2, <1>3, <1>4, SeqEqual DEF Reads

-----------------------------------------------------------------------------
\* What a write leaves at the positions of the bytes held before and of its own.
LEMMA WrittenBytes ==
    ASSUME RingInv, NEW data \in Piece, RingWrite(data), NEW n \in 0 .. RingSize - dataSize,
           n = AtMost(Len(data), RingSize - dataSize)
    PROVE  /\ \A i \in 1 .. dataSize : cells'[Position(i)] = cells[Position(i)]
           /\ \A i \in 1 .. n : cells'[Position(dataSize + i)] = data[i]
  <1> USE DEF RingInv, RingTypeOK, PositionsAgree, Cell, Position
  <1>1. \A i \in 1 .. dataSize + n : Position(i) \in Cell
    OBVIOUS
  <1>2. CASE writePos + n <= RingSize
    <2>1. cells' = FirstSlice(data, n)
      BY <1>2 DEF RingWrite
    <2>2. \A i \in 1 .. dataSize : ~ (Position(i) >= writePos /\ Position(i) < writePos + n)
      BY ONLY RingAssumption, RingInv, n \in 0 .. RingSize - dataSize, <1>2
    <2>3. \A i \in 1 .. n : Position(dataSize + i) = writePos + i - 1
      BY ONLY RingAssumption, RingInv, n \in 0 .. RingSize - dataSize, <1>2
    <2>4. \A i \in 1 .. dataSize : cells'[Position(i)] = cells[Position(i)]
      <3> SUFFICES ASSUME NEW i \in 1 .. dataSize PROVE cells'[Position(i)] = cells[Position(i)]
        OBVIOUS
      <3> HIDE DEF Position
      <3>1. Position(i) \in Cell /\ ~ (Position(i) >= writePos /\ Position(i) < writePos + n)
        BY <1>1, <2>2
      <3> QED BY ONLY RingAssumption, RingInv, n \in 0 .. RingSize - dataSize, <2>1, <3>1 DEF FirstSlice
    <2>5. \A i \in 1 .. n : cells'[Position(dataSize + i)] = data[i]
      <3> SUFFICES ASSUME NEW i \in 1 .. n PROVE cells'[Position(dataSize + i)] = data[i]
        OBVIOUS
      <3> HIDE DEF Position
      <3>1. Position(dataSize + i) \in Cell /\ Position(dataSize + i) = writePos + i - 1
        BY <1>1, <2>3
      <3> QED BY ONLY RingAssumption, RingInv, i \in 1 .. n, n \in 0 .. RingSize - dataSize, <2>1, <3>1 DEF FirstSlice
    <2> QED BY <2>4, <2>5
  <1>3. CASE ~ writePos + n <= RingSize
    <2>1. cells' = SecondSlice(data, n, RingSize - writePos)
      BY <1>3 DEF RingWrite
    <2>2. \A i \in 1 .. dataSize : Position(i) < writePos /\ Position(i) >= n - (RingSize - writePos)
      BY ONLY RingAssumption, RingInv, n \in 0 .. RingSize - dataSize, <1>3
    <2>3. \A i \in 1 .. n : Position(dataSize + i) = IF i <= RingSize - writePos THEN writePos + i - 1
                                                      ELSE i - (RingSize - writePos) - 1
      BY ONLY RingAssumption, RingInv, n \in 0 .. RingSize - dataSize, <1>3
    <2>4. \A i \in 1 .. dataSize : cells'[Position(i)] = cells[Position(i)]
      <3> SUFFICES ASSUME NEW i \in 1 .. dataSize PROVE cells'[Position(i)] = cells[Position(i)]
        OBVIOUS
      <3> HIDE DEF Position
      <3>1. Position(i) \in Cell /\ Position(i) < writePos /\ Position(i) >= n - (RingSize - writePos)
        BY <1>1, <2>2
      <3> QED BY ONLY RingAssumption, RingInv, n \in 0 .. RingSize - dataSize, <2>1, <3>1 DEF SecondSlice
    <2>5. \A i \in 1 .. n : cells'[Position(dataSize + i)] = data[i]
      <3> SUFFICES ASSUME NEW i \in 1 .. n PROVE cells'[Position(dataSize + i)] = data[i]
        OBVIOUS
      <3>1. Position(dataSize + i) \in Cell
        BY <1>1
      <3>2. CASE i <= RingSize - writePos
        <4>1. Position(dataSize + i) = writePos + i - 1
          BY <2>3, <3>2
        <4> QED BY ONLY RingAssumption, RingInv, i \in Nat, <2>1, <3>1, <4>1 DEF SecondSlice
      <3>3. CASE ~ i <= RingSize - writePos
        <4>1. Position(dataSize + i) = i - (RingSize - writePos) - 1
          BY <2>3, <3>3
        <4>2. Position(dataSize + i) < writePos /\ Position(dataSize + i) < n - (RingSize - writePos)
          BY ONLY RingAssumption, RingInv, i \in 1 .. n, n \in 0 .. RingSize - dataSize, <1>3, <4>1
        <4> HIDE DEF Position
        <4> QED BY ONLY RingAssumption, RingInv, i \in Nat, n \in 0 .. RingSize - dataSize, <2>1, <3>1, <4>1, <4>2
                DEF SecondSlice
      <3> QED BY <3>2, <3>3
    <2> QED BY <2>4, <2>5
  <1> QED BY <1>2, <1>3

\* A write appends to what is stored as much as there is room for.
LEMMA WriteStep ==
    ASSUME RingInv, RingInv', NEW data \in Piece, RingWrite(data)
    PROVE  Queue!Accept(data)
  <1> USE DEF RingInv, RingTypeOK
  <1>1. data \in Seq(Octet) /\ Len(data) \in Nat
    OBVIOUS
  <1>2. PICK n \in 0 .. RingSize - dataSize : n <= Len(data) /\ n = AtMost(Len(data), RingSize - dataSize)
    BY <1>1 DEF AtMost
  <1>3. /\ \A i \in 1 .. dataSize : cells'[Position(i)] = cells[Position(i)]
        /\ \A i \in 1 .. n : cells'[Position(dataSize + i)] = data[i]
    BY <1>2, WrittenBytes
  <1>4. UNCHANGED readPos /\ dataSize' = dataSize + n /\ answer' = [given |-> data, count |-> n, bytes |-> <<>>]
    BY <1>2 DEF RingWrite
  <1>5. ReadsAll /\ ReadsAll'
    BY StoredBytes, StoredBytesNext
  <1>6. \A i \in 1 .. dataSize + n : Stored'[i] = cells'[Position(i)]
    BY <1>4, <1>5 DEF ReadsAll, Position
  <1>7. /\ SubSeq(data, 1, n) \in Seq(Octet) /\ Len(SubSeq(data, 1, n)) = n
        /\ \A i \in 1 .. n : SubSeq(data, 1, n)[i] = data[i]
    BY <1>1, <1>2
  <1>8. /\ Stored \o SubSeq(data, 1, n) \in Seq(Octet)
        /\ Len(Stored \o SubSeq(data, 1, n)) = dataSize + n
        /\ \A i \in 1 .. dataSize + n : (Stored \o SubSeq(data, 1, n))[i] =
                 IF i <= dataSize THEN Stored[i] ELSE SubSeq(data, 1, n)[i - dataSize]
    <2>1. \A s, t \in Seq(Octet) :
             /\ s \o t \in Seq(Octet) /\ Len(s \o t) = Len(s) + Len(t)
             /\ \A i \in 1 .. Len(s) + Len(t) : (s \o t)[i] = IF i <= Len(s) THEN s[i] ELSE t[i - Len(s)]
      BY ConcatProperties
    <2> DEFINE fitting == SubSeq(data, 1, n)
    <2>2. Stored \in Seq(Octet) /\ fitting \in Seq(Octet) /\ Len(Stored) = dataSize /\ Len(fitting) = n
      BY <1>5, <1>7 DEF ReadsAll
    <2> HIDE DEF fitting
    <2>3. /\ Stored \o fitting \in Seq(Octet) /\ Len(Stored \o fitting) = dataSize + n
          /\ \A i \in 1 .. dataSize + n : (Stored \o fitting)[i] =
                  IF i <= dataSize THEN Stored[i] ELSE fitting[i - dataSize]
      BY ONLY <2>1, <2>2
    <2> QED BY <2>3 DEF fitting
  <1>9. \A i \in 1 .. dataSize + n : Stored'[i] = (Stored \o SubSeq(data, 1, n))[i]
    <2> SUFFICES ASSUME NEW i \in 1 .. dataSize + n PROVE Stored'[i] = (Stored \o SubSeq(data, 1, n))[i]
      OBVIOUS
    <2>1. CASE i <= dataSize
      <3>1. i \in 1 .. dataSize
        BY <2>1
      <3> QED BY <1>3, <1>5, <1>6, <1>8, <2>1, <3>1 DEF ReadsAll
    <2>2. CASE ~ i <= dataSize
      <3>1. PICK j \in 1 .. n : i = dataSize + j /\ j = i - dataSize
        BY <2>2
      <3>2. Stored'[i] = data[j]
        BY <1>3, <1>6, <3>1
      <3> QED BY <1>7, <1>8, <2>2, <3>1, <3>2
    <2> QED BY <2>1, <2>2
  <1>10. Stored' = Stored \o SubSeq(data, 1, n)
    BY <1>4, <1>5, <1>8, <1>9, SeqEqual DEF ReadsAll
  <1>11. n = Queue!Smaller(Len(data), RingSize - Len(Stored))
    BY <1>2, <1>5 DEF ReadsAll, AtMost, Queue!Smaller
  <1> QED BY <1>4, <1>10, <1>11 DEF Queue!Accept, Queue!Count

\* A look answers with the first bytes that are stored.
LEMMA PeekStep ==
    ASSUME RingInv, NEW size \in 0 .. MaxRead, RingPeek(size)
    PROVE  Queue!Look(size)
  <1>1. PICK n \in 0 .. dataSize : n = AtMost(size, dataSize)
    BY DEF RingInv, RingTypeOK, AtMost
  <1>2. n = Queue!Smaller(size, Len(Stored))
    BY <1>1, StoredBytes DEF ReadsAll, AtMost, Queue!Smaller
  <1>3. Leading(n) = SubSeq(Stored, 1, n)
    BY LeadingIsPrefix
  <1>4. UNCHANGED Stored
    BY DEF RingPeek, Stored, Leading
  <1> QED BY <1>1, <1>2, <1>3, <1>4 DEF RingPeek, Queue!Look, Queue!Bytes

\* A read takes them away: what stays begins at the new read position.
LEMMA ReadStep ==
    ASSUME RingInv, RingInv', NEW size \in 0 .. MaxRead, RingRead(size)
    PROVE  Queue!Take(size)
  <1> USE DEF RingInv, RingTypeOK
  <1>1. PICK n \in 0 .. dataSize : n = AtMost(size, dataSize)
    BY DEF AtMost
  <1>2. n = Queue!Smaller(size, Len(Stored))
    BY <1>1, StoredBytes DEF ReadsAll, AtMost, Queue!Smaller
  <1>3. Leading(n) = SubSeq(Stored, 1, n)
    BY LeadingIsPrefix
  <1>4. ReadsAll /\ ReadsAll'
    BY StoredBytes, StoredBytesNext
  <1>5. /\ dataSize' = dataSize - n /\ cells' = cells
        /\ readPos' = IF readPos + n <= RingSize THEN Wrapped(readPos + n) ELSE n - (RingSize - readPos)
    BY <1>1 DEF RingRead
  <1>6. ASSUME NEW i \in 1 .. dataSize - n PROVE Position(i)' = Position(n + i)
    BY ONLY RingAssumption, RingInv, n \in 0 .. dataSize, <1>5, <1>6 DEF Position, Wrapped, Cell
  <1>7. ASSUME NEW i \in 1 .. dataSize - n PROVE Stored'[i] = Stored[n + i]
    <2>1. Stored'[i] = cells'[Position(i)']
      BY <1>4, <1>5 DEF ReadsAll
    <2>2. n + i \in 1 .. dataSize
      OBVIOUS
    <2> QED BY <1>4, <1>5, <1>6, <2>1, <2>2 DEF ReadsAll
  <1>8. /\ SubSeq(Stored, n + 1, dataSize) \in Seq(Octet)
        /\ Len(SubSeq(Stored, n + 1, dataSize)) = dataSize - n
        /\ \A i \in 1 .. dataSize - n : SubSeq(Stored, n + 1, dataSize)[i] = Stored[n + i]
    BY <1>4 DEF ReadsAll
  <1>9. Stored' = SubSeq(Stored, n + 1, dataSize)
    BY <1>4, <1>5, <1>7, <1>8, SeqEqual DEF ReadsAll
  <1> QED BY <1>1, <1>2, <1>3, <1>4, <1>9 DEF RingRead, Queue!Take, Queue!Bytes, ReadsAll

LEMMA ClearStep ==
    ASSUME RingInv', RingClear
    PROVE  Queue!Drop
  <1>1. ReadsAll'
    BY StoredBytesNext
  <1>2. dataSize' = 0 /\ Stored' \in Seq(Octet) /\ Len(Stored') = 0
    BY <1>1 DEF RingClear, ReadsAll
  <1> QED BY <1>2, EmptySeq DEF RingClear, Queue!Drop, Queue!Count

\* The circular buffer is a queue of bytes for every size, alphabet, choice of
\* pieces and bound on reads: each call of write, read, peek and clear does to
\* the bytes held what the queue does (streaming/buffer.py, CircularBuffer).
THEOREM RingImplementsQueue == RingSpec => RingIsQueue
  <1>1. RingInit => Queue!QueueInit
    <2> SUFFICES ASSUME RingInit PROVE Queue!QueueInit
      OBVIOUS
    <2>1. RingInv
      BY DEF RingInit, RingInv, RingTypeOK, PositionsAgree, Cell
    <2>2. Stored \in Seq(Octet) /\ Len(Stored) = 0
      BY <2>1, StoredBytes DEF RingInit, ReadsAll
    <2> QED BY <2>2, EmptySeq DEF RingInit, Queue!QueueInit, Queue!Count
  <1>2. RingInv /\ RingInv' /\ [RingNext]_ringVars => [Queue!QueueNext]_<<Stored, answer>>
    <2> SUFFICES ASSUME RingInv, RingInv', [RingNext]_ringVars PROVE [Queue!QueueNext]_<<Stored, answer>>
      OBVIOUS
    <2>1. CASE \E data \in Piece : RingWrite(data)
      BY <2>1, WriteStep DEF Queue!QueueNext
    <2>2. CASE \E size \in 0 .. MaxRead : RingPeek(size) \/ RingRead(size)
      BY <2>2, PeekStep, ReadStep DEF Queue!QueueNext
    <2>3. CASE RingClear
      BY <2>3, ClearStep DEF Queue!QueueNext
    <2>4. CASE UNCHANGED ringVars
      BY <2>4 DEF ringVars, Stored, Leading
    <2> QED BY <2>1, <2>2, <2>3, <2>4 DEF RingNext
  <1> QED BY <1>1, <1>2, RingSafe, PTL DEF RingSpec, RingIsQueue
-----------------------------------------------------------------------------
(* The stores run: each component takes the steps of its own module *)

\* A step of the stores is, for each component, a step of its module or none.
LEMMA StepsOfStores ==
    ASSUME [Next]_everything
    PROVE  /\ [SlashNext]_slashVars /\ [BinaryNext]_binaryVars /\ [LineNext]_lineVars /\ [RingNext]_ringVars
           /\ [TransportNext]_transportVars /\ [MonitorNext]_monitorVars /\ [UpkeepNext]_processUpkeepVars
           /\ focus' = focus
BY DEF Next, StoreNext, ToolNext, ProcessNext, DataNext, everything, storeVars, toolVars, processVars, dataVars

-----------------------------------------------------------------------------
(* The pieces of a sequence of bytes *)

Some == {p \in Seq(Seq(Byte)) : p # <<>>}

LEMMA LongerSome == \A p \in Some, x \in Byte : Longer(p, x) \in Some
<1> SUFFICES ASSUME NEW p \in Some, NEW x \in Byte PROVE Longer(p, x) \in Some
  OBVIOUS
<1>0. p \in Seq(Seq(Byte)) /\ p # <<>> /\ <<>> \in Seq(Byte) BY DEF Some
<1>1. Append(p, <<>>) \in Some BY <1>0, AppendProperties DEF Some
<1>2. Front(p) \in Seq(Seq(Byte)) /\ Last(p) \in Seq(Byte)
  <2>1. Len(p) \in Nat /\ Len(p) > 0 BY <1>0
  <2>2. \A i \in 1 .. Len(p) - 1 : p[i] \in Seq(Byte) BY <1>0, <2>1
  <2>3. Front(p) \in Seq(Seq(Byte)) BY <2>1, <2>2, SubSeqProperties DEF Front
  <2> QED BY <1>0, <2>1, <2>3 DEF Last
<1>3. Append(Last(p), x) \in Seq(Byte) BY <1>2, AppendProperties
<1>4. Append(Front(p), Append(Last(p), x)) \in Some
  <2> DEFINE s == Front(p)
             y == Append(Last(p), x)
  <2>1. s \in Seq(Seq(Byte)) /\ y \in Seq(Byte) BY <1>2, <1>3
  <2> HIDE DEF s, y
  <2>2. Append(s, y) \in Seq(Seq(Byte)) /\ Append(s, y) # <<>> BY <2>1, AppendProperties
  <2>4. Append(s, y) \in Some BY <2>2 DEF Some
  <2> QED BY <2>4 DEF s, y
<1> QED BY <1>1, <1>4 DEF Longer

LEMMA PiecesRun ==
    ASSUME NEW b \in Seq(Byte)
    PROVE  \E f : /\ f[0] = << <<>> >> /\ \A n \in 1 .. Len(b) : f[n] = Longer(f[n - 1], b[n])
                  /\ \A n \in 0 .. Len(b) : f[n] \in Some
                  /\ Pieces(b) = f[Len(b)]
<1> DEFINE N == Len(b)
           v == << <<>> >>
           step == [n \in 1 .. N |-> [p \in Some |-> Longer(p, b[n])]]
           After(g, n) == IF n = 0 THEN << <<>> >> ELSE Longer(g[n - 1], b[n])
<1>1. N \in Nat /\ (\A n \in 1 .. N : b[n] \in Byte) /\ v \in Some BY DEF Some
<1> HIDE DEF N
<1>2. PICK f : IsRun(f, N, v, step)
  <2> HIDE DEF step, v
  <2> QED BY <1>1, Recursion
<1>3. f[0] = v /\ \A n \in 1 .. N : f[n] = step[n][f[n - 1]]
  <2>1. 0 \in 0 .. N /\ \A n \in 1 .. N : n \in 0 .. N /\ n # 0 BY <1>1
  <2> HIDE DEF step, v
  <2> QED BY <1>2, <2>1 DEF IsRun
<1>4. \A n \in 1 .. N : f[n - 1] \in Some => f[n] = Longer(f[n - 1], b[n]) BY <1>3
<1>5. \A n \in 0 .. N : f[n] \in Some
  <2> DEFINE P == {n \in 0 .. N : f[n] \in Some}
  <2>1. 0 \in P BY <1>1, <1>3
  <2>2. ASSUME NEW n \in P, n < N PROVE n + 1 \in P
    <3>1. n + 1 \in 1 .. N /\ n + 1 \in 0 .. N /\ (n + 1) - 1 = n /\ f[n] \in Some BY <1>1, <2>2
    <3>2. f[n + 1] = Longer(f[n], b[n + 1]) /\ b[n + 1] \in Byte BY <1>1, <1>4, <3>1
    <3> QED BY <3>1, <3>2, LongerSome
  <2>3. P \in SUBSET (0 .. N) OBVIOUS
  <2> HIDE DEF P
  <2>4. P = 0 .. N BY <1>1, <2>1, <2>2, <2>3, Induction
  <2> QED BY <2>4 DEF P
<1>6. \A n \in 1 .. N : f[n] = Longer(f[n - 1], b[n])
  <2>1. \A n \in 1 .. N : n - 1 \in 0 .. N BY <1>1
  <2> QED BY <1>4, <1>5, <2>1
<1>7. f = [n \in 0 .. N |-> After(f, n)]
  <2>1. \A n \in 0 .. N : n = 0 \/ n \in 1 .. N BY <1>1
  <2>2. \A n \in 0 .. N : f[n] = After(f, n) BY <1>3, <1>6, <2>1
  <2> DEFINE w(n) == IF n = 0 THEN v ELSE step[n][f[n - 1]]
  <2>3. f = [n \in 0 .. N |-> w(n)] BY <1>2 DEF IsRun
  <2> HIDE DEF After, w
  <2> QED BY <2>2, <2>3
<1> DEFINE u == CHOOSE g : g = [n \in 0 .. N |-> After(g, n)]
<1>8. u = [n \in 0 .. N |-> After(u, n)]
  <2> HIDE DEF After
  <2> QED BY <1>7
<1>9. Pieces(b) = u[N] BY DEF Pieces, N
<1> HIDE DEF u
<1>10. u[0] = v /\ \A n \in 1 .. N : u[n] = Longer(u[n - 1], b[n])
  <2>1. 0 \in 0 .. N /\ \A n \in 1 .. N : n \in 0 .. N /\ n # 0 BY <1>1
  <2>2. \A n \in 0 .. N : u[n] = After(u, n)
    <3> HIDE DEF After
    <3> QED BY <1>8
  <2> QED BY <2>1, <2>2
<1>11. \A n \in 0 .. N : u[n] = f[n]
  <2>1. \A n \in 1 .. N : u[n - 1] = f[n - 1] => u[n] = f[n] BY <1>6, <1>10
  <2>2. u[0] = f[0] BY <1>3, <1>10
  <2>3. N \in Nat BY <1>1
  <2>4. StepAlike(u, f, N) BY <2>1, <2>2 DEF StepAlike
  <2>5. Alike(u, f, N) BY <2>3, <2>4, Determined
  <2> QED BY <2>5 DEF Alike
<1>12. Pieces(b) = f[N] BY <1>1, <1>9, <1>11
<1> QED BY <1>3, <1>5, <1>6, <1>12 DEF N

LEMMA PiecesEmpty == Pieces(<<>>) = << <<>> >>
<1>1. <<>> \in Seq(Byte) /\ Len(<<>>) = 0 BY EmptySeq
<1> QED BY <1>1, PiecesRun

LEMMA PiecesSome == \A b \in Seq(Byte) : Pieces(b) \in Some
<1> SUFFICES ASSUME NEW b \in Seq(Byte) PROVE Pieces(b) \in Some
  OBVIOUS
<1>1. Len(b) \in 0 .. Len(b) OBVIOUS
<1> QED BY <1>1, PiecesRun

LEMMA PiecesAppend == ASSUME NEW b \in Seq(Byte), NEW x \in Byte PROVE Pieces(Append(b, x)) = Longer(Pieces(b), x)
<1> DEFINE c == Append(b, x)
           N == Len(b)
<1>1. c \in Seq(Byte) /\ N \in Nat /\ Len(c) = N + 1 /\ c[N + 1] = x /\ \A n \in 1 .. N : c[n] = b[n] BY AppendProperties
<1>2. PICK f : f[0] = << <<>> >> /\ (\A n \in 1 .. N : f[n] = Longer(f[n - 1], b[n])) /\ Pieces(b) = f[N] BY PiecesRun
<1>3. PICK g : g[0] = << <<>> >> /\ (\A n \in 1 .. N + 1 : g[n] = Longer(g[n - 1], c[n])) /\ Pieces(c) = g[N + 1]
  <2> HIDE DEF c, N
  <2> QED BY <1>1, PiecesRun
<1> HIDE DEF c, N
<1>4. \A n \in 1 .. N : n \in 1 .. N + 1 BY <1>1
<1>5. \A n \in 1 .. N : g[n - 1] = f[n - 1] => g[n] = f[n] BY <1>1, <1>2, <1>3, <1>4
<1>6. \A n \in 0 .. N : g[n] = f[n]
  <2>1. N \in Nat BY <1>1
  <2>2. g[0] = f[0] BY <1>2, <1>3
  <2>3. StepAlike(g, f, N) BY <2>2, <1>5 DEF StepAlike
  <2>4. Alike(g, f, N) BY <2>1, <2>3, Determined
  <2> QED BY <2>4 DEF Alike
<1>7. N + 1 \in 1 .. N + 1 /\ (N + 1) - 1 = N /\ N \in 0 .. N BY <1>1
<1>8. g[N + 1] = Longer(f[N], x) BY <1>1, <1>3, <1>6, <1>7
<1> QED BY <1>2, <1>3, <1>8 DEF c
-----------------------------------------------------------------------------
(* The text of a sequence of bytes *)

\* What a byte, the first half of a character or the second of one, is alone.
Alone(x) == IF x \in {"h", "t"} THEN "?" ELSE x

LEMMA AloneChar == \A x \in Byte : Alone(x) \in Char
BY DEF Alone, Byte, Char

LEMMA FrontSeq ==
    ASSUME NEW A, NEW s \in Seq(A), s # <<>>
    PROVE  /\ Front(s) \in Seq(A) /\ Len(Front(s)) = Len(s) - 1 /\ \A i \in 1 .. Len(s) - 1 : Front(s)[i] = s[i]
           /\ Last(s) \in A /\ s = Append(Front(s), Last(s))
<1>1. Len(s) \in Nat /\ Len(s) > 0 BY EmptySeq
<1>2. \A i \in 1 .. Len(s) - 1 : s[i] \in A BY <1>1
<1>3. /\ Front(s) \in Seq(A) /\ Len(Front(s)) = Len(s) - 1 /\ \A i \in 1 .. Len(s) - 1 : Front(s)[i] = s[i]
  <2> DEFINE n == Len(s) - 1
  <2>1. n \in Int /\ n >= 0 /\ 1 \in Int /\ \A i \in 1 .. n : s[i] \in A BY <1>1, <1>2
  <2> HIDE DEF n
  <2>2. /\ SubSeq(s, 1, n) \in Seq(A) /\ Len(SubSeq(s, 1, n)) = IF 1 <= n THEN n - 1 + 1 ELSE 0
        /\ \A i \in 1 .. n - 1 + 1 : SubSeq(s, 1, n)[i] = s[1 + i - 1]
    BY <2>1, SubSeqProperties
  <2>3. Len(SubSeq(s, 1, n)) = n /\ \A i \in 1 .. n : SubSeq(s, 1, n)[i] = s[i]
    <3>1. \A i \in 1 .. n : 1 + i - 1 = i /\ i \in 1 .. n - 1 + 1 BY <2>1
    <3> QED BY <2>1, <2>2, <3>1
  <2>4. Front(s) = SubSeq(s, 1, n) BY DEF Front, n
  <2> QED BY <2>2, <2>3, <2>4 DEF n
<1>4. Last(s) \in A /\ Last(s) = s[Len(s)] BY <1>1 DEF Last
<1> DEFINE f == Front(s)
           x == Last(s)
           r == Append(f, x)
<1>5. r \in Seq(A) /\ Len(r) = Len(s) /\ \A i \in 1 .. Len(s) : r[i] = s[i]
  <2>1. f \in Seq(A) /\ x \in A /\ Len(f) = Len(s) - 1 BY <1>3, <1>4
  <2>2. \A i \in 1 .. Len(s) : i \in 1 .. Len(s) - 1 \/ i = Len(f) + 1 BY <1>1, <2>1
  <2> HIDE DEF f, x
  <2>3. r \in Seq(A) /\ Len(r) = Len(f) + 1 /\ (\A i \in 1 .. Len(f) : r[i] = f[i]) /\ r[Len(f) + 1] = x
    BY <2>1, AppendProperties
  <2> QED BY <1>1, <1>3, <1>4, <2>1, <2>2, <2>3 DEF f, x
<1> HIDE DEF r
<1>6. r = s BY <1>5, SeqEqual
<1> QED BY <1>3, <1>4, <1>6 DEF r

LEMMA WithByteChar ==
    ASSUME NEW b \in Seq(Byte), NEW n \in 1 .. Len(b), NEW p \in Seq(Char), n = 1 \/ p # <<>>
    PROVE  WithByte(p, b, n) \in Seq(Char) /\ WithByte(p, b, n) # <<>>
<1>1. b[n] \in Byte /\ n \in Nat OBVIOUS
<1>2. CASE b[n] = "t" /\ n > 1 /\ b[n - 1] = "h"
  <2>1. p # <<>> BY <1>2
  <2> DEFINE f == Front(p)
  <2>2. f \in Seq(Char) BY <2>1, FrontSeq
  <2>3. "m" \in Char BY DEF Char
  <2> HIDE DEF f
  <2>4. Append(f, "m") \in Seq(Char) /\ Append(f, "m") # <<>> BY <2>2, <2>3, AppendProperties
  <2> QED BY <1>2, <2>4 DEF WithByte, f
<1>3. CASE ~(b[n] = "t" /\ n > 1 /\ b[n - 1] = "h")
  <2> DEFINE x == Alone(b[n])
  <2>1. x \in Char BY <1>1, AloneChar
  <2>2. WithByte(p, b, n) = Append(p, x) BY <1>3 DEF WithByte, Alone
  <2> HIDE DEF x
  <2> QED BY <2>1, <2>2, AppendProperties
<1> QED BY <1>2, <1>3

LEMMA DecodedRun ==
    ASSUME NEW b \in Seq(Byte)
    PROVE  \E f : /\ f[0] = <<>> /\ \A n \in 1 .. Len(b) : f[n] = WithByte(f[n - 1], b, n)
                  /\ \A n \in 0 .. Len(b) : f[n] \in Seq(Char) /\ (n = 0 \/ f[n] # <<>>)
                  /\ Decoded(b) = f[Len(b)]
<1> DEFINE N == Len(b)
           v == <<>>
           step == [n \in 1 .. N |-> [p \in Seq(Char) |-> WithByte(p, b, n)]]
           After(g, n) == IF n = 0 THEN <<>> ELSE WithByte(g[n - 1], b, n)
<1>1. N \in Nat /\ v \in Seq(Char) OBVIOUS
<1>2. PICK f : IsRun(f, N, v, step)
  <2> HIDE DEF N, step, v
  <2> QED BY <1>1, Recursion
<1>3. f[0] = v /\ \A n \in 1 .. N : f[n] = step[n][f[n - 1]]
  <2>1. 0 \in 0 .. N /\ \A n \in 1 .. N : n \in 0 .. N /\ n # 0 BY <1>1
  <2> HIDE DEF N, step, v
  <2> QED BY <1>2, <2>1 DEF IsRun
<1>4. \A n \in 1 .. N : f[n - 1] \in Seq(Char) => f[n] = WithByte(f[n - 1], b, n)
  <2> HIDE DEF N, v
  <2> QED BY <1>3
<1>5. \A n \in 0 .. N : f[n] \in Seq(Char) /\ (n = 0 \/ f[n] # <<>>)
  <2> DEFINE P == {n \in 0 .. N : f[n] \in Seq(Char) /\ (n = 0 \/ f[n] # <<>>)}
  <2>1. 0 \in P
    <3>1. 0 \in 0 .. N BY <1>1
    <3>2. f[0] \in Seq(Char) BY <1>1, <1>3
    <3> HIDE DEF N, step, v
    <3> QED BY <3>1, <3>2
  <2>2. ASSUME NEW n \in P, n < N PROVE n + 1 \in P
    <3>1. n + 1 \in 1 .. N /\ n + 1 \in 0 .. N /\ (n + 1) - 1 = n BY <1>1, <2>2
    <3>2. f[n] \in Seq(Char) /\ (n + 1 = 1 \/ f[n] # <<>>) BY <2>2
    <3>3. f[n + 1] = WithByte(f[n], b, n + 1)
      <4> HIDE DEF N, P, step
      <4> QED BY <1>4, <3>1, <3>2
    <3> DEFINE p == f[n]
               m == n + 1
    <3>4. p \in Seq(Char) /\ m \in 1 .. Len(b) /\ (m = 1 \/ p # <<>>) BY <3>1, <3>2
    <3> HIDE DEF p, m
    <3>5. WithByte(p, b, m) \in Seq(Char) /\ WithByte(p, b, m) # <<>> BY <3>4, WithByteChar
    <3> QED BY <3>1, <3>3, <3>5 DEF p, m
  <2>3. P \in SUBSET (0 .. N) OBVIOUS
  <2> HIDE DEF P, N
  <2>4. P = 0 .. N BY <1>1, <2>1, <2>2, <2>3, Induction
  <2> QED BY <2>4 DEF P
<1> HIDE DEF N
<1>6. \A n \in 1 .. N : f[n] = WithByte(f[n - 1], b, n)
  <2>1. \A n \in 1 .. N : n - 1 \in 0 .. N BY <1>1
  <2> QED BY <1>4, <1>5, <2>1
<1>7. f = [n \in 0 .. N |-> After(f, n)]
  <2>1. \A n \in 0 .. N : n = 0 \/ n \in 1 .. N BY <1>1
  <2>2. \A n \in 0 .. N : f[n] = After(f, n) BY <1>3, <1>6, <2>1
  <2> DEFINE w(n) == IF n = 0 THEN v ELSE step[n][f[n - 1]]
  <2>3. f = [n \in 0 .. N |-> w(n)] BY <1>2 DEF IsRun
  <2> HIDE DEF After, w
  <2> QED BY <2>2, <2>3
<1> DEFINE u == CHOOSE g : g = [n \in 0 .. N |-> After(g, n)]
<1>8. u = [n \in 0 .. N |-> After(u, n)]
  <2> HIDE DEF After
  <2> QED BY <1>7
<1>9. Decoded(b) = u[N] BY DEF Decoded, N
<1> HIDE DEF u
<1>10. u[0] = v /\ \A n \in 1 .. N : u[n] = WithByte(u[n - 1], b, n)
  <2>1. 0 \in 0 .. N /\ \A n \in 1 .. N : n \in 0 .. N /\ n # 0 BY <1>1
  <2>2. \A n \in 0 .. N : u[n] = After(u, n)
    <3> HIDE DEF After
    <3> QED BY <1>8
  <2> QED BY <2>1, <2>2
<1>11. \A n \in 0 .. N : u[n] = f[n]
  <2>1. \A n \in 1 .. N : u[n - 1] = f[n - 1] => u[n] = f[n] BY <1>6, <1>10
  <2>2. u[0] = f[0] BY <1>3, <1>10
  <2>3. N \in Nat BY <1>1
  <2>4. StepAlike(u, f, N) BY <2>1, <2>2 DEF StepAlike
  <2>5. Alike(u, f, N) BY <2>3, <2>4, Determined
  <2> QED BY <2>5 DEF Alike
<1>12. Decoded(b) = f[N] BY <1>1, <1>9, <1>11
<1> QED BY <1>3, <1>5, <1>6, <1>12 DEF N

LEMMA DecodedEmpty == Decoded(<<>>) = <<>>
<1>1. <<>> \in Seq(Byte) /\ Len(<<>>) = 0 BY EmptySeq
<1> QED BY <1>1, DecodedRun

LEMMA DecodedType == \A b \in Seq(Byte) : Decoded(b) \in Seq(Char) /\ (b # <<>> => Decoded(b) # <<>>)
<1> SUFFICES ASSUME NEW b \in Seq(Byte) PROVE Decoded(b) \in Seq(Char) /\ (b # <<>> => Decoded(b) # <<>>)
  OBVIOUS
<1>1. Len(b) \in 0 .. Len(b) /\ (b # <<>> => Len(b) # 0) BY EmptySeq
<1> QED BY <1>1, DecodedRun

\* A character is complete with its second byte.
Completes(a, x) == x = "t" /\ a # <<>> /\ a[Len(a)] = "h"

LEMMA DecodedAppend ==
    ASSUME NEW b \in Seq(Byte), NEW x \in Byte
    PROVE  Decoded(Append(b, x)) = IF Completes(b, x) THEN Append(Front(Decoded(b)), "m") ELSE Append(Decoded(b), Alone(x))
<1> DEFINE c == Append(b, x)
           N == Len(b)
<1>1. c \in Seq(Byte) /\ N \in Nat /\ Len(c) = N + 1 /\ c[N + 1] = x /\ \A n \in 1 .. N : c[n] = b[n] BY AppendProperties
<1>2. PICK f : f[0] = <<>> /\ (\A n \in 1 .. N : f[n] = WithByte(f[n - 1], b, n)) /\ Decoded(b) = f[N] BY DecodedRun
<1>3. PICK g : g[0] = <<>> /\ (\A n \in 1 .. N + 1 : g[n] = WithByte(g[n - 1], c, n)) /\ Decoded(c) = g[N + 1]
  <2> HIDE DEF c, N
  <2> QED BY <1>1, DecodedRun
<1>0. b # <<>> <=> N > 0 BY EmptySeq
<1> HIDE DEF c
<1>4. \A n \in 1 .. N : \A p : WithByte(p, c, n) = WithByte(p, b, n)
  <2> TAKE n \in 1 .. N
  <2> TAKE p
  <2>1. n > 1 => n - 1 \in 1 .. N BY <1>1
  <2> HIDE DEF N
  <2> QED BY <1>1, <2>1 DEF WithByte
<1>5. Completes(b, x) <=> x = "t" /\ N + 1 > 1 /\ c[N] = "h"
  <2>1. N > 0 => c[N] = b[N] BY <1>1
  <2> QED BY <1>0, <1>1, <2>1 DEF Completes
<1> HIDE DEF N
<1>6. \A n \in 0 .. N : g[n] = f[n]
  <2>1. \A n \in 1 .. N : n \in 1 .. N + 1 BY <1>1
  <2>2. \A n \in 1 .. N : g[n - 1] = f[n - 1] => g[n] = f[n] BY <1>2, <1>3, <1>4, <2>1
  <2>3. N \in Nat BY <1>1
  <2>4. g[0] = f[0] BY <1>2, <1>3
  <2>5. StepAlike(g, f, N) BY <2>2, <2>4 DEF StepAlike
  <2>6. Alike(g, f, N) BY <2>3, <2>5, Determined
  <2> QED BY <2>6 DEF Alike
<1>7. N + 1 \in 1 .. N + 1 /\ (N + 1) - 1 = N /\ N \in 0 .. N BY <1>1
<1>8. g[N + 1] = WithByte(f[N], c, N + 1) BY <1>1, <1>3, <1>6, <1>7
<1>9. WithByte(f[N], c, N + 1) = IF Completes(b, x) THEN Append(Front(f[N]), "m") ELSE Append(f[N], Alone(x))
  BY <1>1, <1>5, <1>7 DEF WithByte, Alone
<1> QED BY <1>2, <1>3, <1>8, <1>9 DEF c
-----------------------------------------------------------------------------
(* What is read in two chunks *)

LEMMA ConcatAppend ==
    ASSUME NEW A, NEW s \in Seq(A), NEW t \in Seq(A), NEW x \in A
    PROVE  s \o Append(t, x) = Append(s \o t, x) /\ s \o t \in Seq(A)
<1>1. s \o t \in Seq(A) /\ <<x>> \in Seq(A) BY ConcatProperties
<1>2. Append(t, x) = t \o <<x>> BY AppendIsConcat
<1>3. Append(s \o t, x) = (s \o t) \o <<x>>
  <2> DEFINE u == s \o t
  <2>1. u \in Seq(A) BY <1>1
  <2> HIDE DEF u
  <2>2. Append(u, x) = u \o <<x>> BY <2>1, AppendIsConcat
  <2> QED BY <2>2 DEF u
<1>4. s \o (t \o <<x>>) = (s \o t) \o <<x>> BY <1>1, ConcatAssociative
<1> QED BY <1>1, <1>2, <1>3, <1>4

LEMMA FrontAppend ==
    ASSUME NEW A, NEW s \in Seq(A), NEW x \in A
    PROVE  Front(Append(s, x)) = s /\ Last(Append(s, x)) = x
<1> DEFINE t == Append(s, x)
<1>1. /\ t \in Seq(A) /\ t # <<>> /\ Len(t) = Len(s) + 1 /\ Len(s) \in Nat
      /\ t[Len(s) + 1] = x /\ \A i \in 1 .. Len(s) : t[i] = s[i]
  BY AppendProperties
<1> HIDE DEF t
<1>2. Front(t) \in Seq(A) /\ Len(Front(t)) = Len(s) /\ \A i \in 1 .. Len(s) : Front(t)[i] = s[i]
  <2>1. Front(t) \in Seq(A) /\ Len(Front(t)) = Len(t) - 1 /\ \A i \in 1 .. Len(t) - 1 : Front(t)[i] = t[i] BY <1>1, FrontSeq
  <2>2. Len(t) - 1 = Len(s) BY <1>1
  <2> QED BY <1>1, <2>1, <2>2
<1>3. Front(t) = s BY <1>2, SeqEqual
<1> QED BY <1>1, <1>3 DEF Last, t

LEMMA FrontConcat ==
    ASSUME NEW A, NEW s \in Seq(A), NEW t \in Seq(A), t # <<>>
    PROVE  Front(s \o t) = s \o Front(t)
<1> DEFINE u == Front(t)
           x == Last(t)
<1>1. u \in Seq(A) /\ x \in A /\ t = Append(u, x) BY FrontSeq
<1> HIDE DEF u, x
<1>2. s \o t = Append(s \o u, x) /\ s \o u \in Seq(A) BY <1>1, ConcatAppend
<1> DEFINE v == s \o u
<1>3. v \in Seq(A) BY <1>2
<1> HIDE DEF v
<1>4. Front(Append(v, x)) = v BY <1>1, <1>3, FrontAppend
<1> QED BY <1>2, <1>4 DEF u, v

\* A chunk that ends within a character leaves a "?".
LEMMA DecodedEnds ==
    ASSUME NEW a \in Seq(Byte), a # <<>>, a[Len(a)] = "h"
    PROVE  \E i \in 1 .. Len(Decoded(a)) : Decoded(a)[i] = "?"
<1>1. PICK b \in Seq(Byte), x \in Byte : a = Append(b, x) BY SequenceEmptyOrAppend
<1>2. Len(a) = Len(b) + 1 /\ a[Len(b) + 1] = x BY <1>1, AppendProperties
<1>3. x = "h" BY <1>2
<1>4. Decoded(a) = Append(Decoded(b), "?") BY <1>1, <1>3, DecodedAppend DEF Completes, Alone
<1> DEFINE d == Decoded(b)
<1>5. d \in Seq(Char) /\ "?" \in Char BY DecodedType DEF Char
<1> HIDE DEF d
<1>6. Len(Append(d, "?")) = Len(d) + 1 /\ Append(d, "?")[Len(d) + 1] = "?" /\ Len(d) \in Nat BY <1>5, AppendProperties
<1>7. Len(d) + 1 \in 1 .. Len(Append(d, "?")) BY <1>6
<1> QED BY <1>4, <1>6, <1>7 DEF d

\* Otherwise its text goes before the text of the next.
LEMMA DecodedConcat ==
    ASSUME NEW a \in Seq(Byte), \A i \in 1 .. Len(Decoded(a)) : Decoded(a)[i] # "?"
    PROVE  \A b \in Seq(Byte) : Decoded(a \o b) = Decoded(a) \o Decoded(b)
<1> DEFINE P == {b \in Seq(Byte) : Decoded(a \o b) = Decoded(a) \o Decoded(b)}
<1>1. ~(a # <<>> /\ a[Len(a)] = "h") BY DecodedEnds
<1>2. Decoded(a) \in Seq(Char) BY DecodedType
<1>3. <<>> \in P
  <2> DEFINE d == Decoded(a)
  <2>1. a \o <<>> = a BY ConcatEmptySeq
  <2>2. d \o <<>> = d
    <3>1. d \in Seq(Char) BY <1>2
    <3> HIDE DEF d
    <3> QED BY <3>1, ConcatEmptySeq
  <2>3. <<>> \in Seq(Byte) OBVIOUS
  <2> QED BY <2>1, <2>2, <2>3, DecodedEmpty
<1>4. ASSUME NEW b \in P, NEW x \in Byte PROVE Append(b, x) \in P
  <2>1. b \in Seq(Byte) /\ Decoded(a \o b) = Decoded(a) \o Decoded(b) OBVIOUS
  <2> HIDE DEF P
  <2>2. Append(b, x) \in Seq(Byte) BY <2>1, AppendProperties
  <2>3. a \o Append(b, x) = Append(a \o b, x) /\ a \o b \in Seq(Byte) BY <2>1, ConcatAppend
  <2> DEFINE c == a \o b
  <2>4. Completes(c, x) <=> Completes(b, x)
    <3>1. CASE b = <<>>
      <4>1. c = a BY <3>1, ConcatEmptySeq
      <4> QED BY <1>1, <3>1, <4>1 DEF Completes
    <3>2. CASE b # <<>>
      <4>1. Len(c) = Len(a) + Len(b) /\ Len(a) \in Nat /\ Len(b) \in Nat /\ Len(b) > 0
            /\ \A i \in 1 .. Len(a) + Len(b) : c[i] = IF i <= Len(a) THEN a[i] ELSE b[i - Len(a)]
        BY <2>1, <3>2, ConcatProperties, EmptySeq
      <4>2. Len(c) \in 1 .. Len(a) + Len(b) /\ ~(Len(c) <= Len(a)) /\ Len(c) - Len(a) = Len(b) /\ Len(c) # 0 BY <4>1
      <4>3. c[Len(c)] = b[Len(b)] BY <4>1, <4>2
      <4>4. c # <<>> BY <4>2, EmptySeq
      <4> QED BY <3>2, <4>3, <4>4 DEF Completes
    <3> QED BY <3>1, <3>2
  <2> DEFINE d == Decoded(a)
             e == Decoded(b)
  <2>5. d \in Seq(Char) /\ e \in Seq(Char) /\ (b # <<>> => e # <<>>) BY <1>2, <2>1, DecodedType
  <2>6. Decoded(c) = d \o e BY <2>1
  <2>7. Decoded(Append(c, x)) = IF Completes(c, x) THEN Append(Front(Decoded(c)), "m") ELSE Append(Decoded(c), Alone(x))
    <3>1. c \in Seq(Byte) BY <2>3
    <3> HIDE DEF c
    <3> QED BY <3>1, DecodedAppend
  <2>8. Decoded(Append(b, x)) = IF Completes(b, x) THEN Append(Front(e), "m") ELSE Append(e, Alone(x))
    BY <2>1, DecodedAppend
  <2>9. a \o Append(b, x) = Append(c, x) BY <2>3
  <2> HIDE DEF c, d, e
  <2>10. CASE Completes(b, x)
    <3>1. e # <<>> BY <2>5, <2>10 DEF Completes
    <3>2. Front(d \o e) = d \o Front(e) BY <2>5, <3>1, FrontConcat
    <3> DEFINE f == Front(e)
               m == "m"
    <3>3. f \in Seq(Char) /\ m \in Char BY <2>5, <3>1, FrontSeq DEF Char
    <3> HIDE DEF f, m
    <3>4. d \o Append(f, m) = Append(d \o f, m) BY <2>5, <3>3, ConcatAppend
    <3>5. Decoded(Append(c, x)) = d \o Decoded(Append(b, x)) BY <2>4, <2>6, <2>7, <2>8, <2>10, <3>2, <3>4 DEF f, m
    <3> QED BY <2>2, <2>9, <3>5 DEF P, d
  <2>11. CASE ~Completes(b, x)
    <3> DEFINE y == Alone(x)
    <3>1. y \in Char BY AloneChar
    <3> HIDE DEF y
    <3>2. d \o Append(e, y) = Append(d \o e, y) BY <2>5, <3>1, ConcatAppend
    <3>3. Decoded(Append(c, x)) = d \o Decoded(Append(b, x)) BY <2>4, <2>6, <2>7, <2>8, <2>11, <3>2 DEF y
    <3> QED BY <2>2, <2>9, <3>3 DEF P, d
  <2> QED BY <2>10, <2>11
<1>5. P \in SUBSET Seq(Byte) OBVIOUS
<1> HIDE DEF P
<1>6. P = Seq(Byte) BY <1>3, <1>4, <1>5, SeqInduction
<1> QED BY <1>6 DEF P

\* Longer, element by element.
LEMMA LongerIs ==
    ASSUME NEW p \in Some, NEW x \in Byte
    PROVE  /\ Len(p) \in Nat \ {0} /\ \A i \in 1 .. Len(p) : p[i] \in Seq(Byte)
           /\ x = "nl" => /\ Len(Longer(p, x)) = Len(p) + 1 /\ Longer(p, x)[Len(p) + 1] = <<>>
                          /\ \A i \in 1 .. Len(p) : Longer(p, x)[i] = p[i]
           /\ x # "nl" => /\ Len(Longer(p, x)) = Len(p) /\ Longer(p, x)[Len(p)] = Append(p[Len(p)], x)
                          /\ \A i \in 1 .. Len(p) - 1 : Longer(p, x)[i] = p[i]
<1>1. p \in Seq(Seq(Byte)) /\ p # <<>> BY DEF Some
<1>2. Len(p) \in Nat \ {0} /\ \A i \in 1 .. Len(p) : p[i] \in Seq(Byte) BY <1>1, EmptySeq
<1>3. CASE x = "nl"
  <2> DEFINE e == <<>>
  <2>1. e \in Seq(Byte) OBVIOUS
  <2> HIDE DEF e
  <2>2. Len(Append(p, e)) = Len(p) + 1 /\ Append(p, e)[Len(p) + 1] = e /\ \A i \in 1 .. Len(p) : Append(p, e)[i] = p[i]
    BY <1>1, <2>1, AppendProperties
  <2>3. Longer(p, x) = Append(p, e) BY <1>3 DEF Longer, e
  <2> QED BY <1>2, <1>3, <2>2, <2>3 DEF e
<1>4. CASE x # "nl"
  <2> DEFINE f == Front(p)
             y == Append(Last(p), x)
  <2>1. f \in Seq(Seq(Byte)) /\ Len(f) = Len(p) - 1 /\ (\A i \in 1 .. Len(p) - 1 : f[i] = p[i]) /\ Last(p) \in Seq(Byte)
    BY <1>1, FrontSeq
  <2>2. y \in Seq(Byte) /\ y = Append(p[Len(p)], x)
    <3> DEFINE z == Last(p)
    <3>1. z \in Seq(Byte) /\ z = p[Len(p)] BY <2>1 DEF Last
    <3> HIDE DEF z
    <3>2. Append(z, x) \in Seq(Byte) BY <3>1, AppendProperties
    <3> QED BY <3>1, <3>2 DEF z
  <2>3. Longer(p, x) = Append(f, y) BY <1>4 DEF Longer
  <2> HIDE DEF f, y
  <2>4. Len(Append(f, y)) = Len(f) + 1 /\ Append(f, y)[Len(f) + 1] = y /\ \A i \in 1 .. Len(f) : Append(f, y)[i] = f[i]
    BY <2>1, <2>2, AppendProperties
  <2>5. Len(f) + 1 = Len(p) BY <1>2, <2>1
  <2> QED BY <1>2, <1>4, <2>1, <2>2, <2>3, <2>4, <2>5
<1> QED BY <1>3, <1>4

\* The last piece of one chunk and the first of the next are one.
IsJoined(r, p, q) ==
    /\ Len(r) = Len(p) + Len(q) - 1
    /\ \A k \in 1 .. Len(p) - 1 : r[k] = p[k]
    /\ r[Len(p)] = p[Len(p)] \o q[1]
    /\ \A k \in 2 .. Len(q) : r[Len(p) + k - 1] = q[k]

LEMMA PiecesConcat == \A a, b \in Seq(Byte) : IsJoined(Pieces(a \o b), Pieces(a), Pieces(b))
<1> SUFFICES ASSUME NEW a \in Seq(Byte) PROVE \A b \in Seq(Byte) : IsJoined(Pieces(a \o b), Pieces(a), Pieces(b))
  OBVIOUS
<1> DEFINE P == {b \in Seq(Byte) : IsJoined(Pieces(a \o b), Pieces(a), Pieces(b))}
           p == Pieces(a)
<1>1. p \in Some BY PiecesSome
<1>2. Len(p) \in Nat \ {0} /\ \A i \in 1 .. Len(p) : p[i] \in Seq(Byte)
  <2>1. "nl" \in Byte BY DEF Byte
  <2> HIDE DEF p
  <2> QED BY <1>1, <2>1, LongerIs
<1> HIDE DEF p
<1>3. <<>> \in P
  <2>1. a \o <<>> = a /\ <<>> \in Seq(Byte) BY ConcatEmptySeq
  <2> DEFINE q == << <<>> >>
  <2>2. Len(q) = 1 /\ q[1] = <<>> OBVIOUS
  <2>3. p[Len(p)] \o <<>> = p[Len(p)]
    <3> DEFINE z == p[Len(p)]
    <3>1. z \in Seq(Byte) BY <1>2
    <3> HIDE DEF z
    <3>2. z \o <<>> = z BY <3>1, ConcatEmptySeq
    <3> QED BY <3>2 DEF z
  <2>4. Pieces(<<>>) = q BY PiecesEmpty
  <2> HIDE DEF q
  <2>5. IsJoined(p, p, q) BY <1>2, <2>2, <2>3 DEF IsJoined
  <2> QED BY <2>1, <2>4, <2>5 DEF p
<1>4. ASSUME NEW b \in P, NEW x \in Byte PROVE Append(b, x) \in P
  <2> DEFINE q == Pieces(b)
             r == Pieces(a \o b)
             q2 == Longer(q, x)
             r2 == Longer(r, x)
  <2>1. b \in Seq(Byte) /\ IsJoined(r, p, q) BY DEF p
  <2> HIDE DEF P
  <2>2. Append(b, x) \in Seq(Byte) BY <2>1, AppendProperties
  <2>3. a \o Append(b, x) = Append(a \o b, x) /\ a \o b \in Seq(Byte) BY <2>1, ConcatAppend
  <2>4. q \in Some /\ r \in Some BY <2>1, <2>3, PiecesSome
  <2>5. Pieces(Append(b, x)) = q2 BY <2>1, PiecesAppend
  <2>6. Pieces(a \o Append(b, x)) = r2
    <3> DEFINE c == a \o b
    <3>1. c \in Seq(Byte) BY <2>3
    <3> HIDE DEF c
    <3>2. Pieces(Append(c, x)) = Longer(Pieces(c), x) BY <3>1, PiecesAppend
    <3> QED BY <2>3, <3>2 DEF c
  <2> HIDE DEF q, r
  <2>7. /\ Len(q) \in Nat \ {0} /\ \A i \in 1 .. Len(q) : q[i] \in Seq(Byte)
        /\ x = "nl" => /\ Len(q2) = Len(q) + 1 /\ q2[Len(q) + 1] = <<>>
                       /\ \A i \in 1 .. Len(q) : q2[i] = q[i]
        /\ x # "nl" => /\ Len(q2) = Len(q) /\ q2[Len(q)] = Append(q[Len(q)], x)
                       /\ \A i \in 1 .. Len(q) - 1 : q2[i] = q[i]
    BY <2>4, LongerIs
  <2>8. /\ x = "nl" => /\ Len(r2) = Len(r) + 1 /\ r2[Len(r) + 1] = <<>>
                       /\ \A i \in 1 .. Len(r) : r2[i] = r[i]
        /\ x # "nl" => /\ Len(r2) = Len(r) /\ r2[Len(r)] = Append(r[Len(r)], x)
                       /\ \A i \in 1 .. Len(r) - 1 : r2[i] = r[i]
    BY <2>4, LongerIs
  <2> HIDE DEF q2, r2
  <2> DEFINE m == Len(p)
             n == Len(q)
  <2>9. m \in Nat \ {0} /\ n \in Nat \ {0} /\ Len(r) = m + n - 1 BY <1>2, <2>1, <2>7 DEF IsJoined
  <2>10. CASE x = "nl"
    <3>1. Len(q2) = n + 1 /\ q2[n + 1] = <<>> /\ \A i \in 1 .. n : q2[i] = q[i] BY <2>7, <2>10
    <3>2. Len(r2) = m + n /\ r2[m + n] = <<>> /\ \A i \in 1 .. m + n - 1 : r2[i] = r[i]
      <4>1. Len(r) + 1 = m + n BY <2>9
      <4> QED BY <2>8, <2>9, <2>10, <4>1
    <3>3. /\ \A k \in 1 .. m - 1 : r[k] = p[k]
          /\ r[m] = p[m] \o q[1]
          /\ \A k \in 2 .. n : r[m + k - 1] = q[k]
      BY <2>1 DEF IsJoined
    <3> HIDE DEF m, n
    <3>4. Len(r2) = m + Len(q2) - 1 BY <2>9, <3>1, <3>2
    <3>5. \A k \in 1 .. m - 1 : r2[k] = p[k]
      <4>1. \A k \in 1 .. m - 1 : k \in 1 .. m + n - 1 BY <2>9
      <4> QED BY <3>2, <3>3, <4>1
    <3>6. r2[m] = p[m] \o q2[1]
      <4>1. m \in 1 .. m + n - 1 /\ 1 \in 1 .. n BY <2>9
      <4> QED BY <3>1, <3>2, <3>3, <4>1
    <3>7. \A k \in 2 .. Len(q2) : r2[m + k - 1] = q2[k]
      <4> TAKE k \in 2 .. Len(q2)
      <4>1. CASE k = n + 1
        <5>1. m + k - 1 = m + n BY <2>9, <4>1
        <5> QED BY <3>1, <3>2, <4>1, <5>1
      <4>2. CASE k \in 2 .. n
        <5>1. m + k - 1 \in 1 .. m + n - 1 /\ k \in 1 .. n BY <2>9, <4>2
        <5> QED BY <3>1, <3>2, <3>3, <4>2, <5>1
      <4> QED BY <2>9, <3>1, <4>1, <4>2
    <3>8. IsJoined(r2, p, q2) BY <3>4, <3>5, <3>6, <3>7 DEF IsJoined, m
    <3> QED BY <2>2, <2>5, <2>6, <3>8 DEF P, p
  <2>11. CASE x # "nl"
    <3>1. Len(q2) = n /\ q2[n] = Append(q[n], x) /\ \A i \in 1 .. n - 1 : q2[i] = q[i] BY <2>7, <2>11
    <3>2. Len(r2) = m + n - 1 /\ r2[m + n - 1] = Append(r[m + n - 1], x) /\ \A i \in 1 .. m + n - 2 : r2[i] = r[i]
      <4>1. Len(r) - 1 = m + n - 2 BY <2>9
      <4> QED BY <2>8, <2>9, <2>11, <4>1
    <3>3. /\ \A k \in 1 .. m - 1 : r[k] = p[k]
          /\ r[m] = p[m] \o q[1]
          /\ \A k \in 2 .. n : r[m + k - 1] = q[k]
      BY <2>1 DEF IsJoined
    <3>4. p[m] \in Seq(Byte) /\ q[1] \in Seq(Byte) BY <1>2, <2>7
    <3> HIDE DEF m, n
    <3>5. Len(r2) = m + Len(q2) - 1 BY <2>9, <3>1, <3>2
    <3>6. \A k \in 1 .. m - 1 : r2[k] = p[k]
      <4>1. \A k \in 1 .. m - 1 : k \in 1 .. m + n - 2 BY <2>9
      <4> QED BY <3>2, <3>3, <4>1
    <3>7. r2[m] = p[m] \o q2[1]
      <4>1. CASE n = 1
        <5> DEFINE y == p[m]
                   z == q[1]
        <5>1. y \in Seq(Byte) /\ z \in Seq(Byte) BY <3>4
        <5> HIDE DEF y, z
        <5>2. y \o Append(z, x) = Append(y \o z, x) BY <5>1, ConcatAppend
        <5>3. m + n - 1 = m BY <2>9, <4>1
        <5> QED BY <3>1, <3>2, <3>3, <4>1, <5>2, <5>3 DEF y, z
      <4>2. CASE n # 1
        <5>1. m \in 1 .. m + n - 2 /\ 1 \in 1 .. n - 1 BY <2>9, <4>2
        <5> QED BY <3>1, <3>2, <3>3, <5>1
      <4> QED BY <4>1, <4>2
    <3>8. \A k \in 2 .. Len(q2) : r2[m + k - 1] = q2[k]
      <4> TAKE k \in 2 .. Len(q2)
      <4>1. CASE k = n
        <5>1. n \in 2 .. n BY <3>1, <4>1
        <5>2. m + k - 1 = m + n - 1 BY <4>1
        <5> QED BY <3>1, <3>2, <3>3, <4>1, <5>1, <5>2
      <4>2. CASE k \in 2 .. n - 1
        <5>1. m + k - 1 \in 1 .. m + n - 2 /\ k \in 1 .. n - 1 /\ k \in 2 .. n BY <2>9, <4>2
        <5> QED BY <3>1, <3>2, <3>3, <5>1
      <4> QED BY <2>9, <3>1, <4>1, <4>2
    <3>9. IsJoined(r2, p, q2) BY <3>5, <3>6, <3>7, <3>8 DEF IsJoined, m
    <3> QED BY <2>2, <2>5, <2>6, <3>9 DEF P, p
  <2> QED BY <2>10, <2>11
<1>5. P \in SUBSET Seq(Byte) OBVIOUS
<1> HIDE DEF P
<1>6. P = Seq(Byte) BY <1>3, <1>4, <1>5, SeqInduction
<1> QED BY <1>6 DEF P
-----------------------------------------------------------------------------
(* The lines of what was read *)

TextOf(bytes) == [k \in DOMAIN Pieces(bytes) |-> Decoded(Pieces(bytes)[k])]

Clean(text) == \A i \in 1 .. Len(text) : text[i] # "?"

LEMMA TextOfType ==
    ASSUME NEW b \in Seq(Byte)
    PROVE  /\ TextOf(b) \in Seq(Seq(Char)) /\ Len(TextOf(b)) = Len(Pieces(b)) /\ Len(TextOf(b)) \in Nat \ {0}
           /\ \A k \in 1 .. Len(Pieces(b)) : Pieces(b)[k] \in Seq(Byte) /\ TextOf(b)[k] = Decoded(Pieces(b)[k])
           /\ \A k \in 1 .. Len(TextOf(b)) : TextOf(b)[k] \in Seq(Char)
<1> DEFINE p == Pieces(b)
           N == Len(p)
           t == [k \in 1 .. N |-> Decoded(p[k])]
<1>1. p \in Seq(Seq(Byte)) /\ p # <<>> BY PiecesSome DEF Some
<1> HIDE DEF p
<1>2. N \in Nat \ {0} /\ DOMAIN p = 1 .. N /\ \A k \in 1 .. N : p[k] \in Seq(Byte) BY <1>1, EmptySeq
<1>3. \A k \in 1 .. N : Decoded(p[k]) \in Seq(Char) BY <1>2, DecodedType
<1> HIDE DEF N
<1>4. t \in Seq(Seq(Char)) /\ Len(t) = N /\ \A k \in 1 .. N : t[k] = Decoded(p[k]) BY <1>2, <1>3
<1>5. TextOf(b) = t BY <1>2 DEF TextOf, p
<1> HIDE DEF t
<1> QED BY <1>2, <1>3, <1>4, <1>5 DEF N, p

LEMMA TextLonger ==
    ASSUME NEW a \in Seq(Byte), NEW b \in Seq(Byte)
    PROVE  /\ a \o b \in Seq(Byte) /\ Len(TextOf(a \o b)) = Len(TextOf(a)) + Len(TextOf(b)) - 1
           /\ Clean(TextOf(a)[Len(TextOf(a))]) => IsJoined(TextOf(a \o b), TextOf(a), TextOf(b))
<1> DEFINE c == a \o b
           p == Pieces(a)
           q == Pieces(b)
           r == Pieces(c)
           P == TextOf(a)
           Q == TextOf(b)
           R == TextOf(c)
<1>1. c \in Seq(Byte) /\ IsJoined(r, p, q) BY ConcatProperties, PiecesConcat
<1>2. Len(P) = Len(p) /\ Len(P) \in Nat \ {0} /\ \A k \in 1 .. Len(p) : p[k] \in Seq(Byte) /\ P[k] = Decoded(p[k])
  BY TextOfType
<1>3. Len(Q) = Len(q) /\ Len(Q) \in Nat \ {0} /\ \A k \in 1 .. Len(q) : q[k] \in Seq(Byte) /\ Q[k] = Decoded(q[k])
  BY TextOfType
<1>4. Len(R) = Len(r) /\ Len(R) \in Nat \ {0} /\ \A k \in 1 .. Len(r) : r[k] \in Seq(Byte) /\ R[k] = Decoded(r[k])
  <2>1. c \in Seq(Byte) BY <1>1
  <2> HIDE DEF c
  <2> QED BY <2>1, TextOfType
<1> HIDE DEF c, p, q, r, P, Q, R
<1>5. Len(r) = Len(p) + Len(q) - 1 BY <1>1 DEF IsJoined
<1>6. Len(R) = Len(P) + Len(Q) - 1 BY <1>2, <1>3, <1>4, <1>5
<1>7. ASSUME Clean(P[Len(P)]) PROVE IsJoined(R, P, Q)
  <2> DEFINE m == Len(p)
             n == Len(q)
  <2>1. m \in Nat \ {0} /\ n \in Nat \ {0} /\ Len(r) = m + n - 1 BY <1>2, <1>3, <1>5
  <2>2. /\ \A k \in 1 .. m - 1 : r[k] = p[k]
        /\ r[m] = p[m] \o q[1]
        /\ \A k \in 2 .. n : r[m + k - 1] = q[k]
    BY <1>1 DEF IsJoined
  <2> HIDE DEF m, n
  <2>3. /\ \A k \in 1 .. m : P[k] = Decoded(p[k]) /\ p[k] \in Seq(Byte)
        /\ \A k \in 1 .. n : Q[k] = Decoded(q[k]) /\ q[k] \in Seq(Byte)
        /\ \A k \in 1 .. m + n - 1 : R[k] = Decoded(r[k])
    BY <1>2, <1>3, <1>4, <2>1 DEF m, n
  <2>4. \A k \in 1 .. m - 1 : R[k] = P[k]
    <3>1. \A k \in 1 .. m - 1 : k \in 1 .. m /\ k \in 1 .. m + n - 1 BY <2>1
    <3> QED BY <2>2, <2>3, <3>1
  <2>5. R[m] = P[m] \o Q[1]
    <3>1. m \in 1 .. m /\ m \in 1 .. m + n - 1 /\ 1 \in 1 .. n BY <2>1
    <3> DEFINE y == p[m]
               z == q[1]
    <3>2. y \in Seq(Byte) /\ z \in Seq(Byte) BY <2>3, <3>1
    <3>3. P[m] = Decoded(y) /\ Q[1] = Decoded(z) /\ R[m] = Decoded(y \o z) BY <2>2, <2>3, <3>1
    <3>4. Clean(P[m]) BY <1>2, <1>7 DEF m
    <3> HIDE DEF y, z
    <3>5. \A i \in 1 .. Len(Decoded(y)) : Decoded(y)[i] # "?" BY <3>3, <3>4 DEF Clean
    <3>6. Decoded(y \o z) = Decoded(y) \o Decoded(z) BY <3>2, <3>5, DecodedConcat
    <3> QED BY <3>3, <3>6
  <2>6. \A k \in 2 .. n : R[m + k - 1] = Q[k]
    <3>1. \A k \in 2 .. n : k \in 1 .. n /\ m + k - 1 \in 1 .. m + n - 1 BY <2>1
    <3> QED BY <2>2, <2>3, <3>1
  <2> QED BY <1>2, <1>3, <1>6, <2>4, <2>5, <2>6 DEF IsJoined, m, n
<1> QED BY <1>1, <1>6, <1>7 DEF c, P, Q, R

\* The lines of the chunk go after those before it.
LEMMA TextGrows ==
    ASSUME NEW p \in Seq(Seq(Char)), NEW q \in Seq(Seq(Char)), NEW r \in Seq(Seq(Char)), NEW w \in Seq(Seq(Char)),
           Len(p) \in Nat \ {0}, Len(q) \in Nat \ {0}, IsJoined(r, p, q),
           Len(w) = Len(q) - 1, Len(q) = 1 => p[Len(p)] = <<>>,
           \A k \in 1 .. Len(w) : w[k] = IF k = 1 THEN p[Len(p)] \o q[1] ELSE q[k]
    PROVE  Front(p) \o w = Front(r) /\ Last(q) = Last(r)
<1> DEFINE m == Len(p)
           n == Len(q)
           f == Front(p)
           g == Front(r)
           s == f \o w
<1>1. m \in Nat \ {0} /\ n \in Nat \ {0} /\ Len(r) = m + n - 1 /\ Len(w) = n - 1 BY DEF IsJoined
<1>2. p # <<>> /\ q # <<>> /\ r # <<>> BY <1>1, EmptySeq
<1>3. f \in Seq(Seq(Char)) /\ Len(f) = m - 1 /\ \A i \in 1 .. m - 1 : f[i] = p[i] BY <1>2, FrontSeq
<1>4. g \in Seq(Seq(Char)) /\ Len(g) = m + n - 2 /\ \A i \in 1 .. m + n - 2 : g[i] = r[i]
  <2>1. g \in Seq(Seq(Char)) /\ Len(g) = Len(r) - 1 /\ \A i \in 1 .. Len(r) - 1 : g[i] = r[i] BY <1>2, FrontSeq
  <2>2. Len(r) - 1 = m + n - 2 BY <1>1
  <2> QED BY <2>1, <2>2
<1>5. /\ \A k \in 1 .. m - 1 : r[k] = p[k]
      /\ r[m] = p[m] \o q[1]
      /\ \A k \in 2 .. n : r[m + k - 1] = q[k]
  BY DEF IsJoined
<1>6. s \in Seq(Seq(Char)) /\ Len(s) = m + n - 2
      /\ \A i \in 1 .. m + n - 2 : s[i] = IF i <= m - 1 THEN f[i] ELSE w[i - (m - 1)]
  <2>1. f \in Seq(Seq(Char)) /\ Len(f) = m - 1 BY <1>3
  <2> HIDE DEF f
  <2>2. s \in Seq(Seq(Char)) /\ Len(s) = Len(f) + Len(w)
        /\ \A i \in 1 .. Len(f) + Len(w) : s[i] = IF i <= Len(f) THEN f[i] ELSE w[i - Len(f)]
    BY <2>1, ConcatProperties
  <2>3. Len(f) + Len(w) = m + n - 2 BY <1>1, <2>1
  <2> QED BY <2>1, <2>2, <2>3
<1>7. \A k \in 1 .. n - 1 : w[k] = IF k = 1 THEN p[m] \o q[1] ELSE q[k] BY <1>1
<1>8. Last(q) = q[n] /\ Last(r) = r[m + n - 1] BY <1>1 DEF Last
<1>9. n = 1 => r[m] = q[1]
  <2> SUFFICES ASSUME n = 1 PROVE r[m] = q[1]
    OBVIOUS
  <2> DEFINE z == q[1]
  <2>1. z \in Seq(Char)
    <3>1. 1 \in 1 .. Len(q) BY <1>1
    <3>2. \A i \in 1 .. Len(q) : q[i] \in Seq(Char) BY ElementOfSeq
    <3> QED BY <3>1, <3>2
  <2> HIDE DEF z
  <2>2. <<>> \o z = z BY <2>1, ConcatEmptySeq
  <2>3. p[m] = <<>> OBVIOUS
  <2> QED BY <1>5, <2>2, <2>3 DEF z
<1> HIDE DEF m, n, f, g, s
<1>10. \A i \in 1 .. m + n - 2 : s[i] = g[i]
  <2> TAKE i \in 1 .. m + n - 2
  <2>1. CASE i \in 1 .. m - 1
    <3>1. s[i] = f[i] /\ f[i] = p[i] /\ g[i] = r[i] /\ r[i] = p[i] BY <1>3, <1>4, <1>5, <1>6, <2>1
    <3> QED BY <3>1
  <2>2. CASE i = m
    <3>1. i - (m - 1) = 1 /\ ~(i <= m - 1) /\ 1 \in 1 .. n - 1
      <4>1. m \in Nat /\ n \in Nat /\ i \in 1 .. m + n - 2 BY <1>1
      <4> QED BY <2>2, <4>1
    <3>2. s[i] = w[1] BY <1>6, <3>1
    <3> QED BY <1>4, <1>5, <1>7, <2>2, <3>1, <3>2
  <2>3. CASE i > m
    <3> DEFINE k == i - m + 1
    <3>1. i - (m - 1) = k /\ ~(i <= m - 1) /\ k \in 1 .. n - 1 /\ k \in 2 .. n /\ m + k - 1 = i /\ k # 1 BY <1>1, <2>3
    <3> HIDE DEF k
    <3>2. s[i] = w[k] BY <1>6, <3>1
    <3>3. w[k] = q[k] BY <1>7, <3>1
    <3>4. r[i] = q[k] BY <1>5, <3>1
    <3> QED BY <1>4, <3>2, <3>3, <3>4
  <2> QED BY <1>1, <2>1, <2>2, <2>3
<1>11. s = g BY <1>4, <1>6, <1>10, SeqEqual
<1>12. Last(q) = Last(r)
  <2>1. n # 1 => n \in 2 .. n /\ m + n - 1 \in Nat BY <1>1
  <2>2. n = 1 => m + n - 1 = m BY <1>1
  <2> QED BY <1>5, <1>8, <1>9, <2>1, <2>2
<1> QED BY <1>11, <1>12 DEF s, f, g
-----------------------------------------------------------------------------
(* The stream of a session *)

\* The messages are the answers and, at the end of the stream, what was left
\* of a partial one; as long as no text was torn none is waiting within a
\* character.
LineIInv ==
    /\ LineTypeOK /\ LineInv
    /\ stream = "reading" => Len(messages) = Len(Spoken(handled))
    /\ stream = "complete" => batch = <<>> /\ Len(Spoken(handled)) <= Len(messages)
    /\ ~torn => Clean(partial)

LEMMA OfKindAppend ==
    ASSUME NEW lines \in Seq(Seq(Char)), NEW line \in Seq(Char), NEW kinds
    PROVE  /\ OfKind(lines, kinds) \in Seq(Seq(Char))
           /\ OfKind(Append(lines, line), kinds)
                = IF Kind(line) \in kinds THEN Append(OfKind(lines, kinds), line) ELSE OfKind(lines, kinds)
<1> DEFINE S == {x \in Seq(Char) : Kind(x) \in kinds}
<1>1. line \in S <=> Kind(line) \in kinds OBVIOUS
<1> HIDE DEF S
<1>2. OnlyIn(Append(lines, line), S) = IF line \in S THEN Append(OnlyIn(lines, S), line) ELSE OnlyIn(lines, S)
  BY OnlyInAppend
<1>3. OnlyIn(lines, S) \in Seq(Seq(Char)) BY OnlyInSet
<1> QED BY <1>1, <1>2, <1>3 DEF OfKind, S

LEMMA TailLine == ASSUME NEW line \in Seq(Char), Kind(line) # "blank" PROVE line # <<>> /\ Tail(line) \in Seq(Char)
<1>1. line # <<>> BY DEF Kind
<1> QED BY <1>1, HeadTailProperties

LEMMA LineStart == LineInit => LineIInv
<1> SUFFICES ASSUME LineInit PROVE LineIInv
  OBVIOUS
<1>1. unread \in Seq(Byte) BY LineAssumption DEF LineInit
<1>2. LineTypeOK
  <2>1. <<>> \in Seq(Byte) /\ <<>> \in Seq(Char) /\ <<>> \in Seq(Seq(Char)) /\ 0 \in Nat BY EmptySeq
  <2> DEFINE none == <<>>
  <2>2. partial = none /\ batch = none /\ current = none /\ messages = none /\ read = none /\ handled = none
        /\ failed = 0 /\ stream = "reading" /\ torn = FALSE
    BY DEF LineInit
  <2> HIDE DEF none
  <2>3. none \in Seq(Byte) /\ none \in Seq(Char) /\ none \in Seq(Seq(Char)) BY <2>1 DEF none
  <2> QED BY <1>1, <2>1, <2>2, <2>3 DEF LineTypeOK
<1>3. Lines = << <<>> >>
  <2>1. DOMAIN << <<>> >> = 1 .. 1 /\ << <<>> >>[1] = <<>> OBVIOUS
  <2>2. read = <<>> BY DEF LineInit
  <2> QED BY <2>1, <2>2, PiecesEmpty, DecodedEmpty DEF Lines
<1>4. handled = <<>> /\ \A kinds : OfKind(handled, kinds) = <<>> BY OnlyInEmpty DEF LineInit, OfKind
<1>5. Spoken(handled) = <<>> BY <1>4 DEF Spoken
<1>6. Len(<<>>) = 0 /\ DOMAIN <<>> = {} /\ <<>> \o <<>> = <<>> OBVIOUS
<1>7. Front(<< <<>> >>) = <<>> /\ Last(<< <<>> >>) = <<>> /\ Len(<< <<>> >>) = 1
  <2>1. Append(<<>>, <<>>) = << <<>> >> OBVIOUS
  <2> DEFINE s == <<>>
             x == <<>>
  <2>2. s \in Seq(Seq(Char)) /\ x \in Seq(Char) OBVIOUS
  <2> HIDE DEF s, x
  <2>3. Front(Append(s, x)) = s /\ Last(Append(s, x)) = x BY <2>2, FrontAppend
  <2> QED BY <2>1, <2>3 DEF s, x
<1>8. LineInv BY <1>3, <1>4, <1>5, <1>6, <1>7 DEF LineInv, LineInit
<1>9. Clean(partial) BY <1>6 DEF LineInit, Clean
<1> QED BY <1>2, <1>5, <1>6, <1>8, <1>9 DEF LineIInv, LineInit

LEMMA HandleLineStep == LineIInv /\ HandleLine => LineIInv'
<1> SUFFICES ASSUME LineIInv, HandleLine PROVE LineIInv'
  OBVIOUS
<1> DEFINE line == Head(batch)
           rest == Tail(batch)
           said == Spoken(handled)
           bad == OfKind(handled, {"text", "status"})
<1>1. batch \in Seq(Seq(Char)) /\ batch # <<>> /\ handled \in Seq(Seq(Char)) /\ messages \in Seq(Seq(Char))
      /\ current \in Seq(Char) /\ failed \in Nat
  BY DEF LineIInv, LineTypeOK, HandleLine
<1>2. /\ batch' = rest /\ handled' = Append(handled, line)
      /\ current' = CASE Kind(line) = "partial" -> current \o Tail(line) [] Kind(line) = "response" -> <<>> [] OTHER -> current
      /\ messages' = IF Kind(line) = "response" THEN Append(messages, Tail(line)) ELSE messages
      /\ failed' = IF Kind(line) \in {"text", "status"} THEN failed + 1 ELSE failed
      /\ unread' = unread /\ partial' = partial /\ stream' = stream /\ read' = read /\ torn' = torn
  BY DEF HandleLine
<1>3. line \in Seq(Char) /\ rest \in Seq(Seq(Char)) /\ Len(rest) = Len(batch) - 1
  BY <1>1, HeadTailProperties
<1>4. stream = "reading" /\ Len(messages) = Len(said) BY <1>1 DEF LineIInv, LineTypeOK
<1>5. /\ Len(handled) + Len(batch) = Len(Lines) - 1
      /\ ~torn => handled \o batch = Front(Lines) /\ partial = Last(Lines)
      /\ \A k \in DOMAIN said : messages[k] = Tail(said[k])
      /\ failed = Len(bad)
  BY DEF LineIInv, LineInv
<1>6. said \in Seq(Seq(Char)) /\ Spoken(Append(handled, line)) = IF Kind(line) = "response" THEN Append(said, line) ELSE said
  <2> HIDE DEF line
  <2>1. OfKind(handled, {"response"}) \in Seq(Seq(Char))
        /\ OfKind(Append(handled, line), {"response"})
             = IF Kind(line) \in {"response"} THEN Append(OfKind(handled, {"response"}), line) ELSE OfKind(handled, {"response"})
    BY <1>1, <1>3, OfKindAppend
  <2> QED BY <2>1 DEF Spoken
<1>7. bad \in Seq(Seq(Char)) /\ OfKind(Append(handled, line), {"text", "status"})
                                  = IF Kind(line) \in {"text", "status"} THEN Append(bad, line) ELSE bad
  <2> HIDE DEF line
  <2> QED BY <1>1, <1>3, OfKindAppend
<1>8. Len(Append(handled, line)) = Len(handled) + 1 /\ Append(handled, line) \in Seq(Seq(Char)) /\ Len(handled) \in Nat
  <2> HIDE DEF line
  <2> QED BY <1>1, <1>3, AppendProperties
<1>9. Append(handled, line) \o rest = handled \o batch
  <2>1. batch = <<line>> \o rest
    <3> DEFINE s == <<line>> \o rest
    <3>1. <<line>> \in Seq(Seq(Char)) /\ Len(<<line>>) = 1 /\ <<line>>[1] = line BY <1>3
    <3> HIDE DEF rest, line
    <3>2. s \in Seq(Seq(Char)) /\ Len(s) = 1 + Len(rest)
          /\ \A i \in 1 .. 1 + Len(rest) : s[i] = IF i <= 1 THEN <<line>>[i] ELSE rest[i - 1]
      BY <1>3, <3>1, ConcatProperties
    <3> HIDE DEF s
    <3>3. line = batch[1] /\ \A i \in 1 .. Len(rest) : rest[i] = batch[i + 1] BY <1>1, HeadTailProperties DEF line, rest
    <3>4. Len(batch) \in Nat \ {0} BY <1>1, EmptySeq
    <3>5. \A i \in 1 .. Len(batch) : batch[i] = s[i]
      <4> TAKE i \in 1 .. Len(batch)
      <4>1. CASE i = 1 BY <1>3, <3>1, <3>2, <3>3, <3>4, <4>1
      <4>2. CASE i # 1
        <5>1. i - 1 \in 1 .. Len(rest) /\ (i - 1) + 1 = i /\ i \in 1 .. 1 + Len(rest) /\ ~(i <= 1) BY <1>3, <3>4, <4>2
        <5> QED BY <3>2, <3>3, <5>1
      <4> QED BY <4>1, <4>2
    <3>6. Len(batch) = Len(s) BY <1>3, <3>2, <3>4
    <3>7. batch = s BY <1>1, <3>2, <3>5, <3>6, SeqEqual
    <3> QED BY <3>7 DEF s
  <2> DEFINE one == <<line>>
  <2>2. one \in Seq(Seq(Char)) BY <1>3
  <2>3. Append(handled, line) = handled \o one
    <3> HIDE DEF line
    <3> QED BY <1>1, <1>3, AppendIsConcat
  <2>4. batch = one \o rest BY <2>1
  <2> DEFINE h == handled
  <2>5. h \in Seq(Seq(Char)) /\ rest \in Seq(Seq(Char)) BY <1>1, <1>3
  <2> HIDE DEF one, rest, h
  <2>6. (h \o one) \o rest = h \o (one \o rest) BY <2>2, <2>5, ConcatAssociative
  <2> QED BY <2>3, <2>4, <2>6 DEF h
<1>10. Lines' = Lines BY <1>2 DEF Lines
<1>11. LineTypeOK'
  <2>1. current' \in Seq(Char)
    <3> HIDE DEF line
    <3>1. CASE Kind(line) = "partial"
      <4> DEFINE t == Tail(line)
      <4>1. t \in Seq(Char) BY <1>3, <3>1, TailLine
      <4> HIDE DEF t
      <4>2. current \o t \in Seq(Char) BY <1>1, <4>1, ConcatProperties
      <4> QED BY <1>2, <3>1, <4>2 DEF t
    <3>2. CASE Kind(line) # "partial" BY <1>1, <1>2, <3>2
    <3> QED BY <3>1, <3>2
  <2>2. messages' \in Seq(Seq(Char))
    <3> HIDE DEF line
    <3>1. CASE Kind(line) = "response"
      <4> DEFINE t == Tail(line)
      <4>1. t \in Seq(Char) BY <1>3, <3>1, TailLine
      <4> HIDE DEF t
      <4>2. Append(messages, t) \in Seq(Seq(Char)) BY <1>1, <4>1, AppendProperties
      <4> QED BY <1>2, <3>1, <4>2 DEF t
    <3>2. CASE Kind(line) # "response" BY <1>1, <1>2, <3>2
    <3> QED BY <3>1, <3>2
  <2>3. failed' \in Nat
    <3>1. failed \in Nat BY <1>1
    <3>2. failed' = failed + 1 \/ failed' = failed BY <1>2
    <3> QED BY <3>1, <3>2
  <2>4. handled' \in Seq(Seq(Char)) /\ batch' \in Seq(Seq(Char)) BY <1>2, <1>3, <1>8
  <2> QED BY <1>2, <2>1, <2>2, <2>3, <2>4 DEF LineIInv, LineTypeOK
<1>12. LineInv' /\ Len(messages') = Len(Spoken(handled)')
  <2>1. Spoken(handled)' = Spoken(Append(handled, line)) /\ OfKind(handled, {"text", "status"})' = OfKind(Append(handled, line), {"text", "status"})
    BY <1>2 DEF Spoken, OfKind
  <2>2. Len(handled') + Len(batch') = Len(Lines') - 1
    <3>1. Len(batch) \in Nat /\ Len(batch') = Len(batch) - 1 BY <1>1, <1>2, <1>3
    <3>2. Len(handled') = Len(handled) + 1 BY <1>2, <1>8
    <3>3. Len(Lines') - 1 = Len(handled) + Len(batch) BY <1>5, <1>10
    <3> QED BY <1>8, <3>1, <3>2, <3>3
  <2>3. ~torn' => handled' \o batch' = Front(Lines') /\ partial' = Last(Lines') BY <1>2, <1>5, <1>9, <1>10
  <2>4. failed' = Len(OfKind(handled, {"text", "status"})')
    <3> HIDE DEF line, bad
    <3>1. Len(Append(bad, line)) = Len(bad) + 1 BY <1>3, <1>7, AppendProperties
    <3> QED BY <1>2, <1>5, <1>7, <2>1, <3>1
  <2>5. (\A k \in DOMAIN Spoken(handled)' : messages'[k] = Tail(Spoken(handled)'[k])) /\ Len(messages') = Len(Spoken(handled)')
    <3> HIDE DEF line, said
    <3>1. CASE Kind(line) = "response"
      <4> DEFINE t == Tail(line)
      <4>1. t \in Seq(Char) BY <1>3, <3>1, TailLine
      <4>2. messages' = Append(messages, t) /\ Spoken(handled)' = Append(said, line) BY <1>2, <1>6, <2>1, <3>1
      <4> HIDE DEF t
      <4>3. /\ Len(Append(messages, t)) = Len(messages) + 1 /\ Append(messages, t)[Len(messages) + 1] = t
            /\ \A i \in 1 .. Len(messages) : Append(messages, t)[i] = messages[i]
        BY <1>1, <4>1, AppendProperties
      <4>4. /\ Len(Append(said, line)) = Len(said) + 1 /\ Append(said, line)[Len(said) + 1] = line
            /\ (\A i \in 1 .. Len(said) : Append(said, line)[i] = said[i]) /\ Append(said, line) \in Seq(Seq(Char))
        BY <1>3, <1>6, AppendProperties
      <4>5. DOMAIN Append(said, line) = 1 .. Len(said) + 1 /\ DOMAIN said = 1 .. Len(said) /\ Len(said) \in Nat BY <1>6, <4>4
      <4>6. ASSUME NEW k \in 1 .. Len(said) + 1 PROVE Append(messages, t)[k] = Tail(Append(said, line)[k])
        <5>1. CASE k = Len(said) + 1
          <6>1. Append(messages, t)[k] = t /\ Append(said, line)[k] = line BY <1>4, <4>3, <4>4, <5>1
          <6> QED BY <6>1 DEF t
        <5>2. CASE k \in 1 .. Len(said)
          <6>1. Append(messages, t)[k] = messages[k] /\ Append(said, line)[k] = said[k] BY <1>4, <4>3, <4>4, <5>2
          <6> QED BY <1>5, <4>5, <5>2, <6>1
        <5>3. k = Len(said) + 1 \/ k \in 1 .. Len(said)
          <6>1. Len(said) \in Nat BY <4>5
          <6> QED BY <6>1
        <5> QED BY <5>1, <5>2, <5>3
      <4> QED BY <1>4, <4>2, <4>3, <4>4, <4>5, <4>6
    <3>2. CASE Kind(line) # "response" BY <1>2, <1>4, <1>5, <1>6, <2>1, <3>2
    <3> QED BY <3>1, <3>2
  <2> QED BY <2>2, <2>3, <2>4, <2>5 DEF LineInv
<1>13. stream' = "reading" BY <1>2, <1>4
<1>14. ~torn' => Clean(partial') BY <1>2 DEF LineIInv
<1> QED BY <1>11, <1>12, <1>13, <1>14 DEF LineIInv

LEMMA StreamCompleteStep == LineIInv /\ StreamComplete => LineIInv'
<1> SUFFICES ASSUME LineIInv, StreamComplete PROVE LineIInv'
  OBVIOUS
<1> DEFINE said == Spoken(handled)
<1>1. /\ stream = "reading" /\ batch = <<>> /\ stream' = "complete" /\ current' = <<>>
      /\ messages' = IF current = <<>> THEN messages ELSE Append(messages, current)
      /\ unread' = unread /\ partial' = partial /\ batch' = batch /\ failed' = failed
      /\ read' = read /\ handled' = handled /\ torn' = torn
  BY DEF StreamComplete
<1>2. messages \in Seq(Seq(Char)) /\ current \in Seq(Char) /\ handled \in Seq(Seq(Char)) BY DEF LineIInv, LineTypeOK
<1>3. /\ Append(messages, current) \in Seq(Seq(Char)) /\ Len(Append(messages, current)) = Len(messages) + 1
      /\ \A i \in 1 .. Len(messages) : Append(messages, current)[i] = messages[i]
  BY <1>2, AppendProperties
<1>4. LineTypeOK' BY <1>1, <1>2, <1>3 DEF LineIInv, LineTypeOK
<1>5. Len(messages) = Len(said) BY <1>1 DEF LineIInv
<1>6. DOMAIN said = 1 .. Len(messages) /\ Len(messages) \in Nat
  <2>1. said \in Seq(Seq(Char))
    <3> DEFINE S == {x \in Seq(Char) : Kind(x) \in {"response"}}
    <3> HIDE DEF S
    <3>1. OnlyIn(handled, S) \in Seq(Seq(Char)) BY <1>2, OnlyInSet
    <3> QED BY <3>1 DEF S, Spoken, OfKind
  <2> HIDE DEF said
  <2> QED BY <1>5, <2>1
<1>7. \A k \in DOMAIN said : messages'[k] = messages[k] BY <1>1, <1>3, <1>6
<1>8. Len(messages) <= Len(messages') BY <1>1, <1>3, <1>6
<1>9. Lines' = Lines /\ Spoken(handled)' = said /\ OfKind(handled, {"text", "status"})' = OfKind(handled, {"text", "status"})
  BY <1>1 DEF Lines, Spoken, OfKind
<1>10. LineInv'
  <2>1. \A k \in DOMAIN said : messages'[k] = Tail(said[k]) BY <1>7 DEF LineIInv, LineInv
  <2> HIDE DEF said
  <2> QED BY <1>1, <1>9, <2>1 DEF LineIInv, LineInv
<1>11. ~torn' => Clean(partial') BY <1>1 DEF LineIInv
<1> QED BY <1>1, <1>4, <1>5, <1>8, <1>9, <1>10, <1>11 DEF LineIInv

\* A line that is cut short still is one.
LEMMA TruncatedLine ==
    ASSUME NEW line \in Seq(Char)
    PROVE  Truncated(line) \in Seq(Char) /\ (Len(line) <= MaxLine => Truncated(line) = line)
<1>1. Len(line) \in Nat /\ MaxLine \in Nat BY LineAssumption
<1>2. CASE Len(line) > MaxLine
  <2> DEFINE s == SubSeq(line, 1, MaxLine)
  <2>1. \A i \in 1 .. MaxLine : line[i] \in Char BY <1>1, <1>2
  <2>2. s \in Seq(Char) BY <1>1, <2>1, SubSeqProperties
  <2>3. <<"cut">> \in Seq(Char)
    <3>1. "cut" \in Char BY DEF Char
    <3> QED BY <3>1
  <2> DEFINE e == <<"cut">>
  <2>4. Truncated(line) = s \o e BY <1>2 DEF Truncated
  <2>5. e \in Seq(Char) BY <2>3
  <2> HIDE DEF s, e
  <2>6. s \o e \in Seq(Char) BY <2>2, <2>5, ConcatProperties
  <2> QED BY <1>1, <1>2, <2>4, <2>6
<1>3. CASE ~(Len(line) > MaxLine) BY <1>3 DEF Truncated
<1> QED BY <1>2, <1>3

LEMMA ReadChunkStep == LineIInv /\ ReadChunk => LineIInv'
<1> SUFFICES ASSUME LineIInv, ReadChunk PROVE LineIInv'
  OBVIOUS
<1>1. /\ unread \in Seq(Byte) /\ read \in Seq(Byte) /\ partial \in Seq(Char) /\ torn \in BOOLEAN
      /\ handled \in Seq(Seq(Char)) /\ messages \in Seq(Seq(Char)) /\ current \in Seq(Char) /\ failed \in Nat
  BY DEF LineIInv, LineTypeOK
<1>2. /\ stream = "reading" /\ batch = <<>>
      /\ current' = current /\ messages' = messages /\ failed' = failed /\ stream' = stream /\ handled' = handled
  BY DEF ReadChunk
<1>3. PICK n \in 1 .. ChunkSize : /\ n <= Len(unread)
                                  /\ read' = read \o SubSeq(unread, 1, n) /\ unread' = SubSeq(unread, n + 1, Len(unread))
                                  /\ Extract(SubSeq(unread, 1, n))
  BY DEF ReadChunk
<1> DEFINE chunk == SubSeq(unread, 1, n)
           left == SubSeq(unread, n + 1, Len(unread))
<1>4. chunk \in Seq(Byte) /\ left \in Seq(Byte)
  <2>1. n \in Int /\ n + 1 \in Int /\ 1 \in Int /\ Len(unread) \in Int /\ n <= Len(unread) BY <1>1, <1>3, LineAssumption
  <2>2. (\A i \in 1 .. n : unread[i] \in Byte) /\ \A i \in n + 1 .. Len(unread) : unread[i] \in Byte
    <3>1. \A i \in 1 .. Len(unread) : unread[i] \in Byte BY <1>1
    <3>2. \A i \in 1 .. n : i \in 1 .. Len(unread) BY <2>1
    <3>3. \A i \in n + 1 .. Len(unread) : i \in 1 .. Len(unread) BY <2>1, <1>3
    <3> QED BY <3>1, <3>2, <3>3
  <2> DEFINE m == n + 1
  <2>3. m \in Int /\ \A i \in m .. Len(unread) : unread[i] \in Byte BY <2>1, <2>2
  <2>4. chunk \in Seq(Byte) BY <2>1, <2>2, SubSeqProperties
  <2> HIDE DEF m
  <2>5. SubSeq(unread, m, Len(unread)) \in Seq(Byte) BY <2>1, <2>3, SubSeqProperties
  <2> QED BY <2>4, <2>5 DEF m
<1>5. read' = read \o chunk /\ unread' = left /\ Extract(chunk) BY <1>3
<1> HIDE DEF chunk, left
<1> DEFINE p == TextOf(read)
           q == TextOf(chunk)
           r == TextOf(read \o chunk)
           whole == [k \in 1 .. Len(q) - 1 |-> IF k = 1 THEN partial \o q[1] ELSE q[k]]
<1>6. /\ batch' = [k \in DOMAIN whole |-> Truncated(whole[k])]
      /\ partial' = Last(q)
      /\ torn' = \/ torn \/ (whole = <<>> /\ partial # <<>>)
                 \/ "?" \in UNION {ToSet(x) : x \in ToSet(q)}
                 \/ \E k \in DOMAIN whole : Len(whole[k]) > MaxLine
  BY <1>5 DEF Extract, TextOf
<1>7. /\ p \in Seq(Seq(Char)) /\ Len(p) \in Nat \ {0}
      /\ q \in Seq(Seq(Char)) /\ Len(q) \in Nat \ {0} /\ \A k \in 1 .. Len(q) : q[k] \in Seq(Char)
  BY <1>1, <1>4, TextOfType
<1>8. read \o chunk \in Seq(Byte) /\ Len(r) = Len(p) + Len(q) - 1 /\ (Clean(p[Len(p)]) => IsJoined(r, p, q))
  BY <1>1, <1>4, TextLonger
<1>9. r \in Seq(Seq(Char))
  <2> DEFINE c == read \o chunk
  <2>1. c \in Seq(Byte) BY <1>8
  <2> HIDE DEF c
  <2>2. TextOf(c) \in Seq(Seq(Char)) BY <2>1, TextOfType
  <2> QED BY <2>2 DEF c
<1>10. Lines = p /\ Lines' = r BY <1>5 DEF Lines, TextOf
<1> HIDE DEF p, q, r
<1> DEFINE N == Len(q) - 1
<1>11. N \in Nat /\ DOMAIN whole = 1 .. N /\ \A k \in 1 .. N : whole[k] = IF k = 1 THEN partial \o q[1] ELSE q[k]
  BY <1>7
<1>12. \A k \in 1 .. N : whole[k] \in Seq(Char)
  <2> TAKE k \in 1 .. N
  <2> DEFINE z == q[1]
  <2>1. z \in Seq(Char) /\ q[k] \in Seq(Char)
    <3>1. 1 \in 1 .. Len(q) /\ k \in 1 .. Len(q) BY <1>7
    <3> QED BY <1>7, <3>1
  <2> HIDE DEF z, N, whole
  <2>2. partial \o z \in Seq(Char) BY <1>1, <2>1, ConcatProperties
  <2> QED BY <1>11, <2>1, <2>2 DEF z
<1> HIDE DEF whole
<1>13. /\ batch' \in Seq(Seq(Char)) /\ Len(batch') = N /\ DOMAIN batch' = 1 .. N
       /\ \A k \in 1 .. N : batch'[k] = Truncated(whole[k])
  <2> HIDE DEF N
  <2>1. \A k \in 1 .. N : Truncated(whole[k]) \in Seq(Char) BY <1>12, TruncatedLine
  <2> DEFINE t == [k \in 1 .. N |-> Truncated(whole[k])]
  <2>2. t \in Seq(Seq(Char)) /\ Len(t) = N /\ DOMAIN t = 1 .. N /\ \A k \in 1 .. N : t[k] = Truncated(whole[k])
    BY <1>11, <2>1
  <2>3. batch' = t BY <1>6, <1>11
  <2> HIDE DEF t
  <2> QED BY <2>2, <2>3
<1>14. Last(q) = q[Len(q)] /\ Len(q) \in 1 .. Len(q) BY <1>7 DEF Last
<1>15. partial' \in Seq(Char) BY <1>6, <1>7, <1>14
<1>16. LineTypeOK'
  <2>1. torn' \in BOOLEAN BY <1>6
  <2> QED BY <1>1, <1>2, <1>4, <1>5, <1>8, <1>13, <1>15, <2>1 DEF LineTypeOK, LineIInv
<1>17. ASSUME ~torn'
       PROVE  /\ ~torn /\ (N = 0 => partial = <<>>) /\ \A k \in 1 .. N : batch'[k] = whole[k]
              /\ \A k \in 1 .. Len(q) : Clean(q[k])
  <2>1. /\ ~torn /\ ~(whole = <<>> /\ partial # <<>>)
        /\ "?" \notin UNION {ToSet(x) : x \in ToSet(q)}
        /\ ~\E k \in DOMAIN whole : Len(whole[k]) > MaxLine
    BY <1>6, <1>17
  <2>2. N = 0 => whole = <<>>
    <3> SUFFICES ASSUME N = 0 PROVE whole = <<>>
      OBVIOUS
    <3>1. whole = [k \in 1 .. N |-> IF k = 1 THEN partial \o q[1] ELSE q[k]] BY DEF whole
    <3> HIDE DEF N, whole
    <3>2. 1 .. N = {} OBVIOUS
    <3> QED BY <3>1, <3>2
  <2>3. ASSUME NEW k \in 1 .. N PROVE batch'[k] = whole[k]
    <3>1. whole[k] \in Seq(Char) /\ k \in DOMAIN whole BY <1>11, <1>12
    <3> DEFINE z == whole[k]
    <3>2. z \in Seq(Char) /\ Len(z) \in Nat /\ MaxLine \in Nat /\ ~(Len(z) > MaxLine) BY <2>1, <3>1, LineAssumption
    <3> HIDE DEF z
    <3>3. Truncated(z) = z BY <3>2, TruncatedLine
    <3> HIDE DEF N
    <3> QED BY <1>13, <3>3 DEF z
  <2>4. ASSUME NEW k \in 1 .. Len(q) PROVE Clean(q[k])
    <3>1. q[k] \in ToSet(q)
      <4>1. DOMAIN q = 1 .. Len(q) BY <1>7
      <4> QED BY <4>1 DEF ToSet
    <3> DEFINE z == q[k]
    <3>2. z \in Seq(Char) BY <1>7
    <3>3. "?" \notin ToSet(z) BY <2>1, <3>1
    <3> HIDE DEF z
    <3>4. \A i \in 1 .. Len(z) : z[i] \in ToSet(z)
      <4>1. DOMAIN z = 1 .. Len(z) BY <3>2
      <4> QED BY <4>1 DEF ToSet
    <3>5. Clean(z) BY <3>3, <3>4 DEF Clean
    <3> QED BY <3>5 DEF z
  <2> QED BY <2>1, <2>2, <2>3, <2>4
<1>18. ~torn' => handled' \o batch' = Front(Lines') /\ partial' = Last(Lines') /\ Clean(partial')
  <2> SUFFICES ASSUME ~torn' PROVE handled' \o batch' = Front(Lines') /\ partial' = Last(Lines') /\ Clean(partial')
    OBVIOUS
  <2>1. /\ ~torn /\ (N = 0 => partial = <<>>) /\ (\A k \in 1 .. N : batch'[k] = whole[k])
        /\ \A k \in 1 .. Len(q) : Clean(q[k])
    BY <1>17
  <2>2. handled \o batch = Front(p) /\ partial = Last(p) /\ Clean(partial) BY <1>10, <2>1 DEF LineIInv, LineInv
  <2>3. handled = Front(p)
    <3>1. handled \o <<>> = handled BY <1>1, ConcatEmptySeq
    <3> QED BY <1>2, <2>2, <3>1
  <2>4. partial = p[Len(p)] BY <2>2 DEF Last
  <2>5. IsJoined(r, p, q) BY <1>8, <2>2, <2>4
  <2> DEFINE w == batch'
  <2>6. w \in Seq(Seq(Char)) /\ Len(w) = Len(q) - 1 /\ (Len(q) = 1 => p[Len(p)] = <<>>) BY <1>7, <1>13, <2>1, <2>4
  <2>7. \A k \in 1 .. Len(w) : w[k] = IF k = 1 THEN p[Len(p)] \o q[1] ELSE q[k]
    <3> HIDE DEF N
    <3> QED BY <1>11, <1>13, <2>1, <2>4
  <2> HIDE DEF w
  <2>8. Front(p) \o w = Front(r) /\ Last(q) = Last(r) BY <1>7, <1>9, <2>5, <2>6, <2>7, TextGrows
  <2>9. Clean(Last(q)) BY <1>14, <2>1
  <2> QED BY <1>2, <1>6, <1>10, <2>3, <2>8, <2>9 DEF w
<1>19. Len(handled') + Len(batch') = Len(Lines') - 1
  <2>1. Len(handled) + Len(batch) = Len(p) - 1 /\ Len(batch) = 0 /\ Len(handled) \in Nat BY <1>1, <1>2, <1>10 DEF LineIInv, LineInv
  <2>2. Len(handled') = Len(handled) /\ Len(batch') = N /\ Len(Lines') = Len(p) + Len(q) - 1 BY <1>2, <1>8, <1>10, <1>13
  <2>3. Len(p) \in Nat /\ Len(q) \in Nat BY <1>7
  <2> QED BY <2>1, <2>2, <2>3
<1>20. /\ Spoken(handled)' = Spoken(handled)
       /\ OfKind(handled, {"text", "status"})' = OfKind(handled, {"text", "status"})
  BY <1>2 DEF Spoken, OfKind
<1>21. LineInv'
  <2>1. /\ \A k \in DOMAIN Spoken(handled) : messages[k] = Tail(Spoken(handled)[k])
        /\ failed = Len(OfKind(handled, {"text", "status"}))
    BY DEF LineIInv, LineInv
  <2>2. \A k \in DOMAIN Spoken(handled)' : messages'[k] = Tail(Spoken(handled)'[k]) BY <1>2, <1>20, <2>1
  <2>3. failed' = Len(OfKind(handled, {"text", "status"})') BY <1>2, <1>20, <2>1
  <2> QED BY <1>18, <1>19, <2>2, <2>3 DEF LineInv
<1>22. stream' = "reading" /\ Len(messages') = Len(Spoken(handled)')
  <2>1. Len(messages) = Len(Spoken(handled)) BY <1>2 DEF LineIInv
  <2> QED BY <1>2, <1>20, <2>1
<1> QED BY <1>16, <1>18, <1>21, <1>22 DEF LineIInv

LEMMA LineStep == LineIInv /\ [LineNext]_lineVars => LineIInv'
<1> SUFFICES ASSUME LineIInv, [LineNext]_lineVars PROVE LineIInv'
  OBVIOUS
<1>1. CASE UNCHANGED lineVars
  <2>1. /\ unread' = unread /\ partial' = partial /\ batch' = batch /\ current' = current /\ messages' = messages
        /\ failed' = failed /\ stream' = stream /\ read' = read /\ handled' = handled /\ torn' = torn
    BY <1>1 DEF lineVars
  <2>2. /\ Spoken(handled)' = Spoken(handled) /\ Lines' = Lines
        /\ OfKind(handled, {"text", "status"})' = OfKind(handled, {"text", "status"})
    BY <2>1 DEF Spoken, OfKind, Lines
  <2>3. LineTypeOK' BY <2>1 DEF LineIInv, LineTypeOK
  <2>4. LineInv' BY <2>1, <2>2 DEF LineIInv, LineInv
  <2> QED BY <2>1, <2>2, <2>3, <2>4 DEF LineIInv
<1> QED BY <1>1, HandleLineStep, StreamCompleteStep, ReadChunkStep DEF LineNext

\* However the output of a process is cut into chunks and lines, and whatever
\* is written to a ring and read from it: every line that ended is handled
\* once and in its order, as it was written unless some text was torn, and an
\* answer is a message before those that follow it; the positions of the ring
\* agree with what it holds (StreamBuffer, _process_line(), CircularBuffer).
THEOREM StreamsSafe == Spec => []StreamsInv
<1>1. Init => LineIInv /\ RingInv
  BY LineStart DEF Init, RingInit, RingInv, RingTypeOK, PositionsAgree, Cell
<1>2. LineIInv /\ RingInv /\ [Next]_everything => (LineIInv /\ RingInv)' BY StepsOfStores, LineStep, RingStep
<1>3. LineIInv /\ RingInv => StreamsInv BY DEF LineIInv, StreamsInv
<1> QED BY <1>1, <1>2, <1>3, PTL DEF Spec, everything

-----------------------------------------------------------------------------
(* The transport *)

\* What the states of the connection say of its task and its session.
LinkInv ==
    /\ sse \in Live => link \in {"connecting", "connected"} /\ session = "open"
    /\ link = "connecting" => sse \in Live
    /\ link = "closing" => sse \in {"none", "ending", "done"}
    /\ sse = "ending" => link = "closing"

\* The time-out of a request has settled its future.
ExpiredIsSettled == \A r \in Request : call[r] = "expiring" => future[r] # "pending"

TransportIInv == TransportTypeOK /\ TransportInv /\ LinkInv /\ ExpiredIsSettled

LEMMA TransportStart == TransportInit => TransportIInv
<1> SUFFICES ASSUME TransportInit PROVE TransportIInv
  OBVIOUS
<1>1. events \in Seq(Request \cup {ServerCall}) /\ Len(events) = 0 BY DEF TransportInit
<1>2. attempts \in 0 .. MaxAttempts /\ Len(events) <= MaxQueue
  BY <1>1, TransportAssumption DEF TransportInit
<1>3. TransportTypeOK BY <1>1, <1>2 DEF TransportInit, TransportTypeOK, Links, Live, Ended
<1>4. TransportInv /\ LinkInv /\ ExpiredIsSettled
  BY DEF TransportInit, TransportInv, LinkInv, ExpiredIsSettled, Live
<1> QED BY <1>3, <1>4 DEF TransportIInv

LEMMA TransportStep == TransportIInv /\ [TransportNext]_transportVars => TransportIInv'
<1> SUFFICES ASSUME TransportIInv, [TransportNext]_transportVars PROVE TransportIInv'
  OBVIOUS
<1> USE TransportAssumption
    DEF TransportIInv, TransportTypeOK, TransportInv, LinkInv, ExpiredIsSettled, Links, Live, Ended, linkVars, callVars
<1>1. CASE Connect \/ ConnectFails \/ ConnectEnds \/ Disconnect
  BY <1>1 DEF Connect, ConnectFails, ConnectEnds, Disconnect, Shut
<1>2. CASE DisconnectFails \/ HandleClose BY <1>2 DEF DisconnectFails, HandleClose, Abandoned, Shut
<1>3. CASE Opened \/ StreamEnds \/ StreamFails \/ Retry \/ StreamEnded
  BY <1>3 DEF Opened, StreamEnds, StreamFails, Retry, StreamEnded
<1>4. ASSUME NEW e \in Request \cup {ServerCall}, Event(e) PROVE TransportIInv'
  <2>1. events' \in Seq(Request \cup {ServerCall}) /\ Len(events') = Len(events) + 1
    BY <1>4 DEF Event
  <2> QED BY <1>4, <2>1 DEF Event
<1>5. CASE HandleMessage
  <2>1. Head(events) \in Request \cup {ServerCall} /\ Tail(events) \in Seq(Request \cup {ServerCall})
        /\ Len(Tail(events)) = Len(events) - 1
    BY <1>5 DEF HandleMessage
  <2>2. CASE Head(events) = ServerCall BY <1>5, <2>1, <2>2 DEF HandleMessage
  <2>3. CASE Head(events) # ServerCall /\ Head(events) \in pending BY <1>5, <2>1, <2>3 DEF HandleMessage
  <2>4. CASE Head(events) # ServerCall /\ Head(events) \notin pending BY <1>5, <2>1, <2>4 DEF HandleMessage
  <2> QED BY <2>2, <2>3, <2>4
<1>6. ASSUME NEW r \in Request, MakeRequest(r) PROVE TransportIInv'
  BY <1>6 DEF MakeRequest
<1>7. ASSUME NEW r \in Request, Waits(r) PROVE TransportIInv'
  <2>1. CASE SendEnds(r) BY <2>1 DEF SendEnds
  <2>2. CASE Expire(r) BY <2>2 DEF Expire
  <2>3. CASE Awake(r)
    <3>1. CASE call[r] = "waiting" /\ future[r] = "result" BY <2>3, <3>1 DEF Awake
    <3>2. CASE call[r] = "waiting" /\ future[r] = "cancelled" BY <2>3, <3>2 DEF Awake
    <3>3. CASE call[r] = "expiring" BY <2>3, <3>3 DEF Awake
    <3> QED BY <2>3, <3>1, <3>2, <3>3 DEF Awake
  <2> QED BY <1>7, <2>1, <2>2, <2>3 DEF Waits
<1>8. ASSUME NEW r \in Request, CancelCaller(r) PROVE TransportIInv'
  BY <1>8 DEF CancelCaller
<1>9. CASE UNCHANGED transportVars BY <1>9 DEF transportVars
<1> QED BY <1>1, <1>2, <1>3, <1>4, <1>5, <1>6, <1>7, <1>8, <1>9 DEF TransportNext

\* Whatever connects, fails, reconnects and closes while requests wait: who
\* waits is in the table, a closed transport holds nobody, and a connected one
\* reads.
THEOREM RequestsSafe == Spec => []RequestsInv
<1>1. Init => TransportIInv BY TransportStart DEF Init
<1>2. TransportIInv /\ [Next]_everything => TransportIInv' BY StepsOfStores, TransportStep
<1>3. TransportIInv => RequestsInv BY DEF TransportIInv, RequestsInv
<1> QED BY <1>1, <1>2, <1>3, PTL DEF Spec, everything

-----------------------------------------------------------------------------
(* The process monitor *)

HasEnded == {"stopping", "stopped", "orphaned"}

\* What was announced, or is about to be, was orphaned, or ended since; what is
\* about to be is saved.
AnnouncedIsOver ==
    /\ \A p \in orphanEvents \cup round.orphaned : recorded[p] \in HasEnded
    /\ round.pc = "orphan" => recorded[round.at] \in HasEnded /\ saved[round.at] # "running"

\* A round that is over has left nothing behind, and drops what has stopped, or
\* runs into a termination since its pid is used again.
RoundInv ==
    /\ round.pc = "sleeping" => round = RoundOver
    /\ round.pc # "sleeping" => round.at \in Proc
    /\ \A p \in round.stale : recorded[p] \in {"stopping", "stopped"}

\* A status that a termination sets is saved, or is about to be.
EndIsSaved ==
    /\ \A p \in Proc \ lost : recorded[p] \in {"stopping", "stopped"} => saved[p] = recorded[p] \/ p \in round.dead
    /\ \A p \in Proc : recorded[p] = NeverMade => saved[p] = NeverMade /\ p \notin held

\* The record that is registered stays in the table until the registration is
\* over, the one that is withdrawn is not there.
CallInv ==
    /\ registry.pc \in {"logging", "saving"} => registry.id \in held /\ registry.id \notin round.stale
    /\ registry.pc = "withdrawing" => registry.id \notin held
    /\ \A p \in Proc : registry.id = p \/ p \in killing => recorded[p] # NeverMade

MonitorIInv == MonitorTypeOK /\ MonitorInv /\ AnnouncedIsOver /\ RoundInv /\ EndIsSaved /\ CallInv

LEMMA MonitorStart == MonitorInit => MonitorIInv
<1> SUFFICES ASSUME MonitorInit PROVE MonitorIInv
  OBVIOUS
<1>1. saved = [p \in Proc |-> NeverMade] /\ recorded = [p \in Proc |-> NeverMade] BY DEF MonitorInit
<1>2. round \in Rounds /\ faults \in 0 .. MaxFaults
  BY MonitorAssumption DEF MonitorInit, RoundOver, Rounds
<1>3. MonitorTypeOK BY <1>1, <1>2, MonitorAssumption DEF MonitorInit, MonitorTypeOK, NeverMade
<1>4. MonitorInv BY <1>1 DEF MonitorInit, MonitorInv, AnnouncedIsSaved, DroppedIsRecorded, FilesAreTracked
<1>5. AnnouncedIsOver /\ RoundInv /\ EndIsSaved /\ CallInv
  BY <1>1, MonitorAssumption
     DEF MonitorInit, AnnouncedIsOver, RoundInv, EndIsSaved, CallInv, NeverMade, RoundOver, NoCall
<1> QED BY <1>3, <1>4, <1>5 DEF MonitorIInv

\* A round goes on from what it has found: with the next write, or without the
\* old records, or not at all.
LEMMA RoundGoesOn ==
    ASSUME MonitorIInv, NEW r \in Rounds, Proceed(r),
           UNCHANGED <<livePids, registry, killing, usageVars>>,
           recorded' \in [Proc -> {NeverMade, "running", "stopping"} \cup Over],
           \A p \in Proc : \/ recorded'[p] = recorded[p]
                           \/ p \in held /\ recorded[p] = "stopping" /\ recorded'[p] = "stopped" /\ p \in r.dead
                           \/ p \in held /\ recorded[p] = "running" /\ recorded'[p] = "orphaned",
           \A p \in r.stale : recorded'[p] \in {"stopping", "stopped"},
           registry.pc \in {"logging", "saving"} => registry.id \notin r.stale,
           \A p \in r.orphaned : recorded'[p] \in HasEnded,
           round.dead \subseteq r.dead,
           orphanEvents' \subseteq Proc,
           \A p \in orphanEvents' : recorded'[p] \in HasEnded /\ saved[p] # "running"
    PROVE  MonitorIInv'
<1> USE MonitorAssumption
    DEF MonitorIInv, MonitorTypeOK, MonitorInv, AnnouncedIsSaved, DroppedIsRecorded, FilesAreTracked,
        AnnouncedIsOver, RoundInv, EndIsSaved, CallInv, NeverMade, Over, HasEnded, usageVars, Writes, Loses, Rounds
<1>1. ASSUME NEW p \in r.dead, Writes(p, recorded'[p]),
             round' = [r EXCEPT !.pc = "dead", !.at = p, !.dead = r.dead \ {p}],
             UNCHANGED <<held, byPid, files>>
      PROVE  MonitorIInv'
  <2>1. /\ round' \in Rounds /\ round'.pc = "dead" /\ round'.at = p /\ round'.dead = r.dead \ {p}
        /\ round'.orphaned = r.orphaned /\ round'.stale = r.stale
    BY <1>1
  <2>2. MonitorTypeOK' BY <1>1, <2>1
  <2>3. MonitorInv' BY <1>1
  <2>4. AnnouncedIsOver' /\ RoundInv' BY <2>1
  <2>5. EndIsSaved' BY <1>1, <2>1
  <2>6. CallInv' BY <1>1, <2>1
  <2> QED BY <2>2, <2>3, <2>4, <2>5, <2>6
<1>2. ASSUME NEW p \in r.orphaned, Writes(p, recorded'[p]),
             round' = [r EXCEPT !.pc = "orphan", !.at = p, !.orphaned = r.orphaned \ {p}],
             UNCHANGED <<held, byPid, files>>
      PROVE  MonitorIInv'
  <2>1. /\ round' \in Rounds /\ round'.pc = "orphan" /\ round'.at = p /\ round'.dead = r.dead
        /\ round'.orphaned = r.orphaned \ {p} /\ round'.stale = r.stale
    BY <1>2
  <2>2. MonitorTypeOK' BY <1>2, <2>1
  <2>3. MonitorInv' BY <1>2
  <2>4. AnnouncedIsOver' /\ RoundInv' BY <1>2, <2>1
  <2>5. EndIsSaved' BY <1>2, <2>1
  <2>6. CallInv' BY <1>2, <2>1
  <2> QED BY <2>2, <2>3, <2>4, <2>5, <2>6
<1>3. ASSUME r.dead = {}, round' = RoundOver, held' = held \ r.stale, files' = files \ r.stale,
             byPid' = [i \in MonitorPid |-> IF \E p \in r.stale : PidFor[p] = i THEN NoProc ELSE byPid[i]],
             UNCHANGED <<saved, lost, faults>>
      PROVE  MonitorIInv'
  <2>1. byPid' \in [MonitorPid -> Proc \cup {NoProc}] BY <1>3
  <2>2. round' \in Rounds /\ round'.pc = "sleeping" /\ round'.dead = {} /\ round'.orphaned = {} /\ round'.stale = {}
    BY <1>3 DEF RoundOver
  <2>3. MonitorTypeOK' BY <1>3, <2>1, <2>2
  <2>4. MonitorInv' BY <1>3
  <2>5. AnnouncedIsOver' /\ RoundInv' BY <1>3, <2>2
  <2>6. EndIsSaved' BY <1>3, <2>2
  <2>7. CallInv' BY <1>3, <2>2
  <2> QED BY <2>3, <2>4, <2>5, <2>6, <2>7
<1>4. ASSUME Loses(r.dead \cup r.orphaned), round' = RoundOver, UNCHANGED <<held, byPid, files>>
      PROVE  MonitorIInv'
  <2>1. round' \in Rounds /\ round'.pc = "sleeping" /\ round'.dead = {} /\ round'.orphaned = {} /\ round'.stale = {}
    BY <1>4 DEF RoundOver
  <2>2. MonitorTypeOK' BY <1>4, <2>1
  <2>3. MonitorInv' BY <1>4
  <2>4. AnnouncedIsOver' /\ RoundInv' BY <1>4, <2>1
  <2>5. EndIsSaved' BY <1>4, <2>1
  <2>6. CallInv' BY <1>4, <2>1
  <2> QED BY <2>2, <2>3, <2>4, <2>5, <2>6
<1>5. CASE r.dead \cup r.orphaned = {}
  <2>1. /\ r.dead = {} /\ r.orphaned = {} BY <1>5
  <2>2. CASE /\ round' = RoundOver
             /\ held' = held \ r.stale
             /\ byPid' = [i \in MonitorPid |-> IF \E p \in r.stale : PidFor[p] = i THEN NoProc ELSE byPid[i]]
             /\ files' = files \ r.stale
             /\ UNCHANGED <<saved, lost, faults>>
    BY ONLY <1>3, <2>1, <2>2
  <2> QED BY <2>1, <2>2 DEF Proceed
<1>6. CASE r.dead \cup r.orphaned # {}
  BY ONLY <1>1, <1>2, <1>4, <1>6, Proceed(r) DEF Proceed
<1> QED BY <1>5, <1>6

LEMMA MonitorStep == MonitorIInv /\ [MonitorNext]_monitorVars => MonitorIInv'
<1> SUFFICES ASSUME MonitorIInv, [MonitorNext]_monitorVars PROVE MonitorIInv'
  OBVIOUS
<1> USE MonitorAssumption
    DEF MonitorIInv, MonitorTypeOK, MonitorInv, AnnouncedIsSaved, DroppedIsRecorded, FilesAreTracked, NoCall,
        AnnouncedIsOver, RoundInv, EndIsSaved, CallInv, NeverMade, Over, HasEnded, sysVars, roundVars, usageVars, Writes, Loses
<1>1. ASSUME NEW i \in MonitorPid, PidTaken(i) \/ PidFreed(i) PROVE MonitorIInv'
  BY <1>1 DEF PidTaken, PidFreed
<1>2. ASSUME NEW p \in Proc, Enrol(p) PROVE MonitorIInv' BY <1>2 DEF Enrol
<1>3. CASE EnrolLogged BY <1>3 DEF EnrolLogged
<1>4. CASE EnrolSaved BY <1>4 DEF EnrolSaved
<1>5. ASSUME NEW p \in Proc, Withdraw(p) PROVE MonitorIInv' BY <1>5 DEF Withdraw
<1>6. CASE Withdrawn BY <1>6 DEF Withdrawn
<1>7. ASSUME NEW p \in Proc, StopProcess(p) PROVE MonitorIInv' BY <1>7 DEF StopProcess
<1>8. ASSUME NEW p \in Proc, Killed(p) PROVE MonitorIInv'
  <2>1. /\ killing' = killing \ {p} /\ UNCHANGED <<held, byPid, files, registry, roundVars, usageVars>>
        /\ livePids' \subseteq livePids
    BY <1>8 DEF Killed
  <2>2. recorded[p] # NeverMade BY <1>8 DEF Killed
  <2>3. CASE recorded' = [recorded EXCEPT ![p] = "stopped"] /\ Writes(p, "stopped") BY <2>1, <2>2, <2>3
  <2>4. CASE recorded' = [recorded EXCEPT ![p] = "stopped"] /\ Loses({p}) BY <2>1, <2>2, <2>4
  <2>5. CASE UNCHANGED <<recorded, saved, lost, faults>> BY <2>1, <2>5
  <2>6. CASE Loses({p}) /\ UNCHANGED recorded BY <2>1, <2>6
  <2> QED BY <1>8, <2>3, <2>4, <2>5, <2>6 DEF Killed
<1>9. CASE Scan
  <2>1. PICK aged \in SUBSET {p \in held \ {registry.id} : recorded'[p] = "stopped"} : Proceed(Seen(aged))
    BY <1>9 DEF Scan
  <2> DEFINE r == Seen(aged)
  <2>2. r \in Rounds /\ Proceed(r) BY <2>1 DEF Seen, Rounds
  <2>3. /\ \A p \in r.stale : p \in held /\ p # registry.id /\ recorded'[p] = "stopped"
        /\ \A p \in Proc : p \in r.dead <=> recorded[p] = "stopping" /\ recorded'[p] = "stopped"
        /\ \A p \in Proc : p \in r.orphaned <=> recorded[p] = "running" /\ recorded'[p] = "orphaned"
    BY DEF Seen
  <2> HIDE DEF r
  <2>4. UNCHANGED <<livePids, registry, killing, orphanEvents, usageVars>> /\ round = RoundOver /\ recorded' = FoundDead
    BY <1>9 DEF Scan
  <2>5. recorded' \in [Proc -> {NeverMade, "running", "stopping"} \cup Over] BY <2>4 DEF FoundDead
  <2>6. \A p \in Proc : \/ recorded'[p] = recorded[p]
                        \/ p \in held /\ recorded[p] = "stopping" /\ recorded'[p] = "stopped" /\ p \in r.dead
                        \/ p \in held /\ recorded[p] = "running" /\ recorded'[p] = "orphaned"
    BY <2>3, <2>4 DEF FoundDead
  <2>7. \A p \in r.orphaned : recorded'[p] \in HasEnded BY <2>2, <2>3 DEF Rounds
  <2>8. \A p \in orphanEvents' : recorded'[p] \in HasEnded /\ saved[p] # "running" BY <2>4, <2>6
  <2>9. /\ round.dead \subseteq r.dead /\ orphanEvents' \subseteq Proc
        /\ \A p \in r.stale : recorded'[p] \in {"stopping", "stopped"}
        /\ registry.pc \in {"logging", "saving"} => registry.id \notin r.stale
    BY <2>3, <2>4 DEF RoundOver
  <2> QED BY <2>2, <2>4, <2>5, <2>6, <2>7, <2>8, <2>9, RoundGoesOn
<1>10. CASE SaveEnds
  <2>1. /\ Proceed(round) /\ UNCHANGED <<livePids, recorded, registry, killing, usageVars>>
        /\ orphanEvents' \subseteq orphanEvents \cup (IF round.pc = "orphan" THEN {round.at} ELSE {})
        /\ round.pc # "sleeping"
    BY <1>10 DEF SaveEnds
  <2>2. orphanEvents' \subseteq Proc /\ \A p \in orphanEvents' : recorded'[p] \in HasEnded /\ saved[p] # "running"
    BY <2>1
  <2>3. \A p \in round.orphaned : recorded'[p] \in HasEnded BY <2>1
  <2>4. /\ \A p \in round.stale : recorded'[p] \in {"stopping", "stopped"}
        /\ registry.pc \in {"logging", "saving"} => registry.id \notin round.stale
    BY <2>1
  <2>5. recorded' = recorded BY <2>1
  <2>6. recorded' \in [Proc -> {NeverMade, "running", "stopping"} \cup Over] /\ round \in Rounds BY <2>5
  <2> QED BY <2>1, <2>2, <2>3, <2>4, <2>5, <2>6, RoundGoesOn
<1>11. CASE RoundFails
  <2>1. round' = RoundOver /\ round'.pc = "sleeping" /\ round'.dead = {} /\ round'.orphaned = {} /\ round'.stale = {} /\ round' \in Rounds
    BY <1>11 DEF RoundFails, RoundOver, Rounds
  <2>2. /\ Loses({round.at} \cup round.dead \cup round.orphaned)
        /\ UNCHANGED <<livePids, recorded, held, byPid, files, registry, killing, orphanEvents, usageVars>>
        /\ round.at \in Proc
    BY <1>11 DEF RoundFails
  <2>3. {round.at} \cup round.dead \cup round.orphaned \subseteq Proc BY <2>2 DEF Rounds
  <2>4. MonitorTypeOK' BY <2>1, <2>2, <2>3
  <2>5. MonitorInv' BY <2>2
  <2>6. AnnouncedIsOver' /\ RoundInv' BY <2>1, <2>2
  <2>7. EndIsSaved' BY <2>1, <2>2
  <2>8. CallInv' BY <2>1, <2>2
  <2> QED BY <2>4, <2>5, <2>6, <2>7, <2>8
<1>12. CASE Collect
  <2>1. recorded' \in [Proc -> {NeverMade, "running", "stopping"} \cup Over] /\ alerted' \subseteq Proc
    BY <1>12 DEF Collect
  <2>2. \A p \in Proc : recorded'[p] = recorded[p] \/ (p \in held /\ recorded[p] = "running" /\ recorded'[p] = "orphaned")
    BY <1>12 DEF Collect
  <2>3. enforce' = "enforcing" /\ UNCHANGED <<livePids, held, byPid, saved, files, registry, killing, lost, faults, roundVars, due>>
    BY <1>12 DEF Collect
  <2>4. MonitorTypeOK' BY <2>1, <2>3
  <2>5. MonitorInv' BY <2>2, <2>3
  <2>6. AnnouncedIsOver' /\ RoundInv' BY <2>2, <2>3 DEF Rounds
  <2>7. EndIsSaved' BY <2>2, <2>3
  <2>8. CallInv' BY <2>2, <2>3
  <2> QED BY <2>4, <2>5, <2>6, <2>7, <2>8
<1>13. CASE Enforce \/ TimePasses BY <1>13 DEF Enforce, TimePasses
<1>14. CASE UNCHANGED monitorVars BY <1>14 DEF monitorVars
<1> QED BY <1>1, <1>2, <1>3, <1>4, <1>5, <1>6, <1>7, <1>8, <1>9, <1>10, <1>11, <1>12, <1>13, <1>14 DEF MonitorNext

-----------------------------------------------------------------------------
(* The clean-up of the process database *)

CheckPcs == {"idle", "integrity", "resource", "security", "lifecycle", "validated", "result", "commit"}

\* What UpkeepTypeOK leaves open of the records.
UpkeepTypes ==
    /\ upkeep \in [pc : Stage, left : SUBSET Worker]
    /\ check \in [Validator -> [pc : CheckPcs, next : CheckPcs \ {"commit", "integrity"}, worker : Worker \cup {NoWorker},
                                sound : BOOLEAN, limits : BOOLEAN, errors : SUBSET Concern]]
    /\ \A v \in Validator : check[v].pc # "idle" => check[v].worker \in Worker

\* The database as the connection sees it: an orphan has its event from the
\* moment it is marked, and what is committed of the events was seen there.
EventsFirst ==
    /\ \A w \in Worker : mark[w] = "orphaned" /\ breaks = 0 => w \in base.orphaned
    /\ committed.orphaned \subseteq base.orphaned

\* A validation that began with an ended process has an error from the look at
\* the process on, and until then the process has not come back.
EndedIsFound ==
    \A v \in Validator :
        /\ check[v].pc \notin {"idle", "integrity"} =>
              check[v].sound \/ check[v].errors # {} \/ os[check[v].worker] = "unseen"
        /\ check[v].pc = "integrity" => check[v].sound \/ os[check[v].worker] # "alive"

UpkeepIInv == UpkeepTypeOK /\ UpkeepInv /\ UpkeepTypes /\ EventsFirst /\ EndedIsFound

LEMMA UpkeepStart == UpkeepInit => UpkeepIInv
<1> SUFFICES ASSUME UpkeepInit PROVE UpkeepIInv
  OBVIOUS
<1>1. base \in Base /\ committed = base BY DEF UpkeepInit, Base
<1>2. UpkeepTypes
  BY DEF UpkeepInit, UpkeepTypes, Stage, CheckPcs, Resting
<1>3. UpkeepTypeOK
  <2>1. /\ upkeeps \in 0 .. MaxUpkeeps /\ checks \in [Validator -> 0 .. MaxChecks] /\ breaks \in 0 .. MaxBreaks
        /\ report \in [stale : Nat, vacuum : BOOLEAN]
    BY UpkeepAssumption DEF UpkeepInit, NoReport
  <2>2. upkeep.pc \in Stage /\ upkeep.left \subseteq Worker /\ \A v \in Validator : check[v].errors \subseteq Concern
    BY <1>2 DEF UpkeepTypes
  <2> QED BY <1>1, <2>1, <2>2 DEF UpkeepInit, UpkeepTypeOK
<1>4. UpkeepInv
  BY <1>1 DEF UpkeepInit, UpkeepInv, MissingAreGone, OrphansAreLogged, EndedIsInvalid
<1>5. EventsFirst /\ EndedIsFound
  BY <1>1 DEF UpkeepInit, EventsFirst, EndedIsFound, Resting
<1> QED BY <1>2, <1>3, <1>4, <1>5 DEF UpkeepIInv

\* A step that leaves the validations and the events alone, and
\* deletes only rows of processes that have ended.
LEMMA Cleans ==
    ASSUME UpkeepIInv, UNCHANGED <<mark, check, checks>>,
           os' \in [Worker -> {"alive", "gone", "other", "unseen"}], \A w \in Worker : os'[w] = "alive" => os[w] = "alive",
           \A w \in Worker : os[w] = "unseen" => os'[w] = "unseen",
           known' \subseteq Worker,
           base' \in Base, base'.orphaned = base.orphaned, base'.validated = base.validated,
           \A w \in base.rows \ base'.rows : os[w] = "gone",
           committed' \in {committed, base}, begun' \in BOOLEAN,
           upkeep' \in [pc : Stage, left : SUBSET Worker], report' \in [stale : Nat, vacuum : BOOLEAN],
           upkeeps' \in 0 .. MaxUpkeeps, breaks' \in 0 .. MaxBreaks, breaks' = 0 => breaks = 0
    PROVE  UpkeepIInv'
<1> USE DEF UpkeepIInv, UpkeepInv
<1>1. UpkeepTypes' BY DEF UpkeepTypes
<1>2. UpkeepTypeOK' BY <1>1 DEF UpkeepTypeOK, UpkeepTypes
<1>3. MissingAreGone' BY DEF MissingAreGone
<1>4. OrphansAreLogged'
  <2> SUFFICES ASSUME NEW w \in Worker, mark[w] = "orphaned", breaks = 0
               PROVE  w \in committed'.orphaned \/ \E v \in Validator : check[v].worker = w /\ check[v].pc = "commit"
    BY DEF OrphansAreLogged
  <2> QED BY DEF OrphansAreLogged, EventsFirst
<1>5. EndedIsInvalid' BY DEF EndedIsInvalid, UpkeepTypeOK, Base, Verdict
<1>6. EventsFirst' BY DEF EventsFirst
<1>7. EndedIsFound' BY DEF EndedIsFound, UpkeepTypes
<1> QED BY <1>1, <1>2, <1>3, <1>4, <1>5, <1>6, <1>7

\* The steps of the clean-up and of the world.
LEMMA UpkeepSteps ==
    ASSUME UpkeepIInv,
           \/ \E w \in Worker : WorldMoves(w)
           \/ StartUpkeep \/ StaleNext \/ OrphansNext \/ UpkeepCommits \/ Retention \/ Vacuum \/ UpkeepBreaks
    PROVE  UpkeepIInv'
<1>0. /\ os \in [Worker -> {"alive", "gone", "other", "unseen"}] /\ known \subseteq Worker
      /\ base \in Base /\ committed \in Base /\ begun \in BOOLEAN
      /\ upkeep \in [pc : Stage, left : SUBSET Worker] /\ report \in [stale : Nat, vacuum : BOOLEAN]
      /\ upkeeps \in 0 .. MaxUpkeeps /\ breaks \in 0 .. MaxBreaks
  BY DEF UpkeepIInv, UpkeepTypeOK, UpkeepTypes
<1>g. \A pc \in Stage, left \in SUBSET Worker : Go(pc, left) => upkeep' \in [pc : Stage, left : SUBSET Worker]
  BY DEF Go
<1>r. ASSUME NEW R \in SUBSET Worker, base' = [base EXCEPT !.rows = R]
      PROVE  /\ base' \in Base /\ base'.orphaned = base.orphaned /\ base'.validated = base.validated
             /\ base'.rows = R
  BY <1>0, <1>r DEF Base
<1>o. ASSUME NEW O \in BOOLEAN, base' = [base EXCEPT !.old = O]
      PROVE  /\ base' \in Base /\ base'.orphaned = base.orphaned /\ base'.validated = base.validated
             /\ base'.rows = base.rows
  BY <1>0, <1>o DEF Base
<1>f. base.rows \in SUBSET Worker /\ base.old \in BOOLEAN /\ upkeep.left \in SUBSET Worker
  BY <1>0 DEF Base
<1>s. {"idle", "stale", "beaten", "stale done", "orphans", "orphans done", "results",
       "audit", "delete audit", "audit done", "vacuum"} = Stage
  BY DEF Stage
<1> USE UpkeepAssumption DEF Execute, CommitAll, worldVars, baseVars, upkeepVars, checkVars
<1>1. ASSUME NEW w \in Worker, WorldMoves(w) PROVE UpkeepIInv' BY <1>0, <1>1, Cleans DEF WorldMoves
<1>2. CASE StartUpkeep
  <2>1. upkeep' \in [pc : Stage, left : SUBSET Worker] BY <1>2, <1>f, <1>g, <1>s DEF StartUpkeep
  <2>2. report' \in [stale : Nat, vacuum : BOOLEAN] /\ upkeeps' \in 0 .. MaxUpkeeps
    BY <1>0, <1>2 DEF StartUpkeep, NoReport
  <2>3. UNCHANGED <<worldVars, mark, baseVars, checkVars, breaks>> BY <1>2 DEF StartUpkeep
  <2> QED BY <1>0, <2>1, <2>2, <2>3, Cleans
<1>3. CASE StaleNext
  <2>0. UNCHANGED <<worldVars, mark, report, upkeeps, checkVars, breaks>> BY <1>3 DEF StaleNext
  <2>1. upkeep' \in [pc : Stage, left : SUBSET Worker] BY <1>3, <1>f, <1>g, <1>s DEF StaleNext
  <2>2. CASE UNCHANGED baseVars BY <1>0, <2>0, <2>1, <2>2, Cleans
  <2>3. ASSUME NEW w \in upkeep.left, os[w] = "gone", Execute([base EXCEPT !.rows = base.rows \ {w}]) PROVE UpkeepIInv'
    <3>1. base.rows \ {w} \in SUBSET Worker BY <1>f
    <3> QED BY <1>0, <1>r, <2>0, <2>1, <2>3, <3>1, Cleans
  <2>4. ASSUME NEW w \in upkeep.left, Execute([base EXCEPT !.rows = base.rows \cup {w}]) PROVE UpkeepIInv'
    <3>1. base.rows \cup {w} \in SUBSET Worker BY <1>f
    <3> QED BY <1>0, <1>r, <2>0, <2>1, <2>4, <3>1, Cleans
  <2> QED BY <1>3, <2>2, <2>3, <2>4 DEF StaleNext
<1>4. CASE OrphansNext
  <2>0. UNCHANGED <<worldVars, mark, report, upkeeps, checkVars, breaks>> BY <1>4 DEF OrphansNext
  <2>1. upkeep' \in [pc : Stage, left : SUBSET Worker] BY <1>4, <1>g, <1>s DEF OrphansNext
  <2>2. CASE UNCHANGED baseVars BY <1>0, <2>0, <2>1, <2>2, Cleans
  <2>3. ASSUME NEW w \in base.rows, os[w] = "gone", Execute([base EXCEPT !.rows = base.rows \ {w}]) PROVE UpkeepIInv'
    <3>1. base.rows \ {w} \in SUBSET Worker BY <1>f
    <3> QED BY <1>0, <1>r, <2>0, <2>1, <2>3, <3>1, Cleans
  <2> QED BY <1>4, <2>2, <2>3 DEF OrphansNext
<1>5. CASE UpkeepCommits
  <2>0. UNCHANGED <<worldVars, mark, report, upkeeps, checkVars, breaks>> /\ CommitAll BY <1>5 DEF UpkeepCommits
  <2>1. upkeep' \in [pc : Stage, left : SUBSET Worker] BY <1>5, <1>f, <1>g, <1>s DEF UpkeepCommits
  <2> QED BY <1>0, <2>0, <2>1, Cleans
<1>6. CASE Retention
  <2>0. UNCHANGED <<worldVars, mark, report, upkeeps, checkVars, breaks>> BY <1>6 DEF Retention
  <2>1. upkeep' \in [pc : Stage, left : SUBSET Worker] BY <1>6, <1>g, <1>s DEF Retention
  <2>2. CASE UNCHANGED baseVars BY <1>0, <2>0, <2>1, <2>2, Cleans
  <2>3. CASE Execute([base EXCEPT !.old = FALSE]) BY <1>0, <1>o, <2>0, <2>1, <2>3, Cleans
  <2> QED BY <1>6, <2>2, <2>3 DEF Retention
<1>7. CASE Vacuum
  <2>1. upkeep' \in [pc : Stage, left : SUBSET Worker] BY <1>7, <1>g, <1>s DEF Vacuum
  <2>2. report' \in [stale : Nat, vacuum : BOOLEAN] BY <1>0, <1>7 DEF Vacuum
  <2>3. UNCHANGED <<worldVars, mark, baseVars, upkeeps, checkVars, breaks>> BY <1>7 DEF Vacuum
  <2> QED BY <1>0, <2>1, <2>2, <2>3, Cleans
<1>8. CASE UpkeepBreaks
  <2>1. upkeep' \in [pc : Stage, left : SUBSET Worker] BY <1>8, <1>g, <1>s DEF UpkeepBreaks
  <2>2. breaks' \in 0 .. MaxBreaks /\ breaks' # 0
    <3>1. breaks < MaxBreaks /\ breaks' = breaks + 1 BY <1>8 DEF UpkeepBreaks, Break
    <3> QED BY <1>0, <3>1
  <2>3. UNCHANGED <<worldVars, mark, baseVars, report, upkeeps, checkVars>> BY <1>8 DEF UpkeepBreaks
  <2> QED BY <1>0, <2>1, <2>2, <2>3, Cleans
<1> QED BY <1>1, <1>2, <1>3, <1>4, <1>5, <1>6, <1>7, <1>8

\* A step that leaves the clean-up and the world alone, changes the database by
\* events and commits only, and moves one validation on.
LEMMA Validates ==
    ASSUME UpkeepIInv, UNCHANGED <<worldVars, upkeepVars>>, NEW v \in Validator, NEW c,
           checks' \in [Validator -> 0 .. MaxChecks], breaks' \in 0 .. MaxBreaks, breaks' = 0 => breaks = 0,
           c \in [pc : CheckPcs, next : CheckPcs \ {"commit", "integrity"}, worker : Worker \cup {NoWorker}, sound : BOOLEAN, limits : BOOLEAN, errors : SUBSET Concern],
           c.pc # "idle" => c.worker \in Worker,
           check' = [check EXCEPT ![v] = c],
           base' \in Base, base'.rows = base.rows, base.orphaned \subseteq base'.orphaned,
           \A r \in base'.validated \ base.validated : r.sound \/ r.errors # {} \/ os[r.worker] = "unseen",
           committed' \in {committed, base}, begun' \in BOOLEAN,
           mark' \in [Worker -> {"running", "orphaned"}],
           \A w \in Worker : mark'[w] = "orphaned" => mark[w] = "orphaned" \/ (c.pc = "commit" /\ c.worker = w /\ w \in base'.orphaned),
           breaks' = 0 /\ check[v].pc = "commit" => committed' = base,
           c.pc \notin {"idle", "integrity"} => c.sound \/ c.errors # {} \/ os[c.worker] = "unseen",
           c.pc = "integrity" => c.sound \/ os[c.worker] # "alive"
    PROVE  UpkeepIInv'
<1> USE DEF UpkeepIInv, UpkeepInv
<1>0. check'[v] = c /\ \A u \in Validator \ {v} : check'[u] = check[u] BY DEF UpkeepTypes
<1>1. UpkeepTypes' BY <1>0 DEF UpkeepTypes, upkeepVars
<1>2. UpkeepTypeOK' BY <1>1 DEF UpkeepTypeOK, UpkeepTypes, upkeepVars, worldVars
<1>3. MissingAreGone' BY DEF MissingAreGone, worldVars
<1>4. OrphansAreLogged'
  <2> SUFFICES ASSUME NEW w \in Worker, mark'[w] = "orphaned", breaks' = 0
               PROVE  w \in committed'.orphaned \/ \E u \in Validator : check'[u].worker = w /\ check'[u].pc = "commit"
    BY DEF OrphansAreLogged
  <2>1. CASE mark[w] = "orphaned"
    <3>1. w \in base.orphaned BY <2>1 DEF EventsFirst
    <3>2. committed.orphaned \subseteq committed'.orphaned \/ committed' = base BY DEF EventsFirst
    <3> QED BY <1>0, <2>1, <3>1, <3>2 DEF OrphansAreLogged, EventsFirst
  <2>2. CASE mark[w] # "orphaned" BY <1>0, <2>2
  <2> QED BY <2>1, <2>2
<1>5. EndedIsInvalid' BY DEF EndedIsInvalid, worldVars
<1>6. EventsFirst' BY <1>0 DEF EventsFirst
<1>7. EndedIsFound' BY <1>0 DEF EndedIsFound, worldVars
<1> QED BY <1>1, <1>2, <1>3, <1>4, <1>5, <1>6, <1>7

\* The steps of a validation.
LEMMA ValidationSteps ==
    ASSUME UpkeepIInv, NEW v \in Validator,
           \/ \E w \in Worker, limits \in BOOLEAN : StartCheck(v, w, limits)
           \/ CheckIntegrity(v) \/ CheckResources(v) \/ CheckPolicies(v) \/ CheckLifecycle(v)
           \/ SaveResult(v) \/ CheckCommits(v) \/ CheckBreaks(v)
    PROVE  UpkeepIInv'
<1> DEFINE Check == [pc : CheckPcs, next : CheckPcs \ {"commit", "integrity"}, worker : Worker \cup {NoWorker}, sound : BOOLEAN, limits : BOOLEAN, errors : SUBSET Concern]
           c0 == check[v]
           Noticed(c) == c.sound \/ c.errors # {} \/ os[c.worker] = "unseen"
<1>0. /\ base \in Base /\ committed \in Base /\ begun \in BOOLEAN /\ mark \in [Worker -> {"running", "orphaned"}]
      /\ checks \in [Validator -> 0 .. MaxChecks] /\ breaks \in 0 .. MaxBreaks
      /\ check \in [Validator -> Check] /\ c0 \in Check /\ (c0.pc # "idle" => c0.worker \in Worker)
      /\ c0.pc \notin {"idle", "integrity"} => Noticed(c0)
      /\ c0.pc = "integrity" => c0.sound \/ os[c0.worker] # "alive"
      /\ os \in [Worker -> {"alive", "gone", "other", "unseen"}]
  BY DEF UpkeepIInv, UpkeepTypeOK, UpkeepTypes, EndedIsFound
<1>r. Resting \in Check /\ Resting.pc = "idle" BY DEF Resting, CheckPcs
<1>a. \A k \in Concern : /\ AddError(c0, k) \in Check /\ AddError(c0, k).worker = c0.worker
                         /\ AddError(c0, k).limits = c0.limits /\ Noticed(AddError(c0, k))
  BY <1>0 DEF AddError
<1>p. ASSUME NEW c \in Check, NEW pc \in CheckPcs
      PROVE  /\ [c EXCEPT !.pc = pc] \in Check /\ [c EXCEPT !.pc = pc].pc = pc /\ [c EXCEPT !.pc = pc].worker = c.worker
             /\ Noticed([c EXCEPT !.pc = pc]) <=> Noticed(c)
  OBVIOUS
<1>c. ASSUME NEW c \in Check, NEW next \in CheckPcs \ {"commit", "integrity"}
      PROVE  /\ [c EXCEPT !.pc = "commit", !.next = next] \in Check /\ [c EXCEPT !.pc = "commit", !.next = next].pc = "commit"
             /\ [c EXCEPT !.pc = "commit", !.next = next].worker = c.worker
             /\ [c EXCEPT !.pc = "commit", !.next = next].next = next
             /\ Noticed([c EXCEPT !.pc = "commit", !.next = next]) <=> Noticed(c)
  BY DEF CheckPcs
<1>d. {"result", "idle", "resource", "lifecycle", "validated"} \subseteq CheckPcs \ {"commit", "integrity"} BY DEF CheckPcs
<1> USE UpkeepAssumption
<1>1. ASSUME NEW w \in Worker, NEW limits \in BOOLEAN, StartCheck(v, w, limits) PROVE UpkeepIInv'
  <2> DEFINE c == [Resting EXCEPT !.pc = "integrity", !.worker = w, !.limits = limits, !.sound = os[w] = "alive"]
  <2>1. c \in Check /\ c.pc = "integrity" /\ c.worker = w /\ (c.sound \/ os[c.worker] # "alive")
    BY <1>0 DEF Resting, CheckPcs
  <2>2. check' = [check EXCEPT ![v] = c] /\ checks[v] < MaxChecks /\ checks' = [checks EXCEPT ![v] = @ + 1]
        /\ UNCHANGED <<worldVars, mark, baseVars, upkeepVars, breaks>> /\ c0.pc = "idle"
    BY <1>1 DEF StartCheck
  <2>3. checks' \in [Validator -> 0 .. MaxChecks] BY <1>0, <2>2
  <2> HIDE DEF c
  <2> QED BY <1>0, <2>1, <2>2, <2>3, Validates DEF baseVars
\* A step of a check that writes nothing.
<1>t. ASSUME NEW c \in Check, NEW pc \in CheckPcs \ {"idle", "integrity", "commit"}, To(v, c, pc), Noticed(c),
             c.worker \in Worker, c0.pc # "commit" \/ breaks' # 0,
             breaks' \in 0 .. MaxBreaks, breaks' = 0 => breaks = 0,
             UNCHANGED <<worldVars, mark, baseVars, upkeepVars, checks>>
      PROVE  UpkeepIInv'
  <2> DEFINE d == [c EXCEPT !.pc = pc]
  <2>1. d \in Check /\ d.pc = pc /\ d.worker = c.worker /\ Noticed(d) BY <1>p, <1>t
  <2>2. check' = [check EXCEPT ![v] = d] BY <1>t DEF To
  <2> HIDE DEF d
  <2> QED BY <1>0, <1>t, <2>1, <2>2, Validates DEF baseVars
\* A check that finds an orphan.
<1>o. ASSUME NEW c \in Check, NEW next \in {"resource", "lifecycle", "validated"}, FindsOrphan(v, c, next), Noticed(c),
             c.worker \in Worker, c0.pc # "commit",
             UNCHANGED <<worldVars, upkeepVars, checks, breaks>>
      PROVE  UpkeepIInv'
  <2> DEFINE d == [c EXCEPT !.pc = "commit", !.next = next]
  <2>1. d \in Check /\ d.pc = "commit" /\ d.worker = c.worker /\ d.next = next /\ Noticed(d) BY <1>c, <1>d, <1>o
  <2>2. /\ check' = [check EXCEPT ![v] = d] /\ begun' = TRUE /\ UNCHANGED committed
        /\ base' = [base EXCEPT !.orphaned = base.orphaned \cup {c.worker}]
        /\ mark' = [mark EXCEPT ![c.worker] = "orphaned"]
    BY <1>o DEF FindsOrphan, LogsEvent, Execute
  <2>3. /\ base' \in Base /\ base'.rows = base.rows /\ base'.orphaned = base.orphaned \cup {c.worker}
        /\ base'.validated = base.validated
    BY <1>0, <1>o, <2>2 DEF Base
  <2>4. base.orphaned \subseteq base'.orphaned /\ c.worker \in base'.orphaned
    BY <1>0, <2>3
  <2>5. mark' \in [Worker -> {"running", "orphaned"}] /\ \A w \in Worker : mark'[w] = "orphaned" => mark[w] = "orphaned" \/ w = c.worker
    BY <1>0, <1>o, <2>2
  <2>6. d.worker \in Worker BY <1>o, <2>1
  <2>7. /\ checks' \in [Validator -> 0 .. MaxChecks] /\ breaks' \in 0 .. MaxBreaks /\ breaks' = breaks
        /\ UNCHANGED <<worldVars, upkeepVars>> /\ c0.pc # "commit"
    BY <1>0, <1>o
  <2>8. \A w \in Worker : mark'[w] = "orphaned" => mark[w] = "orphaned" \/ (d.pc = "commit" /\ d.worker = w /\ w \in base'.orphaned)
    BY <2>1, <2>4, <2>5
  <2>9. /\ committed' \in {committed, base} /\ begun' \in BOOLEAN /\ (breaks' = 0 => breaks = 0)
        /\ breaks' = 0 /\ check[v].pc = "commit" => committed' = base
    BY <2>2, <2>7
  <2>11. check' = [check EXCEPT ![v] = d] BY <2>2
  <2>12. d.pc # "idle" => d.worker \in Worker BY <2>6
  <2> HIDE DEF d
  <2> QED BY <2>1, <2>3, <2>4, <2>5, <2>7, <2>8, <2>9, <2>11, <2>12, Validates
<1>2. CASE CheckIntegrity(v)
  <2>0. /\ c0.pc = "integrity" /\ c0.worker \in Worker /\ AfterIntegrity(c0) \in {"resource", "lifecycle"}
        /\ AddError(c0, "integrity") \in Check /\ AddError(c0, "integrity").worker = c0.worker
        /\ Noticed(AddError(c0, "integrity"))
        /\ UNCHANGED <<worldVars, upkeepVars, checks, breaks>>
    BY <1>0, <1>2, <1>a DEF CheckIntegrity, AfterIntegrity, Concern
  <2>1. CASE To(v, AddError(c0, "integrity"), AfterIntegrity(c0)) /\ UNCHANGED <<mark, baseVars>>
    BY <1>0, <1>t, <2>0, <2>1 DEF CheckPcs
  <2>2. CASE LogsEvent(v, AddError(c0, "integrity"), base, AfterIntegrity(c0)) /\ UNCHANGED mark
    <3> DEFINE d == [AddError(c0, "integrity") EXCEPT !.pc = "commit", !.next = AfterIntegrity(c0)]
    <3>1. d \in Check /\ d.pc = "commit" /\ d.worker \in Worker /\ Noticed(d)
      <4> DEFINE e == AddError(c0, "integrity")
                 next == AfterIntegrity(c0)
      <4>1. e \in Check /\ e.worker \in Worker /\ Noticed(e) BY <2>0
      <4>2. next \in CheckPcs \ {"commit", "integrity"} BY <1>d, <2>0
      <4> HIDE DEF e, next
      <4>3. /\ [e EXCEPT !.pc = "commit", !.next = next] \in Check
            /\ [e EXCEPT !.pc = "commit", !.next = next].pc = "commit"
            /\ [e EXCEPT !.pc = "commit", !.next = next].worker = e.worker
            /\ Noticed([e EXCEPT !.pc = "commit", !.next = next])
        BY <1>c, <4>1, <4>2
      <4> QED BY <4>1, <4>3 DEF e, next
    <3>2. check' = [check EXCEPT ![v] = d] /\ begun' = TRUE /\ UNCHANGED <<base, committed, mark>>
      BY <2>2 DEF LogsEvent, Execute
    <3> HIDE DEF d
    <3> QED BY <1>0, <2>0, <3>1, <3>2, Validates
  <2>3. CASE FindsOrphan(v, AddError(c0, "integrity"), AfterIntegrity(c0))
    BY <1>0, <1>o, <2>0, <2>3
  <2>4. CASE os[c0.worker] \in {"alive", "unseen"} /\ To(v, c0, AfterIntegrity(c0)) /\ UNCHANGED <<mark, baseVars>>
    <3>1. Noticed(c0) BY <1>0, <2>0, <2>4
    <3> QED BY <1>0, <1>t, <2>0, <2>4, <3>1 DEF CheckPcs
  <2> QED BY <1>2, <2>1, <2>2, <2>3, <2>4 DEF CheckIntegrity
<1>3. CASE CheckResources(v)
  <2>0. /\ c0.pc = "resource" /\ c0.worker \in Worker
        /\ AddError(c0, "resource") \in Check /\ AddError(c0, "resource").worker = c0.worker
        /\ Noticed(AddError(c0, "resource"))
        /\ UNCHANGED <<worldVars, mark, baseVars, upkeepVars, checks, breaks>>
    BY <1>0, <1>3, <1>a DEF CheckResources, Concern
  <2> QED BY <1>0, <1>3, <1>t, <2>0 DEF CheckResources, CheckPcs
<1>4. CASE CheckPolicies(v)
  <2>0. /\ c0.pc = "security" /\ c0.worker \in Worker
        /\ AddError(c0, "security") \in Check /\ AddError(c0, "security").worker = c0.worker
        /\ Noticed(AddError(c0, "security"))
        /\ UNCHANGED <<worldVars, mark, baseVars, upkeepVars, checks, breaks>>
    BY <1>0, <1>4, <1>a DEF CheckPolicies, Concern
  <2> QED BY <1>0, <1>4, <1>t, <2>0 DEF CheckPolicies, CheckPcs
<1>5. CASE CheckLifecycle(v)
  <2>0. /\ c0.pc = "lifecycle" /\ c0.worker \in Worker
        /\ AddError(c0, "lifecycle") \in Check /\ AddError(c0, "lifecycle").worker = c0.worker
        /\ Noticed(AddError(c0, "lifecycle"))
        /\ UNCHANGED <<worldVars, upkeepVars, checks, breaks>>
    BY <1>0, <1>5, <1>a DEF CheckLifecycle, Concern
  <2>1. CASE FindsOrphan(v, AddError(c0, "lifecycle"), "validated")
    BY <1>0, <1>o, <2>0, <2>1
  <2>2. CASE /\ To(v, AddError(c0, "lifecycle"), "validated") \/ To(v, c0, "validated")
             /\ UNCHANGED <<mark, baseVars>>
    BY <1>0, <1>t, <2>0, <2>2 DEF CheckPcs
  <2> QED BY <1>5, <2>1, <2>2 DEF CheckLifecycle
<1>6. CASE SaveResult(v)
  <2>0. /\ c0.pc \in {"validated", "result"} /\ c0.worker \in Worker /\ Noticed(c0)
        /\ UNCHANGED <<worldVars, mark, upkeepVars, checks, breaks>>
    BY <1>0, <1>6 DEF SaveResult
  <2>1. CASE LogsEvent(v, c0, [base EXCEPT !.validated = base.validated \cup {Outcome(c0)}], "result")
    <3> DEFINE d == [c0 EXCEPT !.pc = "commit", !.next = "result"]
    <3>1. d \in Check /\ d.pc = "commit" /\ d.worker = c0.worker /\ Noticed(d) BY <1>0, <1>c, <1>d, <2>0
    <3>2. /\ check' = [check EXCEPT ![v] = d] /\ begun' = TRUE /\ UNCHANGED committed
          /\ base' = [base EXCEPT !.validated = base.validated \cup {Outcome(c0)}]
      BY <2>1 DEF LogsEvent, Execute
    <3>3. Outcome(c0) \in Verdict /\ Noticed(Outcome(c0)) BY <1>0, <2>0 DEF Outcome, Verdict
    <3>4. /\ base' \in Base /\ base'.rows = base.rows /\ base'.orphaned = base.orphaned
          /\ base'.validated = base.validated \cup {Outcome(c0)}
      BY <1>0, <3>2, <3>3 DEF Base
    <3>5. \A r \in base'.validated \ base.validated : Noticed(r) BY <3>3, <3>4
    <3> HIDE DEF d
    <3> QED BY <1>0, <2>0, <3>1, <3>2, <3>4, <3>5, Validates
  <2>2. CASE Execute(base) /\ check' = [check EXCEPT ![v] = Resting]
    <3>1. base' = base /\ begun' = TRUE /\ UNCHANGED committed BY <2>2 DEF Execute
    <3> QED BY <1>0, <1>r, <2>0, <2>2, <3>1, Validates
  <2> QED BY <1>6, <2>1, <2>2 DEF SaveResult
<1>7. CASE CheckCommits(v)
  <2> DEFINE d == [c0 EXCEPT !.pc = c0.next]
  <2>0. /\ c0.pc = "commit" /\ c0.worker \in Worker /\ Noticed(c0)
        /\ committed' = base /\ begun' = FALSE /\ UNCHANGED base
        /\ check' = [check EXCEPT ![v] = d]
        /\ UNCHANGED <<worldVars, mark, upkeepVars, checks, breaks>>
    BY <1>0, <1>7 DEF CheckCommits, CommitAll, To
  <2>1. d \in Check /\ d.pc = c0.next /\ d.pc # "commit" /\ d.worker = c0.worker /\ Noticed(d)
    BY <1>0, <1>p, <2>0
  <2>2. c0.next \in CheckPcs \ {"commit", "integrity"} BY <2>0 DEF UpkeepIInv, UpkeepTypes
  <2> HIDE DEF d
  <2> QED BY <1>0, <2>0, <2>1, <2>2, Validates
<1>8. CASE CheckBreaks(v)
  <2>0. /\ breaks' \in 0 .. MaxBreaks /\ breaks' # 0 /\ UNCHANGED <<worldVars, mark, baseVars, upkeepVars, checks>>
        /\ c0.pc \in {"commit", "validated"} /\ c0.worker \in Worker
    <3>1. breaks < MaxBreaks /\ breaks' = breaks + 1 /\ UNCHANGED <<worldVars, mark, baseVars, upkeepVars, checks>>
          /\ c0.pc \in {"commit", "validated"}
      BY <1>8 DEF CheckBreaks, Break
    <3> QED BY <1>0, <3>1
  <2>1. ASSUME NEW k \in Concern, NEW pc \in {"resource", "lifecycle", "validated"}, To(v, AddError(c0, k), pc) PROVE UpkeepIInv'
    BY <1>0, <1>a, <1>t, <2>0, <2>1 DEF CheckPcs
  <2>2. CASE check' = [check EXCEPT ![v] = Resting] BY <1>0, <1>r, <2>0, <2>2, Validates DEF baseVars
  <2> QED BY <1>8, <2>1, <2>2 DEF CheckBreaks, Concern
<1> QED BY <1>1, <1>2, <1>3, <1>4, <1>5, <1>6, <1>7, <1>8

LEMMA UpkeepStep == UpkeepIInv /\ [UpkeepNext]_processUpkeepVars => UpkeepIInv'
<1>1. ASSUME UpkeepIInv, UNCHANGED processUpkeepVars PROVE UpkeepIInv'
  BY <1>1 DEF processUpkeepVars, worldVars, baseVars, upkeepVars, checkVars, UpkeepIInv, UpkeepTypeOK, UpkeepInv, UpkeepTypes,
     EventsFirst, EndedIsFound, MissingAreGone, OrphansAreLogged, EndedIsInvalid
<1> QED BY <1>1, UpkeepSteps, ValidationSteps DEF UpkeepNext

\* The monitor loses no record and announces no orphan before its row is written,
\* beside registrations, terminations and withdrawals that may fail at each write;
\* the clean-up deletes only rows of processes that have ended, and no validation
\* calls one of them valid.
THEOREM ProcessesSafe == Spec => []ProcessesInv
<1>1. Init => MonitorIInv /\ UpkeepIInv BY MonitorStart, UpkeepStart DEF Init
<1>2. MonitorIInv /\ UpkeepIInv /\ [Next]_everything => (MonitorIInv /\ UpkeepIInv)'
  BY StepsOfStores, MonitorStep, UpkeepStep
<1>3. MonitorIInv /\ UpkeepIInv => ProcessesInv BY DEF MonitorIInv, UpkeepIInv, ProcessesInv
<1> QED BY <1>1, <1>2, <1>3, PTL DEF Spec, everything

-----------------------------------------------------------------------------
(* The commands *)

\* An alias stands for a command that is there, whether a command of its own
\* name hides it or not.
AliasStands == \A a \in Name : alias[a] # Nothing => command[alias[a]] # {}

CommandIInv == SlashTypeOK /\ SlashInv /\ AliasStands /\ IsFiniteSet(active)

\* What is left of a sequence without repetition when its first excess elements
\* are dropped.
LEMMA HistoryTrimmed ==
    ASSUME NEW CONSTANT E, NEW CONSTANT all \in Seq(E), IsInjective(all), NEW CONSTANT excess \in 0 .. 1, excess <= Len(all)
    PROVE  LET h == SubSeq(all, excess + 1, Len(all))
               dropped == {all[i] : i \in 1 .. excess}
           IN /\ h \in Seq(E) /\ IsInjective(h) /\ Len(h) = Len(all) - excess
              /\ ToSet(h) \cap dropped = {} /\ ToSet(h) \cup dropped = ToSet(all) /\ dropped \subseteq E
<1> DEFINE h == SubSeq(all, excess + 1, Len(all))
           dropped == {all[i] : i \in 1 .. excess}
<1>1. Len(all) \in Nat /\ DOMAIN all = 1 .. Len(all) /\ (\A i \in 1 .. Len(all) : all[i] \in E)
  OBVIOUS
<1>2. \A i, j \in 1 .. Len(all) : all[i] = all[j] => i = j
  BY <1>1 DEF IsInjective
<1>3. /\ h \in Seq(E) /\ Len(h) = Len(all) - excess
      /\ \A i \in 1 .. Len(all) - excess : h[i] = all[i + excess]
  <2>1. /\ h \in Seq(E)
        /\ Len(h) = IF excess + 1 <= Len(all) THEN Len(all) - (excess + 1) + 1 ELSE 0
        /\ \A i \in 1 .. Len(all) - (excess + 1) + 1 : h[i] = all[(excess + 1) + i - 1]
    <3>1. \A i \in excess + 1 .. Len(all) : all[i] \in E BY <1>1
    <3> QED BY <1>1, <3>1, SubSeqProperties
  <2> HIDE DEF h
  <2>2. PICK n \in Nat : n = Len(all) BY <1>1
  <2>3. excess <= n BY <2>2
  <2>4. n - (excess + 1) + 1 = n - excess
    BY ONLY n \in Nat, excess \in 0 .. 1
  <2>5. Len(h) = n - excess
    <3>1. CASE excess + 1 <= n BY <2>1, <2>2, <2>4, <3>1
    <3>2. CASE ~(excess + 1 <= n)
      <4>1. n - excess = 0 BY ONLY n \in Nat, excess \in 0 .. 1, <2>3, <3>2
      <4> QED BY <2>1, <2>2, <3>2, <4>1
    <3> QED BY <3>1, <3>2
  <2>6. ASSUME NEW i \in 1 .. n - excess PROVE h[i] = all[i + excess]
    <3>1. (excess + 1) + i - 1 = i + excess BY ONLY i \in 1 .. n - excess, n \in Nat, excess \in 0 .. 1
    <3> QED BY <2>1, <2>2, <2>4, <3>1
  <2> QED BY <2>1, <2>2, <2>5, <2>6
<1> HIDE DEF h
<1>4. DOMAIN h = 1 .. Len(all) - excess BY <1>3
<1>5. IsInjective(h) BY <1>1, <1>2, <1>3, <1>4 DEF IsInjective
<1>6. ToSet(h) = {all[i] : i \in excess + 1 .. Len(all)}
  <2>1. \A i \in excess + 1 .. Len(all) : i - excess \in 1 .. Len(all) - excess /\ h[i - excess] = all[i]
    BY <1>1, <1>3
  <2>2. \A i \in 1 .. Len(all) - excess : i + excess \in excess + 1 .. Len(all) /\ h[i] = all[i + excess]
    BY <1>1, <1>3
  <2> QED BY <1>4, <2>1, <2>2 DEF ToSet
<1>7. ToSet(h) \cap dropped = {}
  <2>1. ASSUME NEW i \in excess + 1 .. Len(all), NEW j \in 1 .. excess PROVE all[i] # all[j]
    <3>1. i \in 1 .. Len(all) /\ j \in 1 .. Len(all) /\ i # j BY <1>1
    <3> QED BY <1>2, <3>1
  <2> QED BY <1>6, <2>1
<1>8. ToSet(h) \cup dropped = ToSet(all)
  <2>1. 1 .. Len(all) = (1 .. excess) \cup (excess + 1 .. Len(all)) BY <1>1
  <2> QED BY <1>1, <1>6, <2>1 DEF ToSet
<1>9. dropped \subseteq E BY <1>1
<1> QED BY <1>3, <1>5, <1>7, <1>8, <1>9 DEF h

\* The history with one more execution at its end.
LEMMA HistoryAppended ==
    ASSUME NEW CONSTANT E, NEW CONSTANT s \in Seq(E), NEW CONSTANT e \in E, IsInjective(s), e \notin ToSet(s)
    PROVE  /\ Append(s, e) \in Seq(E) /\ IsInjective(Append(s, e)) /\ Len(Append(s, e)) = Len(s) + 1
           /\ ToSet(Append(s, e)) = ToSet(s) \cup {e}
<1> DEFINE all == Append(s, e)
<1>1. /\ all \in Seq(E) /\ Len(all) = Len(s) + 1 /\ all[Len(s) + 1] = e /\ Len(s) \in Nat
      /\ \A i \in 1 .. Len(s) : all[i] = s[i]
  BY AppendProperties
<1>2. DOMAIN all = 1 .. Len(s) + 1 /\ DOMAIN s = 1 .. Len(s) BY <1>1
<1> HIDE DEF all
<1>3. \A i, j \in 1 .. Len(s) + 1 : all[i] = all[j] => i = j
  <2>1. \A i \in 1 .. Len(s) + 1 : i = Len(s) + 1 \/ i \in 1 .. Len(s) BY <1>1
  <2>2. \A i, j \in 1 .. Len(s) : s[i] = s[j] => i = j BY <1>2 DEF IsInjective
  <2>3. \A i \in 1 .. Len(s) : s[i] # e BY <1>2 DEF ToSet
  <2> QED BY <1>1, <2>1, <2>2, <2>3
<1>4. IsInjective(all) BY <1>2, <1>3 DEF IsInjective
<1>5. ToSet(all) = ToSet(s) \cup {e}
  <2>1. 1 .. Len(s) + 1 = (1 .. Len(s)) \cup {Len(s) + 1} BY <1>1
  <2> QED BY <1>1, <1>2, <2>1 DEF ToSet
<1> QED BY <1>1, <1>4, <1>5 DEF all

LEMMA SlashStart == SlashInit => CommandIInv
<1> SUFFICES ASSUME SlashInit PROVE CommandIInv
  OBVIOUS
<1>1. Cardinality(active) = 0 /\ IsFiniteSet(active) BY FS_EmptySet DEF SlashInit
<1>2. ToSet(history) = {} /\ IsInjective(history) /\ Len(history) = 0 /\ history \in Seq(CommandRun)
  BY DEF SlashInit, ToSet, IsInjective
<1>3. SlashTypeOK BY <1>2 DEF SlashInit, SlashTypeOK, RunPcs, RunStatuses
<1>4. SlashInv BY <1>1, <1>2, SlashAssumption DEF SlashInit, SlashInv, Resolved
<1>5. AliasStands BY DEF SlashInit, AliasStands
<1> QED BY <1>1, <1>3, <1>4, <1>5 DEF CommandIInv

LEMMA SlashStep == CommandIInv /\ [SlashNext]_slashVars => CommandIInv'
<1> SUFFICES ASSUME CommandIInv, [SlashNext]_slashVars PROVE CommandIInv'
  OBVIOUS
<1> DEFINE Registry == /\ command' \in [Name -> SUBSET Category] /\ alias' \in [Name -> Name \cup {Nothing}]
                       /\ listed' \in [Category -> SUBSET Name]
                       /\ \A n \in Name, c \in Category : n \in listed'[c] <=> c \in command'[n]
                       /\ AliasStands'
           Executor == /\ execution' \in [CommandRun -> [pc : RunPcs, dry : BOOLEAN]]
                       /\ runStatus' \in [CommandRun -> RunStatuses]
                       /\ active' \subseteq CommandRun /\ history' \in Seq(CommandRun) /\ trimmed' \subseteq CommandRun
                       /\ Cardinality(active') <= MaxConcurrent /\ IsFiniteSet(active')
                       /\ active' = {e \in CommandRun : execution'[e].pc \in {"admitted", "running", "ending"}}
                       /\ ToSet(history') \cap trimmed' = {} /\ IsInjective(history') /\ Len(history') <= MaxHistory
                       /\ ToSet(history') \cup trimmed' = {e \in CommandRun : execution'[e].pc \in {"announcing", "returned"}}
<1>a. Registry /\ Executor => CommandIInv'
  BY SlashAssumption DEF CommandIInv, SlashTypeOK, SlashInv, AliasStands, Resolved
<1>b. UNCHANGED registryVars => Registry
  BY DEF CommandIInv, SlashTypeOK, SlashInv, AliasStands, registryVars
<1>c. UNCHANGED <<execution, runStatus, active, history, trimmed>> => Executor
  BY DEF CommandIInv, SlashTypeOK, SlashInv
<1>d. /\ execution \in [CommandRun -> [pc : RunPcs, dry : BOOLEAN]] /\ runStatus \in [CommandRun -> RunStatuses]
      /\ active \subseteq CommandRun /\ history \in Seq(CommandRun) /\ trimmed \subseteq CommandRun
      /\ Cardinality(active) <= MaxConcurrent /\ IsFiniteSet(active) /\ Cardinality(active) \in Nat
      /\ active = {e \in CommandRun : execution[e].pc \in {"admitted", "running", "ending"}}
      /\ ToSet(history) \cap trimmed = {} /\ IsInjective(history) /\ Len(history) <= MaxHistory
      /\ ToSet(history) \cup trimmed = {e \in CommandRun : execution[e].pc \in {"announcing", "returned"}}
  BY FS_CardinalityType DEF CommandIInv, SlashTypeOK, SlashInv
<1>e. /\ command \in [Name -> SUBSET Category] /\ alias \in [Name -> Name \cup {Nothing}]
      /\ listed \in [Category -> SUBSET Name]
      /\ \A n \in Name, c \in Category : n \in listed[c] <=> c \in command[n]
      /\ AliasStands
  BY DEF CommandIInv, SlashTypeOK, SlashInv
<1> USE SlashAssumption DEF registryVars
<1>1. ASSUME NEW n \in Name, UnregisterCommand(n) PROVE CommandIInv'
  <2>1. Registry BY <1>e, <1>1 DEF UnregisterCommand, AliasStands
  <2> QED BY <1>a, <1>c, <1>1, <2>1 DEF UnregisterCommand
<1>2. ASSUME NEW n \in Name, RemoveAlias(n) PROVE CommandIInv'
  <2>1. Registry BY <1>e, <1>2 DEF RemoveAlias, AliasStands
  <2> QED BY <1>a, <1>c, <1>2, <2>1 DEF RemoveAlias
<1>3. ASSUME NEW n \in Name, NEW c \in Category, RegisterCommand(n, c) PROVE CommandIInv'
  <2>1. Registry BY <1>e, <1>3 DEF RegisterCommand, AliasStands
  <2> QED BY <1>a, <1>c, <1>3, <2>1 DEF RegisterCommand
<1>4. ASSUME NEW a \in Name, NEW n \in Name, AddAlias(a, n) PROVE CommandIInv'
  <2>1. Registry BY <1>e, <1>4 DEF AddAlias, AliasStands
  <2> QED BY <1>a, <1>c, <1>4, <2>1 DEF AddAlias
<1>5. ASSUME NEW e \in CommandRun, NEW dry \in BOOLEAN, Admit(e, dry) PROVE CommandIInv'
  <2>0. execution[e].pc = "idle" /\ e \notin active /\ UNCHANGED <<registryVars, history, trimmed>>
    BY <1>d, <1>5 DEF Admit
  <2>1. CASE Cardinality(active) < MaxConcurrent
    <3>1. /\ execution' = [execution EXCEPT ![e] = [pc |-> "admitted", dry |-> dry]]
          /\ active' = active \cup {e} /\ UNCHANGED runStatus
      BY <1>5, <2>1 DEF Admit
    <3>2. Cardinality(active') = Cardinality(active) + 1 /\ IsFiniteSet(active')
      BY <1>d, <2>0, <3>1, FS_AddElement
    <3>3. Executor BY <1>d, <2>0, <2>1, <3>1, <3>2 DEF RunPcs
    <3> QED BY <1>a, <1>b, <2>0, <3>3
  <2>2. CASE ~(Cardinality(active) < MaxConcurrent)
    <3>1. /\ execution' = [execution EXCEPT ![e] = [pc |-> "refused", dry |-> dry]]
          /\ runStatus' = [runStatus EXCEPT ![e] = "failed"] /\ UNCHANGED active
      BY <1>5, <2>2 DEF Admit
    <3>2. /\ execution' \in [CommandRun -> [pc : RunPcs, dry : BOOLEAN]] /\ runStatus' \in [CommandRun -> RunStatuses]
          /\ \A x \in CommandRun : x # e => execution'[x] = execution[x]
          /\ execution'[e].pc = "refused"
      BY <1>d, <3>1 DEF RunPcs, RunStatuses
    <3>3. active' = {x \in CommandRun : execution'[x].pc \in {"admitted", "running", "ending"}}
      BY <1>d, <2>0, <3>1, <3>2
    <3>4. {x \in CommandRun : execution'[x].pc \in {"announcing", "returned"}} = {x \in CommandRun : execution[x].pc \in {"announcing", "returned"}}
      BY <2>0, <3>2
    <3>5. Executor BY <1>d, <2>0, <3>1, <3>2, <3>3, <3>4
    <3> QED BY <1>a, <1>b, <2>0, <3>5
  <2> QED BY <2>1, <2>2
<1>6. ASSUME NEW e \in CommandRun, StartRunning(e) \/ Run(e) \/ CancelTask(e) \/ Announced(e) PROVE CommandIInv'
  <2>1. PICK pc \in RunPcs :
            /\ execution' = [execution EXCEPT ![e].pc = pc]
            /\ pc \in {"admitted", "running", "ending"} <=> execution[e].pc \in {"admitted", "running", "ending"}
            /\ pc \in {"announcing", "returned"} <=> execution[e].pc \in {"announcing", "returned"}
    BY <1>d, <1>6 DEF StartRunning, Run, CancelTask, Announced, MoveTo, RunPcs
  <2>2. UNCHANGED <<registryVars, active, history, trimmed>> /\ runStatus' \in [CommandRun -> RunStatuses]
    BY <1>d, <1>6 DEF StartRunning, Run, CancelTask, Announced, SetRunStatus, RunStatuses
  <2>3. /\ execution' \in [CommandRun -> [pc : RunPcs, dry : BOOLEAN]]
        /\ \A x \in CommandRun : /\ execution'[x].pc \in {"admitted", "running", "ending"} <=> execution[x].pc \in {"admitted", "running", "ending"}
                                 /\ execution'[x].pc \in {"announcing", "returned"} <=> execution[x].pc \in {"announcing", "returned"}
    BY <1>d, <2>1
  <2>4. /\ active' = {x \in CommandRun : execution'[x].pc \in {"admitted", "running", "ending"}}
        /\ ToSet(history') \cup trimmed' = {x \in CommandRun : execution'[x].pc \in {"announcing", "returned"}}
    BY <1>d, <2>2, <2>3
  <2>5. Executor BY <1>d, <2>2, <2>3, <2>4
  <2> QED BY <1>a, <1>b, <2>2, <2>5
<1>7. ASSUME NEW e \in CommandRun, CancelExecution(e) PROVE CommandIInv'
  <2>1. Executor BY <1>d, <1>7 DEF CancelExecution, SetRunStatus, RunStatuses
  <2> QED BY <1>a, <1>b, <1>7, <2>1 DEF CancelExecution
<1>8. ASSUME NEW e \in CommandRun, Record(e) PROVE CommandIInv'
  <2>1. /\ execution' = [execution EXCEPT ![e].pc = "announcing"] /\ execution[e].pc = "ending"
        /\ active' = active \ {e} /\ UNCHANGED <<registryVars, runStatus>>
    BY <1>8 DEF Record, MoveTo
  <2>2. Cardinality(active') <= Cardinality(active) /\ IsFiniteSet(active') /\ Cardinality(active') \in Nat
    BY <1>d, <2>1, FS_Subset, FS_CardinalityType
  <2>3. e \notin ToSet(history) /\ e \notin trimmed BY <1>d, <2>1
  <2> DEFINE all == Append(history, e)
             excess == IF Len(all) > MaxHistory THEN Len(all) - MaxHistory ELSE 0
             h == SubSeq(all, excess + 1, Len(all))
             dropped == {all[i] : i \in 1 .. excess}
  <2>4. history' = h /\ trimmed' = trimmed \cup dropped BY <1>8 DEF Record
  <2>5. /\ h \in Seq(CommandRun) /\ IsInjective(h) /\ Len(h) <= MaxHistory
        /\ ToSet(h) \cap dropped = {} /\ ToSet(h) \cup dropped = ToSet(history) \cup {e} /\ dropped \subseteq CommandRun
    <3>1. /\ all \in Seq(CommandRun) /\ IsInjective(all) /\ Len(all) = Len(history) + 1
          /\ ToSet(all) = ToSet(history) \cup {e}
      BY <1>d, <2>3, HistoryAppended
    <3>2. Len(history) \in Nat BY <1>d
    <3> HIDE DEF all
    <3>3. excess \in 0 .. 1 /\ excess <= Len(all) /\ Len(all) - excess <= MaxHistory
      BY <1>d, <3>1, <3>2
    <3> HIDE DEF excess
    <3>4. /\ h \in Seq(CommandRun) /\ IsInjective(h) /\ Len(h) = Len(all) - excess
          /\ ToSet(h) \cap dropped = {} /\ ToSet(h) \cup dropped = ToSet(all) /\ dropped \subseteq CommandRun
      BY <3>1, <3>3, HistoryTrimmed
    <3> QED BY <3>1, <3>3, <3>4
  <2> HIDE DEF h, dropped
  <2>6. Executor BY <1>d, <2>1, <2>2, <2>3, <2>4, <2>5 DEF RunPcs
  <2> QED BY <1>a, <1>b, <2>1, <2>6
<1>9. CASE UNCHANGED slashVars BY <1>a, <1>b, <1>c, <1>9 DEF slashVars
<1> QED BY <1>1, <1>2, <1>3, <1>4, <1>5, <1>6, <1>7, <1>8, <1>9 DEF SlashNext, CommandExecutes

-----------------------------------------------------------------------------
(* The executables *)

\* Where a search that has chosen an executable stands: it was a strategy that
\* chose it, the files if not the database, and an undisturbed search would
\* still find it there, works if the database chose it, and cannot be saved once
\* that is noted.
ChosenByStrategy ==
    \A c \in BinCaller :
        LET s == search[c] IN
        /\ s.pc = "waiting" => s.at = 1
        /\ s.pc \in {"validating", "saving", "noting"} =>
            /\ s.at \in 1 .. 4 /\ s.bin \in Binary
            /\ s.at # 4 => s.bin \in Reached[Strategies[s.at]]
            /\ s.steady => /\ s.pc = "validating" => exe[s.bin] # "absent"
                           /\ s.pc = "noting" => s.bin \notin Saveable

\* What the strategies of files an undisturbed search has left behind had to
\* offer, and all those of a search under way.
PassedWith(i) ==
    Reached[Strategies[i]] \cap Present # {}
        => \E b \in Reached[Strategies[i]] : exe[b] = "bad" \/ (exe[b] = "good" /\ b \notin Saveable)

PassedEarlier ==
    \A c \in BinCaller :
        LET s == search[c] IN
        s.pc \in {"trying", "validating", "saving", "noting"} /\ s.steady =>
            \A i \in 1 .. 3 : i < s.at => PassedWith(i)

BinaryIInv == BinaryTypeOK /\ FoundWorks /\ ChosenByStrategy /\ PassedEarlier

LEMMA BinaryStart == BinaryInit => BinaryIInv
<1> SUFFICES ASSUME BinaryInit PROVE BinaryIInv
  OBVIOUS
<1>1. \A c \in BinCaller : search[c] = NoSearch BY DEF BinaryInit
<1>2. /\ NoSearch.pc = "idle"
      /\ NoSearch \in [pc : {"idle", "waiting", "trying", "validating", "saving", "noting", "found", "failed"},
                       at : 1 .. 5, bin : Binary \cup {NoBinary}, force : BOOLEAN, steady : BOOLEAN]
  BY DEF NoSearch
<1>3. BinaryTypeOK BY <1>2 DEF BinaryInit, BinaryTypeOK
<1> QED BY <1>1, <1>2, <1>3 DEF BinaryIInv, FoundWorks, ChosenByStrategy, PassedEarlier

LEMMA StrategyNames ==
    /\ DOMAIN Strategies = 1 .. 4 /\ Strategies[4] = "database"
    /\ \A i \in 1 .. 3 : Strategies[i] \in {"which", "nvm", "path"} /\ Strategies[i] # "database"
BY DEF Strategies

LEMMA PassesOver == BinaryIInv => BinaryInv
<1> SUFFICES ASSUME BinaryIInv PROVE PassedOver
  BY DEF BinaryIInv, BinaryInv
<1> SUFFICES ASSUME NEW c \in BinCaller, search[c].pc = "trying", search[c].steady,
                    NEW i \in 1 .. search[c].at - 1, Strategies[i] # "database"
             PROVE  PassedWith(i)
  BY DEF PassedOver, PassedWith
<1>1. search[c].at \in 1 .. 5 BY DEF BinaryIInv, BinaryTypeOK
<1>2. i \in 1 .. 3 /\ i < search[c].at BY <1>1, StrategyNames
<1> QED BY <1>2 DEF BinaryIInv, PassedEarlier

\* A step of one search, with the outside as it is, preserves the invariant if
\* what it becomes satisfies what is said of a search.
LEMMA OneSearches ==
    ASSUME BinaryIInv, UNCHANGED exe, NEW c \in BinCaller, NEW s, search' = [search EXCEPT ![c] = s],
           s \in [pc : {"idle", "waiting", "trying", "validating", "saving", "noting", "found", "failed"},
                  at : 1 .. 5, bin : Binary \cup {NoBinary}, force : BOOLEAN, steady : BOOLEAN],
           s.pc = "waiting" => s.at = 1,
           s.pc \in {"saving", "noting"} /\ s.steady => exe[s.bin] = "good",
           s.pc \in {"validating", "saving", "noting"} =>
               /\ s.at \in 1 .. 4 /\ s.bin \in Binary
               /\ s.at # 4 => s.bin \in Reached[Strategies[s.at]]
               /\ s.steady => /\ s.pc = "validating" => exe[s.bin] # "absent"
                              /\ s.pc = "noting" => s.bin \notin Saveable,
           s.pc \in {"trying", "validating", "saving", "noting"} /\ s.steady =>
               \A i \in 1 .. 3 : i < s.at => PassedWith(i),
           cached' \in Binary \cup {NoBinary}, fresh' \in BOOLEAN, savedBinaries' \subseteq Binary,
           discovery' \in BinCaller \cup {NoCaller}
    PROVE  BinaryIInv'
<1> USE DEF BinaryIInv
<1>0. /\ search'[c] = s /\ \A d \in BinCaller : d # c => search'[d] = search[d]
  BY DEF BinaryTypeOK
<1>1. BinaryTypeOK' BY DEF BinaryTypeOK
<1>2. FoundWorks' BY <1>0 DEF FoundWorks
<1>3. ChosenByStrategy' BY <1>0 DEF ChosenByStrategy
<1>4. \A i \in 1 .. 3 : PassedWith(i) => PassedWith(i)' BY DEF PassedWith, Present
<1>5. PassedEarlier'
  <2> SUFFICES ASSUME NEW d \in BinCaller, search'[d].pc \in {"trying", "validating", "saving", "noting"},
                      search'[d].steady, NEW i \in 1 .. 3, i < search'[d].at
               PROVE  PassedWith(i)'
    BY DEF PassedEarlier
  <2>1. CASE d = c BY <1>0, <1>4, <2>1
  <2>2. CASE d # c BY <1>0, <1>4, <2>2 DEF PassedEarlier
  <2> QED BY <2>1, <2>2
<1> QED BY <1>1, <1>2, <1>3, <1>5

\* What one caller's search is: the value of one entry of the table.
OneSearch == [pc : {"idle", "waiting", "trying", "validating", "saving", "noting", "found", "failed"},
              at : 1 .. 5, bin : Binary \cup {NoBinary}, force : BOOLEAN, steady : BOOLEAN]

LEMMA EndedSearches ==
    ASSUME NEW CONSTANT pc \in {"waiting", "found", "failed"}, NEW b \in Binary \cup {NoBinary}
    PROVE  SearchEnded(pc, b) \in OneSearch /\ SearchEnded(pc, b).pc = pc /\ SearchEnded(pc, b).at = 1
<1>1. NoSearch \in OneSearch /\ NoSearch.at = 1
  BY DEF NoSearch, OneSearch
<1> QED BY <1>1 DEF SearchEnded, OneSearch

\* What follows a failed strategy, and what ends a search.
LEMMA NextSearches ==
    ASSUME BinaryTypeOK, NEW c \in BinCaller
    PROVE  /\ search[c].at \in 1 .. 4 =>
                  /\ NextStrategy(c) \in OneSearch /\ NextStrategy(c).pc = "trying"
                  /\ NextStrategy(c).at = search[c].at + 1 /\ NextStrategy(c).steady = search[c].steady
           /\ \A pc \in {"waiting", "found", "failed"}, b \in Binary \cup {NoBinary} :
                  SearchEnded(pc, b) \in OneSearch /\ SearchEnded(pc, b).pc = pc /\ SearchEnded(pc, b).at = 1
<1>1. search[c] \in OneSearch BY DEF BinaryTypeOK, OneSearch
<1>2. search[c].at \in 1 .. 4 => search[c].at + 1 \in 1 .. 5
  OBVIOUS
<1>3. search[c].at \in 1 .. 4 =>
          /\ NextStrategy(c) \in OneSearch /\ NextStrategy(c).pc = "trying"
          /\ NextStrategy(c).at = search[c].at + 1 /\ NextStrategy(c).steady = search[c].steady
  BY <1>1, <1>2 DEF NextStrategy, OneSearch
<1> QED BY <1>3, EndedSearches

LEMMA BinaryStep == BinaryIInv /\ [BinaryNext]_binaryVars => BinaryIInv'
<1> SUFFICES ASSUME BinaryIInv, [BinaryNext]_binaryVars PROVE BinaryIInv'
  OBVIOUS
<1> USE BinaryAssumption
<1>a. BinaryTypeOK /\ FoundWorks /\ ChosenByStrategy /\ PassedEarlier BY DEF BinaryIInv
<1>b. /\ \A c \in BinCaller : search[c] \in OneSearch
      /\ search \in [BinCaller -> OneSearch]
      /\ cached \in Binary \cup {NoBinary} /\ fresh \in BOOLEAN /\ savedBinaries \subseteq Binary
      /\ discovery \in BinCaller \cup {NoCaller} /\ exe \in [Binary -> {"absent", "good", "bad"}]
  BY <1>a DEF BinaryTypeOK, OneSearch
\* A search that ends, waits, or goes to its next strategy.
<1>c. ASSUME UNCHANGED exe, NEW c \in BinCaller, NEW s \in OneSearch, search' = [search EXCEPT ![c] = s],
             s.pc \in {"waiting", "found", "failed"}, s.at = 1, savedBinaries' \subseteq Binary,
             cached' \in Binary \cup {NoBinary}, fresh' \in BOOLEAN, discovery' \in BinCaller \cup {NoCaller}
      PROVE  BinaryIInv'
  BY <1>b, <1>c, OneSearches DEF OneSearch
\* A search that goes on with its strategies, holding the lock.
<1>d. ASSUME UNCHANGED exe, NEW c \in BinCaller, NEW s \in OneSearch, search' = [search EXCEPT ![c] = s],
             s.pc # "waiting", s.pc \in {"saving", "noting"} /\ s.steady => exe[s.bin] = "good",
             s.pc \in {"validating", "saving", "noting"} =>
                 /\ s.at \in 1 .. 4 /\ s.bin \in Binary
                 /\ s.at # 4 => s.bin \in Reached[Strategies[s.at]]
                 /\ s.steady => /\ s.pc = "validating" => exe[s.bin] # "absent"
                                /\ s.pc = "noting" => s.bin \notin Saveable,
             s.steady => \A i \in 1 .. 3 : i < s.at => PassedWith(i),
             cached' \in Binary \cup {NoBinary}, fresh' \in BOOLEAN, savedBinaries' \subseteq Binary,
             discovery' \in BinCaller \cup {NoCaller}
      PROVE  BinaryIInv'
  BY <1>d, OneSearches DEF OneSearch
\* The caller's next strategy, when the one that is left cannot give what it had.
<1>e. ASSUME UNCHANGED <<exe, savedBinaries, discovery>>, NEW c \in BinCaller, search[c].at \in 1 .. 4,
             search' = [search EXCEPT ![c] = NextStrategy(c)],
             search[c].pc \in {"trying", "validating", "saving", "noting"},
             cached' \in Binary \cup {NoBinary}, fresh' \in BOOLEAN,
             search[c].steady /\ search[c].at # 4 => PassedWith(search[c].at)
      PROVE  BinaryIInv'
  <2>1. /\ NextStrategy(c) \in OneSearch /\ NextStrategy(c).pc = "trying"
        /\ NextStrategy(c).at = search[c].at + 1 /\ NextStrategy(c).steady = search[c].steady
    BY <1>a, <1>e, NextSearches
  <2>2. NextStrategy(c).steady => \A i \in 1 .. 3 : i < NextStrategy(c).at => PassedWith(i)
    <3> SUFFICES ASSUME search[c].steady, NEW i \in 1 .. 3, i < search[c].at + 1 PROVE PassedWith(i)
      BY <2>1
    <3>1. CASE i = search[c].at BY <1>e, <3>1
    <3>2. CASE i < search[c].at BY <1>a, <1>e, <3>2 DEF PassedEarlier
    <3> QED BY <1>e, <3>1, <3>2
  <2> QED BY <1>b, <1>d, <1>e, <2>1, <2>2
<1>1. ASSUME NEW b \in Binary, Changes(b) PROVE BinaryIInv'
  <2>1. search' = [c \in BinCaller |-> [search[c] EXCEPT !.steady = FALSE]] BY <1>1 DEF Changes, Disturbed
  <2>2. \A s \in OneSearch : LET t == [s EXCEPT !.steady = FALSE] IN
            t \in OneSearch /\ ~t.steady /\ t.pc = s.pc /\ t.at = s.at /\ t.bin = s.bin
    BY DEF OneSearch
  <2>3. \A c \in BinCaller : /\ search'[c] \in OneSearch /\ ~search'[c].steady /\ search'[c].pc = search[c].pc
                            /\ search'[c].at = search[c].at /\ search'[c].bin = search[c].bin
    BY <1>b, <2>1, <2>2
  <2>4. BinaryTypeOK'
    <3>1. search' \in [BinCaller -> OneSearch] BY <2>1, <2>3
    <3>2. exe' \in [Binary -> {"absent", "good", "bad"}] BY <1>b, <1>1 DEF Changes
    <3> QED BY <1>b, <1>1, <3>1, <3>2 DEF BinaryTypeOK, OneSearch, Changes
  <2>5. ChosenByStrategy' BY <1>a, <2>3 DEF ChosenByStrategy
  <2>6. FoundWorks' /\ PassedEarlier' BY <2>3 DEF FoundWorks, PassedEarlier
  <2> QED BY <2>4, <2>5, <2>6 DEF BinaryIInv
<1>2. CASE (CacheExpires \/ InvalidateCache \/ UNCHANGED binaryVars)
  <2>1. UNCHANGED <<exe, savedBinaries, discovery, search>> /\ cached' \in {cached, NoBinary} /\ fresh' \in {fresh, FALSE}
    BY <1>2 DEF CacheExpires, InvalidateCache, binaryVars
  <2>2. BinaryTypeOK' BY <2>1 DEF BinaryIInv, BinaryTypeOK
  <2>3. FoundWorks' BY <2>1 DEF BinaryIInv, FoundWorks
  <2>4. ChosenByStrategy' BY <2>1 DEF BinaryIInv, ChosenByStrategy
  <2>5. PassedEarlier' BY <2>1 DEF BinaryIInv, PassedEarlier, PassedWith, Present
  <2> QED BY <2>2, <2>3, <2>4, <2>5 DEF BinaryIInv
<1>3. ASSUME NEW c \in BinCaller, NEW force \in BOOLEAN, DiscoverBinary(c, force) PROVE BinaryIInv'
  <2> DEFINE s == [SearchEnded("waiting", NoBinary) EXCEPT !.force = force]
  <2>1. SearchEnded("waiting", NoBinary) \in OneSearch /\ SearchEnded("waiting", NoBinary).pc = "waiting"
        /\ SearchEnded("waiting", NoBinary).at = 1
    BY EndedSearches
  <2>1a. s \in OneSearch /\ s.pc = "waiting" /\ s.at = 1 BY <2>1 DEF OneSearch
  <2>2. search' = [search EXCEPT ![c] = s] /\ UNCHANGED <<exe, cached, fresh, savedBinaries, discovery>>
    BY <1>3 DEF DiscoverBinary
  <2> HIDE DEF s
  <2> QED BY <1>b, <1>c, <2>1a, <2>2
<1>4. ASSUME NEW c \in BinCaller, Locked(c) PROVE BinaryIInv'
  <2>0. UNCHANGED <<exe, cached, fresh, savedBinaries>> /\ search[c].pc = "waiting" BY <1>4 DEF Locked
  <2>1. CASE (~search[c].force /\ fresh /\ cached # NoBinary)
    <3>1. search' = [search EXCEPT ![c] = SearchEnded("found", cached)] /\ discovery' = NoCaller
      BY <1>4, <2>1 DEF Locked, Finishes
    <3> QED BY <1>a, <1>b, <1>c, <2>0, <3>1, NextSearches
  <2>2. CASE ~(~search[c].force /\ fresh /\ cached # NoBinary)
    <3>1. discovery' = c /\ search' = [search EXCEPT ![c].pc = "trying"] BY <1>4, <2>2 DEF Locked
    <3> DEFINE s == [search[c] EXCEPT !.pc = "trying"]
    <3>2. s \in OneSearch /\ s.pc = "trying" /\ s.at = 1 BY <1>a, <1>b, <2>0 DEF OneSearch, ChosenByStrategy
    <3>3. search' = [search EXCEPT ![c] = s] BY <3>1
    <3>4. \A i \in 1 .. 3 : ~(i < s.at) BY <3>2
    <3> HIDE DEF s
    <3>5. /\ s.pc # "waiting" /\ s.pc \notin {"validating", "saving", "noting"}
          /\ discovery' \in BinCaller \cup {NoCaller}
      BY <3>1, <3>2
    <3> QED BY <1>b, <1>d, <2>0, <3>2, <3>3, <3>4, <3>5
  <2> QED BY <2>1, <2>2
<1>5. ASSUME NEW c \in BinCaller, Tried(c) PROVE BinaryIInv'
  <2> DEFINE name == Strategies[search[c].at]
             found == IF name = "database" THEN {b \in savedBinaries : exe[b] = "good"}
                      ELSE Reached[name] \cap Present
  <2>0. /\ search[c].pc = "trying" /\ search[c].at \in 1 .. 4 /\ UNCHANGED <<exe, cached, fresh, savedBinaries>>
        /\ \/ found = {} /\ Continues(c, NextStrategy(c))
           \/ \E b \in found : Continues(c, [search[c] EXCEPT !.pc = "validating", !.bin = b])
    BY <1>5, StrategyNames DEF Tried
  <2>1. search[c].at # 4 => name # "database"
    <3>1. \A n \in 1 .. 4 : n = 4 \/ n \in 1 .. 3
      OBVIOUS
    <3> QED BY <2>0, <3>1, StrategyNames
  <2>2. CASE found = {} /\ Continues(c, NextStrategy(c))
    <3>1. search[c].at # 4 => PassedWith(search[c].at) BY <2>1, <2>2 DEF PassedWith
    <3> QED BY <1>b, <1>e, <2>0, <2>2, <3>1 DEF Continues
  <2>3. ASSUME NEW b \in found, Continues(c, [search[c] EXCEPT !.pc = "validating", !.bin = b]) PROVE BinaryIInv'
    <3> DEFINE s == [search[c] EXCEPT !.pc = "validating", !.bin = b]
    <3>1. /\ b \in Binary /\ exe[b] # "absent"
          /\ search[c].at # 4 => b \in Reached[name]
      BY <1>b, <2>1, StrategyNames DEF Present
    <3>2. /\ s \in OneSearch /\ s.pc = "validating" /\ s.bin = b
          /\ s.at = search[c].at /\ s.steady = search[c].steady
      BY <1>b, <3>1 DEF OneSearch
    <3>3. search' = [search EXCEPT ![c] = s] /\ discovery' = discovery BY <2>3 DEF Continues
    <3>4. s.steady => \A i \in 1 .. 3 : i < s.at => PassedWith(i)
      BY <1>a, <2>0, <3>2 DEF PassedEarlier
    <3> HIDE DEF s, found
    <3> QED BY <1>b, <1>d, <2>0, <3>1, <3>2, <3>3, <3>4
  <2> QED BY <2>0, <2>2, <2>3
<1>6. ASSUME NEW c \in BinCaller, GivesUp(c) PROVE BinaryIInv'
  <2>1. search' = [search EXCEPT ![c] = SearchEnded("failed", NoBinary)] /\ discovery' = NoCaller
        /\ UNCHANGED <<exe, cached, fresh, savedBinaries>>
    BY <1>6 DEF GivesUp, Finishes
  <2> QED BY <1>a, <1>b, <1>c, <2>1, NextSearches
<1>7. ASSUME NEW c \in BinCaller, Validated(c) PROVE BinaryIInv'
  <2>0. search[c].pc = "validating" /\ UNCHANGED <<exe, savedBinaries>> BY <1>7 DEF Validated
  <2>1. /\ search[c].at \in 1 .. 4 /\ search[c].bin \in Binary
        /\ search[c].at # 4 => search[c].bin \in Reached[Strategies[search[c].at]]
        /\ search[c].steady => exe[search[c].bin] # "absent"
    BY <1>a, <2>0 DEF ChosenByStrategy
  <2>2. CASE exe[search[c].bin] = "good"
    <3> DEFINE s == [search[c] EXCEPT !.pc = "saving"]
    <3>1. /\ s \in OneSearch /\ s.pc = "saving" /\ s.bin = search[c].bin
          /\ s.at = search[c].at /\ s.steady = search[c].steady
      BY <1>b DEF OneSearch
    <3>2. search' = [search EXCEPT ![c] = s] /\ discovery' = discovery /\ cached' = search[c].bin /\ fresh' = TRUE
      BY <1>7, <2>2 DEF Validated, Continues
    <3>3. s.steady => \A i \in 1 .. 3 : i < s.at => PassedWith(i)
      BY <1>a, <2>0, <3>1 DEF PassedEarlier
    <3> HIDE DEF s
    <3> QED BY <1>b, <1>d, <2>0, <2>1, <2>2, <3>1, <3>2, <3>3
  <2>3. CASE exe[search[c].bin] # "good"
    <3>1. search' = [search EXCEPT ![c] = NextStrategy(c)] /\ UNCHANGED <<cached, fresh, discovery>>
      BY <1>7, <2>3 DEF Validated, Continues
    <3>2. search[c].steady /\ search[c].at # 4 => PassedWith(search[c].at)
      BY <1>b, <2>1, <2>3 DEF PassedWith
    <3> QED BY <1>b, <1>e, <2>0, <2>1, <3>1, <3>2
  <2> QED BY <2>2, <2>3
\* What a search that saves or notes holds.
<1>f. ASSUME NEW c \in BinCaller, search[c].pc \in {"saving", "noting"}
      PROVE  /\ search[c].at \in 1 .. 4 /\ search[c].bin \in Binary
             /\ search[c].at # 4 => search[c].bin \in Reached[Strategies[search[c].at]]
             /\ search[c].steady => exe[search[c].bin] = "good"
             /\ search[c].steady /\ search[c].pc = "noting" => search[c].bin \notin Saveable
             /\ search[c].steady => \A i \in 1 .. 3 : i < search[c].at => PassedWith(i)
  BY <1>a, <1>f DEF ChosenByStrategy, FoundWorks, PassedEarlier
<1>8. ASSUME NEW c \in BinCaller, SaveBinary(c) PROVE BinaryIInv'
  <2>0. search[c].pc = "saving" /\ UNCHANGED <<exe, cached, fresh>> BY <1>8 DEF SaveBinary
  <2>1. CASE search[c].bin \in Saveable
    <3>1. /\ search' = [search EXCEPT ![c] = SearchEnded("found", search[c].bin)] /\ discovery' = NoCaller
          /\ savedBinaries' = savedBinaries \cup {search[c].bin}
      BY <1>8, <2>1 DEF SaveBinary, Finishes
    <3>2. SearchEnded("found", search[c].bin) \in OneSearch /\ SearchEnded("found", search[c].bin).pc = "found"
          /\ SearchEnded("found", search[c].bin).at = 1
      BY <1>f, <2>0, EndedSearches
    <3> QED BY <1>b, <1>c, <1>f, <2>0, <3>1, <3>2
  <2>2. CASE search[c].bin \notin Saveable
    <3> DEFINE s == [search[c] EXCEPT !.pc = "noting"]
    <3>1. /\ s \in OneSearch /\ s.pc = "noting" /\ s.bin = search[c].bin
          /\ s.at = search[c].at /\ s.steady = search[c].steady
      BY <1>b DEF OneSearch
    <3>2. search' = [search EXCEPT ![c] = s] /\ UNCHANGED <<discovery, savedBinaries>>
      BY <1>8, <2>2 DEF SaveBinary, Continues
    <3> HIDE DEF s
    <3> QED BY <1>b, <1>d, <1>f, <2>0, <2>2, <3>1, <3>2
  <2> QED BY <2>1, <2>2
<1>9. ASSUME NEW c \in BinCaller, Noted(c) PROVE BinaryIInv'
  <2>1. /\ search[c].pc = "noting" /\ search' = [search EXCEPT ![c] = NextStrategy(c)]
        /\ UNCHANGED <<exe, cached, fresh, savedBinaries, discovery>>
    BY <1>9 DEF Noted, Continues
  <2>2. search[c].steady /\ search[c].at # 4 => PassedWith(search[c].at)
    BY <1>f, <2>1 DEF PassedWith
  <2> QED BY <1>b, <1>e, <1>f, <2>1, <2>2
<1>10. ASSUME NEW c \in BinCaller, DatabaseFails(c) PROVE BinaryIInv'
  <2>0. UNCHANGED <<exe, cached, fresh, savedBinaries>> /\ search[c].pc \in {"saving", "noting"} BY <1>10 DEF DatabaseFails
  <2>1. CASE search[c].pc = "saving"
    <3> DEFINE s == [search[c] EXCEPT !.pc = "noting", !.steady = FALSE]
    <3>1. s \in OneSearch /\ s.pc = "noting" /\ s.bin = search[c].bin /\ s.at = search[c].at /\ ~s.steady
      BY <1>b DEF OneSearch
    <3>2. search' = [search EXCEPT ![c] = s] /\ UNCHANGED discovery
      BY <1>b, <1>10, <2>1 DEF DatabaseFails
    <3> HIDE DEF s
    <3> QED BY <1>b, <1>d, <1>f, <2>0, <3>1, <3>2
  <2>2. CASE search[c].pc = "noting"
    <3>1. search' = [search EXCEPT ![c] = SearchEnded("failed", NoBinary)] /\ discovery' = NoCaller
      BY <1>10, <2>2 DEF DatabaseFails, Finishes
    <3> QED BY <1>b, <1>c, <2>0, <3>1, EndedSearches
  <2> QED BY <2>0, <2>1, <2>2
<1> QED BY <1>1, <1>2, <1>3, <1>4, <1>5, <1>6, <1>7, <1>8, <1>9, <1>10 DEF BinaryNext

\* Whatever is registered, aliased and run, and whatever becomes of the
\* executables while several callers look for one: the registry, the executor
\* and the history of the commands agree, a search that nothing disturbed holds
\* an executable that works, and has passed over none that would have done.
THEOREM CommandsSafe == Spec => []CommandsInv
<1>1. Init => CommandIInv /\ BinaryIInv BY SlashStart, BinaryStart DEF Init
<1>2. CommandIInv /\ BinaryIInv /\ [Next]_everything => (CommandIInv /\ BinaryIInv)'
  BY StepsOfStores, SlashStep, BinaryStep
<1>3. CommandIInv /\ BinaryIInv => CommandsInv
  BY PassesOver DEF CommandIInv, BinaryIInv, CommandsInv
<1> QED BY <1>1, <1>2, <1>3, PTL DEF Spec, everything


=============================================================================
