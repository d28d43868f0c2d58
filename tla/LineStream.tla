----------------------------- MODULE LineStream -----------------------------
(***************************************************************************)
(* The output of the process of one session on its way to the session:     *)
(* streaming/buffer.py cuts what was read into lines, streaming/parser.py  *)
(* reads a line as a message, and streaming/processor.py routes it.        *)
(*                                                                         *)
(* Of the bytes the model keeps what decides what happens: the end of a    *)
(* line, the two bytes of a character that has two, and a first byte that  *)
(* tells what the line is.  Saving the session, and the events, are in     *)
(* SessionManager.                                                         *)
(***************************************************************************)
EXTENDS Naturals, Sequences, SequencesExt, Sublists

CONSTANTS
    Output,         \* the byte sequences the process may write
    ChunkSize,      \* stream_chunk_size
    MaxLine         \* max_line_length

\* "p", "r" and "s" begin a partial answer, an answer and a status message,
\* any other byte a line that is not JSON; "h" and "t" are the two bytes of
\* character "m"; "nl" ends a line.
Byte == {"p", "r", "s", "x", "h", "t", "nl"}
Char == (Byte \ {"h", "t"}) \cup {"m", "?", "cut"}
ASSUME LineAssumption == Output \subseteq Seq(Byte) /\ ChunkSize \in Nat \ {0} /\ MaxLine \in Nat

VARIABLES
    unread,     \* what the process has written and nobody has read
    partial,    \* _partial_line of the buffer
    batch,      \* the complete lines taken from the buffer and not yet handled
    current,    \* _current_response of the session
    messages,   \* the messages of the session
    failed,     \* errors_encountered
    stream,     \* what _read_stream() is doing
    read,       \* history: the bytes read
    handled,    \* history: the lines taken from the batch
    torn        \* history: some text was lost on its way into a line

lineVars == <<unread, partial, batch, current, messages, failed, stream, read, handled, torn>>

LineTypeOK ==
    /\ unread \in Seq(Byte) /\ read \in Seq(Byte) /\ partial \in Seq(Char) /\ current \in Seq(Char)
    /\ batch \in Seq(Seq(Char)) /\ handled \in Seq(Seq(Char)) /\ messages \in Seq(Seq(Char))
    /\ failed \in Nat /\ stream \in {"reading", "complete"} /\ torn \in BOOLEAN

LineInit ==
    /\ unread \in Output
    /\ partial = <<>> /\ batch = <<>> /\ current = <<>> /\ messages = <<>>
    /\ failed = 0 /\ stream = "reading"
    /\ read = <<>> /\ handled = <<>> /\ torn = FALSE

-----------------------------------------------------------------------------
(* Bytes, lines and messages *)

\* decode("utf-8", errors="replace"): the second byte of a character completes
\* what was a "?" after the first.
WithByte(text, bytes, n) ==
    IF bytes[n] = "t" /\ n > 1 /\ bytes[n - 1] = "h" THEN Append(Front(text), "m")
    ELSE Append(text, IF bytes[n] \in {"h", "t"} THEN "?" ELSE bytes[n])
Decoded(bytes) ==
    LET upto[n \in 0 .. Len(bytes)] == IF n = 0 THEN <<>> ELSE WithByte(upto[n - 1], bytes, n)
    IN upto[Len(bytes)]

\* The pieces between the ends of lines: the complete lines and what is left.
Longer(pieces, byte) ==
    IF byte = "nl" THEN Append(pieces, <<>>) ELSE Append(Front(pieces), Append(Last(pieces), byte))
Pieces(bytes) ==
    LET upto[n \in 0 .. Len(bytes)] == IF n = 0 THEN << <<>> >> ELSE Longer(upto[n - 1], bytes[n])
    IN upto[Len(bytes)]

Truncated(line) == IF Len(line) > MaxLine THEN SubSeq(line, 1, MaxLine) \o <<"cut">> ELSE line

\* parse_line(): a line without text is skipped before it, one that is not
\* JSON, cut short included, raises.
Kind(line) ==
    IF line = <<>> THEN "blank"
    ELSE IF Last(line) = "cut" THEN "text"
    ELSE CASE line[1] = "p" -> "partial" [] line[1] = "r" -> "response" [] line[1] = "s" -> "status" [] OTHER -> "text"

-----------------------------------------------------------------------------
(* StreamBuffer.read() and _extract_lines() *)

\* Mutant: what was left goes before every line of the chunk.
ExtractRepeating(bytes) ==
    LET pieces == [k \in DOMAIN Pieces(bytes) |-> Decoded(Pieces(bytes)[k])]
        whole == [k \in 1 .. Len(pieces) - 1 |-> partial \o pieces[k]]
    IN /\ batch' = [k \in DOMAIN whole |-> Truncated(whole[k])]
       /\ partial' = Last(pieces)
       /\ torn' = \/ torn \/ (whole = <<>> /\ partial # <<>>)
                  \/ "?" \in UNION {ToSet(p) : p \in ToSet(pieces)}
                  \/ \E k \in DOMAIN whole : Len(whole[k]) > MaxLine

\* What was left of the last chunk goes before the first line of this one, and
\* is overwritten when this one ends no line.  The buffer itself is empty after
\* each read: its limit is never reached.
Extract(bytes) ==
    LET pieces == [k \in DOMAIN Pieces(bytes) |-> Decoded(Pieces(bytes)[k])]
        whole == [k \in 1 .. Len(pieces) - 1 |-> IF k = 1 THEN partial \o pieces[1] ELSE pieces[k]]
    IN /\ batch' = [k \in DOMAIN whole |-> Truncated(whole[k])]
       /\ partial' = Last(pieces)
       /\ torn' = \/ torn \/ (whole = <<>> /\ partial # <<>>)
                  \/ "?" \in UNION {ToSet(p) : p \in ToSet(pieces)}
                  \/ \E k \in DOMAIN whole : Len(whole[k]) > MaxLine

\* _read_stream(): a chunk is read when the lines of the last are handled.
ReadChunk ==
    /\ stream = "reading" /\ batch = <<>>
    /\ \E n \in 1 .. ChunkSize :
        /\ n <= Len(unread)
        /\ read' = read \o SubSeq(unread, 1, n) /\ unread' = SubSeq(unread, n + 1, Len(unread))
        /\ Extract(SubSeq(unread, 1, n))
    /\ UNCHANGED <<current, messages, failed, stream, handled>>

-----------------------------------------------------------------------------
(* _process_line() *)

\* A status message raises: its handler uses a name before it is bound.  What
\* raises is counted and the next line taken.
HandleLine ==
    /\ batch # <<>>
    /\ LET line == Head(batch) kind == Kind(line)
       IN /\ current' = CASE kind = "partial" -> current \o Tail(line) [] kind = "response" -> <<>> [] OTHER -> current
          /\ messages' = IF kind = "response" THEN Append(messages, Tail(line)) ELSE messages
          /\ failed' = IF kind \in {"text", "status"} THEN failed + 1 ELSE failed
          /\ handled' = Append(handled, line)
    /\ batch' = Tail(batch)
    /\ UNCHANGED <<unread, partial, stream, read, torn>>

\* The end of the stream, or thirty seconds without a byte of a process that
\* has ended.  What is left of a line that was not ended is not looked at; the
\* answer so far becomes a message.
StreamComplete ==
    /\ stream = "reading" /\ batch = <<>>
    /\ stream' = "complete"
    /\ messages' = IF current = <<>> THEN messages ELSE Append(messages, current)
    /\ current' = <<>>
    /\ UNCHANGED <<unread, partial, batch, failed, read, handled, torn>>

LineNext == ReadChunk \/ HandleLine \/ StreamComplete

-----------------------------------------------------------------------------
\* The lines of what has been read, of which the last is not complete.
Lines == [k \in DOMAIN Pieces(read) |-> Decoded(Pieces(read)[k])]
OfKind(lines, kinds) == OnlyIn(lines, {line \in Seq(Char) : Kind(line) \in kinds})
Spoken(lines) == OfKind(lines, {"response"})

\* Every line that ended is handled once and in its order.  As long as no text
\* was torn the lines are those the process wrote, however they were cut into
\* chunks, and each answer is a message before those that follow it.
LineInv ==
    /\ Len(handled) + Len(batch) = Len(Lines) - 1
    /\ ~torn => handled \o batch = Front(Lines) /\ partial = Last(Lines)
    /\ \A k \in DOMAIN Spoken(handled) : messages[k] = Tail(Spoken(handled)[k])
    /\ failed = Len(OfKind(handled, {"text", "status"}))

\* The lines are those the process wrote.  The code does not keep it: the text
\* of a line that comes in three chunks or more loses its beginning, and a
\* character that comes in two is replaced.
LinesAreWritten == \A k \in DOMAIN handled : Last(<<"none">> \o handled[k]) # "cut" => handled[k] = Lines[k]
=============================================================================
