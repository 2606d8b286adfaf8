---------------------------- MODULE MultiLineReader ----------------------------
(***************************************************************************)
(* input/tcplistener/multilinereader.go and                                 *)
(* input/syslogprotocol/recordtest.go: the splitting of the bytes of one    *)
(* connection into records of one or more lines.                            *)
(*                                                                          *)
(* A byte is <<position in the stream, character>>.  Characters are tokens: *)
(* a whole pri field is one of them.  The reader is [buffer, search]: what  *)
(* is buffered, with offsetAppend its length, and offsetSearch.  Every      *)
(* operation yields the reader it leaves behind, the records it consumes,   *)
(* and whether it had to give way to an overflow.                           *)
(***************************************************************************)
EXTENDS Integers, Sequences, SequencesExt

CONSTANTS
    MinRecordLen,       \* shortest valid record, 32 bytes
    SoftRecordLimit,    \* defs.InputLogMaxRecordBytes
    BufferSize,         \* defs.ListenerLineBufferSize
    PriTokens           \* pri fields of one to three digits and version 1

ASSUME ReaderAssumption ==
    /\ MinRecordLen \in Nat /\ MinRecordLen >= 2
    /\ SoftRecordLimit \in Nat /\ SoftRecordLimit >= MinRecordLen
    /\ BufferSize \in Nat /\ BufferSize >= 3 * SoftRecordLimit

Newline == "LF"
Space == " "

Text(bytes) == [i \in DOMAIN bytes |-> bytes[i][2]]
EndsIn(bytes) == {i \in DOMAIN bytes : bytes[i][2] = Newline}

TestRecordStart(text) ==
    Len(text) >= MinRecordLen /\ text[1] \in PriTokens /\ text[2] = Space

IsStart(bytes) == TestRecordStart(Text(bytes))

NewReader == [buffer |-> <<>>, search |-> 0]

ConsumeIfStart(bytes) == IF IsStart(bytes) THEN <<bytes>> ELSE <<>>

\* Makes room for another record of the maximum length: the last line is a record of its own
\* if it can be told to be one, and the buffer is given up.
CheckOverflow(r, consumed) ==
    IF BufferSize - Len(r.buffer) >= SoftRecordLimit
    THEN [reader |-> r, consumed |-> consumed, overflow |-> FALSE]
    ELSE LET next == SubSeq(r.buffer, r.search + 1, Len(r.buffer))
             prev == SubSeq(r.buffer, 1, r.search - 1)
         IN [reader |-> NewReader,
             consumed |-> consumed \o (IF r.search > 0 /\ IsStart(next)
                                       THEN Append(ConsumeIfStart(prev), next)
                                       ELSE ConsumeIfStart(r.buffer)),
             overflow |-> TRUE]

\* Variant: the search goes on from the end of the buffer.
LeftBehind_AtEnd(buffer, walk) ==
    [buffer |-> SubSeq(buffer, walk.record + 1, Len(buffer)), search |-> Len(buffer) - walk.record]

\* The unfinished record is moved to the beginning of the buffer.
LeftBehind(buffer, walk) ==
    [buffer |-> SubSeq(buffer, walk.record + 1, Len(buffer)), search |-> walk.search - walk.record]

\* A line that starts a record ends the record before it, which is consumed whether or not it
\* is valid.  The first line in the buffer is never tested.
NextLine(buffer, walk, end) ==
    LET line == SubSeq(buffer, walk.search + 1, end - 1) IN
    IF walk.search > 0 /\ line # <<>> /\ IsStart(line)
    THEN [record |-> walk.search, search |-> end,
          consumed |-> Append(walk.consumed, SubSeq(buffer, walk.record + 1, walk.search - 1))]
    ELSE [walk EXCEPT !.search = end]

\* Walks the lines completed by the new bytes.
Walk(buffer, search) ==
    LET upto[e \in search..Len(buffer)] ==
            IF e = search THEN [record |-> 0, search |-> search, consumed |-> <<>>]
            ELSE IF e \in EndsIn(buffer) THEN NextLine(buffer, upto[e - 1], e) ELSE upto[e - 1]
    IN upto[Len(buffer)]

ProcessBuffer(r, bytes) ==
    LET buffer == r.buffer \o bytes
        walk == Walk(buffer, r.search)
    IN CheckOverflow(LeftBehind(buffer, walk), walk.consumed)

\* The lines up to the last newline are a complete record, or are dropped if it is not valid.
Flush(r) ==
    LET ends == EndsIn(r.buffer)
        last == CHOOSE e \in ends : \A f \in ends : f <= e
    IN IF ends = {}
       THEN [reader |-> r, consumed |-> <<>>, overflow |-> FALSE]
       ELSE [reader |-> [buffer |-> SubSeq(r.buffer, last + 1, Len(r.buffer)), search |-> 0],
             consumed |-> ConsumeIfStart(SubSeq(r.buffer, 1, last - 1)), overflow |-> FALSE]

\* The last line comes along, whether or not it is finished.
FlushAll(r) ==
    LET n == Len(r.buffer)
        cut == IF n \in EndsIn(r.buffer) THEN SubSeq(r.buffer, 1, n - 1) ELSE r.buffer
    IN [reader |-> NewReader, consumed |-> ConsumeIfStart(cut), overflow |-> FALSE]
=============================================================================
