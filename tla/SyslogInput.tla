------------------------------ MODULE SyslogInput ------------------------------
(***************************************************************************)
(* One connection of the syslog input: input/tcplistener (runConnection),   *)
(* util/netconnwrapper.go, the reader and parser of MultiLineReader and     *)
(* SyslogParser, and base/loginputcounterset.go.                            *)
(*                                                                          *)
(* The client sends one of Streams, which arrives in pieces of any size at  *)
(* any time.  Reading has a deadline that is moved only when less than      *)
(* InputFlushInterval of it is left, and moving it is what makes the        *)
(* connection flush.  Listeners, sinks and reloading are the subject of     *)
(* ReloadableOrchestrator.                                                  *)
(***************************************************************************)
EXTENDS MultiLineReader, SyslogParser, FiniteSets

CONSTANTS
    Streams,            \* what the client may send
    PieceSizes,         \* sizes of the pieces it arrives in, other than all that fits
    FlushInterval,      \* defs.InputFlushInterval
    MaxTime             \* bound of the clock

ASSUME InputAssumption ==
    /\ MinTextLen = MinRecordLen /\ MaxRecordLen = SoftRecordLimit
    /\ PriTokens \subseteq DOMAIN PriValue
    /\ \A s \in Streams : s \in Seq(ToSet(s))
    /\ PieceSizes \subseteq Nat
    /\ FlushInterval \in Nat \ {0} /\ MaxTime \in Nat

VARIABLES
    stream,             \* the one being sent
    received,           \* number of its bytes read
    reader,
    now,
    deadline,           \* of the Read in progress
    prevDeadline,       \* 0 before the first successful Read
    open,               \* whether the connection is open
    panicked,           \* the parser has panicked, which nothing recovers from: the agent is gone
    accepted,           \* parsed records given to the receiver
    counts,             \* LogInputCounterSet
    consumed,           \* history: records the reader has consumed
    flushes,            \* history: how much had been received when the reader was flushed
    overflowed,         \* history: whether the buffer has overflowed
    waitingSince        \* history: since when there is a complete line in the buffer, or -1

vars == <<stream, received, reader, now, deadline, prevDeadline, open, panicked, accepted, counts,
          consumed, flushes, overflowed, waitingSince>>

Bytes(from, to) == [i \in 1..(to - from + 1) |-> <<from + i - 1, stream[from + i - 1]>>]

Init ==
    /\ stream \in Streams
    /\ received = 0 /\ reader = NewReader
    /\ now = 0 /\ deadline = 2 * FlushInterval /\ prevDeadline = 0 /\ open = TRUE /\ panicked = FALSE
    /\ accepted = <<>> /\ counts = [pass |-> 0, passBytes |-> 0, drop |-> 0, dropBytes |-> 0, overflow |-> 0]
    /\ consumed = <<>> /\ flushes = {} /\ overflowed = FALSE /\ waitingSince = -1

\* NetConnWrapper.Read, called again as soon as the last one has been dealt with.
NextDeadline(t) == IF deadline - t < FlushInterval THEN t + 2 * FlushInterval ELSE deadline

\* Variant: what the extractions drop is counted as dropped as well.
CountRecord_DropsTwice(c, text) ==
    LET record == Parse(text) IN
    [c EXCEPT !.pass = IF record.ok THEN @ + 1 ELSE @,
              !.passBytes = IF record.ok THEN @ + Len(text) ELSE @,
              !.drop = IF IsExtracted(record) THEN @ ELSE @ + 1,
              !.dropBytes = IF IsExtracted(record) THEN @ ELSE @ + Len(text)]

CountRecord(c, text) ==
    LET record == Parse(text) IN
    IF record.ok
    THEN [c EXCEPT !.pass = @ + 1, !.passBytes = @ + Len(text),
                   !.overflow = IF record.overflow THEN @ + 1 ELSE @]
    ELSE [c EXCEPT !.drop = @ + 1, !.dropBytes = @ + Len(text)]

KeepRecord(kept, text) ==
    LET record == Parse(text) IN IF IsExtracted(record) THEN Append(kept, record) ELSE kept

PanicsAt(records) == {i \in DOMAIN records : ParsePanics(Text(records[i]))}

\* What logParsingReceiverSink.Accept does with the records the reader consumes, up to the first
\* one that makes the parser panic.
AcceptAll(records) ==
    LET done == IF PanicsAt(records) = {} THEN records ELSE SubSeq(records, 1, Min(PanicsAt(records)) - 1)
        texts == [i \in DOMAIN done |-> Text(done[i])] IN
    /\ panicked' = (PanicsAt(records) # {})
    /\ consumed' = consumed \o done
    /\ counts' = FoldAlong(CountRecord, counts, texts)
    /\ accepted' = FoldAlong(KeepRecord, accepted, texts)

Waiting(r, records) ==
    IF EndsIn(r.buffer) = {} THEN -1
    ELSE IF records # <<>> \/ waitingSince = -1 THEN now ELSE waitingSince

\* Variant: only a timeout makes it flush.
FlushIsDue_Never == FALSE

\* The deadline has been moved since the last time Read returned anything.
FlushIsDue == prevDeadline # 0 /\ deadline # prevDeadline

\* Read returns bytes, before its deadline.
ReadBytes(n) ==
    LET read == ProcessBuffer(reader, Bytes(received + 1, received + n))
        flushed == IF FlushIsDue THEN Flush(read.reader) ELSE [read EXCEPT !.consumed = <<>>]
    IN /\ open /\ ~panicked /\ now <= deadline
       /\ received' = received + n
       /\ reader' = flushed.reader
       /\ AcceptAll(read.consumed \o flushed.consumed)
       /\ flushes' = IF FlushIsDue THEN flushes \cup {received + n} ELSE flushes
       /\ overflowed' = (overflowed \/ read.overflow)
       /\ waitingSince' = Waiting(flushed.reader, read.consumed \o flushed.consumed)
       /\ prevDeadline' = deadline
       /\ deadline' = NextDeadline(now)
       /\ UNCHANGED <<stream, now, open>>

ReadInput ==
    LET room == BufferSize - Len(reader.buffer)
        left == Len(stream) - received
        most == IF left < room THEN left ELSE room
    IN \E n \in {k \in PieceSizes \cup {most} : k > 0 /\ k <= most} : ReadBytes(n)

\* The deadline passes: the reader is flushed, and prevDeadline stays what it was.
ReadTimesOut ==
    LET flushed == Flush(reader) IN
    /\ open /\ ~panicked /\ now = deadline
    /\ reader' = flushed.reader
    /\ AcceptAll(flushed.consumed)
    /\ flushes' = flushes \cup {received}
    /\ waitingSince' = Waiting(flushed.reader, flushed.consumed)
    /\ deadline' = NextDeadline(now)
    /\ UNCHANGED <<stream, received, now, prevDeadline, open, overflowed>>

\* The connection is closed by the client, by an error, or because the agent stops.
ReadFails ==
    LET flushed == FlushAll(reader) IN
    /\ open /\ ~panicked
    /\ open' = FALSE
    /\ reader' = flushed.reader
    /\ AcceptAll(flushed.consumed)
    /\ waitingSince' = -1
    /\ UNCHANGED <<stream, received, now, deadline, prevDeadline, flushes, overflowed>>

\* A deadline is acted upon when it comes.
ClockTicks ==
    /\ open /\ ~panicked /\ now < deadline /\ now < MaxTime
    /\ now' = now + 1
    /\ UNCHANGED <<stream, received, reader, deadline, prevDeadline, open, panicked, accepted, counts,
                   consumed, flushes, overflowed, waitingSince>>

Done == (~open \/ panicked) /\ UNCHANGED vars

Next == ReadInput \/ ReadTimesOut \/ ReadFails \/ ClockTicks \/ Done

Spec == Init /\ [][Next]_vars

-----------------------------------------------------------------------------
\* The records of what has been received, told from the whole of it.

\* Newlines, and the end of the stream when the connection is closed within a line.
LineEnds ==
    {e \in 1..received : stream[e] = Newline}
        \cup (IF ~open /\ received > 0 /\ stream[received] # Newline THEN {received + 1} ELSE {})

\* The reader is flushed after a line and before the next one is complete, or it is the last one.
FlushedAfter(e) ==
    \/ \E p \in flushes : e <= p /\ \A f \in LineEnds : e < f => p < f
    \/ ~open /\ \A f \in LineEnds : f <= e

\* The next line looks like the start of a record; an unfinished one is not looked at.
StartsAfter(e) ==
    \E f \in LineEnds :
        /\ e < f /\ f <= received /\ \A g \in LineEnds : e < g => f <= g
        /\ TestRecordStart(SubSeq(stream, e + 1, f - 1))

RecordEnds == {e \in LineEnds : FlushedAfter(e) \/ StartsAfter(e)}
StartOfRecord(e) == 1 + LastOf({f \in RecordEnds : f < e}, 0)

\* A flush drops what is not a valid record.
IsConsumed(e) ==
    e \in RecordEnds /\ (FlushedAfter(e) => TestRecordStart(SubSeq(stream, StartOfRecord(e), e - 1)))

ExpectedRecords ==
    LET upto[e \in 0..(received + 1)] ==
            IF e = 0 THEN <<>>
            ELSE IF IsConsumed(e) THEN Append(upto[e - 1], Bytes(StartOfRecord(e), e - 1)) ELSE upto[e - 1]
    IN upto[received + 1]

\* The agent panics at no record: one that is not valid is counted as dropped.
ParserNeverPanics == ~panicked

\* Overflow or not, records are pieces of the stream in their order, no byte is in two of them,
\* and there is always room to read.
RecordsArePieces ==
    /\ \A i \in DOMAIN consumed : LET b == consumed[i] IN
          /\ b # <<>> => b = Bytes(b[1][1], b[Len(b)][1])
          /\ \A j \in 1..(i - 1) : \A x \in DOMAIN consumed[j], k \in DOMAIN b : consumed[j][x][1] < b[k][1]
    /\ BufferSize - Len(reader.buffer) >= SoftRecordLimit

\* However the bytes arrive, the records consumed are those the lines and the flushes make:
\* no byte is lost, repeated or moved by the bookkeeping of the offsets, unless the parser panics.
SplitAsDefined == (~overflowed /\ ~panicked => consumed = ExpectedRecords) /\ RecordsArePieces

Unparsed(record, pri) ==
    <<pri, Space>> \o FlattenSeq([i \in DOMAIN record.rest |-> Append(record.rest[i], Space)]) \o record.log

\* UTF-8, but for half a character at the end.
CutUTF8(text) == \A i \in DOMAIN text : IsWhole(text, i) \/ (i = Len(text) /\ text[i] = "u")

\* Put together again, the fields are the text, or the beginning of it up to the limit, without
\* half a character if it is of the maximum length.
SaysItsText(record, text) ==
    LET whole == Unparsed(record, text[1]) IN
    /\ IF Len(whole) < Len(text)
       THEN /\ Len(text) < MaxRecordLen \/ CutUTF8(text) => IsPrefix(whole, text)
            /\ Len(record.log) <= MaxMessageLen
       ELSE whole = text
    /\ Len(text) >= MaxRecordLen /\ CutUTF8(text) => ValidUTF8(record.log)
    /\ PriValue[text[1]] = 8 * record.facility + record.severity

CanBeRead(text) ==
    /\ Len(text) >= MinRecordLen
    /\ text[1] \in DOMAIN PriValue /\ text[2] = Space /\ PriValue[text[1]] \in 0..191
    /\ Cardinality({k \in DOMAIN text : text[k] = Space}) > NumRestFields

\* A record that is accepted says what its text says, and no record that could be read is
\* refused, counted twice or moved; a parser that panics has dealt with all records before.
ParsedAsWritten ==
    LET texts == [i \in DOMAIN consumed |-> Text(consumed[i])]
        good == {i \in DOMAIN texts : CanBeRead(texts[i])}
        kept == {i \in good : IsExtracted(Parse(texts[i]))}
    IN /\ \A i \in DOMAIN texts : Parse(texts[i]).ok <=> i \in good
       /\ Len(accepted) = Cardinality(kept)
       /\ \A i \in kept : SaysItsText(accepted[Cardinality({k \in kept : k <= i})], texts[i])
       /\ counts.pass = Cardinality(good) /\ counts.drop = Len(texts) - Cardinality(good)
       /\ counts.passBytes + counts.dropBytes = Len(FlattenSeq(texts))

\* No complete line waits in the buffer for more than four flush intervals, whether the
\* client goes on sending or falls silent.
FlushedInTime == waitingSince # -1 => now - waitingSince <= 4 * FlushInterval
=============================================================================
