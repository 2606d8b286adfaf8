------------------------------ MODULE ChunkMaker ------------------------------
(***************************************************************************)
(* output/shared, output/fluentdforward and output/datadog: packing of the  *)
(* serialized records (streams) of one output into chunks.                  *)
(*                                                                          *)
(* A packer is messagePacker with its factory and its chunk ID generator.   *)
(* What was written to the shared buffer is a sequence of tokens: a stream, *)
(* or a punctuation mark of the JSON array that Datadog chunks are.  The    *)
(* stream of an event the serializer refused is empty: its token has length *)
(* 0 and stands for a record that is counted and not there.                 *)
(* Compression is left out: limits are those of the uncompressed data.      *)
(***************************************************************************)
EXTENDS Integers, Sequences, SequencesExt

CONSTANTS
    MaxRecords,    \* chunkMaxRecords of both outputs, 0 for no limit
    MaxBytes       \* chunkMaxSizeBytes of both outputs, 0 for no limit

ASSUME LimitsAssumption == MaxRecords \in Nat /\ MaxBytes \in Nat

\* Every token is [id, len, mark, fields]; id 0 is a punctuation mark.
Mark(m) == [id |-> 0, len |-> 1, mark |-> m, fields |-> {}]

\* The events a receiver finds in the data.
EventsOf(tokens) == SelectSeq(tokens, LAMBDA t : t.id # 0 /\ t.len > 0)

Total(numbers) == FoldLeft(LAMBDA sum, n : sum + n, 0, numbers)
BytesOf(tokens) == Total([i \in DOMAIN tokens |-> tokens[i].len])
StreamsOf(tokens) == FlattenSeq([i \in DOMAIN tokens |-> IF tokens[i].id # 0 THEN <<tokens[i]>> ELSE <<>>])

NoChunk == [id |-> <<0, 0>>, numRecords |-> 0, numBytes |-> 0]

NewMessagePacker(format) ==
    [format |-> format, current |-> NoChunk, written |-> <<>>, epochNano |-> 0, sequence |-> 0]

\* chunkIDGenerator.Generate: the ID takes the time just read, even when it is the older one.
NextSequence(p, now) == IF now > p.epochNano THEN 0 ELSE p.sequence + 1

GenerateID(p, now) == <<now, NextSequence(p, now)>>

\* IntermediateChunkFactory.NewChunk: all chunks of an output share one write buffer.
NewChunk(p, now) ==
    LET opening == IF p.format = "datadog" THEN <<Mark("[")>> ELSE <<>> IN
    [p EXCEPT !.epochNano = IF now > @ THEN now ELSE @,
              !.sequence  = NextSequence(p, now),
              !.written   = @ \o opening,
              !.current   = [id |-> GenerateID(p, now), numRecords |-> 0, numBytes |-> Len(opening)]]

CanAppendFluentd(c, length) ==
    /\ MaxRecords > 0 => c.numRecords < MaxRecords
    /\ MaxBytes > 0 => c.numBytes + length <= MaxBytes

\* Variant: what is to be appended is not counted.
CanAppendDatadog_SoFar(c, length) ==
    /\ MaxRecords > 0 => c.numRecords < MaxRecords
    /\ MaxBytes > 0 => c.numBytes + 1 <= MaxBytes

\* One byte is kept for the closing bracket; the comma was counted with the record before.
CanAppendDatadog(c, length) ==
    /\ MaxRecords > 0 => c.numRecords < MaxRecords
    /\ MaxBytes > 0 => c.numBytes + length + 1 <= MaxBytes

CanAppendData(p, length) ==
    IF p.format = "datadog" THEN CanAppendDatadog(p.current, length)
                            ELSE CanAppendFluentd(p.current, length)

WriteFluentd(p, stream) ==
    [p EXCEPT !.written = Append(@, stream),
              !.current.numRecords = @ + 1,
              !.current.numBytes = @ + stream.len]

WriteDatadog(p, stream) ==
    LET comma == IF p.current.numRecords # 0 THEN <<Mark(",")>> ELSE <<>> IN
    [p EXCEPT !.written = @ \o comma \o <<stream>>,
              !.current.numRecords = @ + 1,
              !.current.numBytes = @ + 1 + stream.len]

Write(p, stream) == IF p.format = "datadog" THEN WriteDatadog(p, stream) ELSE WriteFluentd(p, stream)

\* EncodeChunk: the option of a forward message names the chunk and its number of records.
\* A Datadog chunk carries no such number.
FinalizeChunk(p) ==
    [id |-> p.current.id, size |-> p.current.numRecords,
     data |-> p.written \o (IF p.format = "datadog" THEN <<Mark("]")>> ELSE <<>>)]

\* messagePacker.FlushBuffer: the packer left behind and the chunk made, if any.
FlushBuffer(p) ==
    IF p.current = NoChunk
    THEN [packer |-> p, chunks |-> <<>>]
    ELSE [packer |-> [p EXCEPT !.current = NoChunk, !.written = <<>>],
          chunks |-> <<FinalizeChunk(p)>>]

\* messagePacker.WriteStream
WriteStream(p, stream, now) ==
    LET flushed == IF p.current # NoChunk /\ ~CanAppendData(p, stream.len)
                   THEN FlushBuffer(p) ELSE [packer |-> p, chunks |-> <<>>]
        open == IF flushed.packer.current = NoChunk THEN NewChunk(flushed.packer, now)
                                                    ELSE flushed.packer
    IN [packer |-> Write(open, stream), chunks |-> flushed.chunks]
-----------------------------------------------------------------------------
\* What a chunk must be, whatever the packer did to make it.

Before(id1, id2) == id1[1] < id2[1] \/ (id1[1] = id2[1] /\ id1[2] < id2[2])

\* A chunk with more than one record keeps within the limits.
WithinLimits(chunk) ==
    Len(StreamsOf(chunk.data)) > 1 =>
        /\ MaxRecords > 0 => Len(StreamsOf(chunk.data)) <= MaxRecords
        /\ MaxBytes > 0 => BytesOf(chunk.data) <= MaxBytes

\* The marks at even places of a JSON array are its streams, the others its punctuation.
IsJSONArray(tokens) ==
    /\ Len(tokens) % 2 = 1
    /\ \A i \in DOMAIN tokens :
          tokens[i].mark = CASE i = 1 -> "["
                             [] i = Len(tokens) -> "]"
                             [] OTHER -> IF i % 2 = 0 THEN "" ELSE ","

\* Its size is the number of records written, those with an empty stream included.
WellFormedChunk(chunk, format) ==
    /\ chunk.size = Len(StreamsOf(chunk.data))
    /\ chunk.size > 0
    /\ WithinLimits(chunk)
    /\ IF format = "datadog" THEN IsJSONArray(chunk.data)
                             ELSE chunk.data = StreamsOf(chunk.data)
=============================================================================
