---------------------------- MODULE EventSerializer ----------------------------
(***************************************************************************)
(* output/fluentdforward/eventserializer.go with the rewriters and          *)
(* output/fastmsgpack, and output/datadog/eventserializer.go: one record to *)
(* the event of each output.                                                *)
(*                                                                          *)
(* A record is [texts, unescaped, time], with the text of each field.  A    *)
(* msgpack event is a sequence of headers <<type, length>> and bytes        *)
(* <<"byte", b>>; a header of type "...4" is one byte, of type "...16"      *)
(* three, and the event time ten.  A field name is one symbol.              *)
(***************************************************************************)
EXTENDS TextFunctions

CONSTANTS
    Fields,         \* field names of the schema, in order
    Len4Limit,      \* lengths below this one fit in a one-byte header, 16
    BufferSize      \* 2 * defs.InputLogMaxRecordBytes

ASSUME SerializerAssumption ==
    /\ Len(Fields) > 0 /\ IsInjective(Fields)
    /\ Len4Limit \in Nat \ {0, 1, 2} /\ BufferSize \in Nat

FieldNames == Range(Fields)

-----------------------------------------------------------------------------
(* Rewriters: a chain of [type, field], of which only the last writes the    *)
(* value.                                                                    *)

\* VerifyRewriterConfigs
ValidRewriters(chain) ==
    \A i \in DOMAIN chain :
        IF chain[i].type = "inline"
        THEN i < Len(chain) /\ chain[i].field \in FieldNames
        ELSE i = Len(chain) /\ chain[i].type \in {"copy", "unescape"}

\* inlineRewriter.WriteFieldBody, for a field that is not empty.
Inlined(record, rewriter) ==
    LET value == record.texts[rewriter.field] IN
    IF value = <<>> THEN <<>> ELSE <<rewriter.field, "=">> \o value \o <<" ">>
InlinedBy(chain, record) == FoldAlong(LAMBDA text, rw : text \o Inlined(record, rw), <<>>, Front(chain))

MaxFieldLength(chain, value, record) == Len(InlinedBy(chain, record)) + Len(value)

\* unescapeRewriter.WriteFieldBody; it marks the record.
Unescapes(chain, record) == Last(chain).type = "unescape" /\ ~record.unescaped
WriteFieldBody(chain, value, record) ==
    InlinedBy(chain, record)
        \o (IF Unescapes(chain, record) THEN Unescape(SyslogUnescaper, value) ELSE value)

-----------------------------------------------------------------------------
(* fastmsgpack.  Writing a header past the end of the buffer panics, copying *)
(* a text there copies what fits.                                            *)

EmptyStream == [tokens |-> <<>>, position |-> 0, panics |-> FALSE]

HeaderSize(type) == CASE type \in {"array4", "map4", "str4"} -> 1 [] type = "time" -> 10 [] OTHER -> 3

PutHeader(s, type, length) ==
    [tokens |-> Append(s.tokens, <<type, length>>),
     position |-> s.position + HeaderSize(type),
     panics |-> s.panics \/ s.position + HeaderSize(type) > BufferSize]
PutBytes(s, text) ==
    [s EXCEPT !.tokens = @ \o [i \in DOMAIN text |-> <<"byte", text[i]>>],
              !.position = Min({BufferSize, @ + Len(text)})]

StringType(length) == IF length < Len4Limit THEN "str4" ELSE "str16"
EncodeString(s, text) == PutBytes(PutHeader(s, StringType(Len(text)), Len(text)), text)

\* A key was serialized beforehand and is copied.
PutKey(s, name) ==
    [s EXCEPT !.tokens = @ \o <<<<StringType(1), 1>>, <<"byte", name>>>>,
              !.position = Min({BufferSize, @ + 2})]

MapType(size) == IF size < Len4Limit THEN "map4" ELSE "map16"

-----------------------------------------------------------------------------
(* The event of a fluentd output [environment, hidden, rewriters].           *)

ValidFluentd(output) ==
    /\ output.environment # <<>> /\ Range(output.environment) \subseteq FieldNames
    /\ DOMAIN output.rewriters \subseteq FieldNames
    /\ \A f \in DOMAIN output.rewriters : ValidRewriters(output.rewriters[f])

IsMasked(output, field) == field \in Range(output.environment) \cup output.hidden

\* The header of a rewritten value is of the type for its greatest possible length.
EncodeRewritten(s, chain, value, record) ==
    LET reserved == MaxFieldLength(chain, value, record)
        body == WriteFieldBody(chain, value, record)
    IN  PutBytes(PutHeader(s, "str16", IF Len(body) # reserved THEN Len(body) ELSE reserved), body)

EncodeField(output, state, field) ==
    LET record == state.record
        value == record.texts[field]
        chain == IF field \in DOMAIN output.rewriters THEN output.rewriters[field] ELSE <<>>
        keyed == PutKey(state.stream, field)
    IN  IF IsMasked(output, field) \/ value = <<>> THEN state
        ELSE [record |-> [record EXCEPT !.unescaped = @ \/ (chain # <<>> /\ Unescapes(chain, record))],
              size |-> state.size + 1,
              stream |-> IF chain = <<>> THEN EncodeString(keyed, value)
                         ELSE EncodeRewritten(keyed, chain, value, record)]

EncodeEnvironment(output, record, s) ==
    LET fields == output.environment IN
    FoldAlong(LAMBDA st, f : EncodeString(PutKey(st, f), record.texts[f]),
             PutHeader(EncodeString(s, <<"environment">>), MapType(Len(fields)), Len(fields)), fields)

\* encodeRecord: the header of the field map is reserved by the length of the schema,
\* and filled in with the number of fields written.
EncodeRecord(output, record) ==
    LET mapAt == 3
        begun == PutHeader(PutHeader(PutHeader(EmptyStream, "array4", 2), "time", record.time),
                           MapType(Len(Fields) + 1), 0)
        written == FoldAlong(LAMBDA st, f : EncodeField(output, st, f),
                            [record |-> record, size |-> 1, stream |-> begun], Fields)
        sized == [written.stream EXCEPT !.tokens[mapAt] = <<@[1], written.size>>]
    IN  [stream |-> EncodeEnvironment(output, written.record, sized), record |-> written.record]

\* SerializeRecord: a buffer that is full to the last byte is taken for one that overflowed.
SerializeRecord(output, record) ==
    LET encoded == EncodeRecord(output, record) IN
    [event |-> IF encoded.stream.position = BufferSize THEN <<>> ELSE encoded.stream.tokens,
     panics |-> encoded.stream.panics,
     record |-> encoded.record]

-----------------------------------------------------------------------------
(* The event of a datadog output [hidden, ddtags].                           *)

\* json.Marshal puts U+FFFD in place of the invalid bytes.
JSONString(text) == [i \in DOMAIN text |-> IF IsWhole(text, i) THEN text[i] ELSE "U+FFFD"]

SerializeJSON(output, record) ==
    LET shown == {f \in FieldNames : f \notin output.hidden /\ record.texts[f] # <<>>}
        tags == IF "ddtags" \notin shown /\ output.ddtags # <<>> THEN "ddtags" :> output.ddtags ELSE <<>>
        map == ("timestamp" :> record.time) @@ tags @@ [f \in shown |-> JSONString(record.texts[f])]
    IN  map

-----------------------------------------------------------------------------
(* What a reader of msgpack makes of an event.                               *)

At(event, pos) == IF pos \in DOMAIN event THEN event[pos] ELSE <<"none", 0>>
DecodeString(event, pos) ==
    LET header == At(event, pos)
        bytes == [i \in 1..header[2] |-> At(event, pos + i)]
    IN  [ok |-> /\ header[1] = StringType(header[2]) \/ header[1] = "str16"
                /\ \A i \in DOMAIN bytes : bytes[i][1] = "byte",
         text |-> [i \in DOMAIN bytes |-> bytes[i][2]],
         next |-> pos + 1 + header[2]]

DecodePair(event, state) ==
    LET key == DecodeString(event, state.next)
        value == DecodeString(event, key.next)
    IN  [ok |-> state.ok /\ key.ok /\ value.ok,
         pairs |-> Append(state.pairs, <<key.text, value.text>>), next |-> value.next]
DecodePairs(event, pos, n) ==
    FoldAlong(LAMBDA st, k : DecodePair(event, st), [ok |-> TRUE, pairs |-> <<>>, next |-> pos],
             [k \in 1..n |-> k])
=============================================================================
