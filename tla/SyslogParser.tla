----------------------------- MODULE SyslogParser -----------------------------
(***************************************************************************)
(* input/syslogparser and input/sysloginput/compositeparser.go: one record   *)
(* of text to the fields of a log record.                                   *)
(*                                                                          *)
(* A text is a sequence of tokens: "u" and "v" are the two bytes of a       *)
(* character outside ASCII, a pri field with a number is one token, and     *)
(* anything else is one byte.                                               *)
(***************************************************************************)
EXTENDS TextFunctions

CONSTANTS
    MinTextLen,         \* shortest record, 32 bytes
    MaxMessageLen,      \* defs.InputLogMaxMessageBytes
    MaxRecordLen,       \* defs.InputLogMaxRecordBytes
    NumRestFields,      \* fields between pri and message
    PriValue,           \* number in each pri token, anything strconv.Atoi reads: <13>1, <+13>1, <-5>1
    ExtractionDrops     \* values of the first of these fields that the extractions drop

ASSUME ParserAssumption ==
    /\ MinTextLen \in Nat /\ MinTextLen >= 2
    /\ MaxMessageLen \in Nat /\ MaxRecordLen >= MaxMessageLen
    /\ NumRestFields \in Nat \ {0}
    /\ \A p \in DOMAIN PriValue : PriValue[p] \in Int
    /\ {"<", " "} \cap DOMAIN PriValue = {}

NumFacilities == 24
Malformed == [ok |-> FALSE]

SpacesIn(text) == {i \in DOMAIN text : text[i] = " "}

\* nextFieldBySpace
HasField(text) == SpacesIn(text) # {}
FirstSpace(text) == CHOOSE i \in SpacesIn(text) : \A j \in SpacesIn(text) : i <= j
FieldOf(text) == SubSeq(text, 1, FirstSpace(text) - 1)
AfterField(text) == SubSeq(text, FirstSpace(text) + 1, Len(text))

\* The message: truncated at the limit, and cleaned up when the record is of the maximum length.
MessageOf(remaining, rawLength) ==
    LET cut == IF Len(remaining) > MaxMessageLen THEN SubSeq(remaining, 1, MaxMessageLen) ELSE remaining IN
    IF rawLength >= MaxRecordLen THEN Edited(CleanUTF8(cut)) ELSE cut

\* Header fields: what is left of <<fields so far, remaining>> after one more, if there is one.
NextField(split, k) ==
    IF split.ok /\ HasField(split.remaining)
    THEN [ok |-> TRUE, fields |-> Append(split.fields, FieldOf(split.remaining)),
          remaining |-> AfterField(split.remaining)]
    ELSE [split EXCEPT !.ok = FALSE]
SplitHeader(text, n) ==
    FoldAlong(NextField, [ok |-> TRUE, fields |-> <<>>, remaining |-> text], [k \in 1..n |-> k])

\* The slice bounds of the last two bytes of a pri field that has only one.
ParsePanics(text) == Len(text) >= MinTextLen /\ text[1] = "<" /\ text[2] = " "

\* Parse of syslogParser, unless it panics.
Parse(text) ==
    LET split == SplitHeader(text, 1 + NumRestFields) IN
    IF /\ Len(text) >= MinTextLen
       /\ split.ok
       /\ Len(split.fields[1]) = 1 /\ split.fields[1][1] \in DOMAIN PriValue
       /\ PriValue[split.fields[1][1]] \div 8 \in 0..(NumFacilities - 1)
    THEN [ok |-> TRUE,
          facility |-> PriValue[split.fields[1][1]] \div 8,
          severity |-> PriValue[split.fields[1][1]] % 8,
          rest |-> Tail(split.fields),
          log |-> MessageOf(split.remaining, Len(text)),
          overflow |-> Len(split.remaining) > MaxMessageLen,
          unescaped |-> Contains(MessageOf(split.remaining, Len(text)), "LF")]
    ELSE Malformed

\* compositeParser: a record its extractions drop was already counted as passed.
IsExtracted(record) == record.ok /\ record.rest[1] \notin ExtractionDrops
=============================================================================
