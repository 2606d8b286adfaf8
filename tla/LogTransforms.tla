----------------------------- MODULE LogTransforms -----------------------------
(***************************************************************************)
(* What a pipeline worker does to one record: the configured transforms     *)
(* (transform/, base/bsupport/logtransforms.go, base/bmatch) one after the  *)
(* other, and then the serialization for a fluentd and a datadog output.    *)
(*                                                                          *)
(* Go strings share memory, and truncate writes into it.  A field is        *)
(* therefore a reference [cell, from, len] into memory: the cells of the    *)
(* constants of the configuration, that of the line the record was parsed   *)
(* from, of which the fields are disjoint parts, and one for each text made *)
(* since.                                                                   *)
(*                                                                          *)
(* The steps of if, switch and block are nested RunTransforms; a DROP ends  *)
(* them all, so that what is left to do is one sequence of steps.           *)
(***************************************************************************)
EXTENDS EventSerializer

CONSTANTS
    Constants,      \* texts of the configuration, referred to by their number
    Cases,          \* the configurations to try: a sequence of transform lists
    Records(_),     \* the records to try a case on: [texts, originals], the texts of the fields, and
                    \* of those that the sender escaped, the texts before that
    FluentdOutput,  \* serialization of the fluentd output
    DatadogOutput   \* serialization of the datadog output

VARIABLES
    case,           \* configuration
    originals,      \* texts the sender escaped
    memory,
    fields,         \* LogRecord.Fields
    unescaped,      \* LogRecord.Unescaped
    time,           \* LogRecord.Timestamp
    todo,           \* transforms not yet run
    stage,          \* "transform", then "dropped", or "fluentd", "datadog" and "done"; or "panic"
    counted,        \* times each custom counter was incremented
    event,          \* of the fluentd output
    json            \* of the datadog output

recordVars == <<memory, fields, unescaped, time>>
outputVars == <<event, json>>
vars == <<case, originals, recordVars, todo, stage, counted, outputVars>>

Nowhere == [cell |-> 1, from |-> 1, len |-> 0]
Part(ref, part) == [cell |-> ref.cell, from |-> ref.from + part.from - 1, len |-> part.len]
Whole(cell, text) == [cell |-> cell, from |-> 1, len |-> Len(text)]
TextIn(mem, ref) == SubSeq(mem[ref.cell], ref.from, ref.from + ref.len - 1)
Text(field) == TextIn(memory, fields[field])
Texts == [f \in FieldNames |-> Text(f)]

-----------------------------------------------------------------------------
(* Time stamps.  "D" stands for the 19 bytes of a date and time with its      *)
(* separators, and "X" for five bytes or more with another separator; any    *)
(* other text ends before a separator that is looked at.                     *)

\* splitFractionAndTimezone
FractionEnd(text) ==
    IF Len(text) > 1 /\ text[1] = "."
    THEN FirstOf({i \in 2..Len(text) : text[i] \notin Digits}, Len(text) + 1) - 1 ELSE 0
\* The layouts Z0700 and, with a colon, Z07:00
Zones == {<<>>, <<"Z">>, <<"+", "02", "00">>, <<"+", "02", ":", "00">>}
NoTime == <<"-">>

\* parseRFC3339Timestamp: the fraction in its digits, as float64 makes of them.
ParseTime(text) ==
    LET fraction == SubSeq(text, 2, 1 + FractionEnd(Tail(text)))
        zone == From(text, 2 + FractionEnd(Tail(text)))
    IN  IF text[1] # "D" \/ fraction = <<".">> \/ zone \notin Zones THEN NoTime ELSE <<"D", fraction, zone>>

-----------------------------------------------------------------------------
(* Matches and templates                                                     *)

\* LogMatcherConfig.VerifyConfig; the order of the matches by cost changes nothing.
ValidMatch(matches) == Len(matches) > 0 /\ \A i \in DOMAIN matches : matches[i].key \in FieldNames /\ MatchOK(matches[i])
Matches(matches) == \A i \in DOMAIN matches : ValueMatches(matches[i], Text(matches[i].key))

\* Parts of a template are [kind |-> "text", value], [kind |-> "var", key] or
\* [kind |-> "slice", key, start, end].
ValidTemplate(parts) ==
    \A i \in DOMAIN parts : IF parts[i].kind = "text" THEN parts[i].value \in DOMAIN Constants ELSE parts[i].key \in FieldNames
PartOf(st, part) ==
    CASE part.kind = "text" -> Whole(part.value, Constants[part.value])
      [] part.kind = "var" -> st.fields[part.key]
      [] part.kind = "slice" -> Part(st.fields[part.key], Slice(st.fields[part.key].len, part.start, part.end))

\* RunWithBuffer: a template of one part gives the text of that part, uncopied.
RunTemplate(st, parts) ==
    IF Len(parts) = 1 THEN [memory |-> st.memory, value |-> PartOf(st, parts[1])]
    ELSE LET text == FoldAlong(LAMBDA t, p : t \o TextIn(st.memory, PartOf(st, p)), <<>>, parts) IN
         [memory |-> Append(st.memory, text), value |-> Whole(Len(st.memory) + 1, text)]

-----------------------------------------------------------------------------
(* The transforms: what VerifyConfig demands, what NewTransform does not      *)
(* panic from although VerifyConfig lets it pass, and the step.              *)

Step(type) == stage = "transform" /\ todo # <<>> /\ Head(todo).type = type
Passed == todo' = Tail(todo) /\ UNCHANGED <<case, originals, stage, outputVars>>
OnlyFields == Passed /\ UNCHANGED <<memory, unescaped, time, counted>>
OnlyTexts == Passed /\ UNCHANGED <<unescaped, time, counted>>
Counted(label) == counted' = [counted EXCEPT ![label] = @ + 1]
SetNewText(field, text) ==
    /\ memory' = Append(memory, text)
    /\ fields' = [fields EXCEPT ![field] = Whole(Len(memory) + 1, text)]

\* A text that would be empty is not set.
AddField(step, st, field) ==
    LET expanded == RunTemplate(st, step.fields[field]) IN
    IF expanded.value.len = 0 THEN st
    ELSE [memory |-> expanded.memory, fields |-> [st.fields EXCEPT ![field] = expanded.value]]
ValidAddFields(step) ==
    /\ DOMAIN step.fields # {} /\ DOMAIN step.fields \subseteq FieldNames
    /\ \A f \in DOMAIN step.fields : ValidTemplate(step.fields[f])
\* The order of the fields is that of a Go map.
AddFields ==
    /\ Step("addFields")
    /\ \E order \in SetToSeqs(DOMAIN Head(todo).fields) :
          LET after == FoldAlong(LAMBDA st, f : AddField(Head(todo), st, f), [memory |-> memory, fields |-> fields], order) IN
          memory' = after.memory /\ fields' = after.fields
    /\ OnlyTexts

ValidDelFields(step) == step.keys # {} /\ step.keys \subseteq FieldNames
DelFields ==
    /\ Step("delFields")
    /\ fields' = [f \in FieldNames |-> IF f \in Head(todo).keys THEN Nowhere ELSE fields[f]]
    /\ OnlyFields

\* Neither the range expression nor a boundary beside "*" is looked at.
ValidExtractSpecial(step) ==
    {step.key, step.destKey} \subseteq FieldNames /\ step.maxLen > 0 /\ SplitPattern(step.pattern).ok
CreatesExtractSpecial(step) ==
    LET wildcard == SplitPattern(step.pattern).wildcard IN wildcard = <<"*">> \/ ValidChars(wildcard).ok
Extractor(step) == NewExtractor(IF step.type = "extractHead" THEN "start" ELSE "end", step.pattern, step.maxLen)
ExtractSpecial ==
    /\ Step("extractHead") \/ Step("extractTail")
    /\ LET step == Head(todo)
           source == fields[step.key]
           panics == source.len > 0 /\ ExtractPanics(Text(step.key), Extractor(step))
           found == Extract(Text(step.key), Extractor(step))
       IN  /\ stage' = IF panics THEN "panic" ELSE stage
           /\ fields' = IF panics \/ source.len = 0 \/ found.rest.len = source.len THEN fields
                        ELSE [fields EXCEPT ![step.key] = Part(source, found.rest),
                                            ![step.destKey] = Part(source, found.label)]
    /\ todo' = Tail(todo)
    /\ UNCHANGED <<case, originals, memory, unescaped, time, counted, outputVars>>

\* A regular expression that splits a text in two at the first occurrence of a separator:
\* where its captures are, and the field names of the captures, "" for a group without one.
Submatches(text, separator) ==
    LET at == FirstOf(Occurrences(text, separator), 0) IN
    IF at = 0 THEN <<>>
    ELSE <<[from |-> 1, len |-> at - 1],
           [from |-> at + Len(separator), len |-> Len(text) - at - Len(separator) + 1]>>
\* For every capture the key is looked up again, not the name of the capture.
ValidExtract(step) == step.key \in FieldNames /\ step.separator # <<>>
CreatesExtract(step) == Range(step.names) \subseteq FieldNames \cup {""}
ExtractRegex ==
    /\ Step("extract")
    /\ LET step == Head(todo)
           source == fields[step.key]
           found == Submatches(Text(step.key), step.separator)
       IN  fields' = FoldAlong(LAMBDA fs, i : IF step.names[i] = "" THEN fs
                                             ELSE [fs EXCEPT ![step.names[i]] = Part(source, found[i])],
                              fields, Indexes(found))
    /\ OnlyFields

\* regexp.ReplaceAllString of a pattern that is a plain text; it always makes a new text.
RECURSIVE ReplaceAllString(_, _, _)
ReplaceAllString(text, pattern, replacement) ==
    LET at == FirstOf(Occurrences(text, pattern), 0) IN
    IF at = 0 THEN text
    ELSE Upto(text, at - 1) \o replacement \o ReplaceAllString(From(text, at + Len(pattern)), pattern, replacement)
ValidReplace(step) == step.key \in FieldNames /\ step.pattern # <<>>
Replace ==
    /\ Step("replace")
    /\ IF Text(Head(todo).key) = <<>> THEN UNCHANGED <<memory, fields>>
       ELSE SetNewText(Head(todo).key, ReplaceAllString(Text(Head(todo).key), Head(todo).pattern, Head(todo).replacement))
    /\ OnlyTexts

\* The mapping is from texts to constants.
ValidMapValue(step) == step.key \in FieldNames /\ DOMAIN step.mapping # {}
MapValue ==
    /\ Step("mapValue")
    /\ LET step == Head(todo)
           value == Text(step.key)
           constant == IF value \in DOMAIN step.mapping THEN step.mapping[value] ELSE step.default
       IN  fields' = IF value = <<>> THEN fields
                     ELSE [fields EXCEPT ![step.key] = Whole(constant, Constants[constant])]
    /\ OnlyFields

ValidTruncate(step) == step.key \in FieldNames /\ step.maxLen > 0 /\ step.suffix # <<>>
TruncateField ==
    /\ Step("truncate")
    /\ LET step == Head(todo)
           ref == fields[step.key]
           cut == Truncate(Text(step.key), step.maxLen, step.suffix)
       IN  /\ memory' = [memory EXCEPT ![ref.cell] =
                            Upto(@, ref.from - 1) \o cut.memory \o From(@, ref.from + ref.len)]
           /\ fields' = [fields EXCEPT ![step.key].len = cut.length]
    /\ OnlyTexts

\* The record is marked as unescaped, whatever the field.
ValidUnescape(step) == step.key \in FieldNames
\* Variant: the record is not marked, so that the rewriter unescapes again.
UnescapeField_Unmarked ==
    /\ Step("unescape")
    /\ UNCHANGED unescaped
    /\ LET value == Text(Head(todo).key) IN
       IF unescaped \/ FindFirst(value) = 0 THEN UNCHANGED <<memory, fields>>
       ELSE SetNewText(Head(todo).key, RunFromFirst(SyslogUnescaper, value, FindFirst(value)))
    /\ Passed /\ UNCHANGED <<time, counted>>
UnescapeField ==
    /\ Step("unescape")
    /\ unescaped' = TRUE
    /\ LET value == Text(Head(todo).key) IN
       IF unescaped \/ FindFirst(value) = 0 THEN UNCHANGED <<memory, fields>>
       ELSE SetNewText(Head(todo).key, RunFromFirst(SyslogUnescaper, value, FindFirst(value)))
    /\ Passed /\ UNCHANGED <<time, counted>>

ValidRedactEmail(step) == step.key \in FieldNames
RedactEmail ==
    /\ Step("redactEmail")
    /\ LET value == Text(Head(todo).key)
           redacted == RedactFrom(value, FirstCandidate(value), 1)
       IN  IF FirstCandidate(value) = 0 \/ redacted = value THEN UNCHANGED <<memory, fields, counted>>
           ELSE SetNewText(Head(todo).key, redacted) /\ Counted("redacted")
    /\ Passed /\ UNCHANGED <<unescaped, time>>

ValidParseTime(step) == step.key \in FieldNames
ParseTimeField ==
    /\ Step("parseTime")
    /\ todo' = Tail(todo)
    /\ LET value == Text(Head(todo).key)
           tooShort == value # <<>> /\ value[1] \notin {"D", "X"}
       IN  /\ stage' = IF tooShort THEN "panic" ELSE stage
           /\ CASE value = <<>> \/ tooShort -> UNCHANGED <<time, counted>>
                [] ~tooShort /\ value # <<>> /\ ParseTime(value) = NoTime -> UNCHANGED time /\ Counted("timeError")
                [] OTHER -> time' = ParseTime(value) /\ UNCHANGED counted
    /\ UNCHANGED <<case, originals, memory, fields, unescaped, outputVars>>

\* The rate of a drop below 100 per cent is modelled by Pipeline.
ValidDrop(step) == ValidMatch(step.match)
DropRecord ==
    /\ Step("drop")
    /\ IF Matches(Head(todo).match)
       THEN stage' = "dropped" /\ todo' = <<>> /\ Counted("dropped")
       ELSE todo' = Tail(todo) /\ UNCHANGED <<stage, counted>>
    /\ UNCHANGED <<case, originals, recordVars, outputVars>>

Enter(steps) == todo' = steps \o Tail(todo) /\ UNCHANGED <<case, originals, recordVars, stage, counted, outputVars>>

RunIf == Step("if") /\ Enter(IF Matches(Head(todo).match) THEN Head(todo).then ELSE <<>>)

RunSwitch ==
    /\ Step("switch")
    /\ LET cases == Head(todo).cases
           first == FirstOf({i \in DOMAIN cases : Matches(cases[i].match)}, 0)
       IN  Enter(IF first = 0 THEN <<>> ELSE cases[first].then)

RunBlock == Step("block") /\ Enter(Head(todo).steps)

ValidIf(step) == ValidMatch(step.match) /\ step.then # <<>>
ValidSwitch(step) == step.cases # <<>> /\ \A k \in DOMAIN step.cases : ValidIf(step.cases[k])
ValidBlock(step) == step.steps # <<>>

Inner(step) ==
    CASE step.type = "if" -> step.then
      [] step.type = "switch" -> FlattenSeq([k \in DOMAIN step.cases |-> step.cases[k].then])
      [] step.type = "block" -> step.steps
      [] OTHER -> <<>>
\* The steps with those nested in them.
RECURSIVE AllSteps(_)
AllSteps(steps) == FoldAlong(LAMBDA all, step : all \o <<step>> \o AllSteps(Inner(step)), <<>>, steps)

\* VerifyTransformConfigs
ValidStep(step) ==
    CASE step.type = "addFields" -> ValidAddFields(step)
      [] step.type = "delFields" -> ValidDelFields(step)
      [] step.type \in {"extractHead", "extractTail"} -> ValidExtractSpecial(step)
      [] step.type = "extract" -> ValidExtract(step)
      [] step.type = "replace" -> ValidReplace(step)
      [] step.type = "mapValue" -> ValidMapValue(step)
      [] step.type = "truncate" -> ValidTruncate(step)
      [] step.type = "unescape" -> ValidUnescape(step)
      [] step.type = "redactEmail" -> ValidRedactEmail(step)
      [] step.type = "parseTime" -> ValidParseTime(step)
      [] step.type = "drop" -> ValidDrop(step)
      [] step.type = "if" -> ValidIf(step)
      [] step.type = "switch" -> ValidSwitch(step)
      [] step.type = "block" -> ValidBlock(step)
ValidSteps(steps) == \A i \in DOMAIN AllSteps(steps) : ValidStep(AllSteps(steps)[i])

\* NewTransformsFromConfig does not panic.
CreatesStep(step) ==
    CASE step.type \in {"extractHead", "extractTail"} -> CreatesExtractSpecial(step)
      [] step.type = "extract" -> CreatesExtract(step)
      [] OTHER -> TRUE
CreatesSteps(steps) == \A i \in DOMAIN AllSteps(steps) : CreatesStep(AllSteps(steps)[i])

ASSUME TransformAssumption ==
    /\ \A c \in DOMAIN Cases : ValidSteps(Cases[c]) /\ CreatesSteps(Cases[c])
    /\ ValidFluentd(FluentdOutput)

-----------------------------------------------------------------------------
(* Serialization                                                             *)

Record == [texts |-> Texts, unescaped |-> unescaped, time |-> time]

TransformsEnd ==
    /\ stage = "transform" /\ todo = <<>> /\ stage' = "fluentd"
    /\ UNCHANGED <<case, originals, recordVars, todo, counted, outputVars>>

SerializeFluentd ==
    /\ stage = "fluentd"
    /\ LET serialized == SerializeRecord(FluentdOutput, Record) IN
       /\ stage' = IF serialized.panics THEN "panic" ELSE "datadog"
       /\ event' = serialized.event
       /\ unescaped' = serialized.record.unescaped
    /\ UNCHANGED <<case, originals, memory, fields, time, todo, counted, json>>

SerializeDatadog ==
    /\ stage = "datadog" /\ stage' = "done"
    /\ json' = SerializeJSON(DatadogOutput, Record)
    /\ UNCHANGED <<case, originals, recordVars, todo, counted, event>>

Done == stage \in {"dropped", "done", "panic"} /\ UNCHANGED vars

\* The parser's record: each field a part of the line, with a byte between two of them.
LineOf(texts) == FoldAlong(LAMBDA line, f : line \o texts[f] \o <<" ">>, <<>>, Fields)
FieldFrom(texts, k) == 1 + FoldAlong(LAMBDA n, f : n + Len(texts[f]) + 1, 0, Upto(Fields, k - 1))

Init ==
    /\ case \in DOMAIN Cases
    /\ \E record \in Records(case) :
          /\ originals = record.originals
          /\ memory = Append(Constants, LineOf(record.texts))
          /\ fields = [f \in FieldNames |->
                          LET k == CHOOSE k \in DOMAIN Fields : Fields[k] = f IN
                          [cell |-> Len(Constants) + 1, from |-> FieldFrom(record.texts, k), len |-> Len(record.texts[f])]]
          /\ unescaped = (\E f \in FieldNames : Contains(record.texts[f], "LF"))
    /\ time = <<>> /\ todo = Cases[case] /\ stage = "transform"
    /\ counted = [l \in {"dropped", "redacted", "timeError"} |-> 0]
    /\ event = <<>> /\ json = <<>>

Transform ==
    \/ AddFields \/ DelFields \/ ExtractSpecial \/ ExtractRegex \/ Replace \/ MapValue
    \/ TruncateField \/ UnescapeField \/ RedactEmail \/ ParseTimeField \/ DropRecord
    \/ RunIf \/ RunSwitch \/ RunBlock

Next == Transform \/ TransformsEnd \/ SerializeFluentd \/ SerializeDatadog \/ Done

Spec == Init /\ [][Next]_vars
-----------------------------------------------------------------------------
(* Properties                                                                *)

Running(types) == stage = "transform" /\ todo # <<>> /\ Head(todo).type \in types

Named(step) ==
    CASE step.type = "addFields" -> DOMAIN step.fields
      [] step.type = "delFields" -> step.keys
      [] step.type \in {"extractHead", "extractTail"} -> {step.key, step.destKey}
      [] step.type = "extract" -> Range(step.names)
      [] step.type \in {"drop", "if", "switch", "block", "parseTime"} -> {}
      [] OTHER -> {step.key}

\* No transform and no serializer changes the text of a field it does not name, although fields
\* are parts of one line and truncate overwrites it; provided that the truncated field does not
\* share its bytes with a template of one part, a mapping or another field.
OnlyNamedFieldsChange ==
    [][\A f \in FieldNames :
           ~(stage = "transform" /\ todo # <<>> /\ f \in Named(Head(todo))) => Text(f)' = Text(f)]_vars

\* "The string must come from StringFromBytes if the new []byte is to be modified": truncate
\* never writes into a text of the configuration.
ConstantsStay == [][Upto(memory', Len(Constants)) = Constants]_vars

\* "Both boundaries are optional and may be empty": extractHead and extractTail accept every text.
ExtractionNeverPanics == [][Running({"extractHead", "extractTail"}) => stage' # "panic"]_vars

\* "Whether the main message field has been un-escaped": a record with the mark has the text that
\* the sender escaped.
MarkTellsTheText == unescaped => \A f \in DOMAIN originals : Text(f) = originals[f]

\* The lengths of the tags that a text may have at its start: valid bytes only, between the
\* boundaries, found within maxRange.
TagLengths(text, left, right, ex) ==
    {n \in 0..(Len(text) - Len(left) - Len(right)) :
        LET tag == SubSeq(text, Len(left) + 1, Len(left) + n) IN
        /\ IsPrefix(left \o tag \o right, text)
        /\ Range(tag) \subseteq ex.validChars
        /\ n + Len(right) <= ex.maxRange
        /\ n = 0 => (IF right = <<>> THEN FALSE ELSE right[1] \in ex.validChars)}
\* The tag and the rest: the shortest up to a boundary, the longest without one.
TagAndRest(text, left, right, ex) ==
    LET lengths == TagLengths(text, left, right, ex)
        n == IF right = <<>> THEN Max(lengths) ELSE Min(lengths)
    IN  IF lengths = {} THEN <<>>
        ELSE <<SubSeq(text, Len(left) + 1, Len(left) + n), From(text, Len(left) + n + Len(right) + 1)>>
Trimmed(text) == TextIn(<<text>>, Part(Whole(1, text), Trim(text, 1, Len(text))))

\* extractHead takes out of a field exactly the first tag between the boundaries and leaves what is
\* after them, extractTail the same from the other end; or both fields stay as they are.
ExtractionIsExact ==
    [][Running({"extractHead", "extractTail"}) =>
        LET step == Head(todo)
            ex == Extractor(step)
            found == IF step.type = "extractHead" THEN TagAndRest(Text(step.key), ex.left, ex.right, ex)
                     ELSE TagAndRest(Reverse(Text(step.key)), Reverse(ex.right), Reverse(ex.left), ex)
            Direct(text) == IF step.type = "extractHead" THEN text ELSE Reverse(text)
        IN  IF found = <<>> THEN Texts' = Texts
            ELSE /\ Texts'[step.destKey] = Trimmed(Direct(found[1]))
                 /\ Texts'[step.key] = Direct(found[2])]_vars

\* truncate cuts valid text between two characters, at most one character before the limit, and
\* puts the suffix there; shorter text stays.
TruncatedBetweenCharacters ==
    [][Running({"truncate"}) =>
        LET step == Head(todo)
            before == Text(step.key)
            after == Texts'[step.key]
            kept == Upto(after, Len(after) - Len(step.suffix))
        IN  IF Len(before) <= step.maxLen + Len(step.suffix) THEN after = before
            ELSE /\ IsSuffix(step.suffix, after) /\ Len(kept) <= step.maxLen
                 /\ ValidUTF8(before) =>
                        ValidUTF8(kept) /\ IsPrefix(kept, before) /\ Len(kept) >= step.maxLen - 1]_vars

\* The run of address bytes around an "@", and whether it is an address: not a path, not a number,
\* and a domain with a dot in it unless the text ends there.
RunEnd(text, at) == Max({i \in (at + 1)..Len(text) : \A j \in (at + 1)..i : text[j] \in AddressChars} \cup {at})
RunStart(text, at) == Min({i \in 1..(at - 1) : \A j \in i..(at - 1) : text[j] \in AddressChars} \cup {at})
Addresses(text) ==
    {at \in {i \in DOMAIN text : IsCandidate(text, i)} :
        LET last == RunEnd(text, at)
            domain == SubSeq(text, at + 1, last)
            dots == {i \in DOMAIN domain : domain[i] = "."}
        IN  /\ RunStart(text, at) > 1 => text[RunStart(text, at) - 1] # "/"
            /\ \/ dots = {} /\ last = Len(text) /\ ~IsNumber(domain)
               \/ dots # {} /\ at + Min(dots) = Len(text)
               \/ /\ dots # {} /\ at + Min(dots) < last
                  /\ domain[Min(dots) + 1] \in WordChars /\ ~IsNumber(domain)}
Redacted(text) ==
    LET covered == UNION {RunStart(text, at)..RunEnd(text, at) : at \in Addresses(text)} IN
    FoldAlong(LAMBDA t, i : t \o (CASE i \in Addresses(text) -> <<"REDACTED">>
                                   [] i \in covered \ Addresses(text) -> <<>>
                                   [] OTHER -> <<text[i]>>),
             <<>>, Indexes(text))

\* redactEmail puts REDACTED in place of every address of a text, counts the record, and leaves
\* everything else.
AddressesAreRedacted ==
    [][Running({"redactEmail"}) =>
        LET before == Text(Head(todo).key) IN
        /\ Texts'[Head(todo).key] = Redacted(before)
        /\ counted'.redacted = counted.redacted + (IF Addresses(before) = {} THEN 0 ELSE 1)]_vars

\* What a reader of the fluentd event finds: the fields shown, in order, and the environment.
EventPairs(ev) == DecodePairs(ev, 4, At(ev, 3)[2] - 1)
EnvironmentAt(ev) == DecodeString(ev, EventPairs(ev).next)
EnvironmentPairs(ev) ==
    DecodePairs(ev, EnvironmentAt(ev).next + 1, At(ev, EnvironmentAt(ev).next)[2])
Shown == SelectSeq(Fields, LAMBDA f : ~IsMasked(FluentdOutput, f) /\ Text(f) # <<>>)
\* What the event shows of a field: behind the fields inlined by a rewriter, the text as it is, or
\* as it was before the sender escaped it.
ChainOf(f) == IF f \in DOMAIN FluentdOutput.rewriters THEN FluentdOutput.rewriters[f] ELSE <<>>
BodyShown(f) == IF ChainOf(f) # <<>> /\ f \in DOMAIN originals THEN originals[f] ELSE Text(f)
TextShown(f) ==
    LET inlined == SelectSeq(ChainOf(f), LAMBDA rw : rw.type = "inline" /\ Text(rw.field) # <<>>) IN
    FlattenSeq([i \in DOMAIN inlined |-> <<inlined[i].field, "=">> \o Text(inlined[i].field) \o <<" ">>])
        \o BodyShown(f)
\* The bytes of a whole event: array, time and map, the pairs shown, and the environment.
PairSize(text, header) == 2 + header + Len(text)
PairsSize(fs, Size(_)) == FoldAlong(LAMBDA n, f : n + Size(f), 0, fs)
EventSize ==
    LET ShownSize(f) == PairSize(TextShown(f), IF ChainOf(f) # <<>> \/ Len(TextShown(f)) >= Len4Limit THEN 3 ELSE 1)
        OtherSize(f) == PairSize(Text(f), IF Len(Text(f)) >= Len4Limit THEN 3 ELSE 1)
    IN  1 + 10 + (IF Len(Fields) + 1 < Len4Limit THEN 1 ELSE 3) + PairsSize(Shown, ShownSize)
        + 2 + (IF Len(FluentdOutput.environment) < Len4Limit THEN 1 ELSE 3) + PairsSize(FluentdOutput.environment, OtherSize)
\* A fluentd event is handed on if and only if all of it is shorter than the buffer; otherwise it
\* is refused or the agent panics, and no part of it is handed on.  It is well-formed msgpack with
\* every field that is not empty or hidden, once, and the environment.  A field with a rewriter
\* that unescapes shows what the sender wrote, unescaped exactly once, whether a transform or the
\* rewriter does it.  The datadog event shows the texts as the transforms have left them, escaped
\* or not, and the fluentd serializer before it changes none of them.
EventsCarryTheRecord ==
    [][/\ stage = "fluentd" => (stage' # "panic" /\ event' # <<>> <=> EventSize < BufferSize)
       /\ stage = "fluentd" /\ stage' # "panic" /\ event' # <<>> =>
            LET pairs == EventPairs(event')
                environment == EnvironmentPairs(event')
            IN  /\ At(event', 1) = <<"array4", 2>> /\ At(event', 2) = <<"time", time>>
                /\ pairs.ok /\ EnvironmentAt(event').ok /\ environment.ok
                /\ environment.next = Len(event') + 1
                /\ EnvironmentAt(event').text = <<"environment">>
                /\ environment.pairs = [i \in DOMAIN FluentdOutput.environment |->
                        <<<<FluentdOutput.environment[i]>>, Text(FluentdOutput.environment[i])>>]
                /\ pairs.pairs = [i \in DOMAIN Shown |-> <<<<Shown[i]>>, TextShown(Shown[i])>>]
       /\ stage = "datadog" =>
            \A f \in FieldNames \ DatadogOutput.hidden :
                IF Text(f) = <<>> THEN f \notin DOMAIN json' \/ f = "ddtags"
                ELSE ValidUTF8(Text(f)) => json'[f] = Text(f)]_vars
=============================================================================
