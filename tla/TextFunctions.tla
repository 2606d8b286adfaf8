----------------------------- MODULE TextFunctions -----------------------------
(***************************************************************************)
(* What the agent does to the text of a field: util/utf8.go,                *)
(* util/strings.go, util/stringunescape, transform/textractspecial,         *)
(* transform/tredactemail, util/stringtemplate, base/bmatch.                *)
(*                                                                          *)
(* A text is a sequence of bytes.  "u" and "v" are the two bytes of a       *)
(* character outside ASCII, "LF" is a newline, and REDACTED is one symbol.  *)
(* Positions start at 1, and 0 is the -1 of the code.                       *)
(***************************************************************************)
EXTENDS Integers, Sequences, SequencesExt

\* The bytes of the models in their order, for ranges such as a-z.
Alphabet == <<"LF", "REDACTED", " ", "*", "-", ".", "/", "1", "2", "@", "[", "\\", "]", "_",
           "a", "b", "c", "n", "u", "v">>
Code(byte) == CHOOSE i \in DOMAIN Alphabet : Alphabet[i] = byte

FirstOf(positions, none) == IF positions = {} THEN none ELSE Min(positions)
LastOf(positions, none) == IF positions = {} THEN none ELSE Max(positions)

Upto(text, n) == SubSeq(text, 1, n)
From(text, n) == SubSeq(text, n, Len(text))

\* FoldLeft of SequencesExt, by recursion on the length.
FoldAlong(op(_, _), base, seq) ==
    LET upto[i \in 0..Len(seq)] == IF i = 0 THEN base ELSE op(upto[i - 1], seq[i]) IN upto[Len(seq)]
Indexes(seq) == [i \in DOMAIN seq |-> i]

\* strings.Index, strings.LastIndex
Occurrences(text, part) ==
    {i \in 1..(Len(text) - Len(part) + 1) : SubSeq(text, i, i + Len(part) - 1) = part}

-----------------------------------------------------------------------------
(* UTF-8 and truncation, in place: the memory under the text, and the length *)
(* of the text that is left at its beginning.                                *)

Edited(result) == Upto(result.memory, result.length)

OverwriteNTruncate(main, start, tail) ==
    LET n == Min({Len(tail), Len(main) - start}) IN
    [memory |-> Upto(main, start) \o Upto(tail, n) \o From(main, start + n + 1),
     length |-> start + n]

\* strings.ToValidUTF8 with nothing in place of the invalid bytes.
IsWhole(text, i) ==
    CASE text[i] = "u" -> i < Len(text) /\ text[i + 1] = "v"
      [] text[i] = "v" -> i > 1 /\ text[i - 1] = "u"
      [] OTHER -> TRUE
ValidUTF8(text) == \A i \in DOMAIN text : IsWhole(text, i)
ToValidUTF8(text) ==
    FoldAlong(LAMBDA valid, i : IF IsWhole(text, i) THEN Append(valid, text[i]) ELSE valid, <<>>, Indexes(text))

\* Only what comes after the last ASCII byte is cleaned.
LastEndOfASCII(text) == LastOf({i \in DOMAIN text : text[i] \notin {"u", "v"}}, 0)
CleanUTF8(text) ==
    OverwriteNTruncate(text, LastEndOfASCII(text), ToValidUTF8(From(text, LastEndOfASCII(text) + 1)))

\* Variants: append writes past the end of a text that is hardly too long; the rest of a character is kept.
Truncate_Appends(value, maxLength, suffix) ==
    IF Len(value) > maxLength
    THEN [memory |-> Upto(value, maxLength) \o suffix \o From(value, maxLength + Len(suffix) + 1),
          length |-> maxLength + Len(suffix)]
    ELSE [memory |-> value, length |-> Len(value)]
Truncate_InsideCharacter(value, maxLength, suffix) ==
    IF Len(value) > maxLength + Len(suffix) THEN OverwriteNTruncate(value, maxLength, suffix)
    ELSE [memory |-> value, length |-> Len(value)]

Truncate(value, maxLength, suffix) ==
    IF Len(value) > maxLength + Len(suffix)
    THEN LET cleaned == CleanUTF8(Upto(value, maxLength)) IN
         OverwriteNTruncate(cleaned.memory \o From(value, maxLength + 1), cleaned.length, suffix)
    ELSE [memory |-> value, length |-> Len(value)]

-----------------------------------------------------------------------------
(* Escapes.  An unescaper is the function from the bytes that may be escaped *)
(* to what they stand for.                                                   *)

NewUnescaper(mapping) == mapping @@ ("\\" :> "\\")
SyslogUnescaper == NewUnescaper("n" :> "LF")
PatternUnescaper == NewUnescaper([c \in {"[", "]", "*"} |-> c])

FindFirst(text) == FirstOf({i \in DOMAIN text : text[i] = "\\"}, 0)

\* RunToBuffer: si is the position of an escape byte, or the end.
RunFrom(unescaper, text, first) ==
    LET run[si \in 1..(Len(text) + 1)] ==
            IF si >= Len(text) THEN From(text, si)
            ELSE LET byte == text[si + 1]
                     next == FirstOf({i \in (si + 2)..Len(text) : text[i] = "\\"}, Len(text) + 1)
                 IN  (IF byte \in DOMAIN unescaper THEN <<unescaper[byte]>> ELSE <<"\\", byte>>)
                     \o SubSeq(text, si + 2, next - 1) \o run[next]
    IN run[first]
RunFromFirst(unescaper, text, first) == Upto(text, first - 1) \o RunFrom(unescaper, text, first)
Unescape(unescaper, text) ==
    IF FindFirst(text) = 0 THEN text ELSE RunFromFirst(unescaper, text, FindFirst(text))

FindFirstUnescaped(text, target, start) ==
    LET find[pos \in 1..(Len(text) + 2)] ==
            CASE pos > Len(text) -> 0
              [] pos <= Len(text) /\ text[pos] = "\\" -> find[pos + 2]
              [] pos <= Len(text) /\ text[pos] = target -> pos
              [] OTHER -> find[pos + 1]
    IN find[start]

-----------------------------------------------------------------------------
(* extractHead and extractTail                                               *)

BadPattern == [ok |-> FALSE]

\* splitPattern: left boundary, wildcard and right boundary.
SplitPattern(pattern) ==
    LET star == FindFirstUnescaped(pattern, "*", 1)
        open == FindFirstUnescaped(pattern, "[", 1)
        close == FindFirstUnescaped(pattern, "]", open + 1)
        Parts(first, last) == [ok |-> TRUE,
                               left |-> Unescape(PatternUnescaper, Upto(pattern, first - 1)),
                               wildcard |-> SubSeq(pattern, first, last),
                               right |-> Unescape(PatternUnescaper, From(pattern, last + 1))]
    IN  CASE star # 0 -> Parts(star, star)
          [] star = 0 /\ open # 0 /\ close # 0 -> Parts(open, close)
          [] OTHER -> BadPattern

\* fillValidCharsByRangeExpression
ListChar(expr, listed, i) ==
    LET isHyphen == expr[i] = "-" IN
    CASE ~listed.ok \/ (isHyphen /\ listed.inRange) -> [listed EXCEPT !.ok = FALSE]
      [] isHyphen /\ ~listed.inRange /\ i > 1 /\ i < Len(expr) -> [listed EXCEPT !.inRange = TRUE]
      [] ~isHyphen /\ listed.inRange ->
            [listed EXCEPT !.inRange = FALSE,
                           !.chars = @ \cup {Alphabet[c] : c \in Code(expr[i - 2])..Code(expr[i])}]
      [] OTHER -> [listed EXCEPT !.chars = @ \cup {expr[i]}]
ValidChars(wildcard) ==
    LET inner == Unescape(PatternUnescaper, SubSeq(wildcard, 2, Len(wildcard) - 1))
        negated == inner # <<>> /\ inner[1] = "^"
        expr == IF negated THEN Tail(inner) ELSE inner
        listed == FoldAlong(LAMBDA l, i : ListChar(expr, l, i),
                           [ok |-> inner # <<>>, inRange |-> FALSE, chars |-> {}], Indexes(expr))
    IN  [listed EXCEPT !.chars = IF negated THEN Range(Alphabet) \ @ ELSE @]

\* newStringExtractor; no validChars at all stands for any byte.
NewExtractor(position, pattern, maxRange) ==
    LET parts == SplitPattern(pattern)
        any == parts.wildcard = <<"*">>
    IN  [position |-> position, left |-> parts.left, right |-> parts.right, maxRange |-> maxRange,
         any |-> any, validChars |-> IF any THEN Range(Alphabet) ELSE ValidChars(parts.wildcard).chars]

\* trimControlCharsAndSpaces of the bytes first..last of a text.
Trim(text, first, last) ==
    LET printed == {i \in first..last : Code(text[i]) > Code(" ")} IN
    [from |-> FirstOf(printed, first), len |-> IF printed = {} THEN 0 ELSE Max(printed) - Min(printed) + 1]

NotExtracted(text) == [label |-> [from |-> 1, len |-> 0], rest |-> [from |-> 1, len |-> Len(text)]]

\* Variant: the search is not limited to maxRange.
ExtractAtStart_Unlimited(text, ex) ==
    LET first == Len(ex.left) + 1
        at == FirstOf(Occurrences(From(text, first), ex.right), 0)
    IN  IF ~IsPrefix(ex.left, text) \/ ex.right = <<>> \/ at <= 1
           \/ \E i \in first..(first + at - 2) : text[i] \notin ex.validChars
        THEN NotExtracted(text)
        ELSE [label |-> Trim(text, first, first + at - 2),
              rest |-> [from |-> first + at - 1 + Len(ex.right), len |-> Len(text) - first - at + 2 - Len(ex.right)]]

\* extractLabelAtStart: where the label and the rest of the text are.
ExtractAtStart(text, ex) ==
    LET first == Len(ex.left) + 1
        near == SubSeq(text, first, Min({Len(text), first + ex.maxRange - 1}))
        bounds == Occurrences(near, ex.right)
        invalid == {i \in DOMAIN near : near[i] \notin ex.validChars}
        tagLen == IF ex.right # <<>> THEN FirstOf(bounds, 0) - 1 ELSE FirstOf(invalid, Len(near) + 1) - 1
    IN  IF \/ ~IsPrefix(ex.left, text)
           \/ 1 \in invalid
           \/ ex.right # <<>> /\ (bounds = {} \/ \E i \in 1..tagLen : i \in invalid)
           \/ ex.right = <<>> /\ tagLen = 0
        THEN NotExtracted(text)
        ELSE LET restFrom == first + tagLen + Len(ex.right) IN
             [label |-> Trim(text, first, first + tagLen - 1),
              rest |-> [from |-> restFrom, len |-> Len(text) - restFrom + 1]]

\* extractLabelAtEnd
ExtractAtEnd(text, ex) ==
    LET last == Len(text) - Len(ex.right)
        nearFrom == Max({1, last - ex.maxRange + 1})
        bounds == {i + nearFrom - 1 : i \in Occurrences(SubSeq(text, nearFrom, last), ex.left)}
        invalid == {i \in nearFrom..last : text[i] \notin ex.validChars}
        tagFrom == IF ex.left # <<>> THEN LastOf(bounds, 0) + Len(ex.left) ELSE LastOf(invalid, nearFrom - 1) + 1
    IN  IF \/ ~IsSuffix(ex.right, text)
           \/ last \in invalid
           \/ ex.left # <<>> /\ (bounds = {} \/ \E i \in tagFrom..last : i \in invalid)
           \/ ex.left = <<>> /\ tagFrom = last + 1
        THEN NotExtracted(text)
        ELSE [label |-> Trim(text, tagFrom, last),
              rest |-> [from |-> 1, len |-> tagFrom - Len(ex.left) - 1]]

\* "*" has no table of valid bytes, which is looked at where there is no boundary.
ExtractPanics(text, ex) ==
    /\ ex.any
    /\ \/ ex.position = "start" /\ ex.right = <<>> /\ IsPrefix(ex.left, text) /\ Len(text) > Len(ex.left)
       \/ ex.position = "end" /\ ex.left = <<>> /\ IsSuffix(ex.right, text) /\ Len(text) > Len(ex.right)
Extract(text, ex) ==
    IF ex.position = "start" THEN ExtractAtStart(text, ex) ELSE ExtractAtEnd(text, ex)

-----------------------------------------------------------------------------
(* redactEmail                                                               *)

Digits == {"1", "2"}
WordChars == {"a", "b", "c", "n"} \cup Digits
AddressChars == WordChars \cup {".", "-", "_"}

IsCandidate(text, at) ==
    /\ text[at] = "@" /\ at > 1 /\ at < Len(text)
    /\ text[at - 1] \in WordChars /\ text[at + 1] \in WordChars

\* redactFindEmailStart: the text before limit was already copied.
AddressStart_InPath(text, at, limit) ==
    LastOf({i \in limit..(at - 1) : text[i] \notin AddressChars}, limit - 1) + 1
AddressStart(text, at, limit) ==
    LET before == LastOf({i \in limit..(at - 1) : text[i] \notin AddressChars}, limit - 1) IN
    IF before >= 1 /\ text[before] = "/" THEN 0 ELSE before + 1

\* redactEmailCheckNumber
IsNumber(text) == Len(text) >= 2 /\ text[1] \in Digits /\ text[Len(text)] \in Digits

\* redactFindEmailEnd: the position after the address.
AddressEnd(text, at) ==
    LET end == Len(text) + 1
        dot == FirstOf({i \in (at + 1)..Len(text) : text[i] = "." \/ text[i] \notin AddressChars}, end)
        stop == FirstOf({i \in (dot + 2)..Len(text) : text[i] \notin AddressChars}, end)
    IN  CASE dot = end -> IF IsNumber(From(text, at + 1)) THEN 0 ELSE end
          [] dot < end /\ text[dot] # "." -> 0
          [] dot = Len(text) /\ text[dot] = "." -> end
          [] OTHER -> IF text[dot + 1] \notin WordChars \/ IsNumber(SubSeq(text, at + 1, stop - 1))
                      THEN 0 ELSE stop

\* redactEmail1: at is the position of a "@" or the end, and copied where the text not yet copied begins.
RedactFrom(text, first, begin) ==
    LET NextAt(pos) == FirstOf({i \in pos..Len(text) : text[i] = "@"}, Len(text) + 1)
        end == Len(text) + 1
        redact[at \in 1..end, copied \in 1..end] ==
            LET from == AddressStart(text, at, copied)
                to == AddressEnd(text, at)
            IN  CASE at >= Len(text) -> From(text, copied)
                  [] at < Len(text) /\ IsCandidate(text, at) /\ from # 0 /\ to # 0 ->
                        SubSeq(text, copied, from - 1) \o <<"REDACTED">> \o redact[NextAt(to), to]
                  [] OTHER -> redact[NextAt(at + 1), copied]
    IN redact[first, begin]

\* redactEmailFindFirst
FirstCandidate(text) == FirstOf({i \in DOMAIN text : IsCandidate(text, i)}, 0)

-----------------------------------------------------------------------------
(* Templates and matches                                                     *)

\* The substring ${name[start:end]}; without an end, MaxInt32 is given.
Slice(len, start, end) ==
    LET first == Max({0, IF start < 0 THEN start + len ELSE start})
        last == Min({len, IF end < 0 THEN end + len ELSE end})
    IN  [from |-> first + 1, len |-> Max({0, last - first})]

\* valueMatcherConstructors; globs and regular expressions are not modelled.
MatchOps == {"str-any", "str-eq", "str-not", "str-start", "str-end", "str-contain", "len-gt", "len-lt"}
MatchOK(match) ==
    CASE match.op = "str-any" -> match.arg = <<>>
      [] match.op \in {"len-gt", "len-lt"} -> match.arg \in Int
      [] OTHER -> match.op \in MatchOps /\ match.arg # <<>>
LengthMatches(match, value) ==
    IF match.op = "len-gt" THEN Len(value) > match.arg ELSE Len(value) < match.arg
ValueMatches(match, value) ==
    CASE match.op = "str-any" -> Len(value) > 0
      [] match.op = "str-eq" -> value = match.arg
      [] match.op = "str-not" -> value # match.arg
      [] match.op = "str-start" -> IsPrefix(match.arg, value)
      [] match.op = "str-end" -> IsSuffix(match.arg, value)
      [] match.op = "str-contain" -> Occurrences(value, match.arg) # {}
      [] match.op \in {"len-gt", "len-lt"} -> LengthMatches(match, value)
=============================================================================
