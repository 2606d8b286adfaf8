--------------------------- MODULE MCLogTransforms ---------------------------
(* Small instances of LogTransforms for TLC. *)
EXTENDS LogTransforms

FieldList == <<"time", "app", "log", "env">>
ConstantTexts == <<<<"c">>, <<>>, <<"b", "-">>>>

Fluentd == [environment |-> <<"env">>, hidden |-> {"time"},
            rewriters |-> "log" :> <<[type |-> "inline", field |-> "app"], [type |-> "unescape", field |-> ""]>>]
Datadog == [hidden |-> {"env"}, ddtags |-> <<"c">>]

\* All texts of at most n of these bytes, and records with such messages.
TextsOf(bytes, n) == UNION {[1..k -> bytes] : k \in 0..n}
With(log) == [texts |-> [time |-> <<>>, app |-> <<"a", "b">>, log |-> log, env |-> <<"b">>], originals |-> <<>>]
\* What the sender writes for a text.
Escape(text) ==
    FoldAlong(LAMBDA t, b : t \o (CASE b = "LF" -> <<"\\", "n">> [] b = "\\" -> <<b, b>> [] OTHER -> <<b>>), <<>>, text)
Escaped(app, original) ==
    [texts |-> [time |-> <<>>, app |-> app, log |-> Escape(original), env |-> <<>>], originals |-> "log" :> original]

Head_(pattern, max) == [type |-> "extractHead", key |-> "log", destKey |-> "app", pattern |-> pattern, maxLen |-> max]
Tail_(pattern, max) == [type |-> "extractTail", key |-> "log", destKey |-> "app", pattern |-> pattern, maxLen |-> max]
Truncating(key, max) == [type |-> "truncate", key |-> key, maxLen |-> max, suffix |-> <<".", ".">>]
Unescaping == [type |-> "unescape", key |-> "log"]
Redacting == [type |-> "redactEmail", key |-> "log"]

\* Labels, classification and rewriting as in a configuration file.
Match(key, op, arg) == [key |-> key, op |-> op, arg |-> arg]
Var(key) == [kind |-> "var", key |-> key]
Const(k) == [kind |-> "text", value |-> k]
SliceOf(key, start, end) == [kind |-> "slice", key |-> key, start |-> start, end |-> end]
Add(field, parts) == [type |-> "addFields", fields |-> field :> parts]

Classify == <<
    [type |-> "parseTime", key |-> "time"],
    Head_(<<"\\", "[", "*", "\\", "]">>, 3),
    Truncating("app", 1),
    [type |-> "switch", cases |-> <<
        [match |-> <<Match("app", "str-eq", <<"a">>), Match("log", "str-any", <<>>)>>,
         then |-> <<Add("env", <<Var("app"), Const(3), Var("log")>>)>>],
        [match |-> <<Match("log", "str-start", <<"b">>)>>,
         then |-> <<[type |-> "if", match |-> <<Match("log", "str-end", <<"b">>), Match("log", "len-gt", 1)>>,
                     then |-> <<[type |-> "drop", match |-> <<Match("log", "len-lt", 3)>>]>>],
                    [type |-> "delFields", keys |-> {"app"}]>>],
        [match |-> <<Match("log", "str-contain", <<"-">>), Match("app", "str-not", <<"b">>)>>,
         then |-> <<[type |-> "extract", key |-> "log", separator |-> <<"-">>, names |-> <<"app", "">>]>>]>>],
    [type |-> "block", steps |-> <<
        [type |-> "addFields", fields |-> ("time" :> <<Var("log"), Const(1)>>) @@ ("env" :> <<Var("app"), Var("env")>>)],
        [type |-> "mapValue", key |-> "app", mapping |-> (<<"a">> :> 1), default |-> 2]>>],
    [type |-> "replace", key |-> "log", pattern |-> <<"a">>, replacement |-> <<"n", "n">>],
    Add("app", <<SliceOf("log", -2, 3)>>)>>

Times == {<<>>, <<"-">>, <<"X">>, <<"D">>, <<"D", ".", "1", "2", "Z">>, <<"D", ".", "Z">>, <<"D", "+", "02">>,
          <<"D", "+", "02", "00">>, <<"D", ".", "1", "+", "02", ":", "00">>}
Classified == {With(l) : l \in {<<"[", "a", "a", "]", "b", "a">>, <<"[", "1", "]", "b", "b">>, <<"b", "b">>, <<"b", "a">>,
                        <<"1", "-", "a">>, <<"-", "b", "-">>, <<>>, <<"[", " ", "a", "]", "u", "v">>}}

AllCases == <<
    <<Truncating("log", 3)>>,
    <<Redacting>>,
    Classify,
    <<Head_(<<"\\", "[", "[", "a", "-", "b", "]", "\\", "]">>, 3)>>,
    <<Head_(<<"[", "*", "]", " ">>, 4)>>,
    <<Tail_(<<" ", "\\", "[", "[", "^", "\\", "[", "]", "\\", "]">>, 4)>>,
    <<Tail_(<<"-", "[", "a", "-", "b", "1", "-", "]">>, 3), Truncating("app", 1)>>,
    <<Head_(<<"[", "a", " ", "]">>, 3), Head_(<<"*", "-">>, 3)>>,
    <<Tail_(<<"[", "a", "1", "]">>, 3)>>,
    <<Unescaping>>,
    <<Unescaping, Unescaping>>,
    <<Redacting>>>>

\* A tag up to the end of the text, and a constant that is shortened.
WildcardCases == <<<<Head_(<<"a", "*">>, 3)>>>>
ConstantCases == <<<<Add("app", <<Const(1)>>), Truncating("app", 1)>>>>
LongConstants == <<<<"c", "a", "b", "a">>>>

RecordsOf(c) ==
    CASE c = 1 -> {With(t) : t \in TextsOf({"a", "u", "v"}, 7)}
      [] c = 2 -> {With(t) : t \in TextsOf({"a", "1", ".", "@", "/"}, 5) \cup TextsOf({"a", ".", "@"}, 7)}
      [] c = 3 -> {[r EXCEPT !.texts.time = t, !.texts.app = <<>>] : r \in Classified, t \in Times}
      [] c \in 4..6 -> {With(t) : t \in TextsOf({"a", "b", "[", "]", " "}, 5)}
      [] c \in 7..9 -> {With(t) : t \in TextsOf({"a", "-", " ", "1"}, 5)}
      [] OTHER -> {Escaped(IF c = 11 THEN <<>> ELSE <<"a">>, t) : t \in TextsOf({"a", "n", "LF", "\\"}, 4)}
=============================================================================
