------------------------------ MODULE MCPipeline ------------------------------
(* Small instances of Pipeline for TLC. *)
EXTENDS Pipeline

\* Of the logs that pass, 1 and 3 fill more than a chunk, 1 and 4 just one.
Lengths == <<3, 1, 6, 2>>
BadLogs == {2}
MatchingLogs == {3, 4}

\* Joined, the keys of logs 1 and 3 read alike; those of 4 are like no other.
LevelOf == <<<<"a", "b">>, <<>>, <<"a">>, <<"c">>>>
SourceOf == <<<<"c">>, <<>>, <<"b", "c">>, <<"d">>>>
KeyTexts == [v \in {"lvl", "src"} \X (1..4) |-> IF v[1] = "lvl" THEN LevelOf[v[2]] ELSE SourceOf[v[2]]]

\* Events too long for the fluentd output.
TooLong == "logs" :> {4} @@ "dog" :> {}

Both == <<[name |-> "logs", format |-> "fluentd"], [name |-> "dog", format |-> "datadog"]>>
First == [fields |-> <<"app", "lvl", "src", "msg", "env">>, maxFields |-> 6,
          inputs |-> {"app", "lvl", "src", "msg"},
          orchestration |-> "byKeySet", keys |-> <<"app">>, metricKeys |-> <<"lvl", "src">>,
          transformations |-> {"msg"}, outputs |-> Both]

\* A reload that is let through: a field is inserted after the fixed ones, the metric keys are
\* others, and the output that is left takes the place of the first.
Inserted == [First EXCEPT !.fields = <<"app", "lvl", "src", "msg", "new", "env">>,
                          !.metricKeys = <<"env", "src">>, !.outputs = <<Both[2]>>]

\* Reloads that must be refused: a fixed field moved or missing, another maxFields, other
\* inputs or keys, a field twice, a transformation of an unknown field.
Unloadable == <<[First EXCEPT !.fields = <<"app", "lvl", "src", "new", "msg">>],
                [First EXCEPT !.fields = <<"msg", "lvl", "src", "app", "env">>],
                [First EXCEPT !.fields = <<"app", "lvl", "src", "env">>, !.transformations = {}],
                [First EXCEPT !.maxFields = 7],
                [First EXCEPT !.inputs = {"app", "env"}],
                [First EXCEPT !.keys = <<"env">>],
                [First EXCEPT !.fields = <<"app", "lvl", "src", "msg", "app">>],
                [First EXCEPT !.transformations = {"gone"}]>>

Loadable == <<First, Inserted>> \o Unloadable

\* One output first, and a second one added later.
MoreOutputs == <<[First EXCEPT !.outputs = <<Both[1]>>], First>>
=============================================================================
