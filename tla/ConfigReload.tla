----------------------------- MODULE ConfigReload -----------------------------
(***************************************************************************)
(* run/config.go, run/configstats.go, run/reloader.go, base/logschema.go:   *)
(* what a configuration file must satisfy, which fields it pins, and which  *)
(* configuration may replace the running one.                               *)
(*                                                                          *)
(* A configuration is reduced to the fields its parts refer to:             *)
(*   [fields, maxFields, inputs, orchestration, keys, metricKeys,           *)
(*    transformations, outputs]                                             *)
(* where inputs and transformations are sets of field names, keys and       *)
(* metricKeys sequences of them, and outputs a sequence of [name, format].  *)
(***************************************************************************)
EXTENDS Integers, Sequences, FiniteSets, SequencesExt

Config ==
    [fields : Seq(STRING), maxFields : Nat, inputs : SUBSET STRING, orchestration : STRING,
     keys : Seq(STRING), metricKeys : Seq(STRING), transformations : SUBSET STRING,
     outputs : Seq([name : STRING, format : {"fluentd", "datadog"}])]

MissingFieldLocator == 0

\* LogSchema.CreateFieldLocator, with positions from 1.
Locate(fields, name) ==
    IF Contains(fields, name) THEN CHOOSE i \in DOMAIN fields : fields[i] = name
                              ELSE MissingFieldLocator

AllLocated(c, names) == \A n \in names : Locate(c.fields, n) # MissingFieldLocator

\* checkAndCreateSchema, NewLogSchema
SchemaOK(c) ==
    /\ c.fields # <<>>
    /\ c.maxFields >= Len(c.fields)
    /\ ~Contains(c.fields, "")
    /\ \A i, j \in DOMAIN c.fields : c.fields[i] = c.fields[j] => i = j

\* checkMetricKeys
MetricKeysOK(c) ==
    /\ c.metricKeys # <<>>
    /\ AllLocated(c, ToSet(c.metricKeys))
    /\ ToSet(c.metricKeys) \cap ToSet(c.keys) = {}

\* ParseConfigFile
ConfigOK(c) ==
    /\ SchemaOK(c)
    /\ AllLocated(c, c.inputs)
    /\ c.orchestration = "byKeySet" => c.keys # <<>> /\ AllLocated(c, ToSet(c.keys))
    /\ MetricKeysOK(c)
    /\ AllLocated(c, c.transformations)
    /\ \A i, j \in DOMAIN c.outputs : c.outputs[i].name = c.outputs[j].name => i = j

\* ConfigStatsBuilder: the fields located while inputs and orchestration are verified.
FixedFields(c) == {f \in ToSet(c.fields) : f \in c.inputs \cup ToSet(c.keys)}

FieldsKept(old, new) ==
    \A f \in FixedFields(old) : Locate(new.fields, f) = Locate(old.fields, f)

\* checkConfigCompatibility
Compatible(old, new) ==
    /\ new.maxFields = old.maxFields
    /\ new.inputs = old.inputs
    /\ new.orchestration = old.orchestration
    /\ new.keys = old.keys
    /\ FieldsKept(old, new)

\* Reloader.initiateDownstreamReload
MayReload(old, new) == ConfigOK(new) /\ Compatible(old, new)
=============================================================================
