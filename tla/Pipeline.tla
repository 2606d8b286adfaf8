------------------------------- MODULE Pipeline -------------------------------
(***************************************************************************)
(* One pipeline from the parsing of records to the chunks handed to its     *)
(* bufferers, and its replacement when the configuration is reloaded:       *)
(* orchestrate/osingleton, orchestrate/obase/pipelines.go,                  *)
(* base/bsupport/logprocessingworker.go, transform/tdrop, run/reloader.go.  *)
(*                                                                          *)
(*   receiver goroutine:  parses the records of a connection and sends them *)
(*                        in batches through inputChannel                   *)
(*   worker goroutine:    transforms, serializes and packs them             *)
(*   main goroutine:      reload and shutdown                               *)
(*                                                                          *)
(* Log number i is the i-th message received.  What a log says is in the    *)
(* constants: its length, the texts of its fields, whether it can be        *)
(* parsed, whether the drop transform matches it, and which outputs refuse  *)
(* its event.  The bufferers are HybridBuffer's subject; here they take     *)
(* every chunk until they are destroyed.                                    *)
(***************************************************************************)
EXTENDS RecordPool, ChunkMaker, ConfigReload

CONSTANTS
    NumLogs,        \* messages received
    LengthOf,       \* length of each of them
    Malformed,      \* the ones the parser rejects
    Matching,       \* the ones the drop transform matches
    TextOf,         \* text of <<field, log>>, a sequence of characters
    Refused,        \* by output name, the ones whose event does not fit the serializer's buffer
    Rate,           \* percentage of the drop transform
    Configs,        \* configurations: the first one is started, the others may be loaded
    MaxReloads,     \* number of reloads
    MaxBatch,       \* defs.IntermediateBufferMaxNumLogs
    ChannelCap,     \* defs.IntermediateBufferedChannelSize
    MaxTime,        \* bound of the clock, in flush intervals
    ClockMayGoBack, \* whether the clock of the host may be set back, a bound of the runs
    MayTimeOut      \* whether defs.IntermediateChannelTimeout may pass

Log == 1..NumLogs
OutputNames == UNION {{Configs[k].outputs[i].name : i \in DOMAIN Configs[k].outputs} : k \in DOMAIN Configs}

ASSUME PipelineAssumption ==
    /\ NumLogs \in Nat
    /\ LengthOf \in [Log -> Nat \ {0}]
    /\ Malformed \subseteq Log
    /\ Matching \subseteq Log
    /\ DOMAIN TextOf \subseteq STRING \X Log
    /\ \A v \in DOMAIN TextOf : TextOf[v] \in Seq(STRING)
    /\ Refused \in [OutputNames -> SUBSET Log]
    /\ Rate \in 1..100
    /\ Configs \in Seq(Config) /\ Configs # <<>>
    /\ ConfigOK(Configs[1]) /\ MaxFields = Configs[1].maxFields
    /\ MaxReloads \in Nat /\ MaxBatch \in Nat \ {0} /\ ChannelCap \in Nat \ {0}
    /\ MaxTime \in Nat \ {0}
    /\ ClockMayGoBack \in BOOLEAN /\ MayTimeOut \in BOOLEAN

\* json.Marshal has no limit: only a fluentd output refuses an event.
ASSUME RefusalAssumption ==
    \A k \in DOMAIN Configs : \A i \in DOMAIN Configs[k].outputs :
        Configs[k].outputs[i].format = "datadog" => Refused[Configs[k].outputs[i].name] = {}

VARIABLES
    received,      \* number of messages received
    parsed,        \* records buffered by the receiver: <<object, log>>
    inputChannel,
    inputClosed,
    alloc,         \* the LogAllocator, shared by all generations
    pc,            \* worker: "select", "transform", "output", "stopped", "ended"
    batch,         \* records of onInput not yet done, the current one first
    output,        \* index of the output to serialize for next
    packers,       \* by output index
    destroyed,     \* number of bufferers destroyed
    now,           \* the host's clock
    setBack,       \* history: whether it has been set back
    flushDue,      \* whether the flush interval has passed since lastChunkTime, which is set once
    config,        \* index of the running configuration
    loading,       \* index of the one being loaded, or 0
    numReload,
    totalMatched, totalDropped,    \* of the drop transform
    keySets,       \* LogProcessCounterSet.keySetPairs: merged key -> key set of its counters
    unwritten,     \* LogProcessCounterSet: counts not yet written to the metrics
    written,       \* the metrics, summed over the generations
    passed,        \* history: logs that passed the transforms, by output name
    outcomes,      \* history: <<outcome, key set>> of each record transformed
    accepted,      \* history: chunks accepted by the bufferers, by output name
    panicked

receiverVars == <<received, parsed>>
historyVars == <<passed, outcomes, accepted>>
configVars == <<config, loading, numReload>>
clockVars == <<now, setBack, flushDue>>
dropVars == <<totalMatched, totalDropped>>
counterVars == <<keySets, unwritten, written>>
workerVars == <<pc, batch, output, packers, dropVars, counterVars, historyVars>>
vars == <<receiverVars, inputChannel, inputClosed, alloc, workerVars, destroyed, clockVars,
          configVars, panicked>>

Conf == Configs[config]
Outputs == DOMAIN Conf.outputs
NameOf(i) == Conf.outputs[i].name
IsOutput(n) == \E i \in Outputs : NameOf(i) = n
IndexOf(n) == CHOOSE i \in Outputs : NameOf(i) = n

\* NewLoaderFromConfigFile creates the allocator that all later generations go on using.
InitialRefCount == Len(Configs[1].outputs)

NewPackers(c) == [i \in DOMAIN c.outputs |-> NewMessagePacker(c.outputs[i].format)]

Objects(records) == {records[i][1] : i \in DOMAIN records}
InUse == Objects(parsed) \cup Objects(batch)
            \cup UNION {Objects(inputChannel[k]) : k \in DOMAIN inputChannel}
GarbageObjects == Obj \ (InUse \cup alloc.records)
GarbageBuffers == Buf \ (alloc.buffers \cup {alloc.backbuf[o] : o \in InUse})

\* What the message of a log says in a field, and in the metric keys of a configuration: a
\* key set is the sequence of their names and texts.
OwnText(f, log) ==
    IF f \in Configs[1].inputs /\ <<f, log>> \in DOMAIN TextOf THEN TextOf[<<f, log>>] ELSE <<>>
OwnKeySet(k, log) ==
    [i \in DOMAIN Configs[k].metricKeys |->
        <<Configs[k].metricKeys[i], OwnText(Configs[k].metricKeys[i], log)>>]
KeySets == {OwnKeySet(k, log) : k \in DOMAIN Configs, log \in Log}

\* retained: the custom counter of tdrop for a match let through.
ZeroCounts ==
    [pass |-> [k \in KeySets |-> 0], drop |-> [k \in KeySets |-> 0],
     retained |-> [k \in KeySets |-> 0],
     bytes |-> [n \in OutputNames |-> 0], chunks |-> [n \in OutputNames |-> 0]]

-----------------------------------------------------------------------------
\* Receiver: parser and LogParsingReceiver, then singletonOrchestratorChild.Accept.

\* syslogParser.Parse fills the fields at the positions found in the schema the inputs were
\* started with, the first one, whatever has been reloaded since.
ParsedFields(a, o, log) ==
    [i \in 1..MaxFields |->
        IF i \in DOMAIN Configs[1].fields /\ Configs[1].fields[i] \in Configs[1].inputs
        THEN <<Configs[1].fields[i], a.backbuf[o], IF a.backbuf[o] = 0 THEN log ELSE 0>>
        ELSE a.fields[o][i]]

\* A malformed message is released once, however many outputs there are.
Receive ==
    /\ received < NumLogs /\ Len(parsed) < MaxBatch /\ ~panicked
    /\ LET log == received + 1
           length == LengthOf[log]
           objects == alloc.records
                        \cup (IF GarbageObjects = {} THEN {} ELSE {Min(GarbageObjects)}) IN
       \E o \in objects :
       \E b \in IF length > MinToPool THEN BufferChoices(alloc, length, GarbageBuffers) ELSE {0} :
          LET a == NewRecord(alloc, log, length, o, b, InitialRefCount)
              filled == [a EXCEPT !.fields[o] = ParsedFields(a, o, log)] IN
          /\ received' = log
          /\ IF log \in Malformed
             THEN /\ alloc' = Release(a, o)
                  /\ parsed' = parsed
             ELSE /\ alloc' = filled
                  /\ parsed' = Append(parsed, <<o, log>>)
    /\ UNCHANGED <<inputChannel, inputClosed, workerVars, destroyed, clockVars, configVars, panicked>>

\* While the generations change hands, ReloadableOrchestrator keeps the receivers waiting.
Send ==
    /\ parsed # <<>> /\ ~inputClosed /\ Len(inputChannel) < ChannelCap /\ ~panicked
    /\ inputChannel' = Append(inputChannel, parsed)
    /\ parsed' = <<>>
    /\ UNCHANGED <<received, inputClosed, alloc, workerVars, destroyed, clockVars, configVars, panicked>>

\* The records of a send that timed out are gone, unreleased.
SendTimesOut ==
    /\ MayTimeOut /\ parsed # <<>> /\ ~inputClosed /\ Len(inputChannel) = ChannelCap /\ ~panicked
    /\ parsed' = <<>>
    /\ UNCHANGED <<received, inputChannel, inputClosed, alloc, workerVars, destroyed, clockVars,
                   configVars, panicked>>

-----------------------------------------------------------------------------
\* Worker: PipelineWorkerBase with the handlers of LogProcessingWorker.

OnInput ==
    /\ pc = "select" /\ inputChannel # <<>>
    /\ batch' = Head(inputChannel)
    /\ inputChannel' = Tail(inputChannel)
    /\ pc' = "transform"
    /\ UNCHANGED <<receiverVars, inputClosed, alloc, output, packers, dropVars, counterVars,
                   historyVars, destroyed, clockVars, configVars, panicked>>

Record == batch[1][1]
Field(name) == ReadField(alloc, Record, Locate(Conf.fields, name))

\* SelectMetricKeySet: the counters of the first key set that had the same merged key.
TextRead(v) == IF v \in DOMAIN TextOf THEN TextOf[v] ELSE <<>>
KeySetRead == [i \in DOMAIN Conf.metricKeys |-> <<Conf.metricKeys[i], TextRead(Field(Conf.metricKeys[i]))>>]

\* The texts are joined without a separator.
MergedKey(ks) == FlattenSeq([i \in DOMAIN ks |-> ks[i][2]])

SelectedKeySet ==
    LET merged == MergedKey(KeySetRead) IN
    IF merged \in DOMAIN keySets THEN keySets[merged] ELSE KeySetRead
SelectMetricKeySet ==
    keySets' = [m \in DOMAIN keySets \cup {MergedKey(KeySetRead)} |->
                  IF m \in DOMAIN keySets THEN keySets[m] ELSE KeySetRead]

\* dropTransform.Transform
DropMatches == Field("msg") \in {<<"msg", log>> : log \in Matching}
BelowRate == totalMatched > 0 /\ (100 * totalDropped) \div totalMatched < Rate
Drops == DropMatches /\ (Rate = 100 \/ BelowRate)

\* Variant: a record that is dropped is not counted as matched.
CountMatch_DropsApart ==
    IF DropMatches /\ Rate # 100
    THEN /\ totalMatched' = IF BelowRate THEN totalMatched ELSE totalMatched + 1
         /\ totalDropped' = IF BelowRate THEN totalDropped + 1 ELSE totalDropped
    ELSE UNCHANGED dropVars

CountMatch ==
    IF DropMatches /\ Rate # 100
    THEN /\ totalMatched' = totalMatched + 1
         /\ totalDropped' = IF BelowRate THEN totalDropped + 1 ELSE totalDropped
    ELSE UNCHANGED dropVars

NextRecord ==
    /\ batch' = Tail(batch)
    /\ pc' = IF Len(batch) = 1 THEN "select" ELSE "transform"

\* A dropped record is released once, however many outputs there are.
TransformDrops ==
    /\ pc = "transform" /\ Drops /\ ~panicked
    /\ CountMatch
    /\ SelectMetricKeySet
    /\ unwritten' = [unwritten EXCEPT !.drop[SelectedKeySet] = @ + 1]
    /\ panicked' = (alloc.ref[Record] < 1)
    /\ alloc' = Release(alloc, Record)
    /\ outcomes' = Append(outcomes, <<"drop", OwnKeySet(config, batch[1][2])>>)
    /\ NextRecord
    /\ UNCHANGED <<receiverVars, inputChannel, inputClosed, output, packers, written, passed, accepted,
                   destroyed, clockVars, configVars>>

TransformPasses ==
    /\ pc = "transform" /\ ~Drops
    /\ CountMatch
    /\ SelectMetricKeySet
    /\ unwritten' = [unwritten EXCEPT !.pass[SelectedKeySet] = @ + 1,
                                      !.retained[SelectedKeySet] = IF DropMatches THEN @ + 1 ELSE @]
    /\ outcomes' = Append(outcomes, <<IF DropMatches THEN "retain" ELSE "pass", OwnKeySet(config, batch[1][2])>>)
    /\ passed' = [n \in OutputNames |->
                    IF IsOutput(n) THEN Append(passed[n], batch[1][2]) ELSE passed[n]]
    /\ pc' = "output" /\ output' = 1
    /\ UNCHANGED <<receiverVars, inputChannel, inputClosed, alloc, batch, packers, written,
                   accepted, destroyed, clockVars, configVars, panicked>>

\* LogSerializer.SerializeRecord: the fields that are set, by their names in this schema.
\* The stream of an event that is refused is empty.
StreamRefused == batch[1][2] \in Refused[NameOf(output)]
Stream ==
    [id |-> batch[1][2], len |-> IF StreamRefused THEN 0 ELSE LengthOf[batch[1][2]], mark |-> "",
     fields |-> IF StreamRefused THEN {}
                ELSE {<<f, Field(f)>> : f \in {g \in ToSet(Conf.fields) : Field(g)[1] # ""}}]

\* bufferer.Accept for what an output has made, and CountChunk.
AcceptChunks(i, chunks) ==
    accepted' = [accepted EXCEPT ![NameOf(i)] = @ \o chunks]

\* The record is released for this output before its stream is packed: the stream is a copy.
OutputRecord ==
    /\ pc = "output" /\ ~panicked
    /\ \E result \in {WriteStream(packers[output], Stream, now)}, name \in {NameOf(output)} :
       /\ packers' = [packers EXCEPT ![output] = result.packer]
       /\ AcceptChunks(output, result.chunks)
       /\ unwritten' = [unwritten EXCEPT !.bytes[name] = @ + Stream.len,
                                         !.chunks[name] = @ + Len(result.chunks)]
    /\ panicked' = (alloc.ref[Record] < 1)
    /\ alloc' = Release(alloc, Record)
    /\ IF output < Len(Conf.outputs)
       THEN output' = output + 1 /\ UNCHANGED <<pc, batch>>
       ELSE output' = 0 /\ NextRecord
    /\ UNCHANGED <<receiverVars, inputChannel, inputClosed, dropVars, keySets, written, passed, outcomes,
                   destroyed, clockVars, configVars>>

\* flushChunk, then UpdateMetrics
Flushed(i) == FlushBuffer(packers[i])
ChunksFor(n) == IF IsOutput(n) THEN Flushed(IndexOf(n)).chunks ELSE <<>>

AddCounts(a, b) ==
    [c \in DOMAIN a |-> [x \in DOMAIN a[c] |-> a[c][x] + b[c][x]]]

\* Variant: the counts written are not reset.
FlushChunks_KeepsCounts ==
    /\ packers' = [i \in Outputs |-> Flushed(i).packer]
    /\ accepted' = [n \in OutputNames |-> accepted[n] \o ChunksFor(n)]
    /\ LET counted == [unwritten EXCEPT !.chunks = [n \in OutputNames |-> @[n] + Len(ChunksFor(n))]] IN
       /\ written' = AddCounts(written, counted)
       /\ unwritten' = counted
    /\ UNCHANGED keySets

FlushChunks ==
    /\ packers' = [i \in Outputs |-> Flushed(i).packer]
    /\ accepted' = [n \in OutputNames |-> accepted[n] \o ChunksFor(n)]
    /\ LET counted == [unwritten EXCEPT !.chunks = [n \in OutputNames |-> @[n] + Len(ChunksFor(n))]] IN
       /\ written' = AddCounts(written, counted)
       /\ unwritten' = ZeroCounts
    /\ UNCHANGED keySets

\* The first tick comes a flush interval after the start, or later.  lastChunkTime is never
\* moved, so that every tick flushes; time.Since does not go by the host's clock.
OnTick ==
    /\ pc = "select" /\ flushDue
    /\ FlushChunks
    /\ UNCHANGED <<receiverVars, inputChannel, inputClosed, alloc, pc, batch, output, dropVars, passed,
                   outcomes, destroyed, clockVars, configVars, panicked>>

\* Variants: the worker stops without flushing; it does not notice the closed channel.
OnStop_NoFlush ==
    /\ pc = "select" /\ inputClosed /\ inputChannel = <<>>
    /\ pc' = "stopped"
    /\ UNCHANGED <<receiverVars, inputChannel, inputClosed, alloc, batch, output, packers, dropVars,
                   counterVars, historyVars, destroyed, clockVars, configVars, panicked>>
OnStop_NeverEnds == FALSE /\ OnStop_NoFlush

\* The channel is closed and empty: onTick, onStop, and the stop signal.
OnStop ==
    /\ pc = "select" /\ inputClosed /\ inputChannel = <<>>
    /\ FlushChunks
    /\ pc' = "stopped"
    /\ UNCHANGED <<receiverVars, inputChannel, inputClosed, alloc, batch, output, dropVars, passed,
                   outcomes, destroyed, clockVars, configVars, panicked>>

\* The bufferers are destroyed one by one once the worker has stopped, then onStopped is called.
DestroyBufferer ==
    /\ pc = "stopped"
    /\ IF destroyed < Len(Conf.outputs)
       THEN destroyed' = destroyed + 1 /\ UNCHANGED pc
       ELSE pc' = "ended" /\ UNCHANGED destroyed
    /\ UNCHANGED <<receiverVars, inputChannel, inputClosed, alloc, batch, output, packers, dropVars,
                   counterVars, historyVars, clockVars, configVars, panicked>>

-----------------------------------------------------------------------------
\* Main goroutine and the clock.

\* initiateDownstreamReload finds the new file in order: the old orchestrator is shut down.
BeginReload ==
    /\ ~inputClosed /\ numReload < MaxReloads
    /\ \E k \in DOMAIN Configs :
          /\ k # config /\ MayReload(Conf, Configs[k])
          /\ loading' = k
    /\ inputClosed' = TRUE
    /\ UNCHANGED <<receiverVars, inputChannel, alloc, workerVars, destroyed, clockVars, config,
                   numReload, panicked>>

\* The function returned by initiateDownstreamReload: the new loader takes over the old
\* allocator, and everything else is new, the registry of the metrics too.  It takes longer
\* than the clock's resolution.
CompleteReload ==
    /\ pc = "ended" /\ loading # 0
    /\ config' = loading /\ loading' = 0 /\ numReload' = numReload + 1
    /\ packers' = NewPackers(Configs[loading])
    /\ pc' = "select" /\ inputClosed' = FALSE /\ destroyed' = 0
    /\ totalMatched' = 0 /\ totalDropped' = 0
    /\ keySets' = <<>>
    /\ now' = now + 1 /\ flushDue' = FALSE
    /\ UNCHANGED <<receiverVars, inputChannel, alloc, batch, output, unwritten, written, historyVars,
                   setBack, panicked>>

\* The shutdown of the agent comes after its inputs have ended.
Shutdown ==
    /\ ~inputClosed /\ received = NumLogs /\ parsed = <<>>
    /\ inputClosed' = TRUE
    /\ UNCHANGED <<receiverVars, inputChannel, alloc, workerVars, destroyed, clockVars, configVars, panicked>>

\* Time passes, a flush interval at least, or the clock of the host is set back.
ClockTicks ==
    /\ \E t \in 1..MaxTime :
          /\ t > now \/ (t < now /\ ClockMayGoBack)
          /\ now' = t
          /\ setBack' = (setBack \/ t < now)
          /\ flushDue' = (flushDue \/ t > now)
    /\ UNCHANGED <<receiverVars, inputChannel, inputClosed, alloc, workerVars, destroyed, configVars,
                   panicked>>

-----------------------------------------------------------------------------
Init ==
    /\ received = 0 /\ parsed = <<>> /\ inputChannel = <<>> /\ inputClosed = FALSE
    /\ alloc = EmptyPool
    /\ pc = "select" /\ batch = <<>> /\ output = 0
    /\ packers = NewPackers(Configs[1]) /\ destroyed = 0
    /\ now = 1 /\ setBack = FALSE /\ flushDue = FALSE
    /\ config = 1 /\ loading = 0 /\ numReload = 0
    /\ totalMatched = 0 /\ totalDropped = 0
    /\ keySets = <<>> /\ unwritten = ZeroCounts /\ written = ZeroCounts
    /\ passed = [n \in OutputNames |-> <<>>] /\ outcomes = <<>>
    /\ accepted = [n \in OutputNames |-> <<>>]
    /\ panicked = FALSE

Worker == OnInput \/ TransformDrops \/ TransformPasses \/ OutputRecord \/ OnStop \/ DestroyBufferer

\* The whole agent has stopped.
Done == pc = "ended" /\ loading = 0 /\ UNCHANGED vars

Next == Receive \/ Send \/ SendTimesOut \/ Worker \/ OnTick \/ BeginReload \/ CompleteReload
           \/ Shutdown \/ ClockTicks \/ Done

Spec == Init /\ [][Next]_vars

\* Of the worker, the ticker and the main goroutine, one that can do something does it.
\* Nothing forces messages, reloads or the shutdown to come.
FairSpec == Spec /\ WF_vars(Worker \/ OnTick \/ CompleteReload)

-----------------------------------------------------------------------------
IsRecord(r) == r \in Obj \X Log

\* Type invariant; batches and channels keep to their limits.
TypeOK ==
    /\ received \in 0..NumLogs
    /\ \A i \in DOMAIN parsed : IsRecord(parsed[i])
    /\ Len(parsed) <= MaxBatch /\ Len(inputChannel) <= ChannelCap
    /\ pc \in {"select", "transform", "output", "stopped", "ended"}
    /\ pc \in {"transform", "output"} <=> batch # <<>>
    /\ \A i \in DOMAIN batch : IsRecord(batch[i])
    /\ output \in (IF pc = "output" THEN Outputs ELSE {0})
    /\ DOMAIN packers = Outputs /\ destroyed \in 0..Len(Conf.outputs)
    /\ config \in DOMAIN Configs /\ loading \in DOMAIN Configs \cup {0}
    /\ numReload \in 0..MaxReloads
    /\ totalMatched \in Nat /\ totalDropped \in 0..totalMatched
    /\ alloc.ref \in [Obj -> -1..InitialRefCount]
    /\ alloc.records \subseteq Obj /\ alloc.buffers \subseteq Buf

LogsIn(tokens) == LET s == StreamsOf(tokens) IN [i \in DOMAIN s |-> s[i].id]
LogsAccepted(n) == FlattenSeq([k \in DOMAIN accepted[n] |-> LogsIn(accepted[n][k].data)])
LogsPacked(n) == IF IsOutput(n) THEN LogsIn(packers[IndexOf(n)].written) ELSE <<>>

\* The record in hand has passed the transforms and is still to be serialized for the output.
InHand(n) == pc = "output" /\ IsOutput(n) /\ IndexOf(n) >= output

\* Each output gets every record that passed the transforms, once and in order, through
\* chunks of any number of streams, ticks, reloads and the final flush; nothing stays in a
\* packer whose bufferer is being destroyed.
EveryOutputGetsEveryRecord ==
    /\ \A n \in OutputNames :
          passed[n] = LogsAccepted(n) \o LogsPacked(n)
                         \o (IF InHand(n) THEN <<batch[1][2]>> ELSE <<>>)
    /\ pc \in {"stopped", "ended"} => \A i \in Outputs : packers[i].written = <<>>

\* What an output is to show of a log: nothing if it refuses the event.
ExpectedFields(n, log) ==
    IF log \in Refused[n] THEN {} ELSE {<<f, <<f, log>>>> : f \in Configs[1].inputs}

\* What is written for a log is what its own message said, under the right names: no field of
\* another log through a record or a buffer recycled too early or not cleared, and none under
\* another name because a reloaded schema has moved it.
StreamsShowTheirOwnLog ==
    \A n \in OutputNames : \A k \in DOMAIN accepted[n] :
       LET s == StreamsOf(accepted[n][k].data) IN
       \A i \in DOMAIN s : s[i].fields = ExpectedFields(n, s[i].id)

\* All: the outputs get the records there are, and what each of them says.
OutputsGetWhatWasLogged == TypeOK /\ EveryOutputGetsEveryRecord /\ StreamsShowTheirOwnLog

\* Every chunk is whole and within the limits, and says how many records were written to it.
ChunksAreWhole ==
    \A n \in OutputNames : \A k \in DOMAIN accepted[n] :
       \E c \in DOMAIN Configs : \E i \in DOMAIN Configs[c].outputs :
          /\ Configs[c].outputs[i].name = n
          /\ WellFormedChunk(accepted[n][k], Configs[c].outputs[i].format)

\* Its ID is greater than those before it, of the generation before too, which is what makes
\* it unique and keeps files in order, as long as the host's clock has not been set back.
IDsAscend ==
    ~setBack =>
        \A n \in OutputNames : \A k \in DOMAIN accepted[n] : \A j \in 1..(k - 1) :
            Before(accepted[n][j].id, accepted[n][k].id)

\* Both, for the chunks handed to the bufferers.
ChunksAreSound == ChunksAreWhole /\ IDsAscend

\* base/logchunk.go: an ID is unique, the name of a file in the queue directory of its output.
ChunkIDsAreUnique ==
    \A n \in OutputNames : \A k \in DOMAIN accepted[n] : \A j \in 1..(k - 1) :
        accepted[n][j].id # accepted[n][k].id

\* fluentdforward/chunkencoder.go: the number of records a chunk is sent with is the number of
\* its msgpack objects.
SizeCountsEvents ==
    \A n \in OutputNames : \A k \in DOMAIN accepted[n] :
        accepted[n][k].size = Len(EventsOf(accepted[n][k].data))

\* logger.Panic of LogAllocator.Release is never reached: no record is released more often
\* than it has been counted for.
NeverPanics == ~panicked

\* Records are released just as often as they are counted for, what is in the pools is in
\* nobody's hands and empty, no buffer serves two records, and every buffer is long enough
\* for the log in it.
PoolIsSound ==
    /\ NeverPanics
    /\ alloc.records \cap InUse = {}
    /\ \A o \in alloc.records : alloc.ref[o] = 0 /\ alloc.fields[o] = NoFields /\ alloc.backbuf[o] = 0
    /\ \A o \in InUse : alloc.ref[o] > 0 /\ alloc.backbuf[o] \notin alloc.buffers
    /\ \A o, p \in InUse : o # p /\ alloc.backbuf[o] # 0 => alloc.backbuf[o] # alloc.backbuf[p]
    /\ \A o \in InUse : alloc.backbuf[o] # 0 =>
          LengthOf[alloc.content[alloc.backbuf[o]]] <= alloc.size[alloc.backbuf[o]]

\* The drop transform keeps to its rate after any number of records: the records it has
\* dropped are never more than one record away from Rate percent of those it matched.
DropRateKept ==
    LET excess == 100 * totalDropped - Rate * totalMatched IN
    Rate < 100 => -Rate <= excess /\ excess < 100 - Rate

CountOf(kinds, ks) == Cardinality({i \in DOMAIN outcomes : outcomes[i] \in kinds \X {ks}})
EventLength(n, log) == IF log \in Refused[n] THEN 0 ELSE LengthOf[log]
TotalLength(n) == Total([i \in DOMAIN passed[n] |-> EventLength(n, passed[n][i])])

KeysOf(ks) == [i \in DOMAIN ks |-> ks[i][1]]

\* No other key set of the same keys has the same texts when they are joined.
Unambiguous(ks) == \A other \in KeySets :
    KeysOf(other) = KeysOf(ks) /\ MergedKey(other) = MergedKey(ks) => other = ks

CountedAsOwn(ks) ==
    /\ written.pass[ks] = CountOf({"pass", "retain"}, ks)
    /\ written.drop[ks] = CountOf({"drop"}, ks)
    /\ written.retained[ks] = CountOf({"retain"}, ks)

\* When a worker has stopped, the metrics have counted each byte and chunk once, and each
\* record once under the key set its own message had, unless that reads like another one.
MetricsExact ==
    pc \in {"stopped", "ended"} =>
        /\ unwritten = ZeroCounts
        /\ \A ks \in KeySets : Unambiguous(ks) => CountedAsOwn(ks)
        /\ \A n \in OutputNames : /\ written.bytes[n] = TotalLength(n)
                                  /\ written.chunks[n] = Len(accepted[n])

\* LogProcessCounterSet.SelectMetricKeySet: counts are written to the correct key set, which
\* is that of the record, whatever the other key sets are.
CountsAreUnderTheirKeySet ==
    pc \in {"stopped", "ended"} => \A ks \in KeySets : CountedAsOwn(ks)

\* A pipeline whose input is closed ends, and a reload goes through.
PipelineEnds == (inputClosed /\ ~panicked) ~> (pc = "ended" \/ ~inputClosed)

\* Packed records do not wait for a chunk to fill up: the ticks send them on.
PackedIsSentOn ==
    (packers[1].current # NoChunk /\ flushDue /\ ~panicked) ~> packers[1].current = NoChunk

\* Both, under fair goroutines and a ticker that goes on firing.
PipelineProgresses == PipelineEnds /\ PackedIsSentOn
=============================================================================
