# slog-agent: specification and verification

slog-agent receives syslog records over TCP, transforms them, packs them into chunks and
forwards the chunks upstream (Fluentd forward protocol, or Datadog), with a hybrid buffer of
memory and disk in between. This directory holds TLA+ modules translated from its Go source,
the TLC configurations that check them on small instances, and proofs checked by TLAPS.

A definition in a module names the code it stands for in its comment, and `PROJECT.json` (`map`)
gives the file and the lines. Definitions named `<operation>_<what>` are variants: a plausible
bug in that operation. Replacing the operation by its variant must break a property
(`PROJECT.json`, `mutants`), which shows that the property depends on the code.

- [What is here](#what-is-here)
- [Components of the system](#components-of-the-system)
- [The modules and the code](#the-modules-and-the-code)
- [The runs](#the-runs)
- [Disagreements with the documentation](#disagreements-with-the-documentation)
- [The proofs](#the-proofs)
- [Not modelled, and what is left](#not-modelled-and-what-is-left)

## What is here

| File | What it is |
| --- | --- |
| `ChunkConsumer.tla` | Abstract specification of `base.ChunkConsumerArgs`: what a buffer and the consumer of its chunks promise each other |
| `HybridBuffer.tla` | `buffer/hybridbuffer`: accept, unload, load, feed, leftovers, destroy, crash and restart |
| `ForwardClient.tla` | `output/baseoutput`: client worker, sessions, acknowledger; implements `ChunkConsumer` |
| `ReloadableOrchestrator.tla` | `run/reloadable.go` with the TCP connections in front and the orchestrators behind: SIGHUP and the end of the agent |
| `KeySetOrchestrator.tla` | `orchestrate/obykeyset` and `util/localcachedmap`: distribution of records to pipelines by key set |
| `Pipeline.tla` | One pipeline from parsed records to chunks, and its replacement by a reload; composes the next three |
| `RecordPool.tla` | `base/logallocator.go`, `util/bytespoolby2n.go`: records counted by references, pooled buffers |
| `ChunkMaker.tla` | `output/shared`, chunks of both formats, chunk IDs |
| `ConfigReload.tla` | The checks of a configuration, and which one may replace the running one |
| `SyslogInput.tla` | One connection: reading, deadlines, flushing, counting; composes the next two |
| `MultiLineReader.tla` | Splitting of a byte stream into records of several lines |
| `SyslogParser.tla` | The text of a record to its fields |
| `LogTransforms.tla` | All transforms over fields that share memory, and both serializations behind them |
| `EventSerializer.tla` | Fluentd and Datadog events, rewriters, msgpack headers |
| `TextFunctions.tla` | Pure functions on texts: UTF-8 cleaning, truncation, unescaping, extraction of tags, e-mail addresses, templates, matches |
| `HybridBufferProofs.tla`, `HybridBufferChunkProofs.tla` | Types, files and shutdown of `HybridBuffer`; then where its chunks are, their order, what becomes of them, and the gauges |
| `ForwardClientProofs.tla`, `ReloadableOrchestratorProofs.tla`, `KeySetOrchestratorProofs.tla`, `PipelineProofs.tla`, `SyslogInputProofs.tla` | Inductive invariants and theorems about the modules of these names |
| `SequenceFacts.tla` | Lemmas on joining and cutting sequences, which the proofs about order share; induction; folds |
| `MC*.tla`, `*.cfg` | Values of the constants, and one configuration per run |

Run TLC with `tlc -workers 2 -config <run>.cfg <MC module>.tla`, the prover with
`tlapm <module>.tla` (about eight minutes for `PipelineProofs` and for `SyslogInputProofs`, five each for
`HybridBufferChunkProofs` and `KeySetOrchestratorProofs`, one to three for each of the others, on an idle machine with two threads; leaves that
time out on a busy machine pass when tried again).

## Components of the system

Records flow from the top of this table to its bottom. The goroutines are: one accept loop per
input; two per TCP connection (reader and closer); one worker per pipeline; per output of a
pipeline one feeder, one client and, per session, one acknowledger; one reload goroutine; and main.

| Component | State it keeps | Operations | Talks to |
| --- | --- | --- | --- |
| TCP listener (`input/tcplistener`) | socket, count of tasks, stop request; per connection the descriptor, its number | accept, reject, read, flush on short timeout, close | parsing receiver (calls), main (stop request, `Stopped`) |
| Multi-line reader | bytes read and not yet split, overflow flag | Read, Flush, FlushAll | parsing receiver (callback) |
| Syslog input and parser | schema, field locators | Parse | record allocator |
| Parsing receiver (`bsupport/logparsingreceiver.go`) | records parsed and not yet sent, their size | Accept, Flush, Close | reloadable sink |
| Reloadable orchestrator (`run/reloadable.go`, `reloader.go`) | current downstream orchestrator, one sink per client number, read-write lock | NewSink, Accept, Tick, Close, reload, Shutdown | downstream orchestrators (calls), SIGHUP |
| Key-set orchestrator (`orchestrate/obykeyset`, `util/localcachedmap`) | global map key set -> pipeline channel under a mutex; per connection a local cache with pending records | Accept, Tick, Close, getOrCreate, Destroy | pipelines (channels) |
| Singleton orchestrator | one pipeline | as above | pipeline |
| Pipelines and workers (`orchestrate/obase`, `bsupport`) | transforms, chunk makers, last flush time | onInput, onTick, stop | chunk makers, bufferers |
| Transforms, rewriters, matching, templates | none between records, but for counters | one function per step | record |
| Record allocator (`base/logallocator.go`) | pools of records and of backing buffers; per record a reference count | NewRecord, Release | parser, workers |
| Serialization (`fluentdforward`, `datadog`, `fastmsgpack`) | none | encode | chunk maker |
| Chunk makers (`output/shared`) | stream being packed, its size, last ID | WriteStream, FlushBuffer, new chunk ID | bufferer |
| Hybrid buffer (`buffer/hybridbuffer`) | two channels, queue directory, gauges used for decisions, stop signals | Accept, Destroy, feed, load, unload, drop, consumed, leftover, recover | consumer (`ChunkConsumerArgs`), disk |
| Queue directories (`queuedirs.go`) | root directory | naming, listing of IDs to recover | orchestrator at start |
| Output client (`output/baseoutput`) | session, leftovers, last chunk, channel to the acknowledger, pending chunks by ID | open, send, acknowledge, reconnect, stop | buffer (channel and callbacks), upstream |
| Fluentd connection / Datadog connection | one network connection or HTTP client | SendChunk, SendPing, ReadChunkAck, Close | upstream |
| Agent start and stop (`run/run.go`, `loader.go`) | inputs, orchestrator | start, wait for a signal, stop inputs, stop orchestrator | all |
| Metrics, command line, configuration, test support | counters; settings | | |

What is hard about them, and what makes each correct:

- **Hybrid buffer.** Three kinds of goroutines share two channels, a directory and gauges that
  decide things; any system call may fail, and the process may die anywhere. Correct when every chunk
  ends up consumed, counted as dropped or on disk; when order is kept through memory, disk and
  restart; when the gauges that steer unloading and shutdown are exact; when shutdown always ends and
  leaves nothing in memory.
- **Output client.** Client goroutine, acknowledger and stop callback interrupt each other over one
  connection that may fail at any point. Correct when a chunk is reported once, as consumed only
  if upstream has it, is never in two places, is resent in order, and when stopping always ends.
- **Reloadable orchestrator and TCP connections.** Slots indexed by file descriptor are shared
  by connections and reload; the lock does not cover everything. Correct when no record is lost,
  repeated or reordered by a reload, when no sink of an old orchestrator stays in use, when the
  old pipelines end before the new ones open the same queue directories, and when the exit leaves
  nothing behind.
- **Key-set orchestrator.** The map's keys are joined without separator, objects may be created
  after Destroy, flushes time out and drop. Correct when records of one key set reach one
  pipeline in order, and no other's.
- **Pipelines.** Start and stop order, ticks against inputs. Correct when everything accepted before the
  channel is closed is in a chunk when the worker ends.
- **Chunk makers.** Size limits, failing finalization, IDs under clock changes. Correct when each
  stream is in one chunk, and IDs are unique and increasing.
- **Record allocator.** Reference counts over several outputs, drops and reloads. Correct when a
  record is recycled once, after its last use.
- **Multi-line reader and parser.** Record boundaries against read boundaries, a buffer with offsets
  that overflows, flushes that come at any byte, two length limits. Correct when the records are those that the
  lines and flushes make, when each says what its text says, and when none waits for a client that
  never pauses.
- **Transforms and serialization.** Go strings that share memory are overwritten in place; positions
  are searched from both ends; lengths are reserved before the contents are written. Correct when a
  transform changes the field it names and nothing else, when tags, addresses and characters are
  cut where their definitions say, and when an event carries each field once, or is refused whole.
- **Configuration reload.** The new configuration runs with records, locators and reference counts made
  for the old one. Correct when every record reaches every output with the text of its own fields.

`PROJECT.json` (`hazards`) lists the single places where these things bite, each with its line and the
properties that cover it.

## The modules and the code

### ChunkConsumer

The contract written in the comments of `base/chunkconsumer.go`, as a specification of its own: the
buffer sends chunk IDs in ascending order, closes the channel, signals `InputClosed`, and may then take
back what is still in the channel; the consumer reports each chunk it received once, as consumed or,
after the close, as leftover, and finishes with none left. Two relaxations are needed for the code as it is. They are constants, so that the contract can be stated without them:

- `MayReadLate`: the comment says that the consumer shall "never attempt to read any leftover chunk from InputChannel
  once it's closed" (`chunkconsumer.go:21-22`). A session in its normal stage has no case for `InputClosed` in its
  `select` and goes on reading (`clientsession.go:140`). `NeverReadsLate`, the refinement without this
  relaxation, does not hold.
- `MayAbandon`: when an acknowledger hangs in a callback longer than `IntermediateChannelTimeout`, the session
  gives up its chunks (`abandoned`); the stuck callback may still go through.

The two sides are checked separately. `HybridBuffer` contains the consumer only as this contract
allows it (a set of held chunks; receive, consumed, leftover, finish in any order the contract permits) and
`KeepsConsumerContract` says that buffer and consumer together make steps of the contract;
`ForwardClient` contains the buffer as this contract allows it, and `ImplementsChunkConsumer` says that the
real client implements the contract.

### HybridBuffer

| Code | Actions |
| --- | --- |
| `newBufferer`, `Start`, `recoverExistingChunks` | `Start` |
| `bufferer.Accept` | `AcceptBegin` (decision by the output queue's length, space check), `AcceptWrite` (file), `AcceptSend` (queue or drop) |
| `bufferer.Destroy` | `DestroyBegin`, `WaitPendingChunks`, `DestroyClose`, `DestroySignal`, `DestroyEnd` |
| `outputFeeder.Run`, `loadToOutput` | `FeederReceive`, `FeederLoad`, `FeederPush`, `FeederAbort` (input closed while waiting), `FeederInputEnded` |
| end of `Run`, `saveEverything` | `FeederCloseOutput`, `FeederSignalOutput`, `FeederSave`, `FeederSaveWrite`, `FeederStop` |
| callbacks of the consumer | `OnChunkConsumed`, `OnChunkLeftover` and `LeftoverWrite`, `ConsumerFinish`, with `ConsumerReceive`, `ConsumerLeave` |
| end of the process | `Exit`; `Crash`, which keeps files and forgets memory |

A step ends where another goroutine can see or change what the code uses next: the space check
and the write of a file are two steps, and so are closing a channel and signaling. The change of a gauge
next to a channel operation belongs to the step of that operation.

Data: the content of a chunk or a file is nothing, empty, a part, or everything, which is what
`LoadChunk`, `OnChunkRecovered` and a short `write` can tell apart; a full chunk counts two bytes,
a part one. `Faults` selects the system calls that may fail, `unix.Write` may be short
(`util/files.go` ignores the count), a failed write may leave an empty file, and a crash leaves files in
writing with any content. The fault
`timeout` lets `Destroy` give up waiting for pending chunks. Its later wait for the feeder, when it times
out, only logs: the process then ends with the feeder at work, which `Crash` covers.

History variables (`consumed`, `dropped`, `lost`, `leftover`, `shelved`, `undeleted`, `undeletedEver`, `lastReceived`,
`uncountedBytes`) only record what happened; no guard reads them. Three of them say what a restart may bring back, and what it
does not know:

- Order is a matter of one run: the consumer of a run gets its chunks in the order of their IDs, each behind the last one received
  (`lastReceived`). Chunks of an earlier run that were left over come again in the next one, before the new ones.
- A chunk whose consumption was reported comes back only if its file could not be deleted then (`undeletedEver`): in the next run
  it is recovered and delivered a second time.
- The space check looks at the gauge `persistent_chunk_bytes`, which starts without the files that were not listed, not
  queued, or whose `stat` failed (`uncountedBytes`). `SpaceOvershootBounded` is about the bytes of the files in the directory:
  they exceed the limit by at most one chunk and these.

### ForwardClient

| Code | Actions |
| --- | --- |
| `ClientWorker.run`, `runSession`, opening of a connection | `OpenConn`, `OpenConnFails`, `OpenConnStopped`, `StartSession`, `RetryWaitOver` |
| `clientSession.Run`, resending and normal loop | `ResendNext`, `ResendDone`, `ResendStopped`, `InputReceive`, `InputEnded`, `InputReconnect`, `PingFails` |
| `sendChunk` | `SendChunk`, `SendChunkFails`, `QueueForAck`, `QueueStopped` |
| end of a session, `collectLeftovers` | `CloseAckerChan`, `SoftWaitOver`, `AbortAcker`, `GatherLeftovers`, `GatherWithoutAcker` |
| `runAcknowledger` | `AckerReceive`, `ReadAck`, `ReadUnknownAck`, `ReadAckFails`, `ReportAcked`, `ReportAckedLate`, `AckerStops` |
| the callback on `inputClosed` | `StopCallback` |
| end of the worker | `ReportLeftover`, `FinishClient` |

The environment is the buffer (`BufferSend`, `BufferClose`, `BufferSignal`, `BufferTakeBack`) and
upstream (`UpstreamStore`, `UpstreamAck`, `UpstreamWrongAck`). A connection is `"ordered"` (Fluentd,
answers in order), `"unordered"` (Fluentd, answers in any order, for unknown chunks, and without an ID) or `"blank"` (Datadog:
synchronous, acknowledgement without ID, closing does nothing); all sessions of one behaviour are
of the same kind. Each failure or forced reconnection uses one of `MaxEvents`. Handshake, encoding,
deadlines as numbers and the retries inside the HTTP client are left out. An acknowledger can only
hang (`MayHang`) inside `onChunkAcked`, the one call of its loop that no closed connection interrupts.

`ReadChunkAck` of the Fluentd connection hands on whatever ID an answer has, and an answer without one counts for
the chunk that the acknowledger waits for (`clientsession.go:348`), whichever chunk upstream meant. The history variable `unnamed` has
the chunks for which that happened on an unordered connection: `ConsumedIsStored` excepts them, `OnlyStoredIsConsumed` does not, and
is no property of the code.

### ReloadableOrchestrator

| Code | Actions |
| --- | --- |
| `tcpLineListener.run` | `AcceptConn`, `ListenerEnds` |
| `runConnection` with the parsing sink | `NewSink`, `StoreSink`, `ReadRecord`, `ReadTimeout`, `ReadFails`, `SendBuffer`, `TickSink`, `CloseSink` |
| `launchConnectionCloser` | `CloseConn` |
| signal goroutine and `reload` | `SigHup`, `ReloadBegin`, `ReloadFails`, `ReloadLock`, `ReloadCloseSinks`, `ReloadShutdown`, `ReloadComplete`, `ReloadRenewSinks` |
| `run.Run` | `StopRequest`, `MainShutdown`, `MainExit` |
| workers of a generation | `PipelineStops` |

Every reload makes a new generation of the downstream orchestrator, reduced to one pipeline: `absent`,
`none` (no key set seen), `up`, `closed`, `stopped`. Sending to, or closing, a closed channel
sets `panicked`. A step under `downstreamMutex` is one action; `NewSink` is two, because it calls
the downstream orchestrator before it takes the lock. A client number is any free file descriptor.
When the local buffer of a sink is flushed depends on counts and bytes: any number of the records may
go out at an `Accept`. Records dropped by a flush that times out after `IntermediateChannelTimeout`, and
the memory model of the unlocked accesses (`downstream` in `NewSink` and `Shutdown`), are left out: a read
gives the old or the new value.

`Assumed` names what is taken for granted about timing:

- `noConnectInReload`: no connection is between the two halves of `NewSink` during a reload;
- `uniqueNumbers`: the system does not hand out a descriptor again before the sink of its previous
  connection is closed (`reloadable.go:75` assumes it; the closer goroutine may free the descriptor earlier);
- `noReloadAtStop`: no SIGHUP is being handled when the agent is told to stop.

The passing run assumes all three; `reload_connect` shows what happens without the first one.

### KeySetOrchestrator

| Code | Actions |
| --- | --- |
| `NewOrchestrator`, over the IDs that `ListBufferIDs` found | `RecoverPipeline`, `IgnoreMalformed`, `Started` |
| `NewSink`, `Accept` with `LocalCachedMap.GetOrCreate` | `NewSink`, `Accept`, `AcceptRecord` (look up locally or, under the mutex, globally; append; flush when full), `AcceptReturns` |
| `channelInputBuffer.Flush` | `FlushCache` empties the cache, then `FlushSend` or `FlushTimeOut` |
| `Tick`, `Close`, `Walk` | `Tick`, `Close`, `WalkCache`, `WalkReturns` |
| pipeline worker, with all that follows | `WorkerReceive`, `WorkerStop` |
| `Destroy` | `DestroyClose` (under the mutex), `DestroyWait` |
| the next orchestrator, after a reload or in a new process | `Restart`; `Crash` |

A key is a sequence of characters, because the code concatenates keys to find a pipeline (`MergedKey`),
joins them with commas to name its queue directory (`WorkerID`) and splits that name at commas to recover
it (`SplitID`): what these three do to keys is what the properties are about. Copying of keys out of the
network buffer is left out. Buffers are flushed by number, by bytes or by
age: by number the bound is `BufferCap`, and by the other two a flush may happen at any time. A flush may time out
only while the channel is full (`MayTimeOut`). Chunks and buffers behind a worker are reduced to
one question, whether its directory holds anything when it stops or is killed.

`DestroyClose` waits until all sinks are closed. `Destroy` itself does not check that; its callers see to it,
and that they do is a property of `ReloadableOrchestrator` (`SinksAreCurrent`, `NeverPanics`).

### Pipeline, with RecordPool, ChunkMaker and ConfigReload

| Code | Definitions |
| --- | --- |
| `LogParsingReceiver.Accept`, singleton `Accept` with its timeout | `Receive`, `Send`, `SendTimesOut` |
| `LogAllocator.NewRecord`, `Release`, the pool of buffers | `NewRecord`, `Release`, `RecycleRecord`; `GarbageObjects`, `GarbageBuffers` for what nothing refers to |
| worker loop, `onInput` | `OnInput`, `TransformDrops`, `TransformPasses`, `OutputRecord` (serialize, pack, count, release, for one output at a time) |
| `tdrop` | `DropMatches`, `BelowRate`, `CountMatch` |
| `messagePacker`, chunk factory, `CanAppendData`, `chunkIDGenerator` | `WriteStream`, `FlushBuffer`, `NewChunk`, `GenerateID` |
| `onTick`, `flushChunk`, `UpdateMetrics` | `OnTick`, `FlushChunks`, `AddCounts` |
| end of the worker, `PrepareSequentialPipeline` | `OnStop`, `DestroyBufferer` |
| `initiateDownstreamReload` with `checkConfigCompatibility` | `BeginReload` (`MayReload`), `CompleteReload` |
| `Shutdown` | `Shutdown` |

What a log says is a few constants: its length, whether it parses, whether the drop transform matches it, the texts of its fields as far
as metric keys are made of them (`TextOf`), and which outputs refuse its event because it is too long (`Refused`). The stream of a refused event is
empty and is packed and counted like any other (`eventserializer.go:200-204`, `chunk.go:54-57`); the Datadog serializer has no limit
(`RefusalAssumption`). `SelectMetricKeySet` finds the counters of a record by the texts of its metric keys, joined without separator, and
makes new ones, with the labels of the first record, when there are none.
A parsed record has its fields at the places that the schema of its time gave them, and a serializer
reads them with the locators of its own: the two differ after a reload, which is why a field value
remembers the name it was stored under. The allocator holds references, buffers and their contents, so
that a record released too early shows as another record's text in an output. The bufferers take every
chunk: they are `HybridBuffer`'s subject. A chunk is the sequence of streams and punctuation marks
written to it; compression is left out, and the limits are those of the uncompressed data. Time advances in
flush intervals (`MaxTime`) and may be set back (`ClockMayGoBack`), as `time.Now().UnixNano()` is the time of the host. `setBack` remembers that it
was. The flush interval is measured by the monotonic clock, and its start is never updated (`flushDue`).

`ConfigReload` reduces a configuration to the fields that its parts refer to, and translates the checks of
`run/config.go` and of `base/logschema.go`, the fixed fields of `configstats.go` and the comparison in `reloader.go`.

### SyslogInput, with MultiLineReader and SyslogParser

| Code | Definitions |
| --- | --- |
| `runConnection`'s loop over `netConnWrapper.Read` | `ReadInput` (data, deadline moved and flush when due), `ReadTimesOut`, `ReadFails` |
| `multiLineReader` | `ProcessBuffer`, `CheckOverflow`, `Flush`, `FlushAll`, on `[buffer, search]` |
| `TestRecordStart` | `TestRecordStart` |
| `syslogParser.Parse`, `nextFieldBySpace`, `onMalformed` | `Parse`, `SplitHeader`, `MessageOf` |
| the slice of the pri field, out of range when it is one byte | `ParsePanics`, `PanicsAt` |
| `compositeParser.Parse`, `logParsingReceiverSink.Accept` | `IsExtracted`, `AcceptAll`, `KeepRecord` |
| counters of the input | `CountRecord` |

A byte carries its position in the stream, so that "no byte is lost, repeated or moved" can be said. A pri
field is one token, whose number is what `strconv.Atoi` reads (`PriValue`: `<13>1`, `<+13>1`, `<0013>1`, also numbers that are too high or negative, which
have no facility); `<` alone is the one the parser panics at. A character outside ASCII is two bytes. The client sends one of `Streams` in pieces of the
sizes `PieceSizes`, at any time; the reading deadline is moved only when less than a flush interval
is left, as in the code.

After a panic the agent is gone: the records before the one it panicked at have been accepted and counted, the input takes no
further step, and `SplitAsDefined` is claimed only of connections without one.

`ParsedAsWritten` puts a record together again and compares it with its text (`SaysItsText`). A message that was cut
must be a beginning of what followed the header. For a record of the maximum length the code makes the message valid UTF-8,
and it looks only at what comes after the last ASCII byte: half a character left by the cut is taken away, but so is any
invalid byte among the last ones, and one further ahead stays. That the message is a valid beginning is therefore said
of texts that are UTF-8 but for half a character at their end (`CutUTF8`). The stream `Broken` shows that the condition is
needed; of such a text the property still says that no more than the limit is kept and that it is not made longer.

### LogTransforms, with EventSerializer and TextFunctions

Each transform of `transform/` is an action on one record (`AddFields`, `DelFields`, `ExtractSpecial`,
`ExtractRegex`, `Replace`, `MapValue`, `TruncateField`, `UnescapeField`, `RedactEmail`,
`ParseTimeField`, `DropRecord`, and `RunIf`, `RunSwitch`, `RunBlock` for the ones that contain others), with the
checks its `VerifyConfig` makes (`Valid...`), and what its `NewTransform` needs beyond them in order not to panic (`Creates...`:
`VerifyConfig` of `extract` tests the key again instead of the names of the groups, and that of `extractHead` does not look at the range
expression). `SerializeFluentd` and `SerializeDatadog` follow. A Go string is a
reference into a cell of `memory`; `truncate` and the unescaping of a buffer write into it. `stage = "panic"` is
an index out of range in the code. The algorithms are operators of `TextFunctions`, translated loop by loop as
searches for the position where the loop stops, and the properties compare them with reference definitions
that do not know of positions: the first tag between two boundaries, the addresses in a text, the
last whole character. `EventsCarryTheRecord` decodes the event and compares it with the record: Fluentd shows a field with an
unescaping rewriter as the sender wrote it, the sender's escapes undone once, by whichever of transform and rewriter did it; Datadog has no rewriters and shows the fields as they are
in the record. The two outputs need not show the same text. Globs and regular expressions other than a plain text, and the bytes of a date, are
left out.

## The runs

| Run | Instance | What it shows |
| --- | --- | --- |
| `buffer_faults` | 3 chunks, both capacities 2, space for 3 bytes, two starts, kill at any time, each system call may fail. 1 160 000 states | Chunks accounted for and saved chunks have files; within a run order and single delivery through queues and disk, and nothing consumed comes back unless its unlink failed; gauges exact; drained when stopped; all sent without a directory; files outlive their use; bytes on disk above the limit by at most one chunk and the uncounted files; contract kept |
| `buffer_liveness` | 3 chunks, capacities 1 and 2, reads, unlinks and waits may fail | Shutdown ends whatever upstream does; with a working upstream every chunk is consumed or counted as dropped |
| `client` | 3 chunks, 2 failures, all kinds of connection and of answers, acknowledger may hang. 522 000 states | Implements the contract with its relaxations; one report per chunk, one place at a time; consumed means stored, or an answer without ID; resent in order; the client ends once told to; with a working, ordered upstream every received chunk gets through |
| `reload` | 2 connections with 2 and 1 records, 2 client numbers, 1 SIGHUP, stop at any time. 221 000 states | No panic; delivery complete, once, in order; no old sink after a reload; generations never overlap; clean exit; reload and exit end |
| `keyset` | 2 connections with 3 and 2 records of 3 key sets, one with a comma, two orchestrators, kill at any time. 445 000 states | Order per connection and key set, nothing left behind at the end, one pipeline per key set, queues recovered, Destroy ends |
| `pipeline` | 4 logs, one of them malformed, one too long for Fluentd and two matched by a drop rate of 50%, two metric keys with two sets of values that read alike, two outputs of different formats, chunks of 2 records or 8 bytes, 2 ticks, a clock that may be set back, one reload out of ten configurations, eight of which must be refused. 87 000 states | Every output gets every record that passed, once, in order and with its own fields; chunks whole and within limits whatever the clock does, IDs increasing over generations until it is set back; pool and reference counts sound; drop rate kept; metrics exact at the end; what is packed is sent on and the pipeline ends |
| `input` | Streams of valid, malformed, short, long and multi-line records, with pri fields of all kinds, one that makes the parser panic and one with invalid UTF-8, pieces of 2 and 5 bytes, 6 units of time. 561 000 states | Records are those that lines and flushes make; each says what its text says and is counted once; no complete line waits for more than four flush intervals |
| `text` | Every text up to 4 to 7 bytes over the alphabets that matter to a transform, and a configuration with every transform on records of several kinds. 127 000 states | A transform changes the fields it names and no other, although they share memory; tags, addresses and characters are cut as defined; events carry the record |
| `buffer_leftover`, `reload_connect`, `keyset_merged`, `pipeline_outputs` | | Expected violations, see below |

**Bounds.** All are named constants. In `HybridBuffer`, 3 chunks with capacities of 2 fill the
input channel while the feeder has one, and make Accept unload; three bytes are a chunk and a
half, so that the space check fails while another write competes. Two starts cover recovery of what the first
one left. A third start adds only repetition: the state left by a restart is files, and any set of files
with any content is reached by the second. In `ForwardClient`, a queue to the acknowledger of 1 and 3
chunks fill it, with one chunk in sending and one pending; two events give a failure while the leftovers
of another one are resent. In `ReloadableOrchestrator`, two connections hold records in both
buffers when the reload closes the sinks, two numbers allow reuse and rejection, and a generation after
the first shows everything that the replacement does; with one SIGHUP a second one that is queued during a reload
is not explored by TLC (the proofs have no such bound). In `KeySetOrchestrator` both connections meet the key
set `db` first at the same time; a channel of one buffer and buffers of two records make every flush meet a full
channel; the second orchestrator recovers what the first left. In `Pipeline`, as many objects and buffers as logs
let every log have one, and the pools reuse them earlier; the logs that pass fill more than a chunk of 8 bytes, or just one; the allowed reload inserts a field, which moves the later ones, changes the metric keys, and takes an output away; a clock of three values can be set back twice to the same one.
In `SyslogInput`, a buffer of 21 bytes overflows with some of the streams, and six units of time are more than a
full turn of the deadline. In `LogTransforms`, texts are longer than both boundaries of a pattern together with the
longest tag in range; `Len4Limit` (16 in the code) is below the lengths that occur so that both
header sizes are used; a buffer of 40 bytes is too short for some of the events.

**Fairness.** Weak fairness for each goroutine that runs when it can. In `HybridBuffer` fairness is
per goroutine (the feeder, Accept, Destroy, the ending consumer), never per action, since Go's
`select` may prefer a branch for ever; the consumer need not receive or consume anything unless
`UpstreamWorks` is the premise of the property. In `ForwardClient` an I/O operation is only sure to
return once its connection was aborted; upstream is fair only under `UpstreamWorks`. In
`ReloadableOrchestrator` reads return by their deadline or because the descriptor was closed, the
closer and the accept loop react to the stop request, and a pipeline whose channel is closed
stops, which is what `HybridBuffer` (`ShutdownCompletes`) and `ForwardClient` (`StopsWhenTold`) show for what is
behind it. In `KeySetOrchestrator` the workers and `DestroyWait` keep running; no sink needs to be called. In
`Pipeline` the worker, its ticker and a reload that has begun go on; time need not advance. No
signal needs to come, no record needs to arrive.

**Deadlock** is checked in every run; `Terminated` allows stuttering only where the program has ended.

## Disagreements with the documentation

Shown by runs that expect a violation:

| Run | Code | Documentation |
| --- | --- | --- |
| `buffer_leftover` | `chunkmanager.go:92`: the result of unloading a leftover is ignored; above the space limit the chunk is gone, counted as left for the next start | `hybridbuffer.go:4`: "At shutdown, all unsent chunks are saved for recovery next time." |
| `reload_connect` | `reloadable.go:73`: the sink is taken from the old orchestrator before the lock; after the reload its first flush sends to a closed channel | `README.md:97`: "Incoming connections are unaffected." |
| `keyset_merged` | `localcachedmap.go:100`: keys are merged without separator, so that ("ab", "c") and ("a", "bc") share a pipeline, with the tag and the queue of whichever came first | `obykeyset/orchestrator.go:39`: "distribute logs to different pipelines by unique combinations of key labels" |
| `pipeline_outputs` | `reloader.go:64`: a reload keeps the allocator made for the first configuration (`loader.go:77`) and does not compare the outputs: with one more, each record is released once too often and `LogAllocator.Release` panics. With fewer, records are not recycled and left to the garbage collector | `README.md:84-86`: "In general everything after inputs are re-configurable. ... without any side-effect." |

`EveryChunkAccountedFor` counts the loss of `buffer_leftover` among `lost` chunks, so that it can say
something about all the others.

Statements of the documentation that the modules state as well and that the code does not keep. The
properties of the runs say what is left of them. TLC finds the trace when the definition replaces the properties of the
configuration in the second column:

| Definition | Configuration | Code | Documentation |
| --- | --- | --- | --- |
| `NeverReadsLate` | `ForwardClient` | `clientsession.go:140`: the normal stage reads on after `InputClosed`, as long as the closed channel has chunks | `chunkconsumer.go:21-22`: "never attempt to read any leftover chunk from InputChannel once it's closed." |
| `OnlyStoredIsConsumed` | `ForwardClient` | `clientsession.go:348`, `clientworker.go:142`: an answer of Fluentd without an ID is taken for the chunk waited for; if upstream meant another, that chunk is reported consumed and its file deleted, and upstream never stored it | `clientprovider.go:34`: "Otherwise, a non-empty ID must be returned to indicate which chunk was acknowledged exactly." |
| `SizeCountsEvents` | `Pipeline` | `chunk.go:54-57`: the empty stream of a refused event is counted, and the option `size` of the chunk is above the number of its events | `chunkencoder.go:52`: "numRecords == the numbers of msgpack objects" |
| `CountsAreUnderTheirKeySet` | `Pipeline` | `logprocesscounterset.go:115`: metric keys are joined without separator, so that ("ab", "c") and ("a", "bc") share counters, with the labels of whichever came first | `logprocesscounterset.go:107`: "Subsequent transforms would write counter values to the correct key-set." |
| `ChunkIDsAreUnique` | `Pipeline` | `chunkidgen.go:29-38`: the ID has the time read and the sequence of the latest time; a clock set back twice to the same time repeats an ID | `base/logchunk.go:9`: "Unique ID of this chunk, may be used as filename" |
| `ParserNeverPanics` | `SyslogInput` | `syslogparser.go:123`: a pri field of one byte is sliced out of range; the first line of a connection gets to the parser untested | `sysloginput.go:3`: "Multi-line (malformed) input is supported"; `sysloginput_test.go:78-79` counts a malformed first line as dropped |
| `ConstantsStay` | `LogTransforms`, with `LongConstants` and `ConstantCases` | `ttruncate.go:61`: the suffix is written into memory that a template of one part (`stringtemplate.go:116-118`), or `mapValue`, has not copied, and changes the constant of the configuration | `util/strings.go:57-58`: "The string must come from StringFromBytes if the new []byte is to be modified" |
| `ExtractionNeverPanics` | `LogTransforms`, with `WildcardCases` | `stringextractor.go:200`, `253`: a `*` without the boundary behind it passes the checks and indexes a nil table at the first text | `stringextractor.go:46`: "Both boundaries are optional and may be empty" |
| `MarkTellsTheText` | `LogTransforms` | `runescape.go:56`: the rewriter marks the whole record as unescaped, and leaves the record as it is; what is serialized next shows the text escaped | `base/logrecord.go:14`: "Whether the main message field has been un-escaped." |

Met while translating, and modelled unless the line says otherwise:

- `chunkoperator.go:207`: an unreadable file is taken off `persistent_chunks`, its size stays in
  `persistent_chunk_bytes`, which the space check uses (`GaugesExact` speaks of numbers of chunks only).
- `clientsession.go:352`: an acknowledgement that arrives before its chunk was taken from `ackerChan` is discarded
  as unknown; the chunk is sent again by the next session.
- `reloadable.go:96`: Shutdown leaves the signal goroutine alone; a reload in progress launches an
  orchestrator that nobody shuts down (excluded by `noReloadAtStop`).
- `pipelines.go:22`: the joined ID is ambiguous too: ("a,b", "c") and ("a", "b,c") get different pipelines with one
  queue directory. The run has no two such key sets.
- `tunescape` sets the mark of the record also when its field is empty; a rewriter of another field then leaves its text escaped.
- `multilinereader.go:79-92`: the last record of a connection, when unterminated, is given to the parser together with the one before.
- `syslogparser.go:162-170`: a message above its limit is cut at any byte, and cleaned to valid UTF-8
  only when the record was of the maximum length; `compositeparser.go:31-34`: records dropped by extractions count as passed.
- `logprocessingworker.go:83-90`: the time of the last chunk is never updated, so that every tick flushes.
- `rfc3339.go:15`: a timestamp of one to four bytes, or a longer one that ends before the next separator, is indexed out of range. An event that overflows its buffer before its last field panics at
  the next header, and only one that overflows at the very end is refused.
- `textract.go:64-66`: `VerifyConfig` tests the key again where it means the names of the groups, so that an unknown name panics
  in `NewTransform`. `textractspecial.go:51-56` only splits the pattern, and a malformed range expression panics there too.

## The proofs

TLAPS proves the following for every value of the constants allowed by the assumptions of each module
(`BoundsAssumption`, `SwitchAssumption`, `ClientAssumption`, `ReloadAssumption`, `KeySetAssumption`, `SplitAssumption`,
`PipelineAssumption`, `RefusalAssumption`, `PoolAssumption`, `LimitsAssumption`, `ReaderAssumption`,
`ParserAssumption`, `InputAssumption`). They give the constants their types, and TLC evaluates them in every run
of a module that has them. Four say more.
`SplitAssumption` says that an ID that splits into as many parts as there are keys was joined from these parts, a
fact about `strings.Join` and `strings.Split` that would need induction over characters.
`PipelineAssumption` says that the first configuration loads, and `RefusalAssumption` that only Fluentd outputs refuse
events. `ReaderAssumption` says that the buffer holds three records of the maximum length, as `newMultiLineReader`
makes sure (`multilinereader.go:44`). Hypotheses beyond these are in the statement of a theorem.

| Module | Theorem | States |
| --- | --- | --- |
| `HybridBufferProofs` | `TypeCorrect` | `Spec => []TypeOK`, with the capacities of both channels |
| | `StopDrains` | `Spec => []StoppedMeansDrained` |
| | `FilesOutlive` | `Spec => FilesOutliveTheirUse` |
| `HybridBufferChunkProofs` | `InOrder` | `Spec => []InOrderOnce` |
| | `OvershootBounded` | `Spec => SpaceOvershootBounded`, in bytes of files |
| | `ConsumerContractKept` | `Spec => KeepsConsumerContract`: buffer and consumer make steps of `ChunkConsumer` |
| | `AllAccountedFor` | `Spec => []EveryChunkAccountedFor` |
| | `GaugesAreExact` | `Spec => []GaugesExact` |
| | `AllSent` | `Spec => []AllSentAtEnd` |
| `ForwardClientProofs` | `KeepsContract` | `Spec => ImplementsChunkConsumer`, the refinement of `ChunkConsumer` with `MayReadLate` and, if acknowledgers may hang, `MayAbandon` |
| | `ChunksAreInOnePlace` | `Spec => []OnePlaceAtATime` |
| | `ConsumedChunksAreStored` | `Spec => []ConsumedIsStored`: stored, or taken for an answer without ID |
| | `ChunksAreSentInOrder` | `Spec => []SentInOrder` |
| `ReloadableOrchestratorProofs` | `NothingPanics` | `Spec => []NeverPanics` |
| | `SinksFollowReloads` | `Spec => []SinksAreCurrent` |
| | `GenerationsTakeTurns` | `Spec => []OneGenerationRuns` |
| | `RecordsKeepTheirOrder` | `Spec => []DeliveredInOrder` |
| | `GenerationsEndClean` | `Spec => []GenerationsAreClean` |
| `KeySetOrchestratorProofs` | `ConnectionsAgree` | `Spec => []CachesAgree` |
| | `ShutdownIsComplete` | `Spec => []DestroyWaitsForAll` |
| | `DirectoriesAreRecovered` | `Spec => []QueuesAreRecovered` |
| | `PipelinesAreApart` | `Spec => []OnePipelinePerKeySet`, given `IDsTellKeySets` |
| | `RecordsAreKept` | `Spec => []RecordsKept`: order per connection and key set, nothing left behind |
| `PipelineProofs` | `DropsKeepToTheRate` | `Spec => []DropRateKept` |
| | `PoolStaysSound` | `Spec => []PoolIsSound`, given `OutputsDoNotGrow` |
| | `OutputsGetTheirRecords` | `Spec => []OutputsGetWhatWasLogged`, given `OutputsDoNotGrow` |
| | `ChunksStaySound` | `Spec => []ChunksAreSound`, given `OutputsDoNotGrow`; the order of IDs only until the clock is set back |
| | `MetricsStayExact` | `Spec => []MetricsExact`, given `OutputsDoNotGrow`; the records of key sets that read like no other when joined |
| `SyslogInputProofs` | `LinesAreFlushedInTime` | `Spec => []FlushedInTime` |
| | `RecordsStayPieces` | `Spec => []RecordsArePieces`, the part of `SplitAsDefined` that holds with overflows too |
| | `RecordsAreSplit` | `Spec => []SplitAsDefined`, as long as the buffer has not overflowed and the parser not panicked |
| | `RecordsAreParsed` | `Spec => []ParsedAsWritten`, of the records before a panic too |

**HybridBuffer.** The inductive invariant `IInv` adds four parts to `TypeOK`. `ChunkVariables`: a goroutine has
a chunk in hand exactly in the steps that need one; without it types fail at the steps that take it.
`WritersHaveData`: data about to be written or sent is there. `FirstHalf`: between Accept and the feeder a
chunk is complete in memory or saved without data; it gives `WritersHaveData` at the feeder, which loads
or saves what it received. `ShutdownOrder`: Accept has ended before the input is closed, the feeder leaves
its loop only after that, and stops only when the consumer has finished; it gives `StoppedMeansDrained`.
`StepInvariant` proves `IInv` step by step, one step of the proof per action.
That two writers at most exist (Accept or the feeder, never both, and the consumer) follows from
`ShutdownOrder` (`OneInputWriter`).

The second module is about the chunks themselves, for any number of them, with every fault and any number of starts.
Its invariant `ChunkInv` puts all places of a chunk in one line (`InLine`): IDs ascend from what the consumer holds through
the output queue, the feeder and the input queue to Accept, and the one chunk that `saveEverything` is writing has left
the line (`SavedApart`). `UsedOnce` keeps the IDs of settled chunks out of the agent, since a
restart recovers by ID; `EndOfRun` says what may have been settled at which step of the shutdown. `ReceivedInv` puts what the consumer has received in this run below all that is to come, and `ContentInv` says that a chunk in the agent is backed by
its data or its file, and that a consumed chunk has a file only if it could not be deleted. From these and `InLine` follow
`InOrderOnce` and, with each step mapped to a step or a stutter of the contract, `KeepsConsumerContract`.
`AccountInv` turns "accounted for" around: every ID up to the last one is still traced, and every promise of a file (a saved
chunk in the agent, left over or shelved) is kept by a file. `ChunkGauges` equates the gauges with cardinalities of
sets of chunks, and `QueueGauges` with the positions of each kind in the input channel while the feeder's loop runs; the decision of Accept rests
on the first, and `SentAll` (`WaitPendingChunks` ends with no chunk pending) too.
`OvershootBounded` needs `SpaceInv`, which counts the bytes that have passed the space check but are not on the gauge yet: while anyone writes,
gauge and writes together stay below the limit plus one chunk; and `BytesInv`: the gauge and the uncounted bytes of the start are no less than the bytes in
the directory, also when a write was short, an unlink failed or a crash has cut a file. The bound is for the writes of a run: recovery takes what is there.

**ForwardClient.** For any number of chunks, failures and reconnections, all kinds of connections, and with or
without a stuck acknowledger (`MayHang`). `IInv` adds to `TypeOK`: `ChunksInHand`, where a goroutine has a
chunk in hand and that between sessions nothing is pending; `EndsAfterInput`, that the worker only leaves its loop after the
input was closed; `StoredFirst`, that whatever is on its way to `onChunkAcked` (acknowledgements in flight,
or any queued chunk of a connection without acknowledgements) was stored, unless an answer without ID was taken for it; and `NoneTwice`, that all places of a chunk
are disjoint, from the input channel to the three reports. Most steps move no chunk (`QuietStep`); for the other twelve
the proofs say which chunk goes from where to where. `KeepsContract` maps each of them to a step of `ChunkConsumer`: a session that
ends gathers what it holds without changing `Held`, and a stuck acknowledger is `Abandon`.
`ChunksInOrder`, invariant together with `IInv`, is the chain behind `SentInOrder`: chunks sent in the session, the one in hand,
leftovers, input; the input is read only without leftovers.

**ReloadableOrchestrator.** For any number of connections, records, client numbers and reloads, but under
`Assumed = Assumptions`, the timing above: without `noConnectInReload` the run `reload_connect` refutes `NeverPanics`.
`IInv` says that connections at work have numbers of their own (`NumbersAreUnique`), that a slot is filled exactly while
its connection uses it (`SlotsInUse`), with a sink of the generation that is up (`SinksFollow`), in which states of the
reload each generation can be (`GenerationsInTurn`, with as many generations as signals: `SignalsBoundGenerations`), and what has
ended before what at the stop (`StopOrder`). From these, a sink that is called belongs to a generation that takes
records (`SinkIsUsable`), which keeps `NeverPanics`; the parts are inductive only together.

`WayInv` follows the records. Those of a connection are in its parsing sink, behind the slot of its number and in the
pipelines of the generations, in that order (`PiecesInOrder`); whatever is pending behind a slot belongs to the connection that uses
it (`PiecesHaveOwners`), so that slots may be flushed in any order; each record read is in one of the pieces
(`NothingMissing`); and later generations have nothing yet (`PiecesInTurn`). `DeliveredInOrder` speaks of the
records of all generations joined: `FlattenFacts` reduces the joined sequence to its pieces.

**KeySetOrchestrator.** Nothing is assumed of keys: `MergedKey` and `WorkerID` stay closed in the proofs, since the
results hold for any way to name pipelines. `IInv` says that the global map holds exactly the pipelines there are
(`MapIsComplete`: without it Destroy could miss one), that local caches are copies of its entries
(`LocalMapsAreCopies`), that channels are closed exactly when the orchestrator is done with its sinks
(`WorkThenClose`), and that `objectCount` is the number of workers that have not ended (`CounterIsExact`).

Queue directories need `DirsInv`: the IDs of directories are those of key sets, no two of them would be recovered into the same
place of the map (`DirsAreApart`), and while channels are open each directory has its pipeline or waits for it (`DirsAreServed`). It
gives `QueuesAreRecovered`. That two pipelines never have the same key set or directory holds when
`IDsTellKeySets`: key sets with one ID are one to the map. It is not true of all keys (with commas in them, "a,b" and
"c" have the ID of "a" and "b,c"); TLC checks the property on keys where it is.

`StateInv` adds the records. `WayInv` orders what a pipeline was given, what a connection is sending and what is in its caches
(`PipelinesInOrder`, `SendingInOrder`, `CachesInOrder`, `PipelinesFirst`) and says that a record accepted and not dropped is in one of
these (`NothingMissing`); `CallInv` says where a call stands, so that Close, which walks the caches in any order, leaves
nothing in those it has walked (`CloseEmpties`).

**Pipeline.** `DropInv` bounds the excess of drops over the rate from both sides and is inductive by itself;
`RoundedComparison` shows that the integer division in `tdrop` compares as the exact quotient would.

`PoolIsSound` needs `PoolInv`. `Types` types what the receiver, the channel and the worker hold and the configurations
that run; `HandsApart` says that no object is in two of these hands, or twice in one; `PoolOK` relates each object in a hand to the
allocator: its buffer is its own and in no pool, large enough, and still has the text of its log, and its fields refer into that text; `CountsKept` says
that a record in front of the outputs has all its references, and the one being serialized as many as there are outputs to
come. Together with `~panicked` they are inductive: `Release` is called for the last time by the last output, and never after. The theorem assumes
`OutputsDoNotGrow`, that the pipeline has outputs and no configuration that loads has more than the first one;
`pipeline_outputs` shows that the code fails without it.

The three theorems about the outputs rest on `DeliveryInv`, which adds the packers and the chunks to `PoolInv`. `PackersReady` says that
between two calls a packer is idle or holds at least one record, with its counts equal to what is in its write buffer
and the buffer of the shape of its format (`Shape`: for Datadog an opening bracket, then streams and commas in turn)
and within limits. `NothingLost` says, of each output, that what passed is what is in its chunks, then in its
packer, then in hand, and that each chunk is well-formed. That a stream is the one of its own message (`StreamIsOwn`) is where
the pool comes in: the fields of a record refer to a buffer that still has its text (`Holds`), and a reload that
is let through moves no field that the parser fills. `WriteStreamMakes` and `FlushMakes` say what a call does to
a packer of any of the two formats, whatever the limits: it appends, or closes one whole chunk and begins the next.
`OutputsInv` adds that no count leaves its range and that the records seen by the drop rate add up.

`NumbersInv` adds the clock: no packer is ahead of it, the IDs of a generation are at or behind the last number of its packer
(`Numbered`), and those of earlier generations lie before the start of this one (`OfThePast`). These hold until the clock is set back (`setBack`): then `Generate` (`chunkidgen.go:30-38`) counts on but stamps the ID with
the earlier time, so that IDs descend, and repeat once the clock has gone forward and back again (`ChunkIDsAreUnique` fails). That chunks
are whole and within limits does not depend on it.

`MetricsInv` says at every step that counts written, counts not yet written and what has happened to the record in hand add up to
the history, for drops and passes (`RecordsCounted`), bytes (`BytesCounted`) and chunks (`ChunksCounted`),
where bytes of the record in hand are ahead for outputs that have not had it yet (`Ahead`). `KeySetsOK` says that the counters found under a
joined text belong to a set of metric keys and values that joins to it; so a record whose values read like no others is counted under its own. A metric key may be any
field: what the record read by the worker has there is what its own message says (`KeySetIsOwn`), which rests on the pool again.

**SyslogInput.** `RecordsArePieces` and `FlushedInTime` share the invariant `InputInv`. `ReaderInv` says that what has been received is
cut in two: the records consumed are pieces of the stream before some position, in their order and without a common
byte, and the buffer is exactly what comes after it, with room for another record (`Held`). That each operation of
the reader moves the position forward and leaves the rest behind is a lemma about it, with any offsets it may be called with
(`ProcessFacts`, `FlushFacts`, `FlushAllFacts`, `CheckFacts` for the overflow); `WalkDone` proves this of the loop over the lines,
by induction over the end of the line (`WalkedTo` is the loop's invariant: the record begun is before the line begun,
so that cutting off its newline never reaches before its start). `FlushedInTime` follows from `ClockInv` and `WaitInv`: a line that comes
waits for the deadline in progress, at most two intervals ahead, or, once that has been moved, for the next
read, which flushes. A flush leaves no complete line (`FlushFacts`), so nothing waits through two moves of the deadline.

`SplitAsDefined` compares the reader, which sees a piece at a time and keeps offsets, with a definition that sees the whole stream:
which line ends, given the flushes and the lines after them, are ends of records (`RecordEnds`). Its invariant is `SplitInv`.
While the connection is open, the buffer is what comes after the last record end, the offset of the search is after the last line
end, and what was consumed is the stream cut at the record ends (`Cut`). Two facts about the definition carry the proof: bytes that come later leave
the record ends as they are (`ReadOnHolds`), since a line that is complete is followed by the same line whatever comes after; and a
flush or the end of the connection adds one record end, the last line end or the end of the stream (`EndsAt`, `EndAt`). The
loop over the new lines finds exactly the new record ends (`WalkSplit`, by induction over lines with the loop's invariant
`SplitTo`; `LineSplit` is one line). That the two ways of cutting, by the reader and by the recursive `ExpectedRecords`, are the same is `CutIsUnique`
and `ExpectedIsCut`. Once the buffer has overflowed or the parser has panicked, only `RecordsArePieces` is claimed.

`ParsedAsWritten` has the invariant `ParsedInv`, on all texts consumed so far: the counters are what counting them
gives (`Counted`), and the records accepted are those that parsing them gives, in their order (`Listed`). A step consumes any number of
records, so each half is first proved of one record (`CountStep`, `KeepStep`), then, by induction over the fold, of all of a step
(`CountAll`, `KeepAll`). What is left is about one text of any length and content. `HeaderIsSplit` goes along its fields: either the first
`k` of them with their spaces are the text up to some space (`ReadTo`), or there are fewer than `k` spaces; so `Parse`
accepts exactly the texts of `CanBeRead` (`ReadableText`). `CleanFacts` is about the message of a record of the maximum length:
cleaning never adds a byte, and of a text that is UTF-8 but for half a character at its end it leaves a valid beginning. It follows from
`ValidCut`, the same for the part after the last ASCII byte, since a character never spans an ASCII byte (`CutPart`). `RecordSays` joins
header and message. The parser accepts up to the first text it panics at,
which `AcceptAll` cuts off; `AcceptedPart` and `AcceptedPieces` say that what is cut off changes neither the order nor the pieces before it. Of pri fields it is assumed that those with a number have an integer,
of either sign, and that neither `<` alone nor a space is one.

**Induction.** The library states induction for an operator, which the installed provers cannot instantiate. `SequenceFacts` states it
for a set (`Induction`: a set with 0 that has with each number the next one has all), from the order of the numbers being
well-founded. With it `FlattenFacts` proves, for any length, that joining a sequence of sequences keeps their elements and
their order, `SyslogInputProofs` what the folds of the parser compute (`FoldExists`: a fold that stays in a set has a
value), and `PipelineProofs` that sizes of pooled buffers are powers of two and that `Total` of numbers adds up
item by item.

Only model-checked: liveness and everything that rests on ENABLED (the ends of shutdown, of reload and of the pipeline,
`PackedIsSentOn`, delivery with a working upstream), and what the transforms make of a record: `LogTransforms` compares the
recursive and folded text functions with their reference definitions over all short texts, in properties of its steps. Every
invariant of the passing runs is the statement of a theorem; of the text functions, the proofs reach those that the parser uses.

## Not modelled, and what is left

- Command line, YAML decoding, metric exposure, test support: no behaviour of interest, or input and output only.
- Handshake, encryption and compression of the outputs, HTTP and the retries inside its client; bytes of msgpack
  numbers and times: external formats, tested against reference decoders.
- Queue directories: the hashed names and `.id` files of `queuedirs.go`. What is listed there is
  modelled by the IDs. (`queuedirs.go:78` tests a permission bit, not the directory bit that its comment speaks of.)
- Globs, regular expressions other than plain texts, and the syntax of templates.
- Launching of inputs and of the metric server; benchmarks.

Left for later: an abstract specification of `KeySetOrchestrator`, one queue per key set;
`ReloadableOrchestrator` with several pipelines per generation; the contents of files that are cut short, which are recovered and
sent as they are; and configurations of `LogTransforms` whose fields share memory, beyond the one that shows `ConstantsStay` to fail.
