--------------------------- MODULE KeySetOrchestrator ---------------------------
(***************************************************************************)
(* orchestrate/obykeyset with util/localcachedmap: records of all           *)
(* connections are distributed to pipelines by the values of key fields.    *)
(*                                                                          *)
(*   input goroutines:   byKeySetOrchestratorSink, one per connection, with *)
(*                       a local cache of the global map                    *)
(*   pipeline workers:   one per key set, reading from a channel            *)
(*   main or reload:     NewOrchestrator at first, Destroy at the end       *)
(*                                                                          *)
(* A pipeline works in the queue directory named by its ID, where it may    *)
(* leave chunks.  The next orchestrator starts a pipeline for each          *)
(* directory with chunks.                                                   *)
(*                                                                          *)
(* The value of a key field is a sequence of characters, since merging,     *)
(* joining and splitting them is what decides where a record goes.          *)
(***************************************************************************)
EXTENDS Integers, Sequences, FiniteSets, SequencesExt, Functions

CONSTANTS
    RecordKeys,     \* for each sink, the key sets of the records it is given
    NumKeys,        \* number of key fields
    ChannelCap,     \* defs.IntermediateBufferedChannelSize
    BufferCap,      \* defs.IntermediateBufferMaxNumLogs
    MayTimeOut,     \* whether a pipeline may stall for IntermediateChannelTimeout
    MaxRuns         \* number of orchestrators started one after the other

Sinks   == DOMAIN RecordKeys
KeySets == UNION {Range(RecordKeys[s]) : s \in Sinks}

ASSUME KeySetAssumption ==
    /\ NumKeys \in Nat \ {0}
    /\ \A s \in Sinks : RecordKeys[s] \in Seq(KeySets)
    /\ \A keys \in KeySets : Len(keys) = NumKeys
    /\ ChannelCap \in Nat \ {0} /\ BufferCap \in Nat \ {0}
    /\ MayTimeOut \in BOOLEAN
    /\ MaxRuns \in Nat \ {0}

VARIABLES
    orcPC,          \* "starting", "up", "waiting" (Destroy has closed the channels), "done"
    toRecover,      \* initial pipeline IDs not yet looked at
    workerMap,      \* globalMap: merged key -> number of the pipeline
    objectCount,    \* objectCounter
    pipelines,      \* the pipelines started by this orchestrator
    sinkPC,         \* "absent", "idle", "accept", "flush", "walk", "closed", "gone" (with its run)
    after,          \* where a sink continues after "flush"
    nextRecord,     \* next record of each sink
    batchEnd,       \* last record of the buffer being accepted
    localMap,       \* of each sink: merged key -> channelInputBuffer
    sendingKey,     \* the cache being flushed
    sending,        \* the copy of its logs that is being sent
    toWalk,         \* caches Walk has not reached
    forceAll,
    timedOut,       \* history: records dropped by Flush
    queueDirs,      \* IDs of the queue directories with chunks in them
    runs

orcVars  == <<orcPC, toRecover, runs>>
mapVars  == <<workerMap, objectCount>>
callVars == <<nextRecord, batchEnd>>
walkVars == <<toWalk, forceAll>>
sendVars == <<sendingKey, sending, after>>
vars == <<orcVars, mapVars, pipelines, sinkPC, callVars, localMap, walkVars, sendVars, timedOut,
          queueDirs>>

-----------------------------------------------------------------------------
(* Key sets *)

\* GetOrCreate's key: the values one after the other.
MergedKey(keys) == FlattenSeq(keys)

\* strings.Join(keys, ",")
WorkerID(keys) ==
    FlattenSeq([i \in 1..Len(keys) |-> IF i = 1 THEN keys[i] ELSE <<",">> \o keys[i]])

\* strings.Split(id, ",")
SplitID(id) ==
    LET commas == {i \in 1..Len(id) : id[i] = ","}
        ends   == SetToSortSeq(commas \cup {0, Len(id) + 1}, <)
    IN  [i \in 1..(Len(ends) - 1) |-> SubSeq(id, ends[i] + 1, ends[i + 1] - 1)]

\* When an ID splits into as many parts as there are keys, these are the keys: it is joined from
\* them with commas, and none has a comma in it.  TLC evaluates this for the key sets of each run.
ASSUME SplitAssumption ==
    \A keys \in KeySets :
        Len(SplitID(WorkerID(keys))) = NumKeys => SplitID(WorkerID(keys)) = keys

\* Key sets with the same ID are one to the global map.  It is not so when there are commas in
\* keys: "a,b" and "c" join to the ID of "a" and "b,c".
IDsTellKeySets ==
    \A keys, others \in KeySets :
        WorkerID(keys) = WorkerID(others) => MergedKey(keys) = MergedKey(others)

Record == UNION {{s} \X (1..Len(RecordKeys[s])) : s \in Sinks}
KeysOf(r) == RecordKeys[r[1]][r[2]]

-----------------------------------------------------------------------------
(* The global map *)

\* map[k] = v
Put(map, k, v) == [x \in DOMAIN map \cup {k} |-> IF x = k THEN v ELSE map[x]]

NewPipeline(keys) ==
    [keys |-> keys, id |-> WorkerID(keys), channel |-> <<>>, closed |-> FALSE, stopped |-> FALSE,
     processed |-> <<>>]

\* Variant: a pipeline is created without looking for one another sink has created meanwhile.
GetOrCreate_Unchecked(keys) ==
    /\ workerMap' = Put(workerMap, MergedKey(keys), Len(pipelines) + 1)
    /\ pipelines' = Append(pipelines, NewPipeline(keys))
    /\ objectCount' = objectCount + 1

\* Variant: the counter is raised for pipelines that exist already.
GetOrCreate_AlwaysCounts(keys) ==
    /\ objectCount' = objectCount + 1
    /\ IF MergedKey(keys) \in DOMAIN workerMap
         THEN UNCHANGED <<workerMap, pipelines>>
         ELSE /\ workerMap' = Put(workerMap, MergedKey(keys), Len(pipelines) + 1)
              /\ pipelines' = Append(pipelines, NewPipeline(keys))

\* getOrCreate, under globalMutex; newPipeline starts the workers.
GetOrCreate(keys) ==
    IF MergedKey(keys) \in DOMAIN workerMap
      THEN UNCHANGED <<mapVars, pipelines>>
      ELSE /\ workerMap' = Put(workerMap, MergedKey(keys), Len(pipelines) + 1)
           /\ pipelines' = Append(pipelines, NewPipeline(keys))
           /\ objectCount' = objectCount + 1

-----------------------------------------------------------------------------
(* NewOrchestrator *)

\* A pipeline for the chunks in a queue directory.
RecoverPipeline ==
    /\ orcPC = "starting"
    /\ \E id \in toRecover :
          /\ toRecover' = toRecover \ {id}
          /\ Len(SplitID(id)) = NumKeys
          /\ GetOrCreate(SplitID(id))
    /\ UNCHANGED <<orcPC, runs, sinkPC, callVars, localMap, walkVars, sendVars, timedOut, queueDirs>>

\* "ignore malformed existing pipeline ID"
IgnoreMalformed ==
    /\ orcPC = "starting"
    /\ \E id \in toRecover :
          /\ toRecover' = toRecover \ {id}
          /\ Len(SplitID(id)) # NumKeys
    /\ UNCHANGED <<orcPC, runs, mapVars, pipelines, sinkPC, callVars, localMap, walkVars, sendVars,
                   timedOut, queueDirs>>

\* Variant: up while directories are still to be recovered.
Started_TooEarly ==
    /\ orcPC = "starting"
    /\ orcPC' = "up"
    /\ UNCHANGED <<toRecover, runs, mapVars, pipelines, sinkPC, callVars, localMap, walkVars,
                   sendVars, timedOut, queueDirs>>

Started ==
    /\ orcPC = "starting" /\ toRecover = {}
    /\ orcPC' = "up"
    /\ UNCHANGED <<toRecover, runs, mapVars, pipelines, sinkPC, callVars, localMap, walkVars,
                   sendVars, timedOut, queueDirs>>

-----------------------------------------------------------------------------
(* byKeySetOrchestratorSink *)

NewSink(s) ==
    /\ orcPC = "up"
    /\ sinkPC[s] = "absent"
    /\ sinkPC' = [sinkPC EXCEPT ![s] = "idle"]
    /\ UNCHANGED <<orcVars, mapVars, pipelines, callVars, localMap, walkVars, sendVars, timedOut,
                   queueDirs>>

\* Accept is called with any number of records.
Accept(s) ==
    /\ sinkPC[s] = "idle"
    /\ \E last \in nextRecord[s]..Len(RecordKeys[s]) : batchEnd' = [batchEnd EXCEPT ![s] = last]
    /\ sinkPC' = [sinkPC EXCEPT ![s] = "accept"]
    /\ UNCHANGED <<orcVars, mapVars, pipelines, nextRecord, localMap, walkVars, sendVars, timedOut,
                   queueDirs>>

\* Variant: the logs stay in the cache when they are sent.
FlushCache_KeepsLogs(s, k, caches, return) ==
    /\ sending' = [sending EXCEPT ![s] = caches[k].pendingLogs]
    /\ sendingKey' = [sendingKey EXCEPT ![s] = k]
    /\ after' = [after EXCEPT ![s] = return]
    /\ localMap' = [localMap EXCEPT ![s] = caches]

\* channelInputBuffer.Flush up to the select: the logs are copied and the cache is emptied.
FlushCache(s, k, caches, return) ==
    /\ sending' = [sending EXCEPT ![s] = caches[k].pendingLogs]
    /\ sendingKey' = [sendingKey EXCEPT ![s] = k]
    /\ after' = [after EXCEPT ![s] = return]
    /\ localMap' = [localMap EXCEPT ![s] = [caches EXCEPT ![k].pendingLogs = <<>>]]

\* One turn of Accept's loop: find the cache, here or in the global map, append the record, and
\* flush the cache when it is full, by number or by bytes.
AcceptRecord(s) ==
    LET r == <<s, nextRecord[s]>>
        k == MergedKey(KeysOf(r))
    IN
    /\ sinkPC[s] = "accept" /\ nextRecord[s] <= batchEnd[s]
    /\ nextRecord' = [nextRecord EXCEPT ![s] = @ + 1]
    /\ IF k \in DOMAIN localMap[s] THEN UNCHANGED <<mapVars, pipelines>> ELSE GetOrCreate(KeysOf(r))
    /\ LET cache  == IF k \in DOMAIN localMap[s] THEN localMap[s][k]
                                                 ELSE [pipeline |-> workerMap'[k], pendingLogs |-> <<>>]
           caches == Put(localMap[s], k, [cache EXCEPT !.pendingLogs = Append(@, r)])
       IN  \/ /\ Len(caches[k].pendingLogs) < BufferCap
              /\ localMap' = [localMap EXCEPT ![s] = caches]
              /\ UNCHANGED <<sendVars, sinkPC>>
           \/ /\ FlushCache(s, k, caches, "accept")
              /\ sinkPC' = [sinkPC EXCEPT ![s] = "flush"]
    /\ UNCHANGED <<orcVars, batchEnd, walkVars, timedOut, queueDirs>>

AcceptReturns(s) ==
    /\ sinkPC[s] = "accept" /\ nextRecord[s] > batchEnd[s]
    /\ sinkPC' = [sinkPC EXCEPT ![s] = "idle"]
    /\ UNCHANGED <<orcVars, mapVars, pipelines, callVars, localMap, walkVars, sendVars, timedOut,
                   queueDirs>>

\* The end of Flush.
FlushOver(s) ==
    /\ sinkPC' = [sinkPC EXCEPT ![s] = after[s]]
    /\ sending' = [sending EXCEPT ![s] = <<>>]
    /\ sendingKey' = [sendingKey EXCEPT ![s] = <<>>]
    /\ after' = [after EXCEPT ![s] = "idle"]
    /\ UNCHANGED <<orcVars, mapVars, callVars, localMap, walkVars, queueDirs>>

\* Flush's select: the channel takes the logs.
FlushSend(s) ==
    /\ sinkPC[s] = "flush"
    /\ LET p == localMap[s][sendingKey[s]].pipeline IN
          /\ Len(pipelines[p].channel) < ChannelCap
          /\ pipelines' = [pipelines EXCEPT ![p].channel = Append(@, sending[s])]
    /\ FlushOver(s)
    /\ UNCHANGED timedOut

\* Flush's select: it was full all the time, and the logs are dropped.
FlushTimeOut(s) ==
    /\ MayTimeOut
    /\ sinkPC[s] = "flush"
    /\ Len(pipelines[localMap[s][sendingKey[s]].pipeline].channel) = ChannelCap
    /\ timedOut' = timedOut \cup Range(sending[s])
    /\ FlushOver(s)
    /\ UNCHANGED pipelines

\* flushAllLocalBuffers, from Tick or Close.
WalkCaches(s, force) ==
    /\ sinkPC[s] = "idle"
    /\ sinkPC' = [sinkPC EXCEPT ![s] = "walk"]
    /\ toWalk' = [toWalk EXCEPT ![s] = DOMAIN localMap[s]]
    /\ forceAll' = [forceAll EXCEPT ![s] = force]
    /\ UNCHANGED <<orcVars, mapVars, pipelines, callVars, localMap, sendVars, timedOut, queueDirs>>

Tick(s)  == WalkCaches(s, FALSE)

Close(s) == WalkCaches(s, TRUE)

\* One turn of Walk, in any order: an empty cache is skipped, and without forceAll also one that
\* was flushed less than IntermediateFlushInterval ago.
WalkCache(s) ==
    /\ sinkPC[s] = "walk"
    /\ \E k \in toWalk[s] :
          /\ toWalk' = [toWalk EXCEPT ![s] = @ \ {k}]
          /\ \/ /\ localMap[s][k].pendingLogs = <<>> \/ ~forceAll[s]
                /\ UNCHANGED <<sendVars, localMap, sinkPC>>
             \/ /\ localMap[s][k].pendingLogs # <<>>
                /\ FlushCache(s, k, localMap[s], "walk")
                /\ sinkPC' = [sinkPC EXCEPT ![s] = "flush"]
    /\ UNCHANGED <<orcVars, mapVars, pipelines, callVars, forceAll, timedOut, queueDirs>>

WalkReturns(s) ==
    /\ sinkPC[s] = "walk" /\ toWalk[s] = {}
    /\ sinkPC' = [sinkPC EXCEPT ![s] = IF forceAll[s] THEN "closed" ELSE "idle"]
    /\ UNCHANGED <<orcVars, mapVars, pipelines, callVars, localMap, walkVars, sendVars, timedOut,
                   queueDirs>>

-----------------------------------------------------------------------------
(* Pipelines *)

\* The worker takes the next buffer and processes its records.
WorkerReceive(p) ==
    /\ pipelines[p].channel # <<>>
    /\ pipelines' = [pipelines EXCEPT ![p].processed = @ \o Head(pipelines[p].channel),
                                      ![p].channel = Tail(@)]
    /\ UNCHANGED <<orcVars, mapVars, sinkPC, callVars, localMap, walkVars, sendVars, timedOut, queueDirs>>

\* The end of the worker's loop, of its buffers, and onStopped.  Chunks may be left on disk.
WorkerStop(p) ==
    /\ pipelines[p].closed /\ pipelines[p].channel = <<>> /\ ~pipelines[p].stopped
    /\ pipelines' = [pipelines EXCEPT ![p].stopped = TRUE]
    /\ objectCount' = objectCount - 1
    /\ \/ queueDirs' = queueDirs \ {pipelines[p].id}
       \/ /\ pipelines[p].processed # <<>> \/ pipelines[p].id \in queueDirs
          /\ queueDirs' = queueDirs \cup {pipelines[p].id}
    /\ UNCHANGED <<orcVars, workerMap, sinkPC, callVars, localMap, walkVars, sendVars, timedOut>>

-----------------------------------------------------------------------------
(* Shutdown, and the next orchestrator *)

\* Destroy under globalMutex.  Its caller has closed all sinks: see ReloadableOrchestrator.
DestroyClose ==
    /\ orcPC = "up"
    /\ \A s \in Sinks : sinkPC[s] \in {"absent", "closed", "gone"}
    /\ pipelines' = [p \in DOMAIN pipelines |->
                       [pipelines[p] EXCEPT !.closed = @ \/ p \in Range(workerMap)]]
    /\ orcPC' = "waiting"
    /\ UNCHANGED <<toRecover, runs, mapVars, sinkPC, callVars, localMap, walkVars, sendVars, timedOut,
                   queueDirs>>

\* objectCounter.Wait
DestroyWait ==
    /\ orcPC = "waiting"
    /\ objectCount = 0
    /\ orcPC' = "done"
    /\ UNCHANGED <<toRecover, runs, mapVars, pipelines, sinkPC, callVars, localMap, walkVars, sendVars,
                   timedOut, queueDirs>>

\* A new orchestrator, for a reload or in a new process: StartOrchestrator lists the directories.
NextRun ==
    /\ runs < MaxRuns
    /\ runs' = runs + 1
    /\ orcPC' = "starting"
    /\ toRecover' = queueDirs'
    /\ workerMap' = <<>> /\ objectCount' = 0 /\ pipelines' = <<>>
    /\ sinkPC' = [s \in Sinks |-> IF sinkPC[s] = "absent" THEN "absent" ELSE "gone"]
    /\ localMap' = [s \in Sinks |-> <<>>]
    /\ sending' = [s \in Sinks |-> <<>>] /\ sendingKey' = [s \in Sinks |-> <<>>]
    /\ after' = [s \in Sinks |-> "idle"]
    /\ toWalk' = [s \in Sinks |-> {}] /\ forceAll' = [s \in Sinks |-> FALSE]
    /\ UNCHANGED <<callVars, timedOut>>

Restart == orcPC = "done" /\ UNCHANGED queueDirs /\ NextRun

\* The process is killed.  A pipeline that has processed something may have chunks on disk; what was
\* in the directory of any pipeline may have been sent meanwhile.
Crash ==
    /\ orcPC # "done"
    /\ LET started == {pipelines[p].id : p \in DOMAIN pipelines}
           written == {pipelines[p].id : p \in {p \in DOMAIN pipelines : pipelines[p].processed # <<>>}}
       IN  \E left \in SUBSET (written \cup (queueDirs \cap started)) :
              queueDirs' = (queueDirs \ started) \cup left
    /\ NextRun

Terminated ==
    /\ orcPC = "done" /\ runs = MaxRuns
    /\ UNCHANGED vars

-----------------------------------------------------------------------------
Init ==
    /\ orcPC = "starting" /\ toRecover = {} /\ runs = 1
    /\ workerMap = <<>> /\ objectCount = 0 /\ pipelines = <<>>
    /\ sinkPC = [s \in Sinks |-> "absent"]
    /\ after = [s \in Sinks |-> "idle"]
    /\ nextRecord = [s \in Sinks |-> 1] /\ batchEnd = [s \in Sinks |-> 0]
    /\ localMap = [s \in Sinks |-> <<>>]
    /\ sending = [s \in Sinks |-> <<>>] /\ sendingKey = [s \in Sinks |-> <<>>]
    /\ toWalk = [s \in Sinks |-> {}] /\ forceAll = [s \in Sinks |-> FALSE]
    /\ timedOut = {}
    /\ queueDirs = {}

Start == RecoverPipeline \/ IgnoreMalformed \/ Started

\* What the goroutine of a sink does once it was called.
SinkRuns(s) == AcceptRecord(s) \/ AcceptReturns(s) \/ FlushSend(s) \/ WalkCache(s) \/ WalkReturns(s)

Worker(p) == WorkerReceive(p) \/ WorkerStop(p)

Next ==
    \/ Start
    \/ \E s \in Sinks :
          NewSink(s) \/ Accept(s) \/ Tick(s) \/ Close(s) \/ SinkRuns(s) \/ FlushTimeOut(s)
    \/ \E p \in DOMAIN pipelines : Worker(p)
    \/ DestroyClose \/ DestroyWait
    \/ Restart \/ Crash \/ Terminated

Spec == Init /\ [][Next]_vars

\* Workers and Destroy keep running.
FairSpec ==
    /\ Spec
    /\ WF_vars(\E p \in DOMAIN pipelines : Worker(p))
    /\ WF_vars(DestroyWait)

-----------------------------------------------------------------------------
(* Properties *)

MergedKeys == {MergedKey(keys) : keys \in KeySets}

\* Type invariant; no channel holds more than its capacity.
TypeOK ==
    /\ orcPC \in {"starting", "up", "waiting", "done"}
    /\ toRecover \subseteq {WorkerID(keys) : keys \in KeySets}
    /\ DOMAIN workerMap \subseteq MergedKeys /\ Range(workerMap) \subseteq DOMAIN pipelines
    /\ objectCount \in 0..Len(pipelines)
    /\ \A p \in DOMAIN pipelines :
          /\ pipelines[p].keys \in KeySets
          /\ Len(pipelines[p].channel) <= ChannelCap
          /\ pipelines[p].processed \in Seq(Record)
    /\ sinkPC \in [Sinks -> {"absent", "idle", "accept", "flush", "walk", "closed", "gone"}]
    /\ \A s \in Sinks :
          /\ nextRecord[s] \in 1..(Len(RecordKeys[s]) + 1) /\ batchEnd[s] \in 0..Len(RecordKeys[s])
          /\ after[s] \in {"idle", "accept", "walk"}
          /\ DOMAIN localMap[s] \subseteq MergedKeys
          /\ \A k \in DOMAIN localMap[s] :
                /\ localMap[s][k].pipeline \in DOMAIN pipelines
                /\ Len(localMap[s][k].pendingLogs) < BufferCap
          /\ sending[s] \in Seq(Record)
          /\ toWalk[s] \subseteq DOMAIN localMap[s]
          /\ forceAll[s] \in BOOLEAN
    /\ timedOut \subseteq Record
    /\ runs \in 1..MaxRuns

\* Where the records of a sink that go to a pipeline are, from the oldest.
Way(s, k) ==
    LET p == pipelines[localMap[s][k].pipeline]
    IN  IF k \in DOMAIN localMap[s]
          THEN p.processed \o FlattenSeq(p.channel)
                 \o (IF sendingKey[s] = k THEN sending[s] ELSE <<>>) \o localMap[s][k].pendingLogs
          ELSE <<>>

\* Accept, Tick and Close (orchestrator.go:122-163): the records of one connection with one key
\* set stay in order through local buffer, channel and pipeline, none lost and none twice, but for
\* those dropped by a flush that timed out.
InOrderPerKeySet ==
    \A s \in Sinks : sinkPC[s] # "gone" =>
        \A keys \in KeySets :
            LET way     == Way(s, MergedKey(keys))
                Mine(r) == r[1] = s /\ KeysOf(r) = keys
            IN  /\ {r \in Range(way) : Mine(r)} =
                      {r \in {s} \X (1..(nextRecord[s] - 1)) : KeysOf(r) = keys /\ r \notin timedOut}
                /\ \A i, j \in DOMAIN way :
                      i < j /\ Mine(way[i]) /\ Mine(way[j]) => way[i][2] < way[j][2]

\* Shutdown returns when all workers have ended, with nothing in their channels.
DestroyWaitsForAll ==
    orcPC = "done" => \A p \in DOMAIN pipelines : pipelines[p].stopped /\ pipelines[p].channel = <<>>

\* When Shutdown returns, all workers have ended and have processed whatever was accepted
\* (localcachedmap.go:64-71).
NothingLeftBehind ==
    /\ DestroyWaitsForAll
    /\ orcPC = "done" =>
          \A s \in Sinks : sinkPC[s] = "closed" =>
              \A i \in 1..(nextRecord[s] - 1) :
                 \/ <<s, i>> \in timedOut
                 \/ \E p \in DOMAIN pipelines : <<s, i>> \in Range(pipelines[p].processed)

\* Both: from the connection to the end of the worker, nothing is lost or out of order.
RecordsKept == TypeOK /\ InOrderPerKeySet /\ NothingLeftBehind

\* What a connection remembers of the global map is still so.
CachesAgree ==
    \A s \in Sinks : \A k \in DOMAIN localMap[s] :
        k \in DOMAIN workerMap /\ localMap[s][k].pipeline = workerMap[k]

\* All connections use the same pipeline for a key set, and no two pipelines running at a time
\* share the ID that names their queue directory: "bufferID must be unique inside the parent
\* orchestrator" (pipelines.go:22).
OnePipelinePerKeySet ==
    /\ CachesAgree
    /\ \A p, q \in DOMAIN pipelines : p # q => pipelines[p].id # pipelines[q].id

\* "to create pipelines for queued logs on disk immediately after starting" (config.go:25): once
\* the orchestrator is up, each queue directory with chunks has its pipeline, unless the ID does not
\* split into as many keys as there are, because of commas in them.
QueuesAreRecovered ==
    orcPC = "up" =>
        \A id \in queueDirs :
            Len(SplitID(id)) = NumKeys => \E p \in DOMAIN pipelines : pipelines[p].id = id

\* Destroy ends: it counts exactly the pipelines that will report their end.
DestroyEnds == orcPC = "waiting" ~> orcPC # "waiting"

\* "distribute logs to different pipelines by unique combinations of key labels (key set)"
\* (orchestrator.go:39): a pipeline only gets records with its own keys.
RoutedByKeySet ==
    \A p \in DOMAIN pipelines : \A r \in Range(pipelines[p].processed) :
        KeysOf(r) = pipelines[p].keys
=============================================================================
