------------------------------ MODULE HybridBuffer ------------------------------
(***************************************************************************)
(* buffer/hybridbuffer: the bufferer between a log pipeline and its output. *)
(*                                                                          *)
(*   pipeline goroutine:  bufferer.Accept, then bufferer.Destroy            *)
(*   feeder goroutine:    outputFeeder.Run                                  *)
(*   consumer goroutines: the output worker and its acknowledger, reduced   *)
(*                        to the contract of base.ChunkConsumerArgs         *)
(*                                                                          *)
(* A chunk travels  Accept -> inputChannel -> feeder -> outputChannel ->    *)
(* consumer, and may be unloaded to a file of the queue directory on the    *)
(* way.  The process may be killed at any point and started again on the    *)
(* same directory.                                                          *)
(*                                                                          *)
(* Chunk contents are abstracted to what the code can tell apart: no slice  *)
(* at all (nil), an empty one, a truncated one, and the complete one.       *)
(***************************************************************************)
EXTENDS Integers, Sequences, FiniteSets, SequencesExt

CONSTANTS
    MaxChunks,       \* number of chunks the pipeline produces
    QueueCap,        \* defs.BufferMaxNumChunksInQueue, capacity of inputChannel
    MemoryCap,       \* defs.BufferMaxNumChunksInMemory, capacity of outputChannel
    MaxTotalBytes,   \* Config.MaxBufSize, in units of DataLen
    MaxRuns,         \* number of times the process is started
    SendAllAtEnd,    \* argument sendAllAtEnd of newBufferer
    MayCrash,        \* whether the process may be killed
    Faults           \* which system calls and waits may fail

FaultKinds == {"dir", "scan", "stat", "read", "write", "short", "unlink", "timeout"}

ASSUME BoundsAssumption ==
    /\ MaxChunks \in Nat \ {0}
    /\ QueueCap \in Nat \ {0}
    /\ MemoryCap \in Nat \ {0}
    /\ MaxTotalBytes \in Nat
    /\ MaxRuns \in Nat \ {0}

ASSUME SwitchAssumption ==
    /\ SendAllAtEnd \in BOOLEAN
    /\ MayCrash \in BOOLEAN
    /\ Faults \subseteq FaultKinds

VARIABLES
    nextID,               \* ID of the next chunk of the pipeline
    accepting,            \* chunk inside Accept, or NoChunk
    acceptPC,             \* where Accept is
    destroyPC,            \* life of the bufferer: down, up, then the steps of Destroy
    inputChannel,
    feederPC,             \* where outputFeeder.Run is
    feederChunk,          \* the chunk variable of Run and saveEverything
    loadedData,           \* Data of loadToOutput's own copy of that chunk
    lastInputChunk,
    outputChannel,
    outputState,          \* "open", "closed" (channel), "signaled" (outputClosed)
    held,                 \* chunks received by the consumer, not yet reported back
    leaving,              \* chunk inside OnChunkLeftover, or NoChunk
    consumerPC,           \* "running", "leaving", "finished" (OnFinished was called)
    hasDir,               \* chunkOperator.maybeDir # nil
    disk,                 \* content of the file of each chunk ID
    pendingChunks, persistentChunks, persistentChunkBytes,    \* gauges
    queuedTransient, queuedPersistent,
    runs,                 \* number of times the process was started
    consumed,             \* history: IDs reported by OnChunkConsumed
    dropped,              \* history: IDs counted in dropped_chunks_total
    lost,                 \* history: IDs whose only copy disappeared uncounted
    leftover,             \* history of this run: chunks counted in leftover_chunks_total
    shelved,              \* history of this run: IDs put away by saveEverything
    undeleted,            \* history of this run: consumed or corrupted IDs whose unlink failed
    undeletedEver,        \* history: the same of every run
    lastReceived,         \* history of this run: ID of the last chunk the consumer received, or 0
    uncountedBytes        \* history of this run: bytes on disk that its start did not count

acceptVars   == <<nextID, accepting, acceptPC>>
feederVars   == <<feederPC, feederChunk, loadedData, lastInputChunk>>
consumerVars == <<held, leaving, consumerPC>>
queueGauges  == <<queuedTransient, queuedPersistent>>
diskGauges   == <<persistentChunks, persistentChunkBytes>>
kept         == <<undeleted, undeletedEver>>
runHistory   == <<leftover, shelved, kept, lastReceived, uncountedBytes>>
vars == <<acceptVars, destroyPC, inputChannel, feederVars, outputChannel, outputState,
          consumerVars, hasDir, disk, pendingChunks, diskGauges, queueGauges, runs,
          consumed, dropped, lost, runHistory>>

-----------------------------------------------------------------------------
(* Chunks and files *)

ChunkID == 1..MaxChunks
Data    == {"nil", "empty", "part", "full"}
Chunk   == [id: ChunkID, data: Data, saved: BOOLEAN]
NoChunk == [id |-> 0, data |-> "nil", saved |-> FALSE]
File    == {"none", "empty", "part", "full"}

\* len(chunk.Data), and the size of a file with that content.
DataLen(d) == IF d = "full" THEN 2 ELSE IF d = "part" THEN 1 ELSE 0

FullLen == DataLen("full")

NewChunk(i)      == [id |-> i, data |-> "full", saved |-> FALSE]
FileChunk(i)     == [id |-> i, data |-> "nil", saved |-> TRUE]
Unloaded(c)      == [c EXCEPT !.data = "nil", !.saved = TRUE]
WithData(c, d)   == [c EXCEPT !.data = d]

\* bufferer.chunkMan.sendAllAtEnd: also in force when there is no directory.
ShouldWaitPendingChunks == SendAllAtEnd \/ ~hasDir

InputChannelClosed == destroyPC \in {"signal", "waiting", "done"}
InputClosedSignaled == destroyPC \in {"waiting", "done"}

-----------------------------------------------------------------------------
(* chunkOperator and chunkManager: the parts of an action that work on one chunk *)

\* Variant: the space check is missing.
CannotUnload_NoSpaceCheck(c) == c.data = "nil" \/ ~hasDir

\* UnloadChunk up to the write: what makes it fail before touching the disk.
CannotUnload(c) ==
    \/ c.data = "nil"
    \/ ~hasDir
    \/ persistentChunkBytes + DataLen(c.data) > MaxTotalBytes

\* UnloadChunk, the write that succeeds; unix.Write may be short and its count is ignored.
WriteChunkFile(c) ==
    /\ \/ disk' = [disk EXCEPT ![c.id] = c.data]
       \/ "short" \in Faults /\ disk' = [disk EXCEPT ![c.id] = "part"]
    /\ persistentChunks' = persistentChunks + 1
    /\ persistentChunkBytes' = persistentChunkBytes + DataLen(c.data)

\* UnloadChunk, the open or the write fails; O_CREAT|O_TRUNC may leave a file behind.
WriteChunkFileFails(c) ==
    /\ "write" \in Faults
    /\ \E left \in {disk[c.id], "empty"} : disk' = [disk EXCEPT ![c.id] = left]
    /\ UNCHANGED diskGauges

\* Variant: the file of a chunk is left where it is.
RemoveChunk_KeepsFile(c) ==
    /\ IF c.saved /\ hasDir
         THEN /\ persistentChunks' = persistentChunks - 1
              /\ persistentChunkBytes' = persistentChunkBytes - DataLen(c.data)
         ELSE UNCHANGED diskGauges
    /\ UNCHANGED <<disk, kept>>

\* chunkOperator.RemoveChunk of a consumed or corrupted chunk.
RemoveChunk(c) ==
    \/ /\ ~c.saved \/ ~hasDir
       /\ UNCHANGED <<disk, diskGauges, kept>>
    \/ /\ c.saved /\ hasDir
       /\ disk' = [disk EXCEPT ![c.id] = "none"]
       /\ persistentChunks' = persistentChunks - 1
       /\ persistentChunkBytes' = persistentChunkBytes - DataLen(c.data)
       /\ UNCHANGED kept
    \/ /\ c.saved /\ hasDir /\ "unlink" \in Faults
       /\ undeleted' = undeleted \cup {c.id}
       /\ undeletedEver' = undeletedEver \cup {c.id}
       /\ UNCHANGED <<disk, diskGauges>>

\* Variant: a dropped chunk stays in pending_chunks.
OnChunkDropped_StillPending(c) ==
    /\ IF c.saved
         THEN /\ persistentChunks' = persistentChunks - 1
              /\ persistentChunkBytes' = persistentChunkBytes - DataLen(c.data)
         ELSE UNCHANGED diskGauges
    /\ dropped' = dropped \cup {c.id}
    /\ UNCHANGED pendingChunks

\* chunkManager.OnChunkDropped, with chunkOperator.OnChunkDropped.
OnChunkDropped(c) ==
    /\ IF c.saved
         THEN /\ persistentChunks' = persistentChunks - 1
              /\ persistentChunkBytes' = persistentChunkBytes - DataLen(c.data)
         ELSE UNCHANGED diskGauges
    /\ pendingChunks' = pendingChunks - 1
    /\ dropped' = dropped \cup {c.id}

-----------------------------------------------------------------------------
(* bufferer: newBufferer and Start *)

\* ScanExistingChunks: the IDs that have a file.
ScanResult(dirOK) ==
    IF dirOK THEN {i \in ChunkID : disk[i] # "none"} ELSE {}

\* Variant: the directory listing is used in another order.
SortedList_Unsorted(ids) ==
    {s \in [1..Cardinality(ids) -> ids] : \A i, j \in 1..Cardinality(ids) : i < j => s[i] > s[j]}

\* ScanExistingChunks, sort.Strings: the (one) ordered listing of a set of IDs.
SortedList(ids) ==
    {s \in [1..Cardinality(ids) -> ids] : \A i, j \in 1..Cardinality(ids) : i < j => s[i] < s[j]}

\* recoverExistingChunks: what is queued before inputChannel is full.
Recovered(list) == SubSeq(list, 1, IF Len(list) < QueueCap THEN Len(list) ELSE QueueCap)

\* Total size of the files of some chunks, as found by StatFileAt.
SizeOf(ids) ==
    Cardinality({i \in ids : disk[i] \in {"part", "full"}})
      + Cardinality({i \in ids : disk[i] = "full"})

\* recoverExistingChunks, with OnChunkInputRecovered; a failed stat leaves out the size, and so
\* does a file that is not listed or not queued.
RecoverExistingChunks(queued) ==
    /\ inputChannel' = [k \in 1..Len(queued) |-> FileChunk(queued[k])]
    /\ pendingChunks' = Len(queued)
    /\ persistentChunks' = Len(queued)
    /\ \E stated \in (IF "stat" \in Faults THEN SUBSET ToSet(queued) ELSE {ToSet(queued)}) :
          /\ persistentChunkBytes' = SizeOf(stated)
          /\ uncountedBytes' = SizeOf(ChunkID) - SizeOf(stated)
    /\ queuedTransient' = 0
    /\ queuedPersistent' = Len(queued)

\* newBufferer, Start and RegisterNewConsumer, as Output pipelines are launched.
Start ==
    /\ destroyPC = "down"
    /\ runs < MaxRuns
    /\ runs' = runs + 1
    /\ destroyPC' = "up"
    /\ hasDir' \in (IF "dir" \in Faults THEN BOOLEAN ELSE {TRUE})
    /\ \E found \in {ScanResult(hasDir')} \cup (IF "scan" \in Faults THEN {{}} ELSE {}) :
       \E list \in SortedList(found) : RecoverExistingChunks(Recovered(list))
    /\ feederPC' = "recv"
    /\ outputState' = "open"
    /\ consumerPC' = "running"
    /\ UNCHANGED <<acceptVars, feederChunk, loadedData, lastInputChunk, outputChannel,
                   held, leaving, disk, consumed, dropped, lost, leftover, shelved, kept,
                   lastReceived>>

-----------------------------------------------------------------------------
(* bufferer.Accept *)

\* Accept up to the decision where to keep the chunk: NumOutput is read here and
\* may be out of date by the time the chunk is queued.
AcceptBegin ==
    /\ destroyPC = "up"
    /\ accepting = NoChunk
    /\ nextID \in ChunkID
    /\ LET c == NewChunk(nextID) IN
       /\ nextID' = nextID + 1
       /\ \/ /\ Len(outputChannel) < MemoryCap \div 2
             /\ pendingChunks' = pendingChunks + 1
             /\ accepting' = c
             /\ acceptPC' = "send"
             /\ UNCHANGED <<diskGauges, dropped>>
          \/ /\ Len(outputChannel) >= MemoryCap \div 2
             /\ ~CannotUnload(c)
             /\ pendingChunks' = pendingChunks + 1
             /\ accepting' = c
             /\ acceptPC' = "write"
             /\ UNCHANGED <<diskGauges, dropped>>
          \/ /\ Len(outputChannel) >= MemoryCap \div 2
             /\ CannotUnload(c)
             \* OnChunkInput, then UnloadOrDropChunk fails: the gauge goes up and down
             /\ dropped' = dropped \cup {c.id}
             /\ UNCHANGED <<pendingChunks, diskGauges, accepting, acceptPC>>
    /\ UNCHANGED <<destroyPC, inputChannel, feederVars, outputChannel, outputState, consumerVars,
                   hasDir, disk, queueGauges, runs, consumed, lost, runHistory>>

\* Accept, the write of UnloadOrDropChunk.
AcceptWrite ==
    /\ acceptPC = "write"
    /\ \/ /\ WriteChunkFile(accepting)
          /\ accepting' = Unloaded(accepting)
          /\ acceptPC' = "send"
          /\ UNCHANGED <<pendingChunks, dropped>>
       \/ /\ WriteChunkFileFails(accepting)
          /\ pendingChunks' = pendingChunks - 1
          /\ dropped' = dropped \cup {accepting.id}
          /\ accepting' = NoChunk
          /\ acceptPC' = "idle"
    /\ UNCHANGED <<nextID, destroyPC, inputChannel, feederVars, outputChannel, outputState,
                   consumerVars, hasDir, queueGauges, runs, consumed, lost, runHistory>>

\* Variant: the chunk is queued whether or not there is room.
AcceptSend_Unbounded ==
    /\ acceptPC = "send"
    /\ accepting' = NoChunk
    /\ acceptPC' = "idle"
    /\ inputChannel' = Append(inputChannel, accepting)
    /\ queuedTransient' = queuedTransient + (IF accepting.saved THEN 0 ELSE 1)
    /\ queuedPersistent' = queuedPersistent + (IF accepting.saved THEN 1 ELSE 0)
    /\ UNCHANGED <<pendingChunks, diskGauges, dropped, nextID, destroyPC, feederVars,
                   outputChannel, outputState, consumerVars, hasDir, disk, runs, consumed, lost,
                   runHistory>>

\* Accept, the non-blocking send: queue the chunk, or drop it when the queue is full.
AcceptSend ==
    /\ acceptPC = "send"
    /\ accepting' = NoChunk
    /\ acceptPC' = "idle"
    /\ \/ /\ Len(inputChannel) < QueueCap
          /\ inputChannel' = Append(inputChannel, accepting)
          /\ IF accepting.data # "nil"
               THEN queuedTransient' = queuedTransient + 1 /\ UNCHANGED queuedPersistent
               ELSE queuedPersistent' = queuedPersistent + 1 /\ UNCHANGED queuedTransient
          /\ UNCHANGED <<pendingChunks, diskGauges, dropped>>
       \/ /\ Len(inputChannel) >= QueueCap
          /\ OnChunkDropped(accepting)
          /\ UNCHANGED <<inputChannel, queueGauges>>
    /\ UNCHANGED <<nextID, destroyPC, feederVars, outputChannel, outputState, consumerVars,
                   hasDir, disk, runs, consumed, lost, runHistory>>

-----------------------------------------------------------------------------
(* bufferer.Destroy: called once the pipeline worker has stopped, so never inside Accept *)

destroyUnchanged == <<acceptVars, inputChannel, feederVars, outputChannel, outputState,
                      consumerVars, hasDir, disk, pendingChunks, diskGauges, queueGauges, runs,
                      consumed, dropped, lost, runHistory>>

DestroyBegin ==
    /\ destroyPC = "up"
    /\ accepting = NoChunk
    /\ destroyPC' = IF ShouldWaitPendingChunks THEN "wait" ELSE "close"
    /\ UNCHANGED destroyUnchanged

\* Variant: Destroy does not wait for pending chunks.
WaitPendingChunks_NoWait ==
    /\ destroyPC = "wait"
    /\ destroyPC' = "close"
    /\ UNCHANGED destroyUnchanged

\* chunkManager.WaitPendingChunks: until the gauge is zero or BufferShutDownTimeout.
WaitPendingChunks ==
    /\ destroyPC = "wait"
    /\ pendingChunks = 0 \/ "timeout" \in Faults
    /\ destroyPC' = "close"
    /\ UNCHANGED destroyUnchanged

\* close(inputChannel)
DestroyClose ==
    /\ destroyPC = "close"
    /\ destroyPC' = "signal"
    /\ UNCHANGED destroyUnchanged

\* inputClosed.Signal()
DestroySignal ==
    /\ destroyPC = "signal"
    /\ destroyPC' = "waiting"
    /\ UNCHANGED destroyUnchanged

\* feeder.Stopped().Wait; a wait that times out ends the process early: see Crash.
DestroyEnd ==
    /\ destroyPC = "waiting"
    /\ feederPC = "stopped"
    /\ destroyPC' = "done"
    /\ UNCHANGED destroyUnchanged

-----------------------------------------------------------------------------
(* outputFeeder.Run: the main loop *)

\* Variant: the last queued chunk is not received.
FeederReceive_LeavesOne ==
    /\ feederPC = "recv"
    /\ Len(inputChannel) > 1
    /\ feederChunk' = Head(inputChannel)
    /\ inputChannel' = Tail(inputChannel)
    /\ feederPC' = "load"
    /\ UNCHANGED <<acceptVars, destroyPC, loadedData, lastInputChunk, outputChannel, outputState,
                   consumerVars, hasDir, disk, pendingChunks, diskGauges, queueGauges, runs,
                   consumed, dropped, lost, runHistory>>

\* Receive from inputChannel, and take the chunk off the queue gauges.
FeederReceive ==
    /\ feederPC = "recv"
    /\ inputChannel # <<>>
    /\ feederChunk' = Head(inputChannel)
    /\ inputChannel' = Tail(inputChannel)
    /\ IF Head(inputChannel).data # "nil"
         THEN queuedTransient' = queuedTransient - 1 /\ UNCHANGED queuedPersistent
         ELSE queuedPersistent' = queuedPersistent - 1 /\ UNCHANGED queuedTransient
    /\ feederPC' = "load"
    /\ UNCHANGED <<acceptVars, destroyPC, loadedData, lastInputChunk, outputChannel, outputState,
                   consumerVars, hasDir, disk, pendingChunks, diskGauges, runs, consumed, dropped,
                   lost, runHistory>>

\* Variant: Run saves what is left before it closes and signals.
FeederInputEnded_SavesFirst ==
    /\ feederPC = "recv"
    /\ inputChannel = <<>>
    /\ InputChannelClosed
    /\ feederPC' = "save"
    /\ UNCHANGED <<acceptVars, destroyPC, inputChannel, feederChunk, loadedData, lastInputChunk,
                   outputChannel, outputState, consumerVars, hasDir, disk, pendingChunks,
                   diskGauges, queueGauges, runs, consumed, dropped, lost, runHistory>>

\* The main loop ends because inputChannel is closed and empty.
FeederInputEnded ==
    /\ feederPC = "recv"
    /\ inputChannel = <<>>
    /\ InputChannelClosed
    /\ feederPC' = "close"
    /\ UNCHANGED <<acceptVars, destroyPC, inputChannel, feederChunk, loadedData, lastInputChunk,
                   outputChannel, outputState, consumerVars, hasDir, disk, pendingChunks,
                   diskGauges, queueGauges, runs, consumed, dropped, lost, runHistory>>

\* What LoadChunk may yield: the content at hand, the file's, or an error ("none").
LoadResults(c) ==
    IF c.data # "nil" THEN {c.data}
    ELSE IF ~c.saved \/ ~hasDir THEN {"none"}
    ELSE {disk[c.id]} \cup (IF "read" \in Faults THEN {"none"} ELSE {})

\* What loadToOutput does with the result: drop the chunk, report it as corrupted, or go on.
AfterLoad(d) ==
    \/ /\ d = "none"
       /\ OnChunkDropped(feederChunk)
       /\ feederPC' = "recv"
       /\ feederChunk' = NoChunk
       /\ UNCHANGED <<loadedData, disk, kept>>
    \/ /\ d = "empty"
       /\ RemoveChunk(WithData(feederChunk, d))
       /\ pendingChunks' = pendingChunks - 1
       /\ dropped' = dropped \cup {feederChunk.id}
       /\ feederPC' = "recv"
       /\ feederChunk' = NoChunk
       /\ UNCHANGED loadedData
    \/ /\ d \in {"part", "full"}
       /\ loadedData' = d
       /\ feederPC' = "push"
       /\ UNCHANGED <<feederChunk, disk, pendingChunks, diskGauges, dropped, kept>>

\* loadToOutput up to the select: LoadOrDropChunk, then OnChunkCorrupted for empty data.
FeederLoad ==
    /\ feederPC = "load"
    /\ \E d \in LoadResults(feederChunk) : AfterLoad(d)
    /\ UNCHANGED <<acceptVars, destroyPC, inputChannel, lastInputChunk, outputChannel, outputState,
                   consumerVars, hasDir, queueGauges, runs, consumed, lost, leftover, shelved,
                   lastReceived, uncountedBytes>>

\* Variant: the file is deleted as soon as its content is handed over.
FeederPush_DeletesFile ==
    /\ feederPC = "push"
    /\ Len(outputChannel) < MemoryCap
    /\ outputChannel' = Append(outputChannel, WithData(feederChunk, loadedData))
    /\ feederPC' = "recv"
    /\ feederChunk' = NoChunk
    /\ loadedData' = "nil"
    /\ disk' = [disk EXCEPT ![feederChunk.id] = "none"]
    /\ UNCHANGED <<acceptVars, destroyPC, inputChannel, lastInputChunk, outputState, consumerVars,
                   hasDir, pendingChunks, diskGauges, queueGauges, runs, consumed, dropped, lost,
                   runHistory>>

\* loadToOutput, the select on outputChannel; Go picks either case when both are ready.
FeederPush ==
    /\ feederPC = "push"
    /\ Len(outputChannel) < MemoryCap
    /\ outputChannel' = Append(outputChannel, WithData(feederChunk, loadedData))
    /\ feederPC' = "recv"
    /\ feederChunk' = NoChunk
    /\ loadedData' = "nil"
    /\ UNCHANGED <<acceptVars, destroyPC, inputChannel, lastInputChunk, outputState, consumerVars,
                   hasDir, disk, pendingChunks, diskGauges, queueGauges, runs, consumed, dropped,
                   lost, runHistory>>

\* Variant: the chunk that could not be output is forgotten.
FeederAbort_ForgetsChunk ==
    /\ feederPC = "push"
    /\ InputClosedSignaled
    /\ feederPC' = "close"
    /\ feederChunk' = NoChunk
    /\ loadedData' = "nil"
    /\ UNCHANGED <<acceptVars, destroyPC, inputChannel, lastInputChunk, outputChannel, outputState,
                   consumerVars, hasDir, disk, pendingChunks, diskGauges, queueGauges, runs,
                   consumed, dropped, lost, runHistory>>

\* Variant: a chunk waiting for room in outputChannel does not see inputClosed.
FeederAbort_NeverAborts == FeederPush

\* loadToOutput, the select on inputClosed: Run keeps its own, unloaded copy of the chunk.
FeederAbort ==
    /\ feederPC = "push"
    /\ InputClosedSignaled
    /\ lastInputChunk' = feederChunk
    /\ feederPC' = "close"
    /\ feederChunk' = NoChunk
    /\ loadedData' = "nil"
    /\ UNCHANGED <<acceptVars, destroyPC, inputChannel, outputChannel, outputState, consumerVars,
                   hasDir, disk, pendingChunks, diskGauges, queueGauges, runs, consumed, dropped,
                   lost, runHistory>>

-----------------------------------------------------------------------------
(* outputFeeder.Run: the clean-up *)

feederStepUnchanged == <<acceptVars, destroyPC, inputChannel, feederChunk, loadedData,
                         lastInputChunk, outputChannel, consumerVars, hasDir, disk, pendingChunks,
                         diskGauges, queueGauges, runs, consumed, dropped, lost, runHistory>>

\* close(outputChannel)
FeederCloseOutput ==
    /\ feederPC = "close"
    /\ outputState' = "closed"
    /\ feederPC' = "signal"
    /\ UNCHANGED feederStepUnchanged

\* outputClosed.Signal()
FeederSignalOutput ==
    /\ feederPC = "signal"
    /\ outputState' = "signaled"
    /\ feederPC' = "save"
    /\ UNCHANGED feederStepUnchanged

\* saveEverything: the next chunk is from inputChannel, then lastInputChunk, then
\* outputChannel, where the consumer may still be receiving.
SaveNext(c) ==
    \/ /\ inputChannel # <<>>
       /\ c = Head(inputChannel)
       /\ inputChannel' = Tail(inputChannel)
       /\ UNCHANGED <<lastInputChunk, outputChannel>>
    \/ /\ inputChannel = <<>>
       /\ lastInputChunk # NoChunk
       /\ c = lastInputChunk
       /\ lastInputChunk' = NoChunk
       /\ UNCHANGED <<inputChannel, outputChannel>>
    \/ /\ inputChannel = <<>>
       /\ lastInputChunk = NoChunk
       /\ outputChannel # <<>>
       /\ c = Head(outputChannel)
       /\ outputChannel' = Tail(outputChannel)
       /\ UNCHANGED <<inputChannel, lastInputChunk>>

\* UnloadOrDropChunk up to its write.
BeginUnload(c) ==
    \/ /\ c.saved
       /\ shelved' = shelved \cup {c.id}
       /\ UNCHANGED <<feederPC, feederChunk, pendingChunks, diskGauges, dropped>>
    \/ /\ ~c.saved /\ CannotUnload(c)
       /\ OnChunkDropped(c)
       /\ UNCHANGED <<feederPC, feederChunk, shelved>>
    \/ /\ ~c.saved /\ ~CannotUnload(c)
       /\ feederChunk' = c
       /\ feederPC' = "write"
       /\ UNCHANGED <<pendingChunks, diskGauges, dropped, shelved>>

\* saveEverything, UnloadOrDropChunk of the next chunk up to its write.
FeederSave ==
    /\ feederPC = "save"
    /\ \E c \in Chunk : SaveNext(c) /\ BeginUnload(c)
    /\ UNCHANGED <<acceptVars, destroyPC, loadedData, outputState, consumerVars, hasDir, disk,
                   queueGauges, runs, consumed, lost, leftover, kept, lastReceived, uncountedBytes>>

\* saveEverything, the write of UnloadOrDropChunk.
FeederSaveWrite ==
    /\ feederPC = "write"
    /\ \/ /\ WriteChunkFile(feederChunk)
          /\ shelved' = shelved \cup {feederChunk.id}
          /\ UNCHANGED <<pendingChunks, dropped>>
       \/ /\ WriteChunkFileFails(feederChunk)
          /\ pendingChunks' = pendingChunks - 1
          /\ dropped' = dropped \cup {feederChunk.id}
          /\ UNCHANGED shelved
    /\ feederChunk' = NoChunk
    /\ feederPC' = "save"
    /\ UNCHANGED <<acceptVars, destroyPC, inputChannel, loadedData, lastInputChunk, outputChannel,
                   outputState, consumerVars, hasDir, queueGauges, runs, consumed, lost, leftover,
                   kept, lastReceived, uncountedBytes>>

\* Variant: the directory is closed without waiting for the consumer.
FeederStop_NoWait ==
    /\ feederPC = "save"
    /\ inputChannel = <<>> /\ lastInputChunk = NoChunk /\ outputChannel = <<>>
    /\ feederPC' = "stopped"
    /\ outputState' = outputState
    /\ UNCHANGED feederStepUnchanged

\* saveEverything is over; consumerCounter.Wait, chunkMan.Close, stopped.Signal.
FeederStop ==
    /\ feederPC = "save"
    /\ inputChannel = <<>> /\ lastInputChunk = NoChunk /\ outputChannel = <<>>
    /\ consumerPC = "finished"
    /\ feederPC' = "stopped"
    /\ outputState' = outputState
    /\ UNCHANGED feederStepUnchanged

-----------------------------------------------------------------------------
(* The consumer, by the contract of base.ChunkConsumerArgs *)

\* Receive from InputChannel; chunks still buffered in it are received after its closure too.
ConsumerReceive ==
    /\ consumerPC = "running"
    /\ outputChannel # <<>>
    /\ held' = held \cup {Head(outputChannel)}
    /\ outputChannel' = Tail(outputChannel)
    /\ lastReceived' = Head(outputChannel).id
    /\ UNCHANGED <<acceptVars, destroyPC, inputChannel, feederVars, outputState, leaving,
                   consumerPC, hasDir, disk, pendingChunks, diskGauges, queueGauges, runs, consumed,
                   dropped, lost, leftover, shelved, kept, uncountedBytes>>

\* chunkManager.OnChunkConsumed: acknowledgements need not follow the order of sending.
OnChunkConsumed(c) ==
    /\ consumerPC = "running"
    /\ c \in held
    /\ held' = held \ {c}
    /\ RemoveChunk(c)
    /\ pendingChunks' = pendingChunks - 1
    /\ consumed' = consumed \cup {c.id}
    /\ UNCHANGED <<acceptVars, destroyPC, inputChannel, feederVars, outputChannel, outputState,
                   leaving, consumerPC, hasDir, queueGauges, runs, dropped, lost, leftover, shelved,
                   lastReceived, uncountedBytes>>

\* The consumer ends on the InputClosed signal or at the end of InputChannel.
ConsumerLeave ==
    /\ consumerPC = "running"
    /\ \/ outputState = "signaled"
       \/ outputState = "closed" /\ outputChannel = <<>>
    /\ consumerPC' = "leaving"
    /\ UNCHANGED <<acceptVars, destroyPC, inputChannel, feederVars, outputChannel, outputState, held,
                   leaving, hasDir, disk, pendingChunks, diskGauges, queueGauges, runs, consumed,
                   dropped, lost, runHistory>>

\* OnChunkLeftover after UnloadChunk, whose result is not looked at.
CountLeftover(c, ok) ==
    /\ pendingChunks' = pendingChunks - 1
    /\ leftover' = leftover \cup {[c EXCEPT !.saved = ok]}
    /\ lost' = IF ok THEN lost ELSE lost \cup {c.id}

\* chunkManager.OnChunkLeftover up to the write of UnloadChunk.
OnChunkLeftover(c) ==
    /\ consumerPC = "leaving"
    /\ leaving = NoChunk
    /\ c \in held
    /\ held' = held \ {c}
    /\ \/ /\ c.saved \/ CannotUnload(c)
          /\ CountLeftover(c, c.saved)
          /\ UNCHANGED leaving
       \/ /\ ~c.saved /\ ~CannotUnload(c)
          /\ leaving' = c
          /\ UNCHANGED <<pendingChunks, leftover, lost>>
    /\ UNCHANGED <<acceptVars, destroyPC, inputChannel, feederVars, outputChannel, outputState,
                   consumerPC, hasDir, disk, diskGauges, queueGauges, runs, consumed, dropped,
                   shelved, kept, lastReceived, uncountedBytes>>

\* chunkManager.OnChunkLeftover, the write of UnloadChunk.
LeftoverWrite ==
    /\ leaving # NoChunk
    /\ \/ WriteChunkFile(leaving) /\ CountLeftover(leaving, TRUE)
       \/ WriteChunkFileFails(leaving) /\ CountLeftover(leaving, FALSE)
    /\ leaving' = NoChunk
    /\ UNCHANGED <<acceptVars, destroyPC, inputChannel, feederVars, outputChannel, outputState, held,
                   consumerPC, hasDir, queueGauges, runs, consumed, dropped, shelved, kept,
                   lastReceived, uncountedBytes>>

\* OnFinished
ConsumerFinish ==
    /\ consumerPC = "leaving"
    /\ held = {} /\ leaving = NoChunk
    /\ consumerPC' = "finished"
    /\ UNCHANGED <<acceptVars, destroyPC, inputChannel, feederVars, outputChannel, outputState, held,
                   leaving, hasDir, disk, pendingChunks, diskGauges, queueGauges, runs, consumed,
                   dropped, lost, runHistory>>

-----------------------------------------------------------------------------
(* End of the process *)

\* Chunks the running process is responsible for.
InAgent ==
    (ToSet(inputChannel) \cup ToSet(outputChannel) \cup held
       \cup {accepting, feederChunk, lastInputChunk, leaving}) \ {NoChunk}

\* Chunks whose file is being written.
InWrite ==
    ((IF acceptPC = "write" THEN {accepting} ELSE {})
       \cup (IF feederPC = "write" THEN {feederChunk} ELSE {})
       \cup {leaving}) \ {NoChunk}

\* All memory of the process is gone.
MemoryGone ==
    /\ destroyPC' = "down"
    /\ accepting' = NoChunk /\ acceptPC' = "idle"
    /\ inputChannel' = <<>> /\ outputChannel' = <<>> /\ outputState' = "open"
    /\ feederPC' = "recv" /\ feederChunk' = NoChunk
    /\ loadedData' = "nil" /\ lastInputChunk' = NoChunk
    /\ held' = {} /\ leaving' = NoChunk /\ consumerPC' = "running"
    /\ hasDir' = TRUE
    /\ pendingChunks' = 0 /\ persistentChunks' = 0 /\ persistentChunkBytes' = 0
    /\ queuedTransient' = 0 /\ queuedPersistent' = 0
    /\ leftover' = {} /\ shelved' = {} /\ undeleted' = {}
    /\ lastReceived' = 0 /\ uncountedBytes' = 0
    /\ UNCHANGED <<nextID, runs, consumed, dropped, undeletedEver>>

\* The process ends after Destroy.
Exit ==
    /\ destroyPC = "done"
    /\ MemoryGone
    /\ UNCHANGED <<disk, lost>>

\* The process is killed; files being written are left in any state.
Crash ==
    /\ MayCrash
    /\ destroyPC \notin {"down", "done"}
    /\ MemoryGone
    /\ \E written \in [{c.id : c \in InWrite} -> File] :
          disk' = [i \in ChunkID |->
                     IF i \in DOMAIN written /\ written[i] # "none" THEN written[i] ELSE disk[i]]
    /\ lost' = lost \cup {c.id : c \in {x \in InAgent : ~x.saved}}

\* Nothing is left to run.
Terminated ==
    /\ destroyPC = "down"
    /\ runs = MaxRuns
    /\ UNCHANGED vars

-----------------------------------------------------------------------------
Init ==
    /\ nextID = 1 /\ accepting = NoChunk /\ acceptPC = "idle"
    /\ destroyPC = "down"
    /\ inputChannel = <<>> /\ outputChannel = <<>> /\ outputState = "open"
    /\ feederPC = "recv" /\ feederChunk = NoChunk
    /\ loadedData = "nil" /\ lastInputChunk = NoChunk
    /\ held = {} /\ leaving = NoChunk /\ consumerPC = "running"
    /\ hasDir = TRUE
    /\ disk = [i \in ChunkID |-> "none"]
    /\ pendingChunks = 0 /\ persistentChunks = 0 /\ persistentChunkBytes = 0
    /\ queuedTransient = 0 /\ queuedPersistent = 0
    /\ runs = 0
    /\ consumed = {} /\ dropped = {} /\ lost = {}
    /\ leftover = {} /\ shelved = {} /\ undeleted = {} /\ undeletedEver = {}
    /\ lastReceived = 0 /\ uncountedBytes = 0

Pipeline == AcceptBegin \/ AcceptWrite \/ AcceptSend
Destroy  == DestroyBegin \/ WaitPendingChunks \/ DestroyClose \/ DestroySignal \/ DestroyEnd
Feeder   == \/ FeederReceive \/ FeederInputEnded \/ FeederLoad \/ FeederPush \/ FeederAbort
            \/ FeederCloseOutput \/ FeederSignalOutput
            \/ FeederSave \/ FeederSaveWrite \/ FeederStop
Consumer == \/ ConsumerReceive \/ ConsumerLeave \/ LeftoverWrite \/ ConsumerFinish
            \/ \E c \in held : OnChunkConsumed(c) \/ OnChunkLeftover(c)

Next == Start \/ Pipeline \/ Destroy \/ Feeder \/ Consumer \/ Exit \/ Crash \/ Terminated

Spec == Init /\ [][Next]_vars

-----------------------------------------------------------------------------
(* Fairness *)

\* Goroutines that can run do run: the feeder, Accept, Destroy, and the consumer once it is told
\* to end.  Nothing is assumed of upstream: the consumer may never receive or consume.
ShutdownFairness ==
    /\ WF_vars(Feeder)
    /\ WF_vars(AcceptWrite \/ AcceptSend)
    /\ WF_vars(WaitPendingChunks \/ DestroyClose \/ DestroySignal \/ DestroyEnd)
    /\ WF_vars(ConsumerLeave)
    /\ WF_vars(LeftoverWrite \/ ConsumerFinish \/ \E c \in held : OnChunkLeftover(c))

FairSpec == Spec /\ ShutdownFairness

\* Upstream works: the consumer keeps receiving, and every chunk it holds is acknowledged.
UpstreamWorks ==
    /\ WF_vars(ConsumerReceive)
    /\ \A i \in ChunkID : WF_vars(\E c \in held : c.id = i /\ OnChunkConsumed(c))

-----------------------------------------------------------------------------
(* Properties *)

IDs(chunks) == {c.id : c \in chunks}

\* Every variable has its type; neither channel ever exceeds its capacity.
TypeOK ==
    /\ nextID \in 1..(MaxChunks + 1)
    /\ accepting \in Chunk \cup {NoChunk}
    /\ acceptPC \in {"idle", "write", "send"}
    /\ destroyPC \in {"down", "up", "wait", "close", "signal", "waiting", "done"}
    /\ inputChannel \in Seq(Chunk) /\ Len(inputChannel) <= QueueCap
    /\ feederPC \in {"recv", "load", "push", "close", "signal", "save", "write", "stopped"}
    /\ feederChunk \in Chunk \cup {NoChunk}
    /\ loadedData \in Data
    /\ lastInputChunk \in Chunk \cup {NoChunk}
    /\ outputChannel \in Seq(Chunk) /\ Len(outputChannel) <= MemoryCap
    /\ outputState \in {"open", "closed", "signaled"}
    /\ held \subseteq Chunk
    /\ leaving \in Chunk \cup {NoChunk}
    /\ consumerPC \in {"running", "leaving", "finished"}
    /\ hasDir \in BOOLEAN
    /\ disk \in [ChunkID -> File]
    /\ pendingChunks \in Int /\ persistentChunks \in Int /\ persistentChunkBytes \in Int
    /\ queuedTransient \in Int /\ queuedPersistent \in Int
    /\ runs \in 0..MaxRuns
    /\ consumed \subseteq ChunkID /\ dropped \subseteq ChunkID /\ lost \subseteq ChunkID
    /\ leftover \subseteq Chunk
    /\ shelved \subseteq ChunkID /\ undeleted \subseteq undeletedEver /\ undeletedEver \subseteq ChunkID
    /\ lastReceived \in ChunkID \cup {0} /\ uncountedBytes \in Int

\* No chunk disappears without a trace: whatever Accept was given has been consumed, is
\* counted as dropped, was in memory when the process died, is still handled by the agent,
\* or has a file to be recovered from.  The only unaccounted loss is a leftover that
\* OnChunkLeftover could not write (see LeftoversAreSaved).  And a chunk marked as saved has its
\* file: LoadChunk, run much later by the feeder, and the next start depend on it once the data
\* is gone from memory.
EveryChunkAccountedFor ==
    /\ \A i \in 1..(nextID - 1) :
          i \in consumed \cup dropped \cup lost \cup IDs(InAgent) \/ disk[i] # "none"
    /\ \A c \in InAgent : c.saved => disk[c.id] # "none"
    /\ \A i \in shelved : disk[i] # "none"
    /\ \A c \in leftover : c.saved => disk[c.id] # "none"

\* The IDs on their way, from the oldest in outputChannel to the one inside Accept.
QueuedIDs ==
    [i \in 1..Len(outputChannel) |-> outputChannel[i].id]
      \o (IF feederChunk # NoChunk /\ feederPC # "write" THEN <<feederChunk.id>> ELSE <<>>)
      \o (IF lastInputChunk # NoChunk THEN <<lastInputChunk.id>> ELSE <<>>)
      \o [i \in 1..Len(inputChannel) |-> inputChannel[i].id]
      \o (IF accepting # NoChunk THEN <<accepting.id>> ELSE <<>>)

\* Within a run chunks reach the consumer in the order they were produced and none of them twice,
\* across the two channels, chunk unloading and the recovery of an earlier run's files: whatever is
\* on its way comes after all that was received.  And no chunk reported as consumed comes back,
\* from the directory or otherwise, in this run or the next, unless its file could not be deleted.
InOrderOnce ==
    /\ \A i, j \in 1..Len(QueuedIDs) : i < j => QueuedIDs[i] < QueuedIDs[j]
    /\ \A i \in 1..Len(QueuedIDs) : lastReceived < QueuedIDs[i]
    /\ \A c, d \in held : c.id = d.id => c = d
    /\ IDs(InAgent) \cap consumed \subseteq undeletedEver

\* pending_chunks is what the agent holds plus what saveEverything put away: the shutdown
\* with sendAllAtEnd waits for it to be zero.  While the feeder is in its main loop, the
\* queued_chunks gauges describe inputChannel.  persistent_chunks counts the saved chunks known to
\* this run: in the agent, put away, or kept by a failed unlink.
GaugesExact ==
    /\ pendingChunks = Cardinality(InAgent) + Cardinality(shelved)
    /\ feederPC \in {"recv", "load", "push"} =>
          /\ queuedTransient = Cardinality({i \in 1..Len(inputChannel) : ~inputChannel[i].saved})
          /\ queuedPersistent = Cardinality({i \in 1..Len(inputChannel) : inputChannel[i].saved})
    /\ persistentChunks = Cardinality({c \in InAgent : c.saved}) + Cardinality(shelved)
                            + Cardinality({c \in leftover : c.saved}) + Cardinality(undeleted)

\* A file disappears only because its chunk was consumed, or because it was empty.
FilesOutliveTheirUse ==
    [][\A i \in ChunkID :
          disk[i] # "none" /\ disk'[i] = "none" => i \in consumed' \/ disk[i] = "empty"]_vars

\* When the feeder signals stopped it has closed the directory: by then the consumer has
\* finished and no chunk is left anywhere in memory.
StoppedMeansDrained ==
    feederPC = "stopped" => consumerPC = "finished" /\ InAgent = {}

\* Two savers (Accept or the feeder, and the consumer's leftovers) may both pass the space
\* check before either has counted its file, never more: no step of a run, and no crash in the
\* middle of its writes, takes the bytes in the directory further than one chunk above the limit,
\* apart from the bytes of an earlier run that the start did not count (a file that was not
\* listed, not queued, or whose stat failed).
SpaceOvershootBounded ==
    [][runs' = runs /\ SizeOf(ChunkID)' > SizeOf(ChunkID) =>
          SizeOf(ChunkID)' <= MaxTotalBytes + FullLen + uncountedBytes]_vars

\* With sendAllAtEnd (or without a directory) and no timeout, Destroy returns with every
\* chunk of this run consumed or dropped: nothing was left over or put away.
AllSentAtEnd ==
    destroyPC = "done" /\ ShouldWaitPendingChunks /\ "timeout" \notin Faults =>
        leftover = {} /\ shelved = {}

\* The contract of ChunkConsumerArgs, as seen from the buffer.
Contract == INSTANCE ChunkConsumer WITH
    InputCap   <- MemoryCap,
    MayAbandon <- FALSE,
    MayReadLate <- TRUE,
    input      <- [i \in 1..Len(outputChannel) |-> outputChannel[i].id],
    inputState <- outputState,
    held       <- IDs((held \cup {leaving}) \ {NoChunk}),
    left       <- IDs(leftover),
    abandoned  <- {},
    finished   <- (consumerPC = "finished")

\* While the process runs, the buffer and its consumer deal with each other as the contract says:
\* the same contract that every implementation of the consumer is checked against.
KeepsConsumerContract ==
    [][destroyPC # "down" /\ destroyPC' # "down" => [Contract!Next]_(Contract!vars)]_vars

\* Destroy always comes to its end, whatever upstream does.
ShutdownCompletes ==
    destroyPC = "close" ~> destroyPC \in {"done", "down"}

\* As long as the agent is up and upstream works, every chunk is consumed or counted as dropped.
EveryChunkDelivered ==
    UpstreamWorks =>
        \A i \in ChunkID : nextID > i ~> i \in consumed \cup dropped \/ destroyPC # "up"

\* leftover_chunks_total: "Numbers of output chunks left for next start".
LeftoversAreSaved ==
    \A c \in leftover : c.saved

=============================================================================
