--------------------------- MODULE HybridBufferProofs ---------------------------
(***************************************************************************)
(* Proofs about HybridBuffer, for every number of chunks, every capacity    *)
(* and every set of faults.                                                 *)
(***************************************************************************)
EXTENDS HybridBuffer, FiniteSetTheorems, SequenceTheorems, TLAPS

-----------------------------------------------------------------------------
(* The inductive invariant *)

\* A chunk variable of a goroutine is set exactly while the goroutine works on a chunk.
ChunkVariables ==
    /\ acceptPC = "idle" <=> accepting = NoChunk
    /\ feederPC \in {"load", "push", "write"} <=> feederChunk # NoChunk

\* Data that is about to be written, or sent on, is there.
WritersHaveData ==
    /\ acceptPC = "write" => accepting.data # "nil"
    /\ feederPC = "write" => feederChunk.data # "nil"
    /\ leaving # NoChunk => leaving.data # "nil"
    /\ feederPC = "push" => loadedData # "nil"

\* In the first half of the buffer a chunk is either in memory and complete, or on disk.
Unloadable(c) == c # NoChunk => IF c.saved THEN c.data = "nil" ELSE c.data = "full"

FirstHalf ==
    /\ Unloadable(accepting)
    /\ \A i \in 1..Len(inputChannel) : Unloadable(inputChannel[i])
    /\ feederPC \in {"load", "push"} => Unloadable(feederChunk)

\* The order of shutdown: Destroy, then the feeder, then the consumer.
ShutdownOrder ==
    /\ destroyPC # "up" => accepting = NoChunk
    /\ feederPC \in {"close", "signal", "save", "write", "stopped"} => InputChannelClosed
    /\ lastInputChunk # NoChunk => feederPC \in {"close", "signal", "save", "write"}
    /\ consumerPC = "finished" => held = {} /\ leaving = NoChunk
    /\ leaving # NoChunk => consumerPC = "leaving"
    /\ feederPC = "stopped" =>
          /\ consumerPC = "finished"
          /\ inputChannel = <<>> /\ outputChannel = <<>> /\ lastInputChunk = NoChunk
    /\ destroyPC = "down" =>
          /\ feederPC = "recv" /\ consumerPC = "running"
          /\ inputChannel = <<>> /\ outputChannel = <<>> /\ lastInputChunk = NoChunk
          /\ held = {} /\ outputState = "open"

IInv == TypeOK /\ ChunkVariables /\ WritersHaveData /\ FirstHalf /\ ShutdownOrder

-----------------------------------------------------------------------------
(* Chunks, files and listings *)

\* A variable that holds no chunk cannot be mistaken for one that does.
LEMMA NoChunkIsNoChunk == NoChunk \notin Chunk
  BY DEF NoChunk, Chunk, ChunkID

\* What the pipeline, a scan, UnloadChunk and LoadChunk make of a chunk is a chunk.
LEMMA ChunkConstructors ==
    /\ \A i \in ChunkID : NewChunk(i) \in Chunk /\ FileChunk(i) \in Chunk
    /\ \A c \in Chunk : Unloaded(c) \in Chunk
    /\ \A c \in Chunk, d \in Data : WithData(c, d) \in Chunk
  BY DEF NewChunk, FileChunk, Unloaded, WithData, Chunk, Data

\* len(chunk.Data) is a number.
LEMMA DataLenIsInt == \A d : DataLen(d) \in Int
  BY DEF DataLen

\* There are finitely many chunk IDs, hence finitely many files.
LEMMA ChunkIDsAreFinite ==
    \A S \in SUBSET ChunkID : IsFiniteSet(S) /\ Cardinality(S) \in Nat
<1>1. MaxChunks \in Int
  BY BoundsAssumption
<1>2. IsFiniteSet(ChunkID)
  BY <1>1, FS_Interval DEF ChunkID
<1> QED
  BY <1>2, FS_Subset, FS_CardinalityType

\* The number of bytes of a set of files is a number, because there are finitely many IDs.
LEMMA SizeIsInt ==
    ASSUME NEW ids \in SUBSET ChunkID
    PROVE  SizeOf(ids) \in Int
<1> DEFINE A == {i \in ids : disk[i] \in {"part", "full"}}
           B == {i \in ids : disk[i] = "full"}
<1>3. A \in SUBSET ChunkID /\ B \in SUBSET ChunkID
  OBVIOUS
<1>4. Cardinality(A) \in Nat /\ Cardinality(B) \in Nat
  BY <1>3, ChunkIDsAreFinite
<1> QED
  BY <1>4 DEF SizeOf

\* What recoverExistingChunks queues is a sequence of IDs, no longer than inputChannel.
LEMMA RecoveredFits ==
    ASSUME NEW ids \in SUBSET ChunkID, NEW list \in SortedList(ids)
    PROVE  /\ Recovered(list) \in Seq(ChunkID)
           /\ Len(Recovered(list)) <= QueueCap
<1>2. Cardinality(ids) \in Nat
  BY ChunkIDsAreFinite
<1>3. list \in Seq(ChunkID) /\ Len(list) = Cardinality(ids)
  BY <1>2 DEF SortedList
<1> QED
  BY <1>2, <1>3, BoundsAssumption DEF Recovered

-----------------------------------------------------------------------------
(* Every step keeps the invariant *)

\* One step of a channel: what is received and what is queued are chunks.
LEMMA QueueSteps ==
    ASSUME NEW q \in Seq(Chunk)
    PROVE  /\ q # <<>> => /\ Head(q) \in Chunk /\ Head(q) = q[1] /\ 1 \in 1..Len(q)
                          /\ Tail(q) \in Seq(Chunk) /\ Len(Tail(q)) = Len(q) - 1
                          /\ \A i \in 1..Len(Tail(q)) : i + 1 \in 1..Len(q) /\ Tail(q)[i] = q[i + 1]
           /\ \A c \in Chunk :
                 /\ Append(q, c) \in Seq(Chunk) /\ Len(Append(q, c)) = Len(q) + 1
                 /\ \A i \in 1..Len(Append(q, c)) :
                       Append(q, c)[i] = IF i = Len(q) + 1 THEN c ELSE q[i]
           /\ Len(q) \in Nat
  OBVIOUS

\* The chunks the process is responsible for are chunks, with IDs of chunks.
LEMMA ChunksInAgent == TypeOK => \A c \in InAgent : c \in Chunk /\ c.id \in ChunkID
<1> SUFFICES ASSUME TypeOK PROVE \A c \in InAgent : c \in Chunk /\ c.id \in ChunkID
  OBVIOUS
<1>1. \A c \in Chunk : c.id \in ChunkID
  BY DEF Chunk
<1>2. ToSet(inputChannel) \subseteq Chunk /\ ToSet(outputChannel) \subseteq Chunk
  BY DEF TypeOK, ToSet
<1> QED
  BY <1>1, <1>2 DEF TypeOK, InAgent

\* A write, whether it succeeds or not, leaves a file content and a number of bytes.
LEMMA FileSteps ==
    ASSUME TypeOK, NEW c \in Chunk, c.id \in ChunkID, c.data \in File
    PROVE  /\ WriteChunkFile(c) => /\ disk' \in [ChunkID -> File]
                                   /\ persistentChunks' \in Int /\ persistentChunkBytes' \in Int
           /\ WriteChunkFileFails(c) => /\ disk' \in [ChunkID -> File]
                                        /\ UNCHANGED <<persistentChunks, persistentChunkBytes>>
  BY DataLenIsInt DEF TypeOK, WriteChunkFile, WriteChunkFileFails, File, diskGauges

\* One step per action: Start, the steps of Accept, Destroy, the feeder and the consumer, and
\* the end of the process each keep the inductive invariant.
LEMMA StepInvariant == IInv /\ [Next]_vars => IInv'
<1> SUFFICES ASSUME IInv, [Next]_vars PROVE IInv'
  OBVIOUS
<1> USE DEF acceptVars, feederVars, consumerVars, queueGauges, diskGauges, runHistory, kept
<1>1. CASE Start
  <2>1. PICK found \in SUBSET ChunkID :
            \E list \in SortedList(found) : RecoverExistingChunks(Recovered(list))
    BY <1>1 DEF Start, ScanResult
  <2>2. PICK list \in SortedList(found) : RecoverExistingChunks(Recovered(list))
    BY <2>1
  <2> DEFINE queued == Recovered(list)
  <2>3. queued \in Seq(ChunkID) /\ Len(queued) <= QueueCap /\ Len(queued) \in Nat
    BY RecoveredFits
  <2>4. \A k \in 1..Len(queued) : /\ FileChunk(queued[k]) \in Chunk
                                  /\ Unloadable(FileChunk(queued[k]))
    BY <2>3, ChunkConstructors DEF FileChunk, Unloadable
  <2> HIDE DEF queued
  <2>5. /\ inputChannel' \in Seq(Chunk) /\ Len(inputChannel') = Len(queued)
        /\ \A i \in 1..Len(inputChannel') : Unloadable(inputChannel'[i])
    <3>1. inputChannel' = [k \in 1..Len(queued) |-> FileChunk(queued[k])]
      BY <2>2 DEF RecoverExistingChunks, queued
    <3> QED
      BY <3>1, <2>3, <2>4
  <2>6. persistentChunkBytes' \in Int
    <3>1. ToSet(queued) \in SUBSET ChunkID
      BY <2>3 DEF ToSet
    <3>2. PICK stated \in SUBSET ToSet(queued) : persistentChunkBytes' = SizeOf(stated)
      BY <2>2 DEF RecoverExistingChunks, queued
    <3> QED
      BY <3>1, <3>2, SizeIsInt
  <2>7. /\ pendingChunks' = Len(queued) /\ persistentChunks' = Len(queued)
        /\ queuedTransient' = 0 /\ queuedPersistent' = Len(queued)
    BY <2>2 DEF RecoverExistingChunks, queued
  <2>8. /\ runs' \in 0..MaxRuns /\ hasDir' \in BOOLEAN
    <3>1. runs < MaxRuns /\ runs' = runs + 1
      BY <1>1 DEF Start
    <3>2. hasDir' \in BOOLEAN
      BY <1>1 DEF Start
    <3> QED
      BY <3>1, <3>2, BoundsAssumption DEF IInv, TypeOK
  <2>9. TypeOK'
    <3>1. /\ destroyPC' = "up" /\ feederPC' = "recv" /\ outputState' = "open" /\ consumerPC' = "running"
          /\ UNCHANGED <<acceptVars, feederChunk, loadedData, lastInputChunk, outputChannel,
                         held, leaving, disk, consumed, dropped, lost, leftover, shelved, kept,
                         lastReceived>>
      BY <1>1 DEF Start
    <3>2. uncountedBytes' \in Int
      <4>1. ToSet(queued) \in SUBSET ChunkID
        BY <2>3 DEF ToSet
      <4>2. PICK stated \in SUBSET ToSet(queued) : uncountedBytes' = SizeOf(ChunkID) - SizeOf(stated)
        BY <2>2 DEF RecoverExistingChunks, queued
      <4>3. SizeOf(ChunkID) \in Int /\ SizeOf(stated) \in Int
        BY <4>1, <4>2, SizeIsInt
      <4> QED
        BY <4>2, <4>3
    <3> QED
      BY <2>3, <2>5, <2>6, <2>7, <2>8, <3>1, <3>2 DEF IInv, TypeOK
  <2>10. (ChunkVariables /\ WritersHaveData /\ FirstHalf /\ ShutdownOrder)'
    BY <1>1, <2>5
    DEF Start, IInv, ChunkVariables, WritersHaveData, FirstHalf, Unloadable, ShutdownOrder,
        InputChannelClosed
  <2> QED
    BY <2>9, <2>10 DEF IInv
<1>2. CASE AcceptBegin
  <2> DEFINE c == NewChunk(nextID)
  <2>1. /\ nextID \in ChunkID /\ c \in Chunk /\ c.id = nextID /\ c.data = "full" /\ ~c.saved
    BY <1>2, ChunkConstructors DEF AcceptBegin, NewChunk
  <2>2. nextID + 1 \in 1..(MaxChunks + 1)
    BY <2>1, BoundsAssumption DEF ChunkID
  <2>3. TypeOK'
    <3>1. /\ nextID' \in 1..(MaxChunks + 1) /\ accepting' \in Chunk \cup {NoChunk}
          /\ acceptPC' \in {"idle", "write", "send"}
          /\ pendingChunks' \in Int /\ dropped' \subseteq ChunkID
          /\ UNCHANGED <<destroyPC, inputChannel, feederVars, outputChannel, outputState, consumerVars,
                         hasDir, disk, queueGauges, diskGauges, runs, consumed, lost, runHistory, kept>>
      <4>1. /\ nextID' = nextID + 1
            /\ accepting' \in {c, NoChunk}
            /\ pendingChunks' \in {pendingChunks, pendingChunks + 1}
            /\ dropped' \in {dropped, dropped \cup {c.id}}
            /\ acceptPC' \in {acceptPC, "write", "send"}
            /\ UNCHANGED diskGauges
        BY <1>2 DEF AcceptBegin
      <4> QED
        BY <1>2, <4>1, <2>1, <2>2 DEF AcceptBegin, IInv, TypeOK
    <3> QED
      BY <3>1 DEF IInv, TypeOK
  <2>4. (ChunkVariables /\ WritersHaveData /\ FirstHalf /\ ShutdownOrder)'
    BY <1>2, <2>1, NoChunkIsNoChunk
    DEF AcceptBegin, IInv, ChunkVariables, WritersHaveData, FirstHalf, Unloadable, ShutdownOrder,
        InputChannelClosed
  <2> QED
    BY <2>3, <2>4 DEF IInv
<1>3. CASE AcceptWrite
  <2>1. accepting \in Chunk /\ accepting.id \in ChunkID /\ accepting.data \in File
    BY <1>3, NoChunkIsNoChunk DEF AcceptWrite, IInv, TypeOK, ChunkVariables, WritersHaveData, Chunk, Data, File
  <2>2. /\ Unloaded(accepting) \in Chunk
        /\ Unloaded(accepting).saved /\ Unloaded(accepting).data = "nil"
    BY <2>1, ChunkConstructors DEF Unloaded, Chunk
  <2>3. TypeOK'
    BY <1>3, <2>1, <2>2, FileSteps, DataLenIsInt DEF AcceptWrite, IInv, TypeOK
  <2>4. (ChunkVariables /\ WritersHaveData /\ FirstHalf /\ ShutdownOrder)'
    BY <1>3, <2>1, <2>2, NoChunkIsNoChunk
    DEF AcceptWrite, IInv, ChunkVariables, WritersHaveData, FirstHalf, Unloadable, ShutdownOrder,
        InputChannelClosed
  <2> QED
    BY <2>3, <2>4 DEF IInv
<1>4. CASE AcceptSend
  <2>1. accepting \in Chunk /\ accepting.id \in ChunkID /\ Unloadable(accepting)
    BY <1>4, NoChunkIsNoChunk DEF AcceptSend, IInv, TypeOK, ChunkVariables, FirstHalf, Chunk
  <2>2. TypeOK'
    <3>1. inputChannel' \in Seq(Chunk) /\ Len(inputChannel') <= QueueCap
      <4>1. \/ UNCHANGED inputChannel
            \/ Len(inputChannel) < QueueCap /\ inputChannel' = Append(inputChannel, accepting)
        BY <1>4 DEF AcceptSend
      <4>2. inputChannel \in Seq(Chunk) /\ Len(inputChannel) <= QueueCap
        BY DEF IInv, TypeOK
      <4> QED
        BY <2>1, <4>1, <4>2, QueueSteps, BoundsAssumption
    <3>2. /\ pendingChunks' \in Int /\ persistentChunks' \in Int /\ persistentChunkBytes' \in Int
          /\ queuedTransient' \in Int /\ queuedPersistent' \in Int /\ dropped' \subseteq ChunkID
      <4>1. \/ /\ UNCHANGED <<pendingChunks, diskGauges, dropped>>
               /\ \/ queuedTransient' = queuedTransient + 1 /\ UNCHANGED queuedPersistent
                  \/ queuedPersistent' = queuedPersistent + 1 /\ UNCHANGED queuedTransient
            \/ /\ OnChunkDropped(accepting)
               /\ UNCHANGED queueGauges
        BY <1>4 DEF AcceptSend
      <4> QED
        BY <2>1, <4>1, DataLenIsInt DEF OnChunkDropped, IInv, TypeOK
    <3> QED
      BY <1>4, <3>1, <3>2 DEF AcceptSend, IInv, TypeOK
  <2>3. \A i \in 1..Len(inputChannel') : Unloadable(inputChannel'[i])
    <3>1. \/ UNCHANGED inputChannel
          \/ inputChannel' = Append(inputChannel, accepting)
      BY <1>4 DEF AcceptSend
    <3>2. inputChannel \in Seq(Chunk) /\ \A i \in 1..Len(inputChannel) : Unloadable(inputChannel[i])
      BY DEF IInv, TypeOK, FirstHalf
    <3>3. CASE UNCHANGED inputChannel
      BY <3>2, <3>3
    <3>4. CASE inputChannel' = Append(inputChannel, accepting)
      <4>1. \A i \in 1..Len(inputChannel') :
               inputChannel'[i] = IF i = Len(inputChannel) + 1 THEN accepting ELSE inputChannel[i]
        BY <2>1, <3>2, <3>4, QueueSteps
      <4>2. Len(inputChannel') = Len(inputChannel) + 1 /\ Len(inputChannel) \in Nat
        BY <2>1, <3>2, <3>4, QueueSteps
      <4> QED
        BY <2>1, <3>2, <4>1, <4>2
    <3> QED
      BY <3>1, <3>3, <3>4
  <2>4. (ChunkVariables /\ WritersHaveData /\ FirstHalf /\ ShutdownOrder)'
    BY <1>4, <2>1, <2>3, QueueSteps
    DEF AcceptSend, IInv, TypeOK, ChunkVariables, WritersHaveData, FirstHalf, Unloadable, ShutdownOrder,
        InputChannelClosed
  <2> QED
    BY <2>2, <2>4 DEF IInv
<1>5. CASE DestroyBegin
  BY <1>5
  DEF DestroyBegin, destroyUnchanged, IInv, TypeOK, ChunkVariables, WritersHaveData, FirstHalf, Unloadable, ShutdownOrder, InputChannelClosed, InputClosedSignaled
<1>6. CASE WaitPendingChunks
  BY <1>6
  DEF WaitPendingChunks, destroyUnchanged, IInv, TypeOK, ChunkVariables, WritersHaveData, FirstHalf, Unloadable, ShutdownOrder, InputChannelClosed, InputClosedSignaled
<1>7. CASE DestroyClose
  BY <1>7
  DEF DestroyClose, destroyUnchanged, IInv, TypeOK, ChunkVariables, WritersHaveData, FirstHalf, Unloadable, ShutdownOrder, InputChannelClosed, InputClosedSignaled
<1>8. CASE DestroySignal
  BY <1>8
  DEF DestroySignal, destroyUnchanged, IInv, TypeOK, ChunkVariables, WritersHaveData, FirstHalf, Unloadable, ShutdownOrder, InputChannelClosed, InputClosedSignaled
<1>9. CASE DestroyEnd
  BY <1>9
  DEF DestroyEnd, destroyUnchanged, IInv, TypeOK, ChunkVariables, WritersHaveData, FirstHalf, Unloadable, ShutdownOrder, InputChannelClosed, InputClosedSignaled
<1>10. CASE FeederReceive
  <2>1. /\ Head(inputChannel) \in Chunk /\ Unloadable(Head(inputChannel))
        /\ Tail(inputChannel) \in Seq(Chunk) /\ Len(Tail(inputChannel)) = Len(inputChannel) - 1
        /\ \A i \in 1..Len(Tail(inputChannel)) : Unloadable(Tail(inputChannel)[i])
    BY <1>10, QueueSteps DEF FeederReceive, IInv, TypeOK, FirstHalf
  <2>2. TypeOK'
    BY <1>10, <2>1, QueueSteps, BoundsAssumption DEF FeederReceive, IInv, TypeOK
  <2>3. (ChunkVariables /\ WritersHaveData /\ FirstHalf /\ ShutdownOrder)'
    BY <1>10, <2>1, NoChunkIsNoChunk
    DEF FeederReceive, IInv, ChunkVariables, WritersHaveData, FirstHalf, ShutdownOrder,
        InputChannelClosed
  <2> QED
    BY <2>2, <2>3 DEF IInv
<1>11. CASE FeederInputEnded
  BY <1>11
  DEF FeederInputEnded, IInv, TypeOK, ChunkVariables, WritersHaveData, FirstHalf, Unloadable, ShutdownOrder, InputChannelClosed, InputClosedSignaled
<1>12. CASE FeederLoad
  <2>1. feederChunk \in Chunk /\ feederChunk.id \in ChunkID
    BY <1>12, NoChunkIsNoChunk DEF FeederLoad, IInv, TypeOK, ChunkVariables, Chunk
  <2>2. \A d : WithData(feederChunk, d).id = feederChunk.id
    BY <2>1 DEF WithData, Chunk
  <2>3. PICK d \in LoadResults(feederChunk) : AfterLoad(d)
    BY <1>12 DEF FeederLoad, AfterLoad
  <2>4. TypeOK'
    <3>1. /\ disk' \in [ChunkID -> File] /\ dropped' \subseteq ChunkID
          /\ pendingChunks' \in Int /\ persistentChunks' \in Int /\ persistentChunkBytes' \in Int
      BY <2>1, <2>2, <2>3, DataLenIsInt
      DEF AfterLoad, OnChunkDropped, RemoveChunk, IInv, TypeOK, File
    <3>2. undeleted' \subseteq undeletedEver' /\ undeletedEver' \subseteq ChunkID
      BY <2>1, <2>2, <2>3 DEF AfterLoad, RemoveChunk, kept, IInv, TypeOK
    <3>3. /\ feederPC' \in {"recv", "push"} /\ feederChunk' \in Chunk \cup {NoChunk} /\ loadedData' \in Data
      BY <1>12, <2>1, <2>3 DEF FeederLoad, AfterLoad, IInv, TypeOK, Data
    <3> QED
      BY <1>12, <3>1, <3>2, <3>3 DEF FeederLoad, IInv, TypeOK
  <2>5. (ChunkVariables /\ WritersHaveData /\ FirstHalf /\ ShutdownOrder)'
    BY <1>12, <2>1, <2>3, NoChunkIsNoChunk
    DEF FeederLoad, AfterLoad, IInv, ChunkVariables, WritersHaveData, FirstHalf, Unloadable, ShutdownOrder,
        InputChannelClosed
  <2> QED
    BY <2>4, <2>5 DEF IInv
<1>13. CASE FeederPush
  <2>1. WithData(feederChunk, loadedData) \in Chunk
    BY <1>13, ChunkConstructors DEF FeederPush, IInv, TypeOK, ChunkVariables
  <2>2. /\ outputChannel' \in Seq(Chunk) /\ Len(outputChannel') <= MemoryCap
    BY <1>13, <2>1, QueueSteps, BoundsAssumption DEF FeederPush, IInv, TypeOK
  <2>3. TypeOK'
    BY <1>13, <2>2 DEF FeederPush, IInv, TypeOK, Data
  <2>4. (ChunkVariables /\ WritersHaveData /\ FirstHalf /\ ShutdownOrder)'
    BY <1>13
    DEF FeederPush, IInv, ChunkVariables, WritersHaveData, FirstHalf, Unloadable, ShutdownOrder,
        InputChannelClosed
  <2> QED
    BY <2>3, <2>4 DEF IInv
<1>14. CASE FeederAbort
  <2>1. TypeOK'
    BY <1>14
    DEF FeederAbort, IInv, TypeOK, ChunkVariables, Data
  <2>2. (ChunkVariables /\ WritersHaveData /\ FirstHalf /\ ShutdownOrder)'
    BY <1>14
    DEF FeederAbort, IInv, TypeOK, ChunkVariables, WritersHaveData, FirstHalf, Unloadable, ShutdownOrder, InputChannelClosed, InputClosedSignaled
  <2> QED
    BY <2>1, <2>2 DEF IInv
<1>15. CASE FeederCloseOutput
  BY <1>15
  DEF FeederCloseOutput, feederStepUnchanged, IInv, TypeOK, ChunkVariables, WritersHaveData, FirstHalf, Unloadable, ShutdownOrder, InputChannelClosed, InputClosedSignaled
<1>16. CASE FeederSignalOutput
  BY <1>16
  DEF FeederSignalOutput, feederStepUnchanged, IInv, TypeOK, ChunkVariables, WritersHaveData, FirstHalf, Unloadable, ShutdownOrder, InputChannelClosed, InputClosedSignaled
<1>17. CASE FeederSave
  <2>1. PICK c \in Chunk : SaveNext(c) /\ BeginUnload(c)
    BY <1>17 DEF FeederSave, BeginUnload
  <2>2. c.id \in ChunkID /\ c # NoChunk
    BY NoChunkIsNoChunk DEF Chunk
  <2>3. /\ inputChannel' \in Seq(Chunk) /\ Len(inputChannel') <= QueueCap
        /\ outputChannel' \in Seq(Chunk) /\ Len(outputChannel') <= MemoryCap
        /\ lastInputChunk' \in {lastInputChunk, NoChunk}
        /\ \A i \in 1..Len(inputChannel') : Unloadable(inputChannel'[i])
    <3>1. CASE inputChannel # <<>>
      <4>1. UNCHANGED <<lastInputChunk, outputChannel>> /\ inputChannel' = Tail(inputChannel)
        BY <2>1, <3>1 DEF SaveNext
      <4>2. /\ inputChannel' \in Seq(Chunk) /\ Len(inputChannel') <= QueueCap
            /\ \A i \in 1..Len(inputChannel') : Unloadable(inputChannel'[i])
        BY <3>1, <4>1, QueueSteps, BoundsAssumption DEF IInv, TypeOK, FirstHalf
      <4> QED
        BY <4>1, <4>2 DEF IInv, TypeOK
    <3>2. CASE inputChannel = <<>> /\ lastInputChunk # NoChunk
      BY <2>1, <3>2 DEF SaveNext, IInv, TypeOK, FirstHalf
    <3>3. CASE inputChannel = <<>> /\ lastInputChunk = NoChunk
      <4>1. UNCHANGED <<inputChannel, lastInputChunk>> /\ outputChannel # <<>> /\ outputChannel' = Tail(outputChannel)
        BY <2>1, <3>3 DEF SaveNext
      <4>2. outputChannel' \in Seq(Chunk) /\ Len(outputChannel') <= MemoryCap
        BY <4>1, QueueSteps, BoundsAssumption DEF IInv, TypeOK
      <4> QED
        BY <4>1, <4>2 DEF IInv, TypeOK, FirstHalf
    <3> QED
      BY <3>1, <3>2, <3>3
  <2>4. TypeOK'
    BY <1>17, <2>1, <2>2, <2>3, DataLenIsInt DEF FeederSave, BeginUnload, OnChunkDropped, IInv, TypeOK
  <2>5. (ChunkVariables /\ WritersHaveData /\ FirstHalf /\ ShutdownOrder)'
    BY <1>17, <2>1, <2>2, <2>3
    DEF FeederSave, BeginUnload, CannotUnload, IInv, ChunkVariables, WritersHaveData, FirstHalf,
        ShutdownOrder, InputChannelClosed
  <2> QED
    BY <2>4, <2>5 DEF IInv
<1>18. CASE FeederSaveWrite
  <2>1. feederChunk \in Chunk /\ feederChunk.id \in ChunkID /\ feederChunk.data \in File
    BY <1>18, NoChunkIsNoChunk DEF FeederSaveWrite, IInv, TypeOK, ChunkVariables, WritersHaveData, Chunk, Data, File
  <2>2. TypeOK'
    BY <1>18, <2>1, FileSteps, DataLenIsInt DEF FeederSaveWrite, IInv, TypeOK
  <2>3. (ChunkVariables /\ WritersHaveData /\ FirstHalf /\ ShutdownOrder)'
    BY <1>18
    DEF FeederSaveWrite, IInv, ChunkVariables, WritersHaveData, FirstHalf, Unloadable, ShutdownOrder,
        InputChannelClosed
  <2> QED
    BY <2>2, <2>3 DEF IInv
<1>19. CASE FeederStop
  BY <1>19
  DEF FeederStop, feederStepUnchanged, IInv, TypeOK, ChunkVariables, WritersHaveData, FirstHalf, Unloadable, ShutdownOrder, InputChannelClosed, InputClosedSignaled
<1>20. CASE ConsumerReceive
  <2>1. /\ Head(outputChannel) \in Chunk /\ Tail(outputChannel) \in Seq(Chunk)
        /\ Len(Tail(outputChannel)) <= MemoryCap
    BY <1>20, QueueSteps, BoundsAssumption DEF ConsumerReceive, IInv, TypeOK
  <2>2. TypeOK'
    <3>1. Head(outputChannel).id \in ChunkID
      BY <2>1 DEF Chunk
    <3> QED
      BY <1>20, <2>1, <3>1 DEF ConsumerReceive, IInv, TypeOK
  <2>3. (ChunkVariables /\ WritersHaveData /\ FirstHalf /\ ShutdownOrder)'
    BY <1>20
    DEF ConsumerReceive, IInv, ChunkVariables, WritersHaveData, FirstHalf, Unloadable, ShutdownOrder,
        InputChannelClosed
  <2> QED
    BY <2>2, <2>3 DEF IInv
<1>21. ASSUME NEW c \in held, OnChunkConsumed(c) PROVE IInv'
  <2>1. c \in Chunk /\ c.id \in ChunkID
    BY <1>21 DEF IInv, TypeOK, Chunk
  <2>2. TypeOK'
    <3>1. /\ disk' \in [ChunkID -> File]
          /\ pendingChunks' \in Int /\ persistentChunks' \in Int /\ persistentChunkBytes' \in Int
      BY <1>21, <2>1, DataLenIsInt DEF OnChunkConsumed, RemoveChunk, IInv, TypeOK, File
    <3>2. undeleted' \subseteq undeletedEver' /\ undeletedEver' \subseteq ChunkID
      BY <1>21, <2>1 DEF OnChunkConsumed, RemoveChunk, kept, IInv, TypeOK
    <3> QED
      BY <1>21, <2>1, <3>1, <3>2 DEF OnChunkConsumed, IInv, TypeOK
  <2>3. (ChunkVariables /\ WritersHaveData /\ FirstHalf /\ ShutdownOrder)'
    BY <1>21
    DEF OnChunkConsumed, IInv, ChunkVariables, WritersHaveData, FirstHalf, Unloadable, ShutdownOrder,
        InputChannelClosed
  <2> QED
    BY <2>2, <2>3 DEF IInv
<1>22. CASE ConsumerLeave
  BY <1>22
  DEF ConsumerLeave, IInv, TypeOK, ChunkVariables, WritersHaveData, FirstHalf, Unloadable, ShutdownOrder, InputChannelClosed, InputClosedSignaled
<1>23. ASSUME NEW c \in held, OnChunkLeftover(c) PROVE IInv'
  <2>1. c \in Chunk /\ c.id \in ChunkID /\ c # NoChunk
    BY <1>23, NoChunkIsNoChunk DEF IInv, TypeOK, Chunk
  <2>2. [c EXCEPT !.saved = c.saved] \in Chunk
    BY <2>1 DEF Chunk
  <2>3. TypeOK'
    <3>1. pendingChunks' \in Int /\ leftover' \subseteq Chunk /\ lost' \subseteq ChunkID
      BY <1>23, <2>1, <2>2 DEF OnChunkLeftover, CountLeftover, IInv, TypeOK
    <3>2. leaving' \in Chunk \cup {NoChunk} /\ held' \subseteq Chunk
      BY <1>23, <2>1 DEF OnChunkLeftover, IInv, TypeOK
    <3> QED
      BY <1>23, <3>1, <3>2 DEF OnChunkLeftover, IInv, TypeOK
  <2>4. (ChunkVariables /\ WritersHaveData /\ FirstHalf /\ ShutdownOrder)'
    BY <1>23, <2>1
    DEF OnChunkLeftover, CannotUnload, IInv, ChunkVariables, WritersHaveData, FirstHalf, Unloadable,
        ShutdownOrder, InputChannelClosed
  <2> QED
    BY <2>3, <2>4 DEF IInv
<1>24. CASE LeftoverWrite
  <2>1. leaving \in Chunk /\ leaving.id \in ChunkID /\ leaving.data \in File
    BY <1>24, NoChunkIsNoChunk DEF LeftoverWrite, IInv, TypeOK, WritersHaveData, Chunk, Data, File
  <2>2. \A ok \in BOOLEAN : [leaving EXCEPT !.saved = ok] \in Chunk
    BY <2>1 DEF Chunk
  <2>3. TypeOK'
    <3>1. /\ disk' \in [ChunkID -> File]
          /\ persistentChunks' \in Int /\ persistentChunkBytes' \in Int
      BY <1>24, <2>1, FileSteps DEF LeftoverWrite, IInv, TypeOK
    <3>2. PICK ok \in BOOLEAN : CountLeftover(leaving, ok)
      BY <1>24 DEF LeftoverWrite
    <3>3. pendingChunks' \in Int /\ leftover' \subseteq Chunk /\ lost' \subseteq ChunkID
      BY <2>1, <2>2, <3>2 DEF CountLeftover, IInv, TypeOK
    <3> QED
      BY <1>24, <3>1, <3>3 DEF LeftoverWrite, IInv, TypeOK
  <2>4. (ChunkVariables /\ WritersHaveData /\ FirstHalf /\ ShutdownOrder)'
    BY <1>24
    DEF LeftoverWrite, IInv, ChunkVariables, WritersHaveData, FirstHalf, Unloadable, ShutdownOrder,
        InputChannelClosed
  <2> QED
    BY <2>3, <2>4 DEF IInv
<1>25. CASE ConsumerFinish
  BY <1>25
  DEF ConsumerFinish, IInv, TypeOK, ChunkVariables, WritersHaveData, FirstHalf, Unloadable, ShutdownOrder, InputChannelClosed, InputClosedSignaled
<1>26. CASE Exit
  <2>1. TypeOK'
    BY <1>26, BoundsAssumption
    DEF Exit, MemoryGone, IInv, TypeOK, ChunkVariables, Data, Chunk, ChunkID
  <2>2. (ChunkVariables /\ WritersHaveData /\ FirstHalf /\ ShutdownOrder)'
    BY <1>26, BoundsAssumption
    DEF Exit, MemoryGone, IInv, TypeOK, ChunkVariables, WritersHaveData, FirstHalf, Unloadable, ShutdownOrder, InputChannelClosed, InputClosedSignaled
  <2> QED
    BY <2>1, <2>2 DEF IInv
<1>27. CASE Crash
  <2>1. disk' \in [ChunkID -> File]
    BY <1>27 DEF Crash, IInv, TypeOK
  <2>2. lost' \subseteq ChunkID
    BY <1>27, ChunksInAgent DEF Crash, IInv, TypeOK
  <2>3. TypeOK'
    BY <1>27, <2>1, <2>2, BoundsAssumption DEF Crash, MemoryGone, IInv, TypeOK, Data
  <2>4. (ChunkVariables /\ WritersHaveData /\ FirstHalf /\ ShutdownOrder)'
    BY <1>27
    DEF Crash, MemoryGone, ChunkVariables, WritersHaveData, FirstHalf, Unloadable, ShutdownOrder,
        InputChannelClosed
  <2> QED
    BY <2>3, <2>4 DEF IInv
<1>28. CASE UNCHANGED vars
  BY <1>28
  DEF vars, IInv, TypeOK, ChunkVariables, WritersHaveData, FirstHalf, Unloadable, ShutdownOrder, InputChannelClosed
<1> QED
  BY <1>1, <1>2, <1>3, <1>4, <1>5, <1>6, <1>7, <1>8, <1>9, <1>10, <1>11, <1>12, <1>13, <1>14, <1>15, <1>16, <1>17, <1>18, <1>19, <1>20, <1>21, <1>22, <1>23, <1>24, <1>25, <1>26, <1>27, <1>28
  DEF Next, Pipeline, Destroy, Feeder, Consumer, Terminated

\* A process that was never started, on an empty directory, satisfies the invariant.
LEMMA InitInvariant == Init => IInv
  BY BoundsAssumption, NoChunkIsNoChunk
  DEF Init, IInv, TypeOK, ChunkVariables, WritersHaveData, FirstHalf, Unloadable, ShutdownOrder,
      Data, File, InputChannelClosed

\* The inductive invariant holds in every state of every run.
LEMMA Invariance == Spec => []IInv
<1>1. Init => IInv
  BY InitInvariant
<1>2. IInv /\ [Next]_vars => IInv'
  BY StepInvariant
<1> QED
  BY <1>1, <1>2, PTL DEF Spec

-----------------------------------------------------------------------------
(* Theorems *)

\* Every variable keeps its type and no channel exceeds its capacity, however Accept, the
\* feeder, the consumer, Destroy, failing system calls and restarts interleave.
THEOREM TypeCorrect == Spec => []TypeOK
<1>1. IInv => TypeOK
  BY DEF IInv
<1> QED
  BY <1>1, Invariance, PTL

\* When the feeder has stopped there is no chunk left, and the consumer has finished.
LEMMA StoppedIsDrained == IInv => StoppedMeansDrained
<1> SUFFICES ASSUME IInv, feederPC = "stopped"
             PROVE  consumerPC = "finished" /\ InAgent = {}
  BY DEF StoppedMeansDrained
<1>1. /\ consumerPC = "finished" /\ held = {} /\ leaving = NoChunk
      /\ inputChannel = <<>> /\ outputChannel = <<>> /\ lastInputChunk = NoChunk
  BY DEF IInv, ShutdownOrder
<1>2. accepting = NoChunk
  BY DEF IInv, ShutdownOrder, InputChannelClosed
<1>3. feederChunk = NoChunk
  BY DEF IInv, ChunkVariables
<1>4. ToSet(<<>>) = {}
  BY DEF ToSet
<1> QED
  BY <1>1, <1>2, <1>3, <1>4 DEF InAgent

\* outputFeeder.Run signals stopped only after the consumer has finished and every chunk in
\* memory was consumed, saved, reported as leftover or dropped.
THEOREM StopDrains == Spec => []StoppedMeansDrained
<1>1. IInv => StoppedMeansDrained
  BY StoppedIsDrained
<1> QED
  BY <1>1, Invariance, PTL

\* A file disappears only because its chunk was consumed, or because it was empty: neither
\* a failed write, nor saveEverything, nor a crash in the middle of a write destroys one.
THEOREM FilesOutlive == Spec => FilesOutliveTheirUse
<1> DEFINE Kept == \A i \in ChunkID :
                      disk[i] # "none" /\ disk'[i] = "none" => i \in consumed' \/ disk[i] = "empty"
<1>1. IInv /\ [Next]_vars => Kept
  <2> SUFFICES ASSUME IInv, [Next]_vars,
                      NEW i \in ChunkID, disk[i] # "none", disk'[i] = "none"
               PROVE  i \in consumed' \/ disk[i] = "empty"
    OBVIOUS
  <2>0. disk \in [ChunkID -> File]
    BY DEF IInv, TypeOK
  <2>1. CASE AcceptWrite
    <3>1. accepting.data # "nil" /\ accepting.data # "none"
      BY <2>1, NoChunkIsNoChunk DEF AcceptWrite, IInv, TypeOK, ChunkVariables, WritersHaveData, Chunk, Data
    <3> QED
      BY <2>0, <2>1, <3>1 DEF AcceptWrite, WriteChunkFile, WriteChunkFileFails
  <2>2. CASE FeederSaveWrite
    <3>1. feederChunk.data # "nil" /\ feederChunk.data # "none"
      BY <2>2, NoChunkIsNoChunk
      DEF FeederSaveWrite, IInv, TypeOK, ChunkVariables, WritersHaveData, Chunk, Data
    <3> QED
      BY <2>0, <2>2, <3>1 DEF FeederSaveWrite, WriteChunkFile, WriteChunkFileFails
  <2>3. CASE LeftoverWrite
    <3>1. leaving.data # "nil" /\ leaving.data # "none"
      BY <2>3, NoChunkIsNoChunk DEF LeftoverWrite, IInv, TypeOK, WritersHaveData, Chunk, Data
    <3> QED
      BY <2>0, <2>3, <3>1 DEF LeftoverWrite, WriteChunkFile, WriteChunkFileFails
  <2>4. CASE FeederLoad
    <3>1. PICK d \in LoadResults(feederChunk) : AfterLoad(d)
      BY <2>4 DEF FeederLoad
    <3>2. feederChunk \in Chunk /\ Unloadable(feederChunk)
      BY <2>4 DEF FeederLoad, IInv, TypeOK, ChunkVariables, FirstHalf
    <3>3. d = "empty" /\ WithData(feederChunk, d).id = i /\ feederChunk.id = i
      BY <2>0, <3>1, <3>2 DEF AfterLoad, RemoveChunk, WithData, Chunk
    <3>4. feederChunk.data = "nil"
      BY <3>1, <3>2, <3>3, NoChunkIsNoChunk DEF LoadResults, Unloadable
    <3> QED
      BY <3>1, <3>3, <3>4 DEF LoadResults
  <2>5. ASSUME NEW c \in held, OnChunkConsumed(c) PROVE i \in consumed'
    BY <2>0, <2>5 DEF OnChunkConsumed, RemoveChunk
  <2>6. CASE Crash
    BY <2>0, <2>6 DEF Crash
  <2>7. CASE UNCHANGED disk
    BY <2>7
  <2> QED
    BY <2>1, <2>2, <2>3, <2>4, <2>5, <2>6, <2>7
    DEF Next, Pipeline, Destroy, Feeder, Consumer, Terminated, vars, Start, AcceptBegin, AcceptSend,
        DestroyBegin, WaitPendingChunks, DestroyClose, DestroySignal, DestroyEnd, destroyUnchanged,
        FeederReceive, FeederInputEnded, FeederPush, FeederAbort, FeederCloseOutput,
        FeederSignalOutput, FeederSave, FeederStop, feederStepUnchanged,
        ConsumerReceive, ConsumerLeave, OnChunkLeftover, ConsumerFinish, Exit
<1>2. Kept => [Kept]_vars
  OBVIOUS
<1> QED
  BY <1>1, Invariance, PTL DEF Spec, FilesOutliveTheirUse

-----------------------------------------------------------------------------
(* The space limit *)

\* Bytes of the chunks that passed the space check and are not counted yet.
BytesInWrite ==
    (IF acceptPC = "write" THEN DataLen(accepting.data) ELSE 0)
      + (IF feederPC = "write" THEN DataLen(feederChunk.data) ELSE 0)
      + (IF leaving # NoChunk THEN DataLen(leaving.data) ELSE 0)

\* With all the writes in progress the limit is exceeded by one chunk at most.
SpaceInv ==
    acceptPC = "write" \/ feederPC = "write" \/ leaving # NoChunk =>
        persistentChunkBytes + BytesInWrite <= MaxTotalBytes + FullLen

\* No chunk is longer than a complete one.
LEMMA DataLenRange == \A d : DataLen(d) \in 0..FullLen
  BY DEF DataLen, FullLen

\* Accept and saveEverything never write at the same time, since Destroy closes inputChannel
\* after the last Accept: there are two writers at most.
LEMMA OneInputWriter == IInv => ~(acceptPC = "write" /\ feederPC = "write")
  BY DEF IInv, ChunkVariables, ShutdownOrder, InputChannelClosed

\* Each saver checks the limit before it writes and counts afterwards: with two of them the
\* bytes counted and in writing stay below the limit plus one chunk.
LEMMA SpaceStep == IInv /\ SpaceInv /\ [Next]_vars => SpaceInv'
<1> SUFFICES ASSUME IInv, SpaceInv, [Next]_vars PROVE SpaceInv'
  OBVIOUS
<1> USE DEF acceptVars, feederVars, consumerVars, queueGauges, diskGauges, runHistory, kept
<1>0. /\ persistentChunkBytes \in Int /\ MaxTotalBytes \in Nat /\ FullLen = 2
      /\ \A d : DataLen(d) \in 0..2
  BY DataLenRange, BoundsAssumption DEF IInv, TypeOK, FullLen, DataLen
<1>1. CASE Start
  <2>1. acceptPC' = "idle" /\ feederPC' = "recv" /\ leaving' = NoChunk
    BY <1>1 DEF Start, IInv, ChunkVariables, ShutdownOrder
  <2> QED
    BY <2>1 DEF SpaceInv
<1>2. CASE AcceptBegin
  <2>1. /\ UNCHANGED <<persistentChunkBytes, feederPC, leaving>>
        /\ feederPC # "write"
        /\ acceptPC' = "write" => persistentChunkBytes + DataLen(accepting'.data) <= MaxTotalBytes
        /\ acceptPC' # "write" => acceptPC # "write"
    BY <1>0, <1>2 DEF AcceptBegin, CannotUnload, IInv, ChunkVariables, ShutdownOrder, InputChannelClosed
  <2> QED
    BY <1>0, <2>1 DEF SpaceInv, BytesInWrite
<1>3. CASE FeederSave
  <2>1. PICK c \in Chunk : BeginUnload(c)
    BY <1>3 DEF FeederSave
  <2>2. acceptPC # "write" /\ feederPC # "write" /\ UNCHANGED <<acceptPC, leaving>>
    BY <1>3 DEF FeederSave, IInv, ChunkVariables, ShutdownOrder, InputChannelClosed
  <2>3. /\ persistentChunkBytes' \in Int /\ persistentChunkBytes' <= persistentChunkBytes
        /\ feederPC' = "write" => persistentChunkBytes' + DataLen(feederChunk'.data) <= MaxTotalBytes
    BY <1>0, <2>1, <2>2 DEF BeginUnload, OnChunkDropped, CannotUnload
  <2> QED
    BY <1>0, <2>2, <2>3 DEF SpaceInv, BytesInWrite
<1>4. ASSUME NEW c \in held, OnChunkLeftover(c) PROVE SpaceInv'
  <2>1. /\ UNCHANGED <<persistentChunkBytes, acceptPC, accepting, feederPC, feederChunk>>
        /\ leaving = NoChunk
        /\ leaving' # NoChunk => persistentChunkBytes + DataLen(leaving'.data) <= MaxTotalBytes
    BY <1>0, <1>4 DEF OnChunkLeftover, CannotUnload
  <2> QED
    BY <1>0, <2>1, OneInputWriter DEF SpaceInv, BytesInWrite
<1>5. CASE AcceptWrite
  <2>1. /\ acceptPC = "write" /\ feederPC # "write"
        /\ acceptPC' # "write" /\ UNCHANGED <<feederPC, leaving>>
        /\ persistentChunkBytes' \in {persistentChunkBytes, persistentChunkBytes + DataLen(accepting.data)}
    BY <1>5, OneInputWriter DEF AcceptWrite, WriteChunkFile, WriteChunkFileFails
  <2> QED
    BY <1>0, <2>1 DEF SpaceInv, BytesInWrite
<1>6. CASE FeederSaveWrite
  <2>1. /\ feederPC = "write" /\ acceptPC # "write"
        /\ feederPC' # "write" /\ UNCHANGED <<acceptPC, leaving>>
        /\ persistentChunkBytes' \in {persistentChunkBytes, persistentChunkBytes + DataLen(feederChunk.data)}
    BY <1>6, OneInputWriter DEF FeederSaveWrite, WriteChunkFile, WriteChunkFileFails
  <2> QED
    BY <1>0, <2>1 DEF SpaceInv, BytesInWrite
<1>7. CASE LeftoverWrite
  <2>1. /\ leaving # NoChunk /\ leaving' = NoChunk
        /\ UNCHANGED <<acceptPC, accepting, feederPC, feederChunk>>
        /\ persistentChunkBytes' \in {persistentChunkBytes, persistentChunkBytes + DataLen(leaving.data)}
    BY <1>7 DEF LeftoverWrite, WriteChunkFile, WriteChunkFileFails
  <2> QED
    BY <1>0, <2>1 DEF SpaceInv, BytesInWrite
<1>8. CASE Exit \/ Crash
  <2>1. persistentChunkBytes' = 0 /\ acceptPC' = "idle" /\ feederPC' = "recv" /\ leaving' = NoChunk
    BY <1>8 DEF Exit, Crash, MemoryGone
  <2> QED
    BY <1>0, <2>1 DEF SpaceInv
<1>9. ASSUME \/ \E c \in held : OnChunkConsumed(c)
             \/ FeederLoad
             \/ AcceptSend
      PROVE  SpaceInv'
  <2>1. /\ persistentChunkBytes' \in Int /\ persistentChunkBytes' <= persistentChunkBytes
        /\ acceptPC' = "write" => acceptPC = "write" /\ UNCHANGED accepting
        /\ UNCHANGED leaving
        /\ feederPC' = "write" => feederPC = "write" /\ UNCHANGED feederChunk
    BY <1>0, <1>9 DEF OnChunkConsumed, FeederLoad, AfterLoad, AcceptSend, RemoveChunk, OnChunkDropped
  <2> QED
    BY <1>0, <2>1 DEF SpaceInv, BytesInWrite
<1>10. ASSUME \/ DestroyBegin \/ WaitPendingChunks \/ DestroyClose \/ DestroySignal \/ DestroyEnd
              \/ FeederReceive \/ FeederInputEnded \/ FeederPush \/ FeederAbort
              \/ FeederCloseOutput \/ FeederSignalOutput \/ FeederStop
              \/ ConsumerReceive \/ ConsumerLeave \/ ConsumerFinish
              \/ UNCHANGED vars
       PROVE  SpaceInv'
  <2>1. /\ UNCHANGED <<persistentChunkBytes, acceptPC, accepting, leaving>>
        /\ feederPC' = "write" => feederPC = "write" /\ UNCHANGED feederChunk
    BY <1>10
    DEF DestroyBegin, WaitPendingChunks, DestroyClose, DestroySignal, DestroyEnd, destroyUnchanged,
        FeederReceive, FeederInputEnded, FeederPush, FeederAbort, FeederCloseOutput,
        FeederSignalOutput, FeederStop, feederStepUnchanged,
        ConsumerReceive, ConsumerLeave, ConsumerFinish, vars
  <2> QED
    BY <1>0, <2>1 DEF SpaceInv, BytesInWrite
<1> QED
  BY <1>1, <1>2, <1>3, <1>4, <1>5, <1>6, <1>7, <1>8, <1>9, <1>10
  DEF Next, Pipeline, Destroy, Feeder, Consumer, Terminated

=============================================================================
