------------------- MODULE KeySetOrchestratorProofs -------------------
(***************************************************************************)
(* Proofs about KeySetOrchestrator, for all key sets of all records and any *)
(* number of connections, pipelines and restarts.  The first part is about  *)
(* the global map, local maps and the counter of pipelines; then about the  *)
(* queue directories that the next orchestrator finds; then about where     *)
(* the records of a connection are, from its caches to the workers.         *)
(***************************************************************************)
EXTENDS KeySetOrchestrator, FiniteSetTheorems, SequenceFacts

-----------------------------------------------------------------------------
(* The inductive invariant *)

\* A pipeline has the fields NewPipeline gives it, whatever is in them: nothing can be proved
\* about the characters of keys and IDs, and nothing need be.
IsPipeline(r) ==
    r = [keys |-> r.keys, id |-> r.id, channel |-> r.channel, closed |-> r.closed,
         stopped |-> r.stopped, processed |-> r.processed]

PipelinesAreListed ==
    /\ \E n \in Nat : pipelines \in [1..n -> Range(pipelines)]
    /\ \A p \in DOMAIN pipelines : IsPipeline(pipelines[p])

\* Each pipeline was put into the global map once, under a key that was new.
MapIsComplete ==
    /\ \A k \in DOMAIN workerMap : workerMap[k] \in DOMAIN pipelines
    /\ \A p \in DOMAIN pipelines : \E k \in DOMAIN workerMap : workerMap[k] = p

\* Local maps are what the sinks have copied from the global map.
IsCache(c) == c = [pipeline |-> c.pipeline, pendingLogs |-> c.pendingLogs]

LocalMapsAreCopies ==
    /\ \A s \in Sinks : \A k \in DOMAIN localMap[s] : IsCache(localMap[s][k])
    /\ DOMAIN localMap = Sinks
    /\ CachesAgree

\* Sinks work only while the orchestrator is up, and channels are closed only after it.
WorkThenClose ==
    /\ DOMAIN sinkPC = Sinks
    /\ \A s \in Sinks : sinkPC[s] \in {"idle", "accept", "flush", "walk"} => orcPC = "up"
    /\ orcPC \in {"starting", "up", "waiting", "done"}
    /\ \A p \in DOMAIN pipelines : pipelines[p].closed <=> orcPC \in {"waiting", "done"}

\* The counter Destroy waits for is the number of workers that have not ended.
Unstopped == {p \in DOMAIN pipelines : ~pipelines[p].stopped}

CounterIsExact ==
    /\ objectCount = Cardinality(Unstopped)
    /\ \A p \in DOMAIN pipelines :
          pipelines[p].stopped => pipelines[p].closed /\ pipelines[p].channel = <<>>

IInv ==
    /\ PipelinesAreListed /\ MapIsComplete /\ LocalMapsAreCopies /\ WorkThenClose /\ CounterIsExact
    /\ orcPC = "done" => objectCount = 0

-----------------------------------------------------------------------------
(* Facts about the operators *)

\* Pipelines are numbered from 1, and finitely many.
LEMMA PipelineNumbers ==
    ASSUME PipelinesAreListed
    PROVE  /\ Len(pipelines) \in Nat
           /\ DOMAIN pipelines = 1..Len(pipelines)
           /\ pipelines \in Seq(Range(pipelines))
           /\ IsFiniteSet(Unstopped)
<1>1. PICK n \in Nat : pipelines \in [1..n -> Range(pipelines)]
  BY DEF PipelinesAreListed
<1>2. pipelines \in Seq(Range(pipelines))
  BY <1>1
<1>3. Len(pipelines) \in Nat /\ DOMAIN pipelines = 1..Len(pipelines)
  BY <1>2
<1>4. IsFiniteSet(1..Len(pipelines))
  BY <1>3, FS_Interval
<1>5. Unstopped \subseteq 1..Len(pipelines)
  BY <1>3 DEF Unstopped
<1> QED BY <1>2, <1>3, <1>4, <1>5, FS_Subset

\* What Append does to a sequence of anything.
LEMMA Appended ==
    ASSUME NEW S, NEW seq \in Seq(S), NEW e
    PROVE  /\ DOMAIN Append(seq, e) = 1..(Len(seq) + 1)
           /\ \A i \in 1..Len(seq) : Append(seq, e)[i] = seq[i]
           /\ Append(seq, e)[Len(seq) + 1] = e
           /\ Append(seq, e) \in [1..(Len(seq) + 1) -> Range(Append(seq, e))]
<1>1. seq \in Seq(S \cup {e}) /\ e \in S \cup {e}
  OBVIOUS
<1> DEFINE T == S \cup {e}
<1>2. /\ DOMAIN Append(seq, e) = 1..(Len(seq) + 1)
      /\ \A i \in 1..Len(seq) : Append(seq, e)[i] = seq[i]
      /\ Append(seq, e)[Len(seq) + 1] = e
      /\ Append(seq, e) \in Seq(T)
  <2> HIDE DEF T
  <2> QED BY <1>1 DEF T
<1>3. Append(seq, e) \in [1..(Len(seq) + 1) -> T]
  <2> HIDE DEF T
  <2> QED BY <1>2, LenProperties
<1>4. Append(seq, e) \in [1..(Len(seq) + 1) -> Range(Append(seq, e))]
  <2> HIDE DEF T
  <2> QED BY <1>3 DEF Range
<1> QED BY <1>2, <1>4

\* A function over the numbers of the pipelines is a list of pipelines again.
LEMMA Renumbered ==
    ASSUME PipelinesAreListed, DOMAIN pipelines' = DOMAIN pipelines,
           pipelines' = [p \in DOMAIN pipelines |-> pipelines'[p]],
           \A p \in DOMAIN pipelines : IsPipeline(pipelines'[p])
    PROVE  PipelinesAreListed'
<1>1. PICK n \in Nat : pipelines \in [1..n -> Range(pipelines)]
  BY DEF PipelinesAreListed
<1>2. DOMAIN pipelines = 1..n
  BY <1>1
<1>3. pipelines' \in [1..n -> Range(pipelines)']
  BY <1>2 DEF Range
<1> QED BY <1>2, <1>3 DEF PipelinesAreListed, IsPipeline

-----------------------------------------------------------------------------
(* The global map *)

\* Looking up a key set, or starting its pipeline, keeps the map complete and the counter exact,
\* and changes no entry that was there.
LEMMA GetOrCreateKeeps ==
    ASSUME NEW keys, GetOrCreate(keys),
           PipelinesAreListed, MapIsComplete, CounterIsExact,
           \A p \in DOMAIN pipelines : ~pipelines[p].closed
    PROVE  /\ PipelinesAreListed' /\ MapIsComplete' /\ CounterIsExact'
           /\ \A p \in DOMAIN pipelines' : ~pipelines'[p].closed
           /\ MergedKey(keys) \in DOMAIN workerMap'
           /\ \A k \in DOMAIN workerMap : k \in DOMAIN workerMap' /\ workerMap'[k] = workerMap[k]
<1>1. CASE MergedKey(keys) \in DOMAIN workerMap
  BY <1>1 DEF GetOrCreate, mapVars, PipelinesAreListed, MapIsComplete, CounterIsExact, Unstopped
<1>2. CASE MergedKey(keys) \notin DOMAIN workerMap
  <2> DEFINE k0 == MergedKey(keys)
             n0 == Len(pipelines) + 1
             new == NewPipeline(keys)
  <2>1. /\ workerMap' = Put(workerMap, k0, n0)
        /\ pipelines' = Append(pipelines, new)
        /\ objectCount' = objectCount + 1
    BY <1>2 DEF GetOrCreate
  <2>2. /\ DOMAIN workerMap' = DOMAIN workerMap \cup {k0}
        /\ workerMap'[k0] = n0
        /\ \A k \in DOMAIN workerMap : workerMap'[k] = workerMap[k]
    BY <2>1, <1>2 DEF Put
  <2>3. /\ Len(pipelines) \in Nat /\ DOMAIN pipelines = 1..Len(pipelines)
        /\ pipelines \in Seq(Range(pipelines)) /\ IsFiniteSet(Unstopped)
    BY PipelineNumbers
  <2>4. /\ DOMAIN pipelines' = 1..n0
        /\ \A p \in DOMAIN pipelines : pipelines'[p] = pipelines[p]
        /\ pipelines'[n0] = new
        /\ pipelines' \in [1..n0 -> Range(pipelines)']
    <3> HIDE DEF new
    <3> QED BY <2>1, <2>3, Appended
  <2>5. /\ IsPipeline(new) /\ ~new.closed /\ ~new.stopped
    BY DEF NewPipeline, IsPipeline
  <2>6. DOMAIN pipelines' = DOMAIN pipelines \cup {n0} /\ n0 \notin DOMAIN pipelines /\ n0 \in Nat
    BY <2>3, <2>4
  <2> HIDE DEF k0, n0, new
  <2>7. PipelinesAreListed'
    <3>1. \A p \in DOMAIN pipelines' : IsPipeline(pipelines'[p])
      BY <2>4, <2>5, <2>6 DEF PipelinesAreListed
    <3>2. \A p \in DOMAIN pipelines' : IsPipeline(pipelines[p])'
      BY <3>1 DEF IsPipeline
    <3> QED BY <2>4, <2>6, <3>2 DEF PipelinesAreListed
  <2>8. MapIsComplete'
    BY <2>2, <2>6 DEF MapIsComplete
  <2>9. Unstopped' = Unstopped \cup {n0} /\ n0 \notin Unstopped
    BY <2>4, <2>5, <2>6 DEF Unstopped
  <2>10. CounterIsExact'
    <3>1. Cardinality(Unstopped') = Cardinality(Unstopped) + 1
      BY <2>9, <2>3, FS_AddElement
    <3> QED BY <3>1, <2>1, <2>4, <2>5, <2>6 DEF CounterIsExact
  <2>11. \A p \in DOMAIN pipelines' : ~pipelines'[p].closed
    BY <2>4, <2>5, <2>6
  <2> QED BY <2>2, <2>7, <2>8, <2>10, <2>11 DEF k0
<1> QED BY <1>1, <1>2

-----------------------------------------------------------------------------
(* The invariant is inductive *)

\* It holds of the first orchestrator before it has started.
LEMMA InitIInv == Init => IInv
<1> SUFFICES ASSUME Init PROVE IInv
  OBVIOUS
<1> USE DEF Init
<1>1. DOMAIN pipelines = {} /\ DOMAIN workerMap = {} /\ Unstopped = {}
  BY DEF Unstopped
<1>2. PipelinesAreListed
  <2>1. pipelines \in [1..0 -> Range(pipelines)]
    BY <1>1
  <2> QED BY <1>1, <2>1 DEF PipelinesAreListed
<1>3. MapIsComplete /\ WorkThenClose
  BY <1>1 DEF MapIsComplete, WorkThenClose
<1>4. LocalMapsAreCopies
  BY DEF LocalMapsAreCopies, CachesAgree
<1>5. CounterIsExact
  BY <1>1, FS_EmptySet DEF CounterIsExact
<1> QED BY <1>2, <1>3, <1>4, <1>5 DEF IInv

\* Sinks that move without touching maps and pipelines.
LEMMA SinkMoves ==
    ASSUME IInv, UNCHANGED <<pipelines, workerMap, objectCount, localMap, orcPC>>,
           DOMAIN sinkPC' = Sinks,
           \A s \in Sinks : sinkPC'[s] \in {"idle", "accept", "flush", "walk"} => orcPC = "up"
    PROVE  IInv'
BY DEF IInv, PipelinesAreListed, IsPipeline, MapIsComplete, LocalMapsAreCopies, IsCache, CachesAgree,
       WorkThenClose, CounterIsExact, Unstopped

\* Flush takes the logs out of a cache, and leaves it the pipeline it has.
LEMMA FlushCacheKeeps ==
    ASSUME NEW s \in Sinks, NEW k, NEW caches, NEW return, FlushCache(s, k, caches, return),
           DOMAIN localMap = Sinks,
           \A t \in Sinks : \A j \in DOMAIN localMap[t] : IsCache(localMap[t][j]),
           \A j \in DOMAIN caches : IsCache(caches[j])
    PROVE  /\ DOMAIN localMap' = Sinks
           /\ \A t \in Sinks \ {s} : localMap'[t] = localMap[t]
           /\ DOMAIN localMap'[s] = DOMAIN caches
           /\ \A j \in DOMAIN caches :
                 IsCache(localMap'[s][j]) /\ localMap'[s][j].pipeline = caches[j].pipeline
<1> DEFINE flushed == [caches EXCEPT ![k].pendingLogs = <<>>]
<1>1. localMap' = [localMap EXCEPT ![s] = flushed]
  BY DEF FlushCache
<1>2. DOMAIN flushed = DOMAIN caches
  OBVIOUS
<1>3. ASSUME NEW j \in DOMAIN caches
      PROVE  IsCache(flushed[j]) /\ flushed[j].pipeline = caches[j].pipeline
  <2>1. CASE j = k
    <3>1. flushed[j] = [caches[j] EXCEPT !.pendingLogs = <<>>]
      BY <2>1
    <3> HIDE DEF flushed
    <3> QED BY <3>1 DEF IsCache
  <2>2. CASE j # k
    BY <2>2
  <2> QED BY <2>1, <2>2
<1> HIDE DEF flushed
<1> QED BY <1>1, <1>2, <1>3

\* NewOrchestrator: pipelines for queue directories, before there are sinks.
LEMMA StartKeepsIInv == IInv /\ Start => IInv'
<1> SUFFICES ASSUME IInv, Start PROVE IInv'
  OBVIOUS
<1>1. CASE RecoverPipeline
  <2>1. PICK keys : GetOrCreate(keys)
    BY <1>1 DEF RecoverPipeline
  <2>2. orcPC = "starting" /\ UNCHANGED <<orcPC, sinkPC, localMap>>
    BY <1>1 DEF RecoverPipeline
  <2>3. \A p \in DOMAIN pipelines : ~pipelines[p].closed
    BY <2>2 DEF IInv, WorkThenClose
  <2>4. /\ PipelinesAreListed' /\ MapIsComplete' /\ CounterIsExact'
        /\ \A p \in DOMAIN pipelines' : ~pipelines'[p].closed
        /\ \A k \in DOMAIN workerMap : k \in DOMAIN workerMap' /\ workerMap'[k] = workerMap[k]
    BY <2>1, <2>3, GetOrCreateKeeps DEF IInv
  <2>5. LocalMapsAreCopies'
    BY <2>2, <2>4 DEF IInv, LocalMapsAreCopies, CachesAgree, IsCache
  <2>6. WorkThenClose'
    BY <2>2, <2>4 DEF IInv, WorkThenClose
  <2> QED BY <2>2, <2>4, <2>5, <2>6 DEF IInv
<1>2. CASE IgnoreMalformed
  BY <1>2, SinkMoves DEF IgnoreMalformed, mapVars, IInv, WorkThenClose
<1>3. CASE Started
  BY <1>3 DEF Started, mapVars, IInv, PipelinesAreListed, IsPipeline, MapIsComplete,
              LocalMapsAreCopies, IsCache, CachesAgree, WorkThenClose, CounterIsExact, Unstopped
<1> QED BY <1>1, <1>2, <1>3 DEF Start

\* A turn of Accept: a cache found or made, in the global map too, with or without a flush.
LEMMA AcceptRecordKeepsIInv ==
    ASSUME IInv, NEW s \in Sinks, AcceptRecord(s)
    PROVE  IInv'
<1> DEFINE r      == <<s, nextRecord[s]>>
           k      == MergedKey(KeysOf(r))
           cache  == IF k \in DOMAIN localMap[s]
                       THEN localMap[s][k] ELSE [pipeline |-> workerMap'[k], pendingLogs |-> <<>>]
           caches == Put(localMap[s], k, [cache EXCEPT !.pendingLogs = Append(@, r)])
<1>1. /\ sinkPC[s] = "accept" /\ UNCHANGED <<orcPC, toRecover, runs>>
      /\ IF k \in DOMAIN localMap[s] THEN UNCHANGED <<mapVars, pipelines>> ELSE GetOrCreate(KeysOf(r))
      /\ \/ localMap' = [localMap EXCEPT ![s] = caches] /\ UNCHANGED sinkPC
         \/ FlushCache(s, k, caches, "accept") /\ sinkPC' = [sinkPC EXCEPT ![s] = "flush"]
  BY DEF AcceptRecord, orcVars
<1>2. orcPC = "up" /\ \A p \in DOMAIN pipelines : ~pipelines[p].closed
  BY <1>1 DEF IInv, WorkThenClose
<1>3. /\ PipelinesAreListed' /\ MapIsComplete' /\ CounterIsExact'
      /\ \A p \in DOMAIN pipelines' : ~pipelines'[p].closed
      /\ k \in DOMAIN workerMap'
      /\ \A j \in DOMAIN workerMap : j \in DOMAIN workerMap' /\ workerMap'[j] = workerMap[j]
  <2>1. CASE k \in DOMAIN localMap[s]
    <3>1. UNCHANGED <<workerMap, objectCount, pipelines>>
      BY <1>1, <2>1 DEF mapVars
    <3>2. k \in DOMAIN workerMap
      BY <2>1 DEF IInv, LocalMapsAreCopies, CachesAgree
    <3> HIDE DEF k
    <3> QED BY <3>1, <3>2, <1>2 DEF IInv, PipelinesAreListed, IsPipeline, MapIsComplete, CounterIsExact, Unstopped
  <2>2. CASE k \notin DOMAIN localMap[s]
    <3>1. GetOrCreate(KeysOf(r))
      BY <1>1, <2>2
    <3> QED BY <3>1, <1>2, GetOrCreateKeeps DEF IInv
  <2> QED BY <2>1, <2>2
<1>4. cache.pipeline = workerMap'[k] /\ IsCache(cache)
  <2>1. CASE k \in DOMAIN localMap[s]
    <3>1. /\ IsCache(localMap[s][k])
          /\ k \in DOMAIN workerMap /\ localMap[s][k].pipeline = workerMap[k]
      BY <2>1 DEF IInv, LocalMapsAreCopies, CachesAgree
    <3> HIDE DEF k
    <3> QED BY <2>1, <3>1, <1>3
  <2>2. CASE k \notin DOMAIN localMap[s]
    <3>1. cache = [pipeline |-> workerMap'[k], pendingLogs |-> <<>>]
      BY <2>2
    <3> HIDE DEF cache, k
    <3> QED BY <3>1 DEF IsCache
  <2> QED BY <2>1, <2>2
<1> DEFINE appended == [cache EXCEPT !.pendingLogs = Append(@, r)]
<1>5. appended.pipeline = workerMap'[k] /\ IsCache(appended)
  <2> HIDE DEF cache, k, r
  <2> QED BY <1>4 DEF IsCache
<1>6. /\ DOMAIN caches = DOMAIN localMap[s] \cup {k}
      /\ \A j \in DOMAIN caches :
            /\ IsCache(caches[j])
            /\ j \in DOMAIN workerMap' /\ caches[j].pipeline = workerMap'[j]
  <2>1. caches = [x \in DOMAIN localMap[s] \cup {k} |-> IF x = k THEN appended ELSE localMap[s][x]]
    BY DEF Put
  <2>2. \A j \in DOMAIN localMap[s] :
          /\ IsCache(localMap[s][j])
          /\ j \in DOMAIN workerMap /\ localMap[s][j].pipeline = workerMap[j]
    BY DEF IInv, LocalMapsAreCopies, CachesAgree
  <2> HIDE DEF appended, caches, k
  <2> QED BY <2>1, <2>2, <1>3, <1>5
<1>7. /\ DOMAIN localMap' = Sinks
      /\ \A t \in Sinks \ {s} : localMap'[t] = localMap[t]
      /\ DOMAIN localMap'[s] = DOMAIN caches
      /\ \A j \in DOMAIN caches :
            IsCache(localMap'[s][j]) /\ localMap'[s][j].pipeline = caches[j].pipeline
  <2>1. DOMAIN localMap = Sinks /\ \A t \in Sinks : \A j \in DOMAIN localMap[t] : IsCache(localMap[t][j])
    BY DEF IInv, LocalMapsAreCopies
  <2>2. CASE localMap' = [localMap EXCEPT ![s] = caches]
    <3> HIDE DEF caches
    <3> QED BY <2>1, <2>2, <1>6
  <2>3. CASE FlushCache(s, k, caches, "accept")
    <3> HIDE DEF caches, k
    <3> QED BY <2>1, <2>3, <1>6, FlushCacheKeeps
  <2> QED BY <1>1, <2>2, <2>3
<1>8. LocalMapsAreCopies'
  <2> HIDE DEF caches, k
  <2>1. \A t \in Sinks \ {s} : \A j \in DOMAIN localMap[t] :
          /\ IsCache(localMap[t][j])
          /\ j \in DOMAIN workerMap' /\ localMap[t][j].pipeline = workerMap'[j]
    BY <1>3 DEF IInv, LocalMapsAreCopies, CachesAgree
  <2>2. \A t \in Sinks : \A j \in DOMAIN localMap'[t] :
          /\ IsCache(localMap'[t][j])
          /\ j \in DOMAIN workerMap' /\ localMap'[t][j].pipeline = workerMap'[j]
    BY <1>6, <1>7, <2>1
  <2> QED BY <2>2, <1>7 DEF LocalMapsAreCopies, CachesAgree, IsCache
<1>9. WorkThenClose'
  BY <1>1, <1>2, <1>3 DEF IInv, WorkThenClose
<1> QED BY <1>1, <1>2, <1>3, <1>8, <1>9 DEF IInv

\* A step of one pipeline that opens and closes nothing: its channel changes.
LEMMA ChannelMoves ==
    ASSUME IInv, NEW p, NEW x, NEW y,
           pipelines' = [pipelines EXCEPT ![p] = [[@ EXCEPT !.channel = x] EXCEPT !.processed = y]],
           p \in DOMAIN pipelines => ~pipelines[p].stopped,
           UNCHANGED <<workerMap, objectCount>>
    PROVE  /\ PipelinesAreListed' /\ MapIsComplete' /\ CounterIsExact'
           /\ DOMAIN pipelines' = DOMAIN pipelines
           /\ \A q \in DOMAIN pipelines : pipelines'[q].closed = pipelines[q].closed
<1>1. ASSUME NEW q \in DOMAIN pipelines
      PROVE  /\ IsPipeline(pipelines'[q])
             /\ pipelines'[q].closed = pipelines[q].closed
             /\ pipelines'[q].stopped = pipelines[q].stopped
             /\ q # p => pipelines'[q] = pipelines[q]
  <2> DEFINE r == pipelines[q]
  <2>1. IsPipeline(r)
    BY DEF IInv, PipelinesAreListed
  <2>2. CASE q # p
    BY <2>1, <2>2
  <2>3. CASE q = p
    <3>1. pipelines'[q] = [[r EXCEPT !.channel = x] EXCEPT !.processed = y]
      BY <2>3
    <3>2. /\ IsPipeline(pipelines'[q])
          /\ pipelines'[q].closed = r.closed /\ pipelines'[q].stopped = r.stopped
      <4> HIDE DEF r
      <4> QED BY <2>1, <3>1 DEF IsPipeline
    <3> QED BY <2>3, <3>2
  <2> QED BY <2>2, <2>3
<1>2. DOMAIN pipelines' = DOMAIN pipelines /\ pipelines' = [q \in DOMAIN pipelines |-> pipelines'[q]]
  OBVIOUS
<1>3. PipelinesAreListed'
  BY <1>1, <1>2, Renumbered DEF IInv
<1>4. Unstopped' = Unstopped
  BY <1>1, <1>2 DEF Unstopped
<1>5. CounterIsExact'
  BY <1>1, <1>2, <1>4 DEF IInv, CounterIsExact
<1>6. MapIsComplete'
  BY <1>2 DEF IInv, MapIsComplete
<1> QED BY <1>1, <1>2, <1>3, <1>5, <1>6

\* Everything a connection does.
LEMMA SinkKeepsIInv ==
    ASSUME IInv, NEW s \in Sinks,
           NewSink(s) \/ Accept(s) \/ Tick(s) \/ Close(s) \/ SinkRuns(s) \/ FlushTimeOut(s)
    PROVE  IInv'
<1>1. CASE NewSink(s) \/ Accept(s) \/ Tick(s) \/ Close(s) \/ AcceptReturns(s) \/ WalkReturns(s)
  BY <1>1, SinkMoves DEF NewSink, Accept, Tick, Close, WalkCaches, AcceptReturns, WalkReturns,
                        orcVars, mapVars, IInv, WorkThenClose
<1>2. CASE AcceptRecord(s)
  BY <1>2, AcceptRecordKeepsIInv
<1>3. CASE FlushSend(s)
  <2> DEFINE p == localMap[s][sendingKey[s]].pipeline
  <2>1. /\ sinkPC[s] = "flush" /\ UNCHANGED <<orcPC, workerMap, objectCount, localMap>>
        /\ sinkPC' = [sinkPC EXCEPT ![s] = after[s]]
        /\ pipelines' = [pipelines EXCEPT ![p].channel = Append(@, sending[s])]
    BY <1>3 DEF FlushSend, FlushOver, orcVars, mapVars
  <2>2. orcPC = "up" /\ \A q \in DOMAIN pipelines : ~pipelines[q].closed
    BY <2>1 DEF IInv, WorkThenClose
  <2>3. \A q \in DOMAIN pipelines : IsPipeline(pipelines[q]) /\ ~pipelines[q].stopped
    BY <2>2 DEF IInv, PipelinesAreListed, CounterIsExact
  <2> HIDE DEF p
  <2> DEFINE x == Append(pipelines[p].channel, sending[s])
             y == pipelines[p].processed
  <2>4. pipelines' = [pipelines EXCEPT ![p] = [[@ EXCEPT !.channel = x] EXCEPT !.processed = y]]
    BY <2>1, <2>3 DEF IsPipeline
  <2> HIDE DEF x, y
  <2>5. /\ PipelinesAreListed' /\ MapIsComplete' /\ CounterIsExact'
        /\ DOMAIN pipelines' = DOMAIN pipelines
        /\ \A q \in DOMAIN pipelines : pipelines'[q].closed = pipelines[q].closed
    <3>1. p \in DOMAIN pipelines => ~pipelines[p].stopped
      BY <2>3
    <3>2. UNCHANGED <<workerMap, objectCount>>
      BY <2>1
    <3> QED BY ONLY IInv, <2>4, <3>1, <3>2, ChannelMoves
  <2>6. LocalMapsAreCopies'
    BY <2>1 DEF IInv, LocalMapsAreCopies, CachesAgree, IsCache
  <2>7. WorkThenClose'
    BY <2>1, <2>2, <2>5 DEF IInv, WorkThenClose
  <2> QED BY <2>1, <2>5, <2>6, <2>7 DEF IInv
<1>4. CASE FlushTimeOut(s)
  BY <1>4, SinkMoves DEF FlushTimeOut, FlushOver, orcVars, mapVars, IInv, WorkThenClose
<1>5. CASE WalkCache(s)
  <2>1. /\ sinkPC[s] = "walk" /\ UNCHANGED <<orcPC, workerMap, objectCount, pipelines>>
        /\ \/ UNCHANGED <<localMap, sinkPC>>
           \/ \E k : FlushCache(s, k, localMap[s], "walk") /\ sinkPC' = [sinkPC EXCEPT ![s] = "flush"]
    BY <1>5 DEF WalkCache, orcVars, mapVars
  <2>2. CASE UNCHANGED <<localMap, sinkPC>>
    BY <2>1, <2>2, SinkMoves DEF IInv, WorkThenClose
  <2>3. CASE \E k : FlushCache(s, k, localMap[s], "walk") /\ sinkPC' = [sinkPC EXCEPT ![s] = "flush"]
    <3>1. PICK k : FlushCache(s, k, localMap[s], "walk") /\ sinkPC' = [sinkPC EXCEPT ![s] = "flush"]
      BY <2>3
    <3>2. DOMAIN localMap = Sinks /\ \A t \in Sinks : \A j \in DOMAIN localMap[t] : IsCache(localMap[t][j])
      BY DEF IInv, LocalMapsAreCopies
    <3>3. /\ DOMAIN localMap' = Sinks
          /\ \A t \in Sinks \ {s} : localMap'[t] = localMap[t]
          /\ DOMAIN localMap'[s] = DOMAIN localMap[s]
          /\ \A j \in DOMAIN localMap[s] :
                IsCache(localMap'[s][j]) /\ localMap'[s][j].pipeline = localMap[s][j].pipeline
      BY <3>1, <3>2, FlushCacheKeeps
    <3>4. \A t \in Sinks : \A j \in DOMAIN localMap'[t] :
            /\ IsCache(localMap'[t][j])
            /\ j \in DOMAIN workerMap /\ localMap'[t][j].pipeline = workerMap[j]
      BY <3>3 DEF IInv, LocalMapsAreCopies, CachesAgree
    <3>5. LocalMapsAreCopies'
      BY <2>1, <3>3, <3>4 DEF LocalMapsAreCopies, CachesAgree, IsCache
    <3>6. PipelinesAreListed' /\ MapIsComplete' /\ CounterIsExact'
      BY <2>1 DEF IInv, PipelinesAreListed, IsPipeline, MapIsComplete, CounterIsExact, Unstopped
    <3>7. WorkThenClose'
      BY <2>1, <3>1 DEF IInv, WorkThenClose
    <3> QED BY <2>1, <3>5, <3>6, <3>7 DEF IInv
  <2> QED BY <2>1, <2>2, <2>3
<1> QED BY <1>1, <1>2, <1>3, <1>4, <1>5 DEF SinkRuns

\* Workers empty their channels, and end when these are closed.
LEMMA WorkerKeepsIInv ==
    ASSUME IInv, NEW p \in DOMAIN pipelines, Worker(p)
    PROVE  IInv'
<1>1. CASE WorkerReceive(p)
  <2>1. /\ pipelines[p].channel # <<>>
        /\ pipelines' = [pipelines EXCEPT ![p].processed = @ \o Head(pipelines[p].channel),
                                          ![p].channel = Tail(@)]
        /\ UNCHANGED <<orcPC, workerMap, objectCount, localMap, sinkPC>>
    BY <1>1 DEF WorkerReceive, orcVars, mapVars
  <2>2. IsPipeline(pipelines[p]) /\ ~pipelines[p].stopped
    BY <2>1 DEF IInv, PipelinesAreListed, CounterIsExact
  <2>3. pipelines' = [pipelines EXCEPT ![p] =
                        [[@ EXCEPT !.channel = Tail(pipelines[p].channel)]
                           EXCEPT !.processed = pipelines[p].processed \o Head(pipelines[p].channel)]]
    BY <2>1, <2>2 DEF IsPipeline
  <2>4. /\ PipelinesAreListed' /\ MapIsComplete' /\ CounterIsExact'
        /\ DOMAIN pipelines' = DOMAIN pipelines
        /\ \A q \in DOMAIN pipelines : pipelines'[q].closed = pipelines[q].closed
    BY <2>1, <2>2, <2>3, ChannelMoves
  <2>5. LocalMapsAreCopies'
    BY <2>1 DEF IInv, LocalMapsAreCopies, CachesAgree, IsCache
  <2>6. WorkThenClose'
    BY <2>1, <2>4 DEF IInv, WorkThenClose
  <2> QED BY <2>1, <2>4, <2>5, <2>6 DEF IInv
<1>2. CASE WorkerStop(p)
  <2>1. /\ pipelines[p].closed /\ pipelines[p].channel = <<>> /\ ~pipelines[p].stopped
        /\ pipelines' = [pipelines EXCEPT ![p].stopped = TRUE]
        /\ objectCount' = objectCount - 1
        /\ UNCHANGED <<orcPC, workerMap, localMap, sinkPC>>
    BY <1>2 DEF WorkerStop, orcVars
  <2>2. ASSUME NEW q \in DOMAIN pipelines
        PROVE  /\ IsPipeline(pipelines'[q])
               /\ pipelines'[q].closed = pipelines[q].closed
               /\ pipelines'[q].channel = pipelines[q].channel
               /\ pipelines'[q].stopped <=> (pipelines[q].stopped \/ q = p)
    <3>1. IsPipeline(pipelines[q])
      BY DEF IInv, PipelinesAreListed
    <3>2. CASE q = p
      <4> DEFINE r == pipelines[q]
      <4>1. pipelines'[q] = [r EXCEPT !.stopped = TRUE] /\ IsPipeline(r)
        BY <2>1, <3>1, <3>2
      <4>2. /\ IsPipeline(pipelines'[q]) /\ pipelines'[q].stopped
            /\ pipelines'[q].closed = r.closed /\ pipelines'[q].channel = r.channel
        <5> HIDE DEF r
        <5> QED BY <4>1 DEF IsPipeline
      <4> QED BY <3>2, <4>2
    <3>3. CASE q # p
      BY <2>1, <3>1, <3>3
    <3> QED BY <3>2, <3>3
  <2>3. DOMAIN pipelines' = DOMAIN pipelines /\ pipelines' = [q \in DOMAIN pipelines |-> pipelines'[q]]
    BY <2>1
  <2>4. PipelinesAreListed'
    BY <2>2, <2>3, Renumbered DEF IInv
  <2>5. Unstopped' = Unstopped \ {p} /\ p \in Unstopped
    BY <2>1, <2>2, <2>3 DEF Unstopped
  <2>6. CounterIsExact'
    <3>1. Cardinality(Unstopped') = Cardinality(Unstopped) - 1
      BY <2>5, PipelineNumbers, FS_RemoveElement DEF IInv
    <3>2. objectCount' = Cardinality(Unstopped')
      BY <2>1, <3>1 DEF IInv, CounterIsExact
    <3> QED BY <2>1, <2>2, <2>3, <3>2 DEF IInv, CounterIsExact
  <2>7. MapIsComplete' /\ LocalMapsAreCopies'
    BY <2>1, <2>3 DEF IInv, MapIsComplete, LocalMapsAreCopies, CachesAgree, IsCache
  <2>8. WorkThenClose'
    BY <2>1, <2>2, <2>3 DEF IInv, WorkThenClose
  <2>9. orcPC # "done"
    <3> SUFFICES ASSUME orcPC = "done" PROVE FALSE
      OBVIOUS
    <3>1. Cardinality(Unstopped) = 0 /\ IsFiniteSet(Unstopped)
      BY PipelineNumbers DEF IInv, CounterIsExact
    <3> QED BY <3>1, <2>5, FS_EmptySet
  <2> QED BY <2>1, <2>4, <2>6, <2>7, <2>8, <2>9 DEF IInv
<1> QED BY <1>1, <1>2 DEF Worker

\* Destroy closes the channels of all pipelines, as all are in the global map, and waits.
LEMMA DestroyKeepsIInv == IInv /\ (DestroyClose \/ DestroyWait) => IInv'
<1> SUFFICES ASSUME IInv, DestroyClose \/ DestroyWait PROVE IInv'
  OBVIOUS
<1>1. CASE DestroyClose
  <2>1. /\ orcPC = "up" /\ orcPC' = "waiting"
        /\ \A s \in Sinks : sinkPC[s] \in {"absent", "closed", "gone"}
        /\ pipelines' = [p \in DOMAIN pipelines |->
                           [pipelines[p] EXCEPT !.closed = @ \/ p \in Range(workerMap)]]
        /\ UNCHANGED <<workerMap, objectCount, localMap, sinkPC>>
    BY <1>1 DEF DestroyClose, mapVars
  <2>2. ASSUME NEW p \in DOMAIN pipelines
        PROVE  /\ IsPipeline(pipelines'[p])
               /\ pipelines'[p].closed
               /\ pipelines'[p].stopped = pipelines[p].stopped
               /\ pipelines'[p].channel = pipelines[p].channel
    <3>1. IsPipeline(pipelines[p])
      BY DEF IInv, PipelinesAreListed
    <3>2. p \in Range(workerMap)
      BY DEF IInv, MapIsComplete, Range
    <3> DEFINE r == pipelines[p]
    <3>3. (r.closed \/ p \in Range(workerMap)) = TRUE
      BY <3>2
    <3>4. pipelines'[p] = [r EXCEPT !.closed = TRUE] /\ IsPipeline(r)
      BY <2>1, <3>1, <3>3
    <3>5. /\ IsPipeline(pipelines'[p]) /\ pipelines'[p].closed
          /\ pipelines'[p].stopped = r.stopped /\ pipelines'[p].channel = r.channel
      <4> HIDE DEF r
      <4> QED BY <3>4 DEF IsPipeline
    <3> QED BY <3>5
  <2>3. DOMAIN pipelines' = DOMAIN pipelines /\ pipelines' = [p \in DOMAIN pipelines |-> pipelines'[p]]
    BY <2>1
  <2>4. PipelinesAreListed'
    BY <2>2, <2>3, Renumbered DEF IInv
  <2>5. Unstopped' = Unstopped
    BY <2>2, <2>3 DEF Unstopped
  <2>6. CounterIsExact'
    BY <2>1, <2>2, <2>3, <2>5 DEF IInv, CounterIsExact
  <2>7. MapIsComplete' /\ LocalMapsAreCopies'
    BY <2>1, <2>3 DEF IInv, MapIsComplete, LocalMapsAreCopies, CachesAgree, IsCache
  <2>8. WorkThenClose'
    BY <2>1, <2>2, <2>3 DEF IInv, WorkThenClose
  <2> QED BY <2>1, <2>4, <2>6, <2>7, <2>8 DEF IInv
<1>2. CASE DestroyWait
  BY <1>2 DEF DestroyWait, mapVars, IInv, PipelinesAreListed, IsPipeline, MapIsComplete,
              LocalMapsAreCopies, IsCache, CachesAgree, WorkThenClose, CounterIsExact, Unstopped
<1> QED BY <1>1, <1>2

\* A new orchestrator starts with empty maps, whatever became of the last one.
LEMMA NextRunKeepsIInv == NextRun => IInv'
<1> SUFFICES ASSUME NextRun PROVE IInv'
  OBVIOUS
<1> USE DEF NextRun
<1>1. DOMAIN pipelines' = {} /\ DOMAIN workerMap' = {} /\ Unstopped' = {}
  BY DEF Unstopped
<1>2. PipelinesAreListed'
  <2>1. pipelines' \in [1..0 -> Range(pipelines')]
    BY <1>1
  <2> QED BY <1>1, <2>1 DEF PipelinesAreListed
<1>3. MapIsComplete' /\ WorkThenClose'
  BY <1>1 DEF MapIsComplete, WorkThenClose
<1>4. LocalMapsAreCopies'
  BY DEF LocalMapsAreCopies, CachesAgree
<1>5. CounterIsExact'
  BY <1>1, FS_EmptySet DEF CounterIsExact
<1> QED BY <1>2, <1>3, <1>4, <1>5 DEF IInv

\* Every step keeps it.
LEMMA NextKeepsIInv == IInv /\ [Next]_vars => IInv'
<1> SUFFICES ASSUME IInv, [Next]_vars PROVE IInv'
  OBVIOUS
<1>1. CASE Start
  BY <1>1, StartKeepsIInv
<1>2. ASSUME NEW s \in Sinks,
             NewSink(s) \/ Accept(s) \/ Tick(s) \/ Close(s) \/ SinkRuns(s) \/ FlushTimeOut(s)
      PROVE  IInv'
  BY <1>2, SinkKeepsIInv
<1>3. ASSUME NEW p \in DOMAIN pipelines, Worker(p) PROVE IInv'
  BY <1>3, WorkerKeepsIInv
<1>4. CASE DestroyClose \/ DestroyWait
  BY <1>4, DestroyKeepsIInv
<1>5. CASE Restart \/ Crash
  BY <1>5, NextRunKeepsIInv DEF Restart, Crash
<1>6. CASE Terminated \/ UNCHANGED vars
  BY <1>6, SinkMoves DEF Terminated, vars, orcVars, mapVars, IInv, WorkThenClose
<1> QED BY <1>1, <1>2, <1>3, <1>4, <1>5, <1>6 DEF Next

\* The bookkeeping of pipelines, maps and the counter is right in every reachable state.
THEOREM InvariantHolds == Spec => []IInv
BY InitIInv, NextKeepsIInv, PTL DEF Spec

-----------------------------------------------------------------------------
(* What it gives *)

\* All connections use the pipeline the global map has for a key: whatever a connection has in its
\* local cache (localcachedmap.go:86-121) is what the global map holds, so no two connections send
\* records of one key set to different pipelines.
THEOREM ConnectionsAgree == Spec => []CachesAgree
<1>1. IInv => CachesAgree
  BY DEF IInv, LocalMapsAreCopies
<1> QED BY <1>1, InvariantHolds, PTL

\* Destroy (localcachedmap.go:64-71) returns only when every worker that was ever started has
\* ended and every channel is empty: objectCounter is exactly the number of running workers.
THEOREM ShutdownIsComplete == Spec => []DestroyWaitsForAll
<1>1. IInv => DestroyWaitsForAll
  <2> SUFFICES ASSUME IInv, orcPC = "done", NEW p \in DOMAIN pipelines
               PROVE  pipelines[p].stopped /\ pipelines[p].channel = <<>>
    BY DEF DestroyWaitsForAll
  <2>1. Cardinality(Unstopped) = 0 /\ IsFiniteSet(Unstopped)
    BY PipelineNumbers DEF IInv, CounterIsExact
  <2>2. Unstopped = {}
    BY <2>1, FS_EmptySet
  <2>3. pipelines[p].stopped
    BY <2>2 DEF Unstopped
  <2> QED BY <2>3 DEF IInv, CounterIsExact
<1> QED BY <1>1, InvariantHolds, PTL

-----------------------------------------------------------------------------
(* Queue directories *)

IDs == {WorkerID(keys) : keys \in KeySets}

\* IDs of which NewOrchestrator can make keys again.
Splits(id) == id \in IDs /\ Len(SplitID(id)) = NumKeys

\* The global map has each pipeline under its key set, and its ID is that of the key set.
PipelinesAreNamed ==
    /\ DOMAIN workerMap \subseteq MergedKeys
    /\ \A k \in DOMAIN workerMap :
          workerMap[k] \in DOMAIN pipelines /\ MergedKey(pipelines[workerMap[k]].keys) = k
    /\ \A p \in DOMAIN pipelines :
          /\ pipelines[p].keys \in KeySets /\ pipelines[p].id = WorkerID(pipelines[p].keys)
          /\ MergedKey(pipelines[p].keys) \in DOMAIN workerMap
          /\ workerMap[MergedKey(pipelines[p].keys)] = p

\* Directories are those of key sets, and no two of them would need the same place in the global
\* map; nor would one need the place of a pipeline with another ID.
DirsAreApart ==
    /\ queueDirs \subseteq IDs
    /\ \A id, jd \in queueDirs :
          Splits(id) /\ Splits(jd) /\ MergedKey(SplitID(id)) = MergedKey(SplitID(jd)) => id = jd
    /\ \A p \in DOMAIN pipelines, id \in queueDirs :
          Splits(id) /\ MergedKey(SplitID(id)) = MergedKey(pipelines[p].keys) => pipelines[p].id = id

\* Until the channels are closed each directory has its pipeline, or waits for it.
DirsAreServed ==
    /\ toRecover \subseteq queueDirs
    /\ orcPC # "starting" => toRecover = {}
    /\ orcPC \in {"starting", "up"} =>
          \A id \in queueDirs :
              Splits(id) => id \in toRecover \/ \E p \in DOMAIN pipelines : pipelines[p].id = id

DirsInv == PipelinesAreNamed /\ DirsAreApart /\ DirsAreServed

\* An ID is joined from the keys it splits into.
LEMMA SplitOfID ==
    ASSUME SplitAssumption, NEW id, Splits(id)
    PROVE  SplitID(id) \in KeySets /\ WorkerID(SplitID(id)) = id
<1>1. PICK keys \in KeySets : id = WorkerID(keys)
  BY DEF Splits, IDs
<1>2. SplitID(id) = keys
  BY <1>1 DEF SplitAssumption, Splits
<1> QED BY <1>1, <1>2

\* The directories and the IDs of the pipelines together: no two that split need one place in the
\* global map.
LEMMA DirsAndPipelines ==
    ASSUME SplitAssumption, PipelinesAreNamed, DirsAreApart
    PROVE  LET all == queueDirs \cup {pipelines[p].id : p \in DOMAIN pipelines} IN
           /\ all \subseteq IDs
           /\ \A id, jd \in all :
                 Splits(id) /\ Splits(jd) /\ MergedKey(SplitID(id)) = MergedKey(SplitID(jd)) => id = jd
           /\ \A p \in DOMAIN pipelines, id \in all :
                 Splits(id) /\ MergedKey(SplitID(id)) = MergedKey(pipelines[p].keys) => pipelines[p].id = id
<1> DEFINE all == queueDirs \cup {pipelines[p].id : p \in DOMAIN pipelines}
<1>1. ASSUME NEW p \in DOMAIN pipelines
      PROVE  /\ pipelines[p].keys \in KeySets /\ pipelines[p].id \in IDs
             /\ Splits(pipelines[p].id) => SplitID(pipelines[p].id) = pipelines[p].keys
  BY DEF PipelinesAreNamed, IDs, SplitAssumption, Splits
<1>2. all \subseteq IDs
  BY <1>1 DEF DirsAreApart
<1>3. ASSUME NEW p \in DOMAIN pipelines, NEW id \in all, Splits(id),
             MergedKey(SplitID(id)) = MergedKey(pipelines[p].keys)
      PROVE  pipelines[p].id = id
  <2>1. CASE id \in queueDirs
    BY <1>3, <2>1 DEF DirsAreApart
  <2>2. CASE id \notin queueDirs
    <3>1. PICK q \in DOMAIN pipelines : id = pipelines[q].id
      BY <2>2
    <3>2. MergedKey(pipelines[q].keys) = MergedKey(pipelines[p].keys)
      BY <1>1, <1>3, <3>1
    <3>3. q = p
      BY <3>2 DEF PipelinesAreNamed
    <3> QED BY <3>1, <3>3
  <2> QED BY <2>1, <2>2
<1>4. ASSUME NEW id \in all, NEW jd \in all, Splits(id), Splits(jd),
             MergedKey(SplitID(id)) = MergedKey(SplitID(jd))
      PROVE  id = jd
  <2>1. CASE id \in queueDirs /\ jd \in queueDirs
    BY <1>4, <2>1 DEF DirsAreApart
  <2>2. ASSUME NEW p \in DOMAIN pipelines, id = pipelines[p].id PROVE id = jd
    BY <1>1, <1>3, <1>4, <2>2
  <2>3. ASSUME NEW p \in DOMAIN pipelines, jd = pipelines[p].id PROVE id = jd
    <3>1. MergedKey(SplitID(id)) = MergedKey(pipelines[p].keys)
      BY <1>1, <1>4, <2>3
    <3> QED BY <1>3, <1>4, <2>3, <3>1
  <2> QED BY <2>1, <2>2, <2>3
<1> QED BY <1>2, <1>3, <1>4

\* Looking up a key set, or starting its pipeline, keeps pipelines named, and changes none.
LEMMA GetOrCreateNames ==
    ASSUME NEW keys \in KeySets, GetOrCreate(keys), PipelinesAreListed, PipelinesAreNamed
    PROVE  /\ PipelinesAreNamed'
           /\ \A p \in DOMAIN pipelines : p \in DOMAIN pipelines' /\ pipelines'[p] = pipelines[p]
           /\ \A p \in DOMAIN pipelines' \ DOMAIN pipelines :
                 /\ pipelines'[p] = NewPipeline(keys)
                 /\ MergedKey(keys) \notin DOMAIN workerMap
           /\ \E p \in DOMAIN pipelines' : MergedKey(pipelines'[p].keys) = MergedKey(keys)
<1> DEFINE k0 == MergedKey(keys)
           n0 == Len(pipelines) + 1
           new == NewPipeline(keys)
<1>1. CASE k0 \in DOMAIN workerMap
  <2>1. UNCHANGED <<workerMap, pipelines>>
    BY <1>1 DEF GetOrCreate, mapVars
  <2>2. PipelinesAreNamed'
    BY <2>1 DEF PipelinesAreNamed
  <2> QED BY <1>1, <2>1, <2>2 DEF PipelinesAreNamed
<1>2. CASE k0 \notin DOMAIN workerMap
  <2>1. workerMap' = Put(workerMap, k0, n0) /\ pipelines' = Append(pipelines, new)
    BY <1>2 DEF GetOrCreate
  <2>2. /\ DOMAIN workerMap' = DOMAIN workerMap \cup {k0}
        /\ workerMap'[k0] = n0
        /\ \A k \in DOMAIN workerMap : workerMap'[k] = workerMap[k]
    BY <2>1, <1>2 DEF Put
  <2>3. /\ Len(pipelines) \in Nat /\ DOMAIN pipelines = 1..Len(pipelines)
        /\ pipelines \in Seq(Range(pipelines))
    BY PipelineNumbers
  <2>4. /\ DOMAIN pipelines' = 1..n0
        /\ \A p \in DOMAIN pipelines : pipelines'[p] = pipelines[p]
        /\ pipelines'[n0] = new
    <3> HIDE DEF new
    <3> QED BY <2>1, <2>3, Appended
  <2>5. DOMAIN pipelines' = DOMAIN pipelines \cup {n0} /\ n0 \notin DOMAIN pipelines
    BY <2>3, <2>4
  <2>6. new.keys = keys /\ new.id = WorkerID(keys) /\ k0 \in MergedKeys
    BY DEF NewPipeline, MergedKeys
  <2>7. MergedKey(new.keys) = k0
    BY <2>6
  <2> HIDE DEF k0, n0, new
  <2>8. \A k \in DOMAIN workerMap' :
          workerMap'[k] \in DOMAIN pipelines' /\ MergedKey(pipelines'[workerMap'[k]].keys) = k
    <3>1. pipelines'[workerMap'[k0]] = new
      BY <2>2, <2>4
    <3>2. ASSUME NEW k \in DOMAIN workerMap
          PROVE  /\ workerMap'[k] \in DOMAIN pipelines
                 /\ MergedKey(pipelines'[workerMap'[k]].keys) = k
      <4>1. workerMap'[k] = workerMap[k] /\ workerMap[k] \in DOMAIN pipelines
        BY <2>2 DEF PipelinesAreNamed
      <4>2. pipelines'[workerMap'[k]] = pipelines[workerMap[k]]
        BY <2>4, <4>1
      <4> QED BY <4>1, <4>2 DEF PipelinesAreNamed
    <3> QED BY <2>2, <2>5, <2>7, <3>1, <3>2
  <2>9. \A p \in DOMAIN pipelines' :
          /\ pipelines'[p].keys \in KeySets /\ pipelines'[p].id = WorkerID(pipelines'[p].keys)
          /\ MergedKey(pipelines'[p].keys) \in DOMAIN workerMap'
          /\ workerMap'[MergedKey(pipelines'[p].keys)] = p
    BY <2>2, <2>4, <2>5, <2>6, <2>7 DEF PipelinesAreNamed
  <2>10. PipelinesAreNamed'
    BY <2>2, <2>6, <2>8, <2>9 DEF PipelinesAreNamed
  <2> QED BY <1>2, <2>4, <2>5, <2>7, <2>10 DEF k0, new
<1> QED BY <1>1, <1>2

\* The record a sink is at, and the end of what it was called with.
CallsInRange ==
    /\ nextRecord \in [Sinks -> Nat] /\ batchEnd \in [Sinks -> Nat]
    /\ \A s \in Sinks :
          nextRecord[s] \in 1..(Len(RecordKeys[s]) + 1) /\ batchEnd[s] \in 0..Len(RecordKeys[s])

\* What Accept is at is a record, and has a key set.
LEMMA RecordIsKnown ==
    ASSUME KeySetAssumption, CallsInRange, NEW s \in Sinks, AcceptRecord(s)
    PROVE  /\ <<s, nextRecord[s]>> \in Record /\ KeysOf(<<s, nextRecord[s]>>) \in KeySets
           /\ nextRecord[s] \in 1..Len(RecordKeys[s])
<1>1. nextRecord[s] \in 1..Len(RecordKeys[s])
  <2>1. Len(RecordKeys[s]) \in Nat
    BY DEF KeySetAssumption
  <2> QED BY <2>1 DEF CallsInRange, AcceptRecord
<1>2. RecordKeys[s][nextRecord[s]] \in KeySets
  BY <1>1 DEF KeySetAssumption
<1> QED BY <1>1, <1>2 DEF Record, KeysOf

\* Sinks go through their records one by one.
LEMMA CallsKept ==
    ASSUME KeySetAssumption, CallsInRange, [Next]_vars
    PROVE  CallsInRange'
<1>1. \A s \in Sinks : Len(RecordKeys[s]) \in Nat
  BY DEF KeySetAssumption
<1>2. CASE UNCHANGED callVars
  BY <1>2 DEF CallsInRange, callVars
<1>3. ASSUME NEW s \in Sinks, Accept(s) PROVE CallsInRange'
  <2>1. PICK last \in nextRecord[s]..Len(RecordKeys[s]) : batchEnd' = [batchEnd EXCEPT ![s] = last]
    BY <1>3 DEF Accept
  <2>2. last \in 0..Len(RecordKeys[s]) /\ last \in Nat
    BY <1>1 DEF CallsInRange
  <2>3. UNCHANGED nextRecord
    BY <1>3 DEF Accept
  <2> QED BY <2>1, <2>2, <2>3 DEF CallsInRange
<1>4. ASSUME NEW s \in Sinks, AcceptRecord(s) PROVE CallsInRange'
  <2>1. nextRecord[s] \in 1..Len(RecordKeys[s])
    BY <1>4, RecordIsKnown
  <2>2. nextRecord' = [nextRecord EXCEPT ![s] = @ + 1] /\ UNCHANGED batchEnd
    BY <1>4 DEF AcceptRecord
  <2> QED BY <1>1, <2>1, <2>2 DEF CallsInRange
<1>5. ASSUME NEW s \in Sinks,
             \/ NewSink(s) \/ Tick(s) \/ Close(s) \/ FlushTimeOut(s) \/ AcceptReturns(s)
             \/ FlushSend(s) \/ WalkCache(s) \/ WalkReturns(s)
      PROVE  UNCHANGED callVars
  BY <1>5 DEF NewSink, Tick, Close, WalkCaches, FlushTimeOut, AcceptReturns, FlushSend, FlushOver,
              WalkCache, WalkReturns, callVars
<1>6. ASSUME NEW p, Worker(p) PROVE UNCHANGED callVars
  BY <1>6 DEF Worker, WorkerReceive, WorkerStop, callVars
<1>7. CASE Start \/ DestroyClose \/ DestroyWait \/ Restart \/ Crash \/ Terminated \/ UNCHANGED vars
  BY <1>2, <1>7 DEF Start, RecoverPipeline, IgnoreMalformed, Started, DestroyClose, DestroyWait,
                   Restart, Crash, NextRun, Terminated, vars
<1> QED BY <1>2, <1>3, <1>4, <1>5, <1>6, <1>7 DEF Next, SinkRuns

\* It holds before the first orchestrator has started.
LEMMA InitDirsInv == Init => DirsInv
BY DEF Init, DirsInv, PipelinesAreNamed, DirsAreApart, DirsAreServed

\* Steps that start no pipeline and leave no chunks.
LEMMA SameDirs ==
    ASSUME DirsInv, UNCHANGED <<workerMap, queueDirs, toRecover>>,
           DOMAIN pipelines' = DOMAIN pipelines,
           \A p \in DOMAIN pipelines :
              pipelines'[p].keys = pipelines[p].keys /\ pipelines'[p].id = pipelines[p].id,
           orcPC' # orcPC => orcPC # "starting" /\ orcPC' \in {"waiting", "done"}
    PROVE  DirsInv'
<1>1. PipelinesAreNamed'
  BY DEF DirsInv, PipelinesAreNamed
<1>2. DirsAreApart'
  BY DEF DirsInv, DirsAreApart
<1>3. DirsAreServed'
  BY DEF DirsInv, DirsAreServed
<1> QED BY <1>1, <1>2, <1>3 DEF DirsInv

\* NewOrchestrator: a directory has its pipeline now, or an ID that does not split.
LEMMA StartKeepsDirs ==
    ASSUME SplitAssumption, IInv, DirsInv, Start
    PROVE  DirsInv'
<1>1. CASE RecoverPipeline
  <2>1. PICK id \in toRecover : /\ toRecover' = toRecover \ {id}
                                /\ Len(SplitID(id)) = NumKeys
                                /\ GetOrCreate(SplitID(id))
    BY <1>1 DEF RecoverPipeline
  <2>2. orcPC = "starting" /\ UNCHANGED <<orcPC, queueDirs>>
    BY <1>1 DEF RecoverPipeline
  <2>3. id \in queueDirs /\ Splits(id)
    BY <2>1 DEF DirsInv, DirsAreServed, DirsAreApart, Splits
  <2> DEFINE keys == SplitID(id)
  <2>4. keys \in KeySets /\ WorkerID(keys) = id
    BY <2>3, SplitOfID
  <2> HIDE DEF keys
  <2>5. /\ PipelinesAreNamed'
        /\ \A p \in DOMAIN pipelines : p \in DOMAIN pipelines' /\ pipelines'[p] = pipelines[p]
        /\ \A p \in DOMAIN pipelines' \ DOMAIN pipelines :
              /\ pipelines'[p] = NewPipeline(keys)
              /\ MergedKey(keys) \notin DOMAIN workerMap
        /\ \E p \in DOMAIN pipelines' : MergedKey(pipelines'[p].keys) = MergedKey(keys)
    <3>1. GetOrCreate(keys)
      BY <2>1 DEF keys
    <3> QED BY <2>4, <3>1, GetOrCreateNames DEF IInv, DirsInv
  <2>6. ASSUME NEW p \in DOMAIN pipelines', NEW jd \in queueDirs, Splits(jd),
               MergedKey(SplitID(jd)) = MergedKey(pipelines'[p].keys)
        PROVE  pipelines'[p].id = jd
    <3>1. CASE p \in DOMAIN pipelines
      BY <2>5, <2>6, <3>1 DEF DirsInv, DirsAreApart
    <3>2. CASE p \notin DOMAIN pipelines
      <4>1. pipelines'[p] = NewPipeline(keys)
        BY <2>5, <3>2
      <4>2. pipelines'[p].keys = keys /\ pipelines'[p].id = id
        BY <2>4, <4>1 DEF NewPipeline
      <4>3. MergedKey(SplitID(jd)) = MergedKey(SplitID(id))
        BY <2>6, <4>2 DEF keys
      <4> QED BY <2>3, <2>6, <4>2, <4>3 DEF DirsInv, DirsAreApart
    <3> QED BY <3>1, <3>2
  <2>7. DirsAreApart'
    BY <2>2, <2>6 DEF DirsInv, DirsAreApart
  <2>8. \E p \in DOMAIN pipelines' : pipelines'[p].id = id
    <3>1. PICK p \in DOMAIN pipelines' : MergedKey(pipelines'[p].keys) = MergedKey(keys)
      BY <2>5
    <3>2. MergedKey(SplitID(id)) = MergedKey(pipelines'[p].keys)
      BY <3>1 DEF keys
    <3> QED BY <2>3, <2>6, <3>2
  <2>9. DirsAreServed'
    <3>1. toRecover' \subseteq queueDirs' /\ orcPC' = "starting"
      BY <2>1, <2>2 DEF DirsInv, DirsAreServed
    <3>2. ASSUME NEW jd \in queueDirs, Splits(jd)
          PROVE  jd \in toRecover' \/ \E p \in DOMAIN pipelines' : pipelines'[p].id = jd
      <4>1. jd \in toRecover \/ \E p \in DOMAIN pipelines : pipelines[p].id = jd
        BY <2>2, <3>2 DEF DirsInv, DirsAreServed
      <4> QED BY <2>1, <2>5, <2>8, <4>1
    <3> QED BY <2>2, <3>1, <3>2 DEF DirsAreServed
  <2> QED BY <2>5, <2>7, <2>9 DEF DirsInv
<1>2. CASE IgnoreMalformed
  <2>1. PICK id \in toRecover : toRecover' = toRecover \ {id} /\ Len(SplitID(id)) # NumKeys
    BY <1>2 DEF IgnoreMalformed
  <2>2. UNCHANGED <<orcPC, queueDirs, workerMap, pipelines>> /\ orcPC = "starting"
    BY <1>2 DEF IgnoreMalformed, mapVars
  <2>3. PipelinesAreNamed' /\ DirsAreApart'
    BY <2>2 DEF DirsInv, PipelinesAreNamed, DirsAreApart
  <2>4. DirsAreServed'
    BY <2>1, <2>2 DEF DirsInv, DirsAreServed, Splits
  <2> QED BY <2>3, <2>4 DEF DirsInv
<1>3. CASE Started
  <2>1. /\ orcPC = "starting" /\ toRecover = {} /\ orcPC' = "up"
        /\ UNCHANGED <<queueDirs, workerMap, pipelines, toRecover>>
    BY <1>3 DEF Started, mapVars
  <2>2. PipelinesAreNamed' /\ DirsAreApart'
    BY <2>1 DEF DirsInv, PipelinesAreNamed, DirsAreApart
  <2>3. DirsAreServed'
    BY <2>1 DEF DirsInv, DirsAreServed
  <2> QED BY <2>2, <2>3 DEF DirsInv
<1> QED BY <1>1, <1>2, <1>3 DEF Start

\* Accept starts a pipeline only where no directory would need one.
LEMMA AcceptRecordKeepsDirs ==
    ASSUME SplitAssumption, KeySetAssumption, IInv, CallsInRange, DirsInv,
           NEW s \in Sinks, AcceptRecord(s)
    PROVE  DirsInv'
<1> DEFINE keys == KeysOf(<<s, nextRecord[s]>>)
<1>1. /\ sinkPC[s] = "accept" /\ UNCHANGED <<orcPC, toRecover, queueDirs>>
      /\ UNCHANGED <<mapVars, pipelines>> \/ GetOrCreate(keys)
  BY DEF AcceptRecord, orcVars
<1>4. keys \in KeySets
  BY RecordIsKnown
<1> HIDE DEF keys
<1>2. CASE UNCHANGED <<mapVars, pipelines>>
  <2>1. /\ UNCHANGED <<workerMap, queueDirs, toRecover>>
        /\ orcPC' = orcPC /\ pipelines' = pipelines
    BY <1>1, <1>2 DEF mapVars
  <2> QED BY <2>1, SameDirs
<1>3. CASE GetOrCreate(keys)
  <2>1. orcPC = "up" /\ toRecover = {}
    BY <1>1 DEF IInv, WorkThenClose, DirsInv, DirsAreServed
  <2>2. /\ PipelinesAreNamed'
        /\ \A p \in DOMAIN pipelines : p \in DOMAIN pipelines' /\ pipelines'[p] = pipelines[p]
        /\ \A p \in DOMAIN pipelines' \ DOMAIN pipelines :
              /\ pipelines'[p] = NewPipeline(keys)
              /\ MergedKey(keys) \notin DOMAIN workerMap
    BY <1>3, <1>4, GetOrCreateNames DEF IInv, DirsInv
  <2>3. ASSUME NEW p \in DOMAIN pipelines', NEW jd \in queueDirs, Splits(jd),
               MergedKey(SplitID(jd)) = MergedKey(pipelines'[p].keys)
        PROVE  pipelines'[p].id = jd
    <3>1. CASE p \in DOMAIN pipelines
      BY <2>2, <2>3, <3>1 DEF DirsInv, DirsAreApart
    <3>2. CASE p \notin DOMAIN pipelines
      <4>1. pipelines'[p] = NewPipeline(keys) /\ MergedKey(keys) \notin DOMAIN workerMap
        BY <2>2, <3>2
      <4>2. pipelines'[p].keys = keys
        BY <4>1 DEF NewPipeline
      <4>3. PICK q \in DOMAIN pipelines : pipelines[q].id = jd
        BY <2>1, <2>3 DEF DirsInv, DirsAreServed
      <4>4. SplitID(jd) = pipelines[q].keys
        BY <2>3, <4>3 DEF DirsInv, PipelinesAreNamed, SplitAssumption, Splits
      <4>5. MergedKey(keys) = MergedKey(pipelines[q].keys)
        BY <2>3, <4>2, <4>4
      <4> QED BY <4>1, <4>5 DEF DirsInv, PipelinesAreNamed
    <3> QED BY <3>1, <3>2
  <2>4. DirsAreApart'
    BY <1>1, <2>3 DEF DirsInv, DirsAreApart
  <2>5. DirsAreServed'
    BY <1>1, <2>1, <2>2 DEF DirsInv, DirsAreServed
  <2> QED BY <2>2, <2>4, <2>5 DEF DirsInv
<1> QED BY <1>1, <1>2, <1>3

\* A step that only touches a channel and what is taken out of it.
LEMMA ChannelFields ==
    ASSUME IInv, NEW p, NEW x, NEW y,
           pipelines' = [pipelines EXCEPT ![p] = [[@ EXCEPT !.channel = x] EXCEPT !.processed = y]]
    PROVE  /\ DOMAIN pipelines' = DOMAIN pipelines
           /\ \A q \in DOMAIN pipelines :
                 /\ pipelines'[q].keys = pipelines[q].keys /\ pipelines'[q].id = pipelines[q].id
                 /\ q # p => pipelines'[q] = pipelines[q]
           /\ p \in DOMAIN pipelines => pipelines'[p].channel = x /\ pipelines'[p].processed = y
<1>1. ASSUME NEW q \in DOMAIN pipelines
      PROVE  /\ pipelines'[q].keys = pipelines[q].keys /\ pipelines'[q].id = pipelines[q].id
             /\ q # p => pipelines'[q] = pipelines[q]
             /\ q = p => pipelines'[q].channel = x /\ pipelines'[q].processed = y
  <2> DEFINE r == pipelines[q]
  <2>1. IsPipeline(r)
    BY DEF IInv, PipelinesAreListed
  <2>2. CASE q = p
    <3>1. pipelines'[q] = [[r EXCEPT !.channel = x] EXCEPT !.processed = y]
      BY <2>2
    <3>2. /\ pipelines'[q].keys = r.keys /\ pipelines'[q].id = r.id
          /\ pipelines'[q].channel = x /\ pipelines'[q].processed = y
      <4> HIDE DEF r
      <4> QED BY <2>1, <3>1 DEF IsPipeline
    <3> QED BY <2>2, <3>2
  <2>3. CASE q # p
    BY <2>3
  <2> QED BY <2>2, <2>3
<1> QED BY <1>1

\* The worker's end and Destroy set flags only.
LEMMA FlagFields ==
    ASSUME IInv, NEW q \in DOMAIN pipelines, NEW b,
           \/ pipelines'[q] = [pipelines[q] EXCEPT !.stopped = b]
           \/ pipelines'[q] = [pipelines[q] EXCEPT !.closed = b]
    PROVE  /\ pipelines'[q].keys = pipelines[q].keys /\ pipelines'[q].id = pipelines[q].id
           /\ pipelines'[q].channel = pipelines[q].channel
           /\ pipelines'[q].processed = pipelines[q].processed
<1> DEFINE r == pipelines[q]
<1>1. IsPipeline(r)
  BY DEF IInv, PipelinesAreListed
<1>2. pipelines'[q] = [r EXCEPT !.stopped = b] \/ pipelines'[q] = [r EXCEPT !.closed = b]
  OBVIOUS
<1>3. /\ pipelines'[q].keys = r.keys /\ pipelines'[q].id = r.id
      /\ pipelines'[q].channel = r.channel /\ pipelines'[q].processed = r.processed
  <2> HIDE DEF r
  <2> QED BY <1>1, <1>2 DEF IsPipeline
<1> QED BY <1>3

\* Which flags these are.
LEMMA FlagSteps ==
    ASSUME IInv,
           DestroyClose \/ \E p \in DOMAIN pipelines : WorkerStop(p)
    PROVE  /\ DOMAIN pipelines' = DOMAIN pipelines
           /\ \A q \in DOMAIN pipelines :
                 /\ pipelines'[q].keys = pipelines[q].keys /\ pipelines'[q].id = pipelines[q].id
                 /\ pipelines'[q].channel = pipelines[q].channel
                 /\ pipelines'[q].processed = pipelines[q].processed
<1>1. CASE DestroyClose
  <2>1. pipelines' = [p \in DOMAIN pipelines |->
                        [pipelines[p] EXCEPT !.closed = @ \/ p \in Range(workerMap)]]
    BY <1>1 DEF DestroyClose
  <2>2. ASSUME NEW q \in DOMAIN pipelines
        PROVE  \E b : pipelines'[q] = [pipelines[q] EXCEPT !.closed = b]
    BY <2>1
  <2> QED BY <2>1, <2>2, FlagFields
<1>2. ASSUME NEW p \in DOMAIN pipelines, WorkerStop(p)
      PROVE  /\ DOMAIN pipelines' = DOMAIN pipelines
             /\ \A q \in DOMAIN pipelines :
                   /\ pipelines'[q].keys = pipelines[q].keys /\ pipelines'[q].id = pipelines[q].id
                   /\ pipelines'[q].channel = pipelines[q].channel
                   /\ pipelines'[q].processed = pipelines[q].processed
  <2>1. pipelines' = [pipelines EXCEPT ![p].stopped = TRUE]
    BY <1>2 DEF WorkerStop
  <2>2. pipelines'[p] = [pipelines[p] EXCEPT !.stopped = TRUE] /\ DOMAIN pipelines' = DOMAIN pipelines
    BY <2>1
  <2>3. \A q \in DOMAIN pipelines : q # p => pipelines'[q] = pipelines[q]
    BY <2>1
  <2> QED BY <2>2, <2>3, FlagFields
<1> QED BY <1>1, <1>2

\* What is sent to a channel, and what the worker takes out of it.
LEMMA SendAndReceive ==
    ASSUME IInv
    PROVE  /\ \A s \in Sinks : FlushSend(s) =>
                 LET p == localMap[s][sendingKey[s]].pipeline IN
                 pipelines' = [pipelines EXCEPT ![p] =
                                 [[@ EXCEPT !.channel = Append(pipelines[p].channel, sending[s])]
                                    EXCEPT !.processed = pipelines[p].processed]]
           /\ \A p \in DOMAIN pipelines : WorkerReceive(p) =>
                 pipelines' = [pipelines EXCEPT ![p] =
                                 [[@ EXCEPT !.channel = Tail(pipelines[p].channel)]
                                    EXCEPT !.processed =
                                       pipelines[p].processed \o Head(pipelines[p].channel)]]
<1>1. \A p \in DOMAIN pipelines : IsPipeline(pipelines[p])
  BY DEF IInv, PipelinesAreListed
<1>2. ASSUME NEW s \in Sinks, FlushSend(s)
      PROVE  LET p == localMap[s][sendingKey[s]].pipeline IN
             pipelines' = [pipelines EXCEPT ![p] =
                             [[@ EXCEPT !.channel = Append(pipelines[p].channel, sending[s])]
                                EXCEPT !.processed = pipelines[p].processed]]
  <2> DEFINE p == localMap[s][sendingKey[s]].pipeline
  <2>1. pipelines' = [pipelines EXCEPT ![p].channel = Append(@, sending[s])]
    BY <1>2 DEF FlushSend
  <2> HIDE DEF p
  <2>2. pipelines' = [pipelines EXCEPT ![p] =
                        [[@ EXCEPT !.channel = Append(pipelines[p].channel, sending[s])]
                           EXCEPT !.processed = pipelines[p].processed]]
    BY <1>1, <2>1 DEF IsPipeline
  <2> QED BY <2>2 DEF p
<1>3. ASSUME NEW p \in DOMAIN pipelines, WorkerReceive(p)
      PROVE  pipelines' = [pipelines EXCEPT ![p] =
                             [[@ EXCEPT !.channel = Tail(pipelines[p].channel)]
                                EXCEPT !.processed =
                                   pipelines[p].processed \o Head(pipelines[p].channel)]]
  <2>1. pipelines' = [pipelines EXCEPT ![p].processed = @ \o Head(pipelines[p].channel),
                                       ![p].channel = Tail(@)]
    BY <1>3 DEF WorkerReceive
  <2>2. IsPipeline(pipelines[p])
    BY <1>1
  <2> QED BY <2>1, <2>2 DEF IsPipeline
<1> QED BY <1>2, <1>3

\* What connections do starts pipelines, or nothing.
LEMMA SinkKeepsDirs ==
    ASSUME SplitAssumption, KeySetAssumption, IInv, CallsInRange, DirsInv, NEW s \in Sinks,
           NewSink(s) \/ Accept(s) \/ Tick(s) \/ Close(s) \/ SinkRuns(s) \/ FlushTimeOut(s)
    PROVE  DirsInv'
<1>1. CASE \/ NewSink(s) \/ Accept(s) \/ Tick(s) \/ Close(s) \/ AcceptReturns(s)
           \/ WalkCache(s) \/ WalkReturns(s) \/ FlushTimeOut(s)
  <2>1. UNCHANGED <<workerMap, queueDirs, toRecover, orcPC, pipelines>>
    BY <1>1 DEF NewSink, Accept, Tick, Close, WalkCaches, AcceptReturns, WalkCache, WalkReturns,
                FlushTimeOut, FlushOver, orcVars, mapVars
  <2> QED BY <2>1, SameDirs
<1>2. CASE AcceptRecord(s)
  BY <1>2, AcceptRecordKeepsDirs
<1>3. CASE FlushSend(s)
  <2>1. UNCHANGED <<workerMap, queueDirs, toRecover, orcPC>>
    BY <1>3 DEF FlushSend, FlushOver, orcVars, mapVars
  <2>2. /\ DOMAIN pipelines' = DOMAIN pipelines
        /\ \A q \in DOMAIN pipelines :
              pipelines'[q].keys = pipelines[q].keys /\ pipelines'[q].id = pipelines[q].id
    <3> DEFINE p == localMap[s][sendingKey[s]].pipeline
               x == Append(pipelines[p].channel, sending[s])
               y == pipelines[p].processed
    <3>1. pipelines' = [pipelines EXCEPT ![p] = [[@ EXCEPT !.channel = x] EXCEPT !.processed = y]]
      BY <1>3, SendAndReceive
    <3> HIDE DEF p, x, y
    <3> QED BY <3>1, ChannelFields
  <2> QED BY <2>1, <2>2, SameDirs
<1> QED BY <1>1, <1>2, <1>3 DEF SinkRuns

\* A worker that ends leaves chunks in its own directory, if any.
LEMMA WorkerKeepsDirs ==
    ASSUME SplitAssumption, IInv, DirsInv, NEW p \in DOMAIN pipelines, Worker(p)
    PROVE  DirsInv'
<1>1. CASE WorkerReceive(p)
  <2>1. UNCHANGED <<workerMap, queueDirs, toRecover, orcPC>>
    BY <1>1 DEF WorkerReceive, orcVars, mapVars
  <2>2. /\ DOMAIN pipelines' = DOMAIN pipelines
        /\ \A q \in DOMAIN pipelines :
              pipelines'[q].keys = pipelines[q].keys /\ pipelines'[q].id = pipelines[q].id
    <3> DEFINE x == Tail(pipelines[p].channel)
               y == pipelines[p].processed \o Head(pipelines[p].channel)
    <3>1. pipelines' = [pipelines EXCEPT ![p] = [[@ EXCEPT !.channel = x] EXCEPT !.processed = y]]
      BY <1>1, SendAndReceive
    <3> HIDE DEF x, y
    <3> QED BY <3>1, ChannelFields
  <2> QED BY <2>1, <2>2, SameDirs
<1>2. CASE WorkerStop(p)
  <2>1. /\ pipelines[p].closed /\ UNCHANGED <<workerMap, toRecover, orcPC>>
        /\ pipelines' = [pipelines EXCEPT ![p].stopped = TRUE]
        /\ queueDirs' = queueDirs \ {pipelines[p].id} \/ queueDirs' = queueDirs \cup {pipelines[p].id}
    BY <1>2 DEF WorkerStop, orcVars
  <2>2. /\ DOMAIN pipelines' = DOMAIN pipelines
        /\ \A q \in DOMAIN pipelines :
              pipelines'[q].keys = pipelines[q].keys /\ pipelines'[q].id = pipelines[q].id
    BY <1>2, FlagSteps
  <2> DEFINE all == queueDirs \cup {pipelines[q].id : q \in DOMAIN pipelines}
  <2>3. /\ all \subseteq IDs
        /\ \A id, jd \in all :
              Splits(id) /\ Splits(jd) /\ MergedKey(SplitID(id)) = MergedKey(SplitID(jd)) => id = jd
        /\ \A q \in DOMAIN pipelines, id \in all :
              Splits(id) /\ MergedKey(SplitID(id)) = MergedKey(pipelines[q].keys) => pipelines[q].id = id
    BY DirsAndPipelines DEF DirsInv
  <2>4. queueDirs' \subseteq all
    BY <2>1
  <2> HIDE DEF all
  <2>5. PipelinesAreNamed'
    BY <2>1, <2>2 DEF DirsInv, PipelinesAreNamed
  <2>6. DirsAreApart'
    BY <2>2, <2>3, <2>4 DEF DirsAreApart
  <2>7. orcPC \in {"waiting", "done"}
    BY <2>1 DEF IInv, WorkThenClose
  <2>8. DirsAreServed'
    BY <2>1, <2>7 DEF DirsInv, DirsAreServed
  <2> QED BY <2>5, <2>6, <2>8 DEF DirsInv
<1> QED BY <1>1, <1>2 DEF Worker

\* A new orchestrator has to recover what the last one left, in its pipelines' directories or others.
LEMMA NextRunKeepsDirs ==
    ASSUME SplitAssumption, DirsInv, NextRun,
           queueDirs' \subseteq queueDirs \cup {pipelines[p].id : p \in DOMAIN pipelines}
    PROVE  DirsInv'
<1> DEFINE all == queueDirs \cup {pipelines[q].id : q \in DOMAIN pipelines}
<1>1. /\ all \subseteq IDs
      /\ \A id, jd \in all :
            Splits(id) /\ Splits(jd) /\ MergedKey(SplitID(id)) = MergedKey(SplitID(jd)) => id = jd
  BY DirsAndPipelines DEF DirsInv
<1>2. queueDirs' \subseteq all
  OBVIOUS
<1> HIDE DEF all
<1>3. DOMAIN workerMap' = {} /\ DOMAIN pipelines' = {} /\ toRecover' = queueDirs' /\ orcPC' = "starting"
  BY DEF NextRun
<1>4. PipelinesAreNamed'
  BY <1>3 DEF PipelinesAreNamed
<1>5. DirsAreApart'
  BY <1>1, <1>2, <1>3 DEF DirsAreApart
<1>6. DirsAreServed'
  BY <1>3 DEF DirsAreServed
<1> QED BY <1>4, <1>5, <1>6 DEF DirsInv

\* Every step keeps it.
LEMMA NextKeepsDirs ==
    ASSUME SplitAssumption, KeySetAssumption, IInv, CallsInRange, DirsInv, [Next]_vars
    PROVE  DirsInv'
<1>1. CASE Start
  BY <1>1, StartKeepsDirs
<1>2. ASSUME NEW s \in Sinks,
             NewSink(s) \/ Accept(s) \/ Tick(s) \/ Close(s) \/ SinkRuns(s) \/ FlushTimeOut(s)
      PROVE  DirsInv'
  BY <1>2, SinkKeepsDirs
<1>3. ASSUME NEW p \in DOMAIN pipelines, Worker(p) PROVE DirsInv'
  BY <1>3, WorkerKeepsDirs
<1>4. CASE DestroyClose
  <2>1. /\ UNCHANGED <<workerMap, queueDirs, toRecover>> /\ orcPC = "up" /\ orcPC' = "waiting"
    BY <1>4 DEF DestroyClose, mapVars
  <2>2. /\ DOMAIN pipelines' = DOMAIN pipelines
        /\ \A q \in DOMAIN pipelines :
              pipelines'[q].keys = pipelines[q].keys /\ pipelines'[q].id = pipelines[q].id
    BY <1>4, FlagSteps
  <2> QED BY <2>1, <2>2, SameDirs
<1>5. CASE DestroyWait
  <2>1. /\ UNCHANGED <<workerMap, queueDirs, toRecover, pipelines>>
        /\ orcPC = "waiting" /\ orcPC' = "done"
    BY <1>5 DEF DestroyWait, mapVars
  <2> QED BY <2>1, SameDirs
<1>6. CASE Restart \/ Crash
  <2>1. NextRun
    BY <1>6 DEF Restart, Crash
  <2>2. queueDirs' \subseteq queueDirs \cup {pipelines[p].id : p \in DOMAIN pipelines}
    BY <1>6 DEF Restart, Crash
  <2> QED BY <2>1, <2>2, NextRunKeepsDirs
<1>7. CASE Terminated \/ UNCHANGED vars
  <2>1. UNCHANGED <<workerMap, queueDirs, toRecover, orcPC, pipelines>>
    BY <1>7 DEF Terminated, vars, orcVars, mapVars
  <2> QED BY <2>1, SameDirs
<1> QED BY <1>1, <1>2, <1>3, <1>4, <1>5, <1>6, <1>7 DEF Next

\* Calls and directories are as they should be in every reachable state.
THEOREM DirsInvHolds == Spec => [](CallsInRange /\ DirsInv)
<1>1. Init => CallsInRange
  <2>1. \A s \in Sinks : Len(RecordKeys[s]) \in Nat
    BY KeySetAssumption
  <2> QED BY <2>1 DEF Init, CallsInRange
<1>2. IInv /\ CallsInRange /\ DirsInv /\ [Next]_vars => (CallsInRange /\ DirsInv)'
  BY CallsKept, NextKeepsDirs, KeySetAssumption, SplitAssumption
<1> QED BY <1>1, <1>2, InitDirsInv, InvariantHolds, PTL DEF Spec

\* NewOrchestrator (orchestrator.go:59-78): once the orchestrator is up, each queue directory whose ID
\* splits into the key fields has a pipeline that works in it, whatever runs and crashes came before.
THEOREM DirectoriesAreRecovered == Spec => []QueuesAreRecovered
<1>1. DirsInv => QueuesAreRecovered
  BY DEF DirsInv, DirsAreApart, DirsAreServed, Splits, QueuesAreRecovered
<1> QED BY <1>1, DirsInvHolds, PTL

\* Where IDs tell key sets apart, pipelines that run at the same time have different IDs, so each
\* has its queue directory for itself (pipelines.go:22), and connections share them.
THEOREM PipelinesAreApart ==
    ASSUME IDsTellKeySets
    PROVE  Spec => []OnePipelinePerKeySet
<1>1. IInv /\ DirsInv => OnePipelinePerKeySet
  <2> SUFFICES ASSUME IInv, DirsInv PROVE OnePipelinePerKeySet
    OBVIOUS
  <2>1. ASSUME NEW p \in DOMAIN pipelines, NEW q \in DOMAIN pipelines,
               pipelines[p].id = pipelines[q].id
        PROVE  p = q
    <3>1. MergedKey(pipelines[p].keys) = MergedKey(pipelines[q].keys)
      BY <2>1 DEF DirsInv, PipelinesAreNamed, IDsTellKeySets
    <3> QED BY <3>1 DEF DirsInv, PipelinesAreNamed
  <2> QED BY <2>1 DEF OnePipelinePerKeySet, IInv, LocalMapsAreCopies
<1> QED BY <1>1, DirsInvHolds, InvariantHolds, PTL

-----------------------------------------------------------------------------
(* Where the records are *)

\* The key in the global map that a record is sent by.
KeyOf(r) == MergedKey(KeysOf(r))

\* Records of one connection that go to one pipeline, in the order of the connection.
InOrder == {p \in Record \X Record :
              p[1][1] = p[2][1] /\ KeyOf(p[1]) = KeyOf(p[2]) => p[1][2] < p[2][2]}

Before(A, B) == \A a \in A, b \in B : <<a, b>> \in InOrder

\* What a worker has processed and the channel it reads from, from the oldest; and all there is.
InQueue(processed, channel) ==
    /\ Ordered(processed, InOrder)
    /\ \A i \in 1..Len(channel) :
          Ordered(channel[i], InOrder) /\ Precedes(processed, channel[i], InOrder)
    /\ \A i, j \in 1..Len(channel) : i < j => Precedes(channel[i], channel[j], InOrder)

GivenTo(processed, channel) ==
    Range(processed) \cup UNION {Range(channel[i]) : i \in 1..Len(channel)}

\* What a pipeline was given, what a connection is sending, and what is in one of its caches.
Given(p)   == GivenTo(pipelines[p].processed, pipelines[p].channel)
Sending(s) == Range(sending[s])
Held(s, k) == Range(localMap[s][k].pendingLogs)

\* A pipeline has the records of its key, in order.
PipelinesInOrder ==
    \A p \in DOMAIN pipelines :
        /\ pipelines[p].processed \in Seq(Record)
        /\ pipelines[p].channel \in Seq(Seq(Record)) /\ Len(pipelines[p].channel) <= ChannelCap
        /\ InQueue(pipelines[p].processed, pipelines[p].channel)
        /\ \A r \in Given(p) : KeyOf(r) = MergedKey(pipelines[p].keys)

\* What a connection sends is of one key; a cache has records of its key, later than these.
SendingInOrder ==
    /\ DOMAIN sending = Sinks /\ DOMAIN sendingKey = Sinks
    /\ \A s \in Sinks :
          /\ sending[s] \in Seq(Record) /\ Ordered(sending[s], InOrder)
          /\ \A r \in Sending(s) : r[1] = s /\ KeyOf(r) = sendingKey[s]

CachesInOrder ==
    \A s \in Sinks :
        /\ DOMAIN localMap[s] \subseteq MergedKeys
        /\ \A k \in DOMAIN localMap[s] :
              /\ localMap[s][k].pendingLogs \in Seq(Record)
              /\ Len(localMap[s][k].pendingLogs) < BufferCap
              /\ Ordered(localMap[s][k].pendingLogs, InOrder)
              /\ \A r \in Held(s, k) : r[1] = s /\ KeyOf(r) = k
              /\ Before(Sending(s), Held(s, k))

\* Whatever a pipeline was given comes before what connections have for it.
PipelinesFirst ==
    \A p \in DOMAIN pipelines, s \in Sinks :
        /\ Before(Given(p), Sending(s))
        /\ \A k \in DOMAIN localMap[s] : Before(Given(p), Held(s, k))

\* A record is somewhere on its way.
OnTheWay(r) ==
    \/ \E p \in DOMAIN pipelines : r \in Given(p)
    \/ r \in Sending(r[1])
    \/ \E k \in DOMAIN localMap[r[1]] : r \in Held(r[1], k)

\* What a connection has accepted is on its way or was dropped, and nothing else is; and the
\* connection has a cache for it.
NothingMissing ==
    /\ timedOut \subseteq Record
    /\ \A r \in Record : sinkPC[r[1]] # "gone" =>
          (r[2] < nextRecord[r[1]] <=> OnTheWay(r) \/ r \in timedOut)
    /\ \A r \in timedOut : r[2] < nextRecord[r[1]] /\ ~OnTheWay(r)
    /\ \A r \in Record :
          sinkPC[r[1]] # "gone" /\ r[2] < nextRecord[r[1]] => KeyOf(r) \in DOMAIN localMap[r[1]]

WayInv == PipelinesInOrder /\ SendingInOrder /\ CachesInOrder /\ PipelinesFirst /\ NothingMissing

\* The states of sinks: nothing is being sent outside of Flush, and what is sent is of a cache.
SinkStates ==
    /\ sinkPC \in [Sinks -> {"absent", "idle", "accept", "flush", "walk", "closed", "gone"}]
    /\ after \in [Sinks -> {"idle", "accept", "walk"}]
    /\ forceAll \in [Sinks -> BOOLEAN]
    /\ DOMAIN toWalk = Sinks
    /\ \A s \in Sinks :
          /\ toWalk[s] \subseteq DOMAIN localMap[s]
          /\ sinkPC[s] = "absent" => nextRecord[s] = 1
          /\ sinkPC[s] = "flush" => sendingKey[s] \in DOMAIN localMap[s]
          /\ sinkPC[s] # "flush" => sending[s] = <<>>

\* Close leaves nothing in the caches it has walked.
CloseEmpties ==
    \A s \in Sinks :
        /\ sinkPC[s] = "closed" => forceAll[s]
        /\ forceAll[s] =>
              /\ sinkPC[s] \in {"walk", "flush", "closed"}
              /\ sinkPC[s] = "flush" => after[s] = "walk"
              /\ sinkPC[s] = "closed" => toWalk[s] = {}
              /\ \A k \in DOMAIN localMap[s] : k \notin toWalk[s] => localMap[s][k].pendingLogs = <<>>

CallInv == SinkStates /\ CloseEmpties /\ runs \in 1..MaxRuns

\* All of it.
StateInv == IInv /\ CallsInRange /\ DirsInv /\ WayInv /\ CallInv

-----------------------------------------------------------------------------
(* Records and pieces *)

\* A record is a connection and a number of it, and has a key set.
LEMMA RecordFacts ==
    /\ \A r \in Record : /\ r = <<r[1], r[2]>> /\ r[1] \in Sinks
                         /\ r[2] \in 1..Len(RecordKeys[r[1]]) /\ r[2] \in Nat /\ r[2] > 0
                         /\ KeysOf(r) \in KeySets /\ KeyOf(r) \in MergedKeys
    /\ \A s \in Sinks : \A i \in 1..Len(RecordKeys[s]) : <<s, i>> \in Record
    /\ \A a, b \in Record :
          <<a, b>> \in InOrder <=> (a[1] = b[1] /\ KeyOf(a) = KeyOf(b) => a[2] < b[2])
<1>1. \A r \in Record : \E s \in Sinks : r \in {s} \X (1..Len(RecordKeys[s]))
  BY DEF Record
<1>2. \A r \in Record : r = <<r[1], r[2]>> /\ r[1] \in Sinks /\ r[2] \in 1..Len(RecordKeys[r[1]])
  BY <1>1
<1>3. \A s \in Sinks : Len(RecordKeys[s]) \in Nat /\ \A i \in 1..Len(RecordKeys[s]) : RecordKeys[s][i] \in KeySets
  BY KeySetAssumption
<1>4. \A r \in Record : r[2] \in Nat /\ r[2] > 0
  BY <1>2, <1>3
<1>5. \A r \in Record : KeysOf(r) \in KeySets
  BY <1>2, <1>3 DEF KeysOf
<1>6. \A r \in Record : KeyOf(r) \in MergedKeys
  BY <1>5 DEF KeyOf, MergedKeys
<1>7. \A s \in Sinks : \A i \in 1..Len(RecordKeys[s]) : <<s, i>> \in Record
  BY DEF Record
<1>8. \A a, b \in Record :
         <<a, b>> \in InOrder <=> (a[1] = b[1] /\ KeyOf(a) = KeyOf(b) => a[2] < b[2])
  BY DEF InOrder
<1> QED BY <1>2, <1>4, <1>5, <1>6, <1>7, <1>8

\* Nothing is in an empty sequence.
LEMMA EmptyPiece == <<>> \in Seq(Record) /\ Range(<<>>) = {} /\ Ordered(<<>>, InOrder) /\ Len(<<>>) = 0
BY DEF Range, Ordered

\* A record put behind others of its connection and key.
LEMMA NewestIsLast ==
    ASSUME NEW q \in Seq(Record), Ordered(q, InOrder), NEW r \in Record,
           \A a \in Range(q) : <<a, r>> \in InOrder
    PROVE  /\ Append(q, r) \in Seq(Record) /\ Ordered(Append(q, r), InOrder)
           /\ Range(Append(q, r)) = Range(q) \cup {r}
<1>1. <<r>> \in Seq(Record) /\ Len(<<r>>) = 1 /\ <<r>>[1] = r
  OBVIOUS
<1>2. Range(<<r>>) = {r} /\ Ordered(<<r>>, InOrder)
  BY <1>1 DEF Range, Ordered
<1>3. Precedes(q, <<r>>, InOrder)
  BY <1>2 DEF Precedes
<1>4. Range(q \o <<r>>) = Range(q) \cup Range(<<r>>)
  BY <1>1, JoinedFacts
<1>5. Append(q, r) = q \o <<r>>
  OBVIOUS
<1>6. q \o <<r>> \in Seq(Record) /\ Ordered(q \o <<r>>, InOrder)
  BY <1>1, <1>2, <1>3, JoinedFacts
<1>7. Range(q \o <<r>>) = Range(q) \cup {r}
  BY <1>2, <1>4, Zenon
<1>8. Range(Append(q, r)) = Range(q) \cup {r}
  BY <1>5, <1>7, Zenon
<1> QED BY <1>5, <1>6, <1>8

\* A new pipeline has been given nothing.
LEMMA EmptyQueue == InQueue(<<>>, <<>>) /\ GivenTo(<<>>, <<>>) = {}
<1>1. Len(<<>>) = 0
  OBVIOUS
<1>2. 1..Len(<<>>) = {}
  BY <1>1
<1> QED BY <1>2, EmptyPiece DEF InQueue, GivenTo

\* What a pipeline was given is records.
LEMMA GivenRecords ==
    ASSUME NEW d \in Seq(Record), NEW c \in Seq(Seq(Record))
    PROVE  GivenTo(d, c) \subseteq Record
<1>1. Range(d) \subseteq Record
  BY ElementsOf
<1>2. \A i \in 1..Len(c) : Range(c[i]) \subseteq Record
  <2> SUFFICES ASSUME NEW i \in 1..Len(c) PROVE Range(c[i]) \subseteq Record
    OBVIOUS
  <2>1. c[i] \in Seq(Record)
    <3> DEFINE S == Seq(Record)
    <3>1. c \in Seq(S)
      OBVIOUS
    <3>2. c[i] \in S
      <4> HIDE DEF S
      <4> QED BY <3>1
    <3> QED BY <3>2
  <2> QED BY <2>1, ElementsOf
<1> QED BY <1>1, <1>2 DEF GivenTo

\* The channel takes records that come after all it was given.
LEMMA QueueTakes ==
    ASSUME NEW d \in Seq(Record), NEW c \in Seq(Seq(Record)), InQueue(d, c),
           NEW x \in Seq(Record), Ordered(x, InOrder), Before(GivenTo(d, c), Range(x))
    PROVE  /\ Append(c, x) \in Seq(Seq(Record)) /\ Len(Append(c, x)) = Len(c) + 1
           /\ InQueue(d, Append(c, x))
           /\ GivenTo(d, Append(c, x)) = GivenTo(d, c) \cup Range(x)
<1> DEFINE S == Seq(Record)
           e == Append(c, x)
           n == Len(c)
<1>1. /\ e \in Seq(S) /\ Len(e) = n + 1 /\ n \in Nat
      /\ \A i \in 1..n : e[i] = c[i]
      /\ e[n + 1] = x
  <2> c \in Seq(S) /\ x \in S
    OBVIOUS
  <2> HIDE DEF S
  <2> QED OBVIOUS
<1> HIDE DEF e, n, S
<1>2. 1..Len(e) = 1..n \cup {n + 1}
  BY <1>1
<1>3. \A i \in 1..n : Range(e[i]) = Range(c[i])
  BY <1>1, Zenon
<1>4. Range(e[n + 1]) = Range(x)
  BY <1>1, Zenon
<1>5. GivenTo(d, e) = GivenTo(d, c) \cup Range(x)
  <2>1. GivenTo(d, c) = Range(d) \cup UNION {Range(c[i]) : i \in 1..n}
    BY DEF GivenTo, n
  <2>2. GivenTo(d, e) = Range(d) \cup UNION {Range(e[i]) : i \in 1..Len(e)}
    BY DEF GivenTo
  <2>3. UNION {Range(e[i]) : i \in 1..Len(e)} = Range(x) \cup UNION {Range(c[i]) : i \in 1..n}
    BY <1>2, <1>3, <1>4
  <2> QED BY <2>1, <2>2, <2>3
<1>6. /\ \A i \in 1..n : Precedes(c[i], x, InOrder)
      /\ Precedes(d, x, InOrder)
  BY DEF Precedes, Before, GivenTo, n
<1>7. ASSUME NEW i \in 1..Len(e)
      PROVE  Ordered(e[i], InOrder) /\ Precedes(d, e[i], InOrder)
  <2>1. CASE i = n + 1
    BY <1>1, <1>6, <2>1
  <2>2. CASE i \in 1..n
    <3>1. Ordered(c[i], InOrder) /\ Precedes(d, c[i], InOrder)
      BY <2>2 DEF InQueue, n
    <3> QED BY <1>1, <2>2, <3>1
  <2> QED BY <1>2, <2>1, <2>2
<1>8. ASSUME NEW i \in 1..Len(e), NEW j \in 1..Len(e), i < j
      PROVE  Precedes(e[i], e[j], InOrder)
  <2>1. i \in 1..n /\ j \in 1..(n + 1)
    BY <1>1, <1>8
  <2>2. CASE j = n + 1
    BY <1>1, <1>6, <2>1, <2>2
  <2>3. CASE j \in 1..n
    <3>1. Precedes(c[i], c[j], InOrder)
      BY <1>8, <2>1, <2>3 DEF InQueue, n
    <3> QED BY <1>1, <2>1, <2>3, <3>1
  <2> QED BY <1>1, <2>1, <2>2, <2>3
<1>9. InQueue(d, e)
  BY <1>7, <1>8 DEF InQueue
<1> QED BY <1>1, <1>5, <1>9 DEF e, n, S

\* The worker takes the head of its channel behind what it has processed.
LEMMA QueueMoves ==
    ASSUME NEW d \in Seq(Record), NEW c \in Seq(Seq(Record)), InQueue(d, c), c # <<>>
    PROVE  /\ d \o Head(c) \in Seq(Record)
           /\ Tail(c) \in Seq(Seq(Record)) /\ Len(Tail(c)) + 1 = Len(c)
           /\ InQueue(d \o Head(c), Tail(c))
           /\ GivenTo(d \o Head(c), Tail(c)) = GivenTo(d, c)
<1> DEFINE S == Seq(Record)
           h == Head(c)
           t == Tail(c)
           n == Len(t)
           g == d \o h
<1>1. /\ h \in S /\ h = c[1] /\ t \in Seq(S) /\ n \in Nat /\ Len(c) = n + 1
      /\ \A i \in 1..n : t[i] = c[i + 1]
  <2> c \in Seq(S)
    OBVIOUS
  <2> HIDE DEF S
  <2> QED OBVIOUS
<1>2. h \in Seq(Record)
  BY <1>1 DEF S
<1> HIDE DEF h, t, n, S
<1>3. /\ 1 \in 1..Len(c)
      /\ \A i \in 1..n : i + 1 \in 1..Len(c) /\ 1 < i + 1
      /\ \A i \in 1..Len(c) : i = 1 \/ (i - 1 \in 1..n /\ (i - 1) + 1 = i)
      /\ \A i, j \in 1..n : i < j => i + 1 < j + 1
  BY <1>1
<1>4. /\ Ordered(d, InOrder) /\ Ordered(h, InOrder) /\ Precedes(d, h, InOrder)
      /\ \A i \in 1..n : /\ Ordered(t[i], InOrder) /\ Precedes(d, t[i], InOrder)
                         /\ Precedes(h, t[i], InOrder)
      /\ \A i, j \in 1..n : i < j => Precedes(t[i], t[j], InOrder)
  BY <1>1, <1>3 DEF InQueue
<1>5. g \in Seq(Record) /\ Range(g) = Range(d) \cup Range(h) /\ Ordered(g, InOrder)
  BY <1>2, <1>4, JoinedFacts
<1> HIDE DEF g
<1>6. \A i \in 1..n : Precedes(g, t[i], InOrder)
  BY <1>4, <1>5 DEF Precedes
<1>7. InQueue(g, t)
  BY <1>4, <1>5, <1>6 DEF InQueue, n
<1>8. GivenTo(g, t) = GivenTo(d, c)
  <2>1. \A i \in 1..n : Range(t[i]) = Range(c[i + 1])
    BY <1>1, Zenon
  <2>2. Range(h) = Range(c[1])
    BY <1>1, Zenon
  <2>3. UNION {Range(c[i]) : i \in 1..Len(c)} = Range(h) \cup UNION {Range(t[i]) : i \in 1..n}
    <3>1. ASSUME NEW x, NEW i \in 1..Len(c), x \in Range(c[i])
          PROVE  x \in Range(h) \cup UNION {Range(t[j]) : j \in 1..n}
      <4>1. CASE i = 1
        BY <2>2, <3>1, <4>1
      <4>2. CASE i # 1
        <5>1. i - 1 \in 1..n /\ (i - 1) + 1 = i
          BY <1>3, <4>2
        <5>2. Range(t[i - 1]) = Range(c[i])
          BY <2>1, <5>1
        <5> QED BY <3>1, <5>1, <5>2
      <4> QED BY <4>1, <4>2
    <3>2. Range(h) \subseteq UNION {Range(c[i]) : i \in 1..Len(c)}
      BY <1>3, <2>2
    <3>3. ASSUME NEW i \in 1..n PROVE Range(t[i]) \subseteq UNION {Range(c[j]) : j \in 1..Len(c)}
      BY <1>3, <2>1
    <3> QED BY <3>1, <3>2, <3>3
  <2> QED BY <1>5, <2>3 DEF GivenTo, n
<1> QED BY <1>1, <1>5, <1>7, <1>8 DEF g, h, t, n, S

-----------------------------------------------------------------------------
(* Steps *)

\* What pipelines keep when others are started, workers end and channels are closed.
PipelinesKeepRecords ==
    /\ \A p \in DOMAIN pipelines :
          /\ p \in DOMAIN pipelines' /\ pipelines'[p].keys = pipelines[p].keys
          /\ pipelines'[p].channel = pipelines[p].channel
          /\ pipelines'[p].processed = pipelines[p].processed
    /\ \A p \in DOMAIN pipelines' \ DOMAIN pipelines :
          pipelines'[p].processed = <<>> /\ pipelines'[p].channel = <<>>

\* They keep their order then, and new ones have been given nothing.
LEMMA PipelinesGrow ==
    ASSUME PipelinesInOrder, PipelinesKeepRecords
    PROVE  /\ PipelinesInOrder'
           /\ \A p \in DOMAIN pipelines : Given(p)' = Given(p)
           /\ \A p \in DOMAIN pipelines' \ DOMAIN pipelines : Given(p)' = {}
<1>1. \A p \in DOMAIN pipelines : Given(p)' = Given(p)
  BY Zenon DEF PipelinesKeepRecords, Given
<1>2. \A p \in DOMAIN pipelines' \ DOMAIN pipelines : Given(p)' = {}
  <2>1. \A p \in DOMAIN pipelines' \ DOMAIN pipelines : Given(p)' = GivenTo(<<>>, <<>>)
    BY Zenon DEF PipelinesKeepRecords, Given
  <2> QED BY <2>1, EmptyQueue, Zenon
<1>3. ASSUME NEW p \in DOMAIN pipelines', p \in DOMAIN pipelines
      PROVE  /\ pipelines'[p].processed \in Seq(Record)
             /\ pipelines'[p].channel \in Seq(Seq(Record)) /\ Len(pipelines'[p].channel) <= ChannelCap
             /\ InQueue(pipelines'[p].processed, pipelines'[p].channel)
             /\ \A r \in Given(p)' : KeyOf(r) = MergedKey(pipelines'[p].keys)
  BY <1>1, <1>3 DEF PipelinesInOrder, PipelinesKeepRecords
<1>4. ASSUME NEW p \in DOMAIN pipelines', p \notin DOMAIN pipelines
      PROVE  /\ pipelines'[p].processed \in Seq(Record)
             /\ pipelines'[p].channel \in Seq(Seq(Record)) /\ Len(pipelines'[p].channel) <= ChannelCap
             /\ InQueue(pipelines'[p].processed, pipelines'[p].channel)
             /\ \A r \in Given(p)' : KeyOf(r) = MergedKey(pipelines'[p].keys)
  <2>1. pipelines'[p].processed = <<>> /\ pipelines'[p].channel = <<>>
    BY <1>4 DEF PipelinesKeepRecords
  <2>2. ChannelCap \in Nat /\ <<>> \in Seq(Seq(Record))
    BY KeySetAssumption
  <2> QED BY <1>2, <1>4, <2>1, <2>2, EmptyQueue, EmptyPiece
<1> QED BY <1>1, <1>2, <1>3, <1>4 DEF PipelinesInOrder

\* Steps that leave the records where they are.
LEMMA RecordsStay ==
    ASSUME WayInv, PipelinesKeepRecords,
           UNCHANGED <<sending, sendingKey, localMap, nextRecord, timedOut>>,
           \A s \in Sinks : sinkPC'[s] # "gone" => sinkPC[s] # "gone"
    PROVE  WayInv'
<1>1. /\ PipelinesInOrder'
      /\ \A p \in DOMAIN pipelines : p \in DOMAIN pipelines' /\ Given(p)' = Given(p)
      /\ \A p \in DOMAIN pipelines' : p \notin DOMAIN pipelines => Given(p)' = {}
  BY PipelinesGrow DEF WayInv, PipelinesKeepRecords
<1>2. \A s : Sending(s)' = Sending(s) /\ \A k : Held(s, k)' = Held(s, k)
  BY DEF Sending, Held
<1>3. SendingInOrder' /\ CachesInOrder'
  BY DEF WayInv, SendingInOrder, CachesInOrder, Sending, Held
<1>4. PipelinesFirst'
  <2> SUFFICES ASSUME NEW p \in DOMAIN pipelines', NEW s \in Sinks
               PROVE  /\ Before(Given(p)', Sending(s))
                      /\ \A k \in DOMAIN localMap[s] : Before(Given(p)', Held(s, k))
    BY <1>2 DEF PipelinesFirst
  <2>1. CASE p \in DOMAIN pipelines
    BY <1>1, <2>1 DEF WayInv, PipelinesFirst
  <2>2. CASE p \notin DOMAIN pipelines
    BY <1>1, <2>2 DEF Before
  <2> QED BY <2>1, <2>2
<1>5. \A r : OnTheWay(r)' <=> OnTheWay(r)
  BY <1>1, <1>2 DEF OnTheWay
<1>6. NothingMissing'
  BY <1>5, RecordFacts DEF WayInv, NothingMissing
<1> QED BY <1>1, <1>3, <1>4, <1>6 DEF WayInv

\* There are no records in the first orchestrator, nor in the next one, whatever was dropped.
NoRecords ==
    /\ pipelines = <<>> /\ timedOut \subseteq Record
    /\ localMap = [s \in Sinks |-> <<>>]
    /\ sending = [s \in Sinks |-> <<>>] /\ sendingKey = [s \in Sinks |-> <<>>]
    /\ \A s \in Sinks : sinkPC[s] # "gone" => nextRecord[s] = 1
    /\ \A r \in timedOut : r[2] < nextRecord[r[1]]

\* When there are none, each is where it should be.
LEMMA EmptyRun == NoRecords => WayInv
<1> SUFFICES ASSUME NoRecords PROVE WayInv
  OBVIOUS
<1>1. DOMAIN pipelines = {} /\ \A s \in Sinks : DOMAIN localMap[s] = {} /\ sending[s] = <<>>
  BY DEF NoRecords
<1>2. \A s \in Sinks : Sending(s) = {}
  <2>1. \A s \in Sinks : Sending(s) = Range(<<>>)
    BY <1>1, Zenon DEF Sending
  <2> QED BY <2>1, EmptyPiece, Zenon
<1>3. \A r \in Record : r[1] \in Sinks /\ ~OnTheWay(r) /\ r[2] \in Nat /\ r[2] > 0
  BY <1>1, <1>2, RecordFacts DEF OnTheWay
<1>4. PipelinesInOrder /\ CachesInOrder
  BY <1>1 DEF PipelinesInOrder, CachesInOrder
<1>5. SendingInOrder
  BY <1>1, <1>2, EmptyPiece DEF SendingInOrder, NoRecords
<1>6. PipelinesFirst
  BY <1>1 DEF PipelinesFirst
<1>7. NothingMissing
  <2>1. ASSUME NEW r \in Record, sinkPC[r[1]] # "gone"
        PROVE  ~(r[2] < nextRecord[r[1]]) /\ ~OnTheWay(r) /\ r \notin timedOut
    <3>1. ~(r[2] < nextRecord[r[1]])
      BY <1>3, <2>1 DEF NoRecords
    <3> QED BY <1>3, <3>1 DEF NoRecords
  <2> QED BY <1>3, <2>1 DEF NothingMissing, NoRecords
<1> QED BY <1>4, <1>5, <1>6, <1>7 DEF WayInv


\* And in the next state.
LEMMA EmptyRunNext == NoRecords' => WayInv'
BY EmptyRun, PTL

\* A connection changes what it is sending and what is in its caches, in order and behind what the
\* pipelines were given.
LEMMA SinkPiecesChange ==
    ASSUME WayInv, PipelinesKeepRecords, NEW s \in Sinks,
           DOMAIN sending' = Sinks, DOMAIN sendingKey' = Sinks,
           \A t \in Sinks \ {s} : /\ sending'[t] = sending[t] /\ sendingKey'[t] = sendingKey[t]
                                  /\ localMap'[t] = localMap[t],
           sending'[s] \in Seq(Record), Ordered(sending'[s], InOrder),
           \A r \in Range(sending'[s]) : r[1] = s /\ KeyOf(r) = sendingKey'[s],
           DOMAIN localMap'[s] \subseteq MergedKeys,
           \A k \in DOMAIN localMap'[s] :
              LET q == localMap'[s][k].pendingLogs IN
              /\ q \in Seq(Record) /\ Len(q) < BufferCap /\ Ordered(q, InOrder)
              /\ \A r \in Range(q) : r[1] = s /\ KeyOf(r) = k
              /\ Before(Range(sending'[s]), Range(q))
              /\ \A p \in DOMAIN pipelines : Before(Given(p), Range(q)),
           \A p \in DOMAIN pipelines : Before(Given(p), Range(sending'[s]))
    PROVE  PipelinesInOrder' /\ SendingInOrder' /\ CachesInOrder' /\ PipelinesFirst'
<1>1. /\ PipelinesInOrder'
      /\ \A p \in DOMAIN pipelines : p \in DOMAIN pipelines' /\ Given(p)' = Given(p)
      /\ \A p \in DOMAIN pipelines' : p \notin DOMAIN pipelines => Given(p)' = {}
  BY PipelinesGrow DEF WayInv, PipelinesKeepRecords
<1>2. \A t \in Sinks \ {s} : Sending(t)' = Sending(t) /\ \A k : Held(t, k)' = Held(t, k)
  BY Zenon DEF Sending, Held
<1>3. SendingInOrder'
  <2>1. ASSUME NEW t \in Sinks
        PROVE  /\ sending'[t] \in Seq(Record) /\ Ordered(sending'[t], InOrder)
               /\ \A r \in Sending(t)' : r[1] = t /\ KeyOf(r) = sendingKey'[t]
    <3>1. CASE t = s
      BY <3>1 DEF Sending
    <3>2. CASE t # s
      BY <1>2, <3>2 DEF WayInv, SendingInOrder
    <3> QED BY <3>1, <3>2
  <2> QED BY <2>1 DEF SendingInOrder
<1>4. ASSUME NEW k \in DOMAIN localMap'[s]
      PROVE  /\ localMap'[s][k].pendingLogs \in Seq(Record)
             /\ Len(localMap'[s][k].pendingLogs) < BufferCap
             /\ Ordered(localMap'[s][k].pendingLogs, InOrder)
             /\ \A r \in Held(s, k)' : r[1] = s /\ KeyOf(r) = k
             /\ Before(Sending(s)', Held(s, k)')
             /\ \A p \in DOMAIN pipelines : Before(Given(p), Held(s, k)')
  BY DEF Sending, Held
<1>5. CachesInOrder'
  <2>1. ASSUME NEW t \in Sinks, t # s
        PROVE  /\ DOMAIN localMap'[t] \subseteq MergedKeys
               /\ \A k \in DOMAIN localMap'[t] :
                     /\ localMap'[t][k].pendingLogs \in Seq(Record)
                     /\ Len(localMap'[t][k].pendingLogs) < BufferCap
                     /\ Ordered(localMap'[t][k].pendingLogs, InOrder)
                     /\ \A r \in Held(t, k)' : r[1] = t /\ KeyOf(r) = k
                     /\ Before(Sending(t)', Held(t, k)')
    <3>1. localMap'[t] = localMap[t]
      BY <2>1
    <3> QED BY <1>2, <2>1, <3>1 DEF WayInv, CachesInOrder
  <2>2. ASSUME NEW t \in Sinks, NEW k \in DOMAIN localMap'[t]
        PROVE  /\ DOMAIN localMap'[t] \subseteq MergedKeys
               /\ localMap'[t][k].pendingLogs \in Seq(Record)
               /\ Len(localMap'[t][k].pendingLogs) < BufferCap
               /\ Ordered(localMap'[t][k].pendingLogs, InOrder)
               /\ \A r \in Held(t, k)' : r[1] = t /\ KeyOf(r) = k
               /\ Before(Sending(t)', Held(t, k)')
    <3>1. CASE t = s
      BY <1>4, <3>1
    <3>2. CASE t # s
      BY <2>1, <3>2
    <3> QED BY <3>1, <3>2
  <2>3. \A t \in Sinks : DOMAIN localMap'[t] \subseteq MergedKeys
    BY <2>1
  <2> QED BY <2>2, <2>3 DEF CachesInOrder
<1>6. PipelinesFirst'
  <2>1. ASSUME NEW p \in DOMAIN pipelines', NEW t \in Sinks
        PROVE  /\ Before(Given(p)', Sending(t)')
               /\ \A k \in DOMAIN localMap'[t] : Before(Given(p)', Held(t, k)')
    <3>1. CASE p \notin DOMAIN pipelines
      BY <1>1, <3>1 DEF Before
    <3>2. CASE p \in DOMAIN pipelines /\ t # s
      <4>1. localMap'[t] = localMap[t]
        BY <3>2
      <4>2. Given(p)' = Given(p) /\ Sending(t)' = Sending(t) /\ \A k : Held(t, k)' = Held(t, k)
        BY <1>1, <1>2, <3>2
      <4> QED BY <3>2, <4>1, <4>2 DEF WayInv, PipelinesFirst
    <3>3. CASE p \in DOMAIN pipelines /\ t = s
      <4>1. Given(p)' = Given(p) /\ Before(Given(p), Sending(s)')
        BY <1>1, <3>3 DEF Sending
      <4> QED BY <1>4, <3>3, <4>1
    <3> QED BY <3>1, <3>2, <3>3
  <2> QED BY <2>1 DEF PipelinesFirst
<1> QED BY <1>1, <1>3, <1>5, <1>6

\* Flush takes the logs of one cache, whole, and leaves the others.
LEMMA FlushCacheMoves ==
    ASSUME NEW s \in Sinks, NEW caches, NEW k \in DOMAIN caches, NEW return,
           FlushCache(s, k, caches, return),
           DOMAIN localMap = Sinks, DOMAIN sending = Sinks, DOMAIN sendingKey = Sinks,
           \A j \in DOMAIN caches : IsCache(caches[j])
    PROVE  /\ DOMAIN localMap' = Sinks /\ DOMAIN sending' = Sinks /\ DOMAIN sendingKey' = Sinks
           /\ \A t \in Sinks \ {s} : /\ sending'[t] = sending[t] /\ sendingKey'[t] = sendingKey[t]
                                     /\ localMap'[t] = localMap[t]
           /\ sending'[s] = caches[k].pendingLogs /\ sendingKey'[s] = k
           /\ DOMAIN localMap'[s] = DOMAIN caches
           /\ localMap'[s][k].pendingLogs = <<>>
           /\ \A j \in DOMAIN caches : j # k => localMap'[s][j] = caches[j]
           /\ after' = [after EXCEPT ![s] = return]
<1> DEFINE flushed == [caches EXCEPT ![k].pendingLogs = <<>>]
           logs == caches[k].pendingLogs
<1>1. /\ localMap' = [localMap EXCEPT ![s] = flushed]
      /\ sending' = [sending EXCEPT ![s] = logs]
      /\ sendingKey' = [sendingKey EXCEPT ![s] = k]
      /\ after' = [after EXCEPT ![s] = return]
  BY DEF FlushCache
<1>2. /\ DOMAIN flushed = DOMAIN caches
      /\ \A j \in DOMAIN caches : j # k => flushed[j] = caches[j]
      /\ flushed[k] = [caches[k] EXCEPT !.pendingLogs = <<>>]
  OBVIOUS
<1>3. flushed[k].pendingLogs = <<>>
  <2> DEFINE c == caches[k]
  <2>1. IsCache(c) /\ flushed[k] = [c EXCEPT !.pendingLogs = <<>>]
    BY <1>2
  <2> HIDE DEF c, flushed
  <2> QED BY <2>1 DEF IsCache
<1> HIDE DEF flushed, logs
<1>4. /\ DOMAIN localMap' = Sinks /\ localMap'[s] = flushed
      /\ \A t \in Sinks \ {s} : localMap'[t] = localMap[t]
  BY <1>1
<1>5. /\ DOMAIN sending' = Sinks /\ sending'[s] = logs
      /\ \A t \in Sinks \ {s} : sending'[t] = sending[t]
  BY <1>1
<1>6. /\ DOMAIN sendingKey' = Sinks /\ sendingKey'[s] = k
      /\ \A t \in Sinks \ {s} : sendingKey'[t] = sendingKey[t]
  BY <1>1
<1> QED BY <1>1, <1>2, <1>3, <1>4, <1>5, <1>6 DEF logs

\* What a turn of Accept does to the caches, where q is what the cache has with the new record: it
\* stays there or is sent.
AcceptedInto(s, k, q) ==
    /\ DOMAIN localMap' = Sinks /\ DOMAIN sending' = Sinks /\ DOMAIN sendingKey' = Sinks
    /\ \A t \in Sinks \ {s} : /\ sending'[t] = sending[t] /\ sendingKey'[t] = sendingKey[t]
                              /\ localMap'[t] = localMap[t]
    /\ DOMAIN localMap'[s] = DOMAIN localMap[s] \cup {k}
    /\ \A j \in DOMAIN localMap[s] :
          j # k => localMap'[s][j].pendingLogs = localMap[s][j].pendingLogs
    /\ \/ /\ localMap'[s][k].pendingLogs = q /\ Len(q) < BufferCap
          /\ UNCHANGED <<sending, sendingKey, after, sinkPC>>
       \/ /\ localMap'[s][k].pendingLogs = <<>>
          /\ sending'[s] = q /\ sendingKey'[s] = k
          /\ after' = [after EXCEPT ![s] = "accept"]
          /\ sinkPC' = [sinkPC EXCEPT ![s] = "flush"]

\* AcceptRecord, for the pieces.
LEMMA AcceptRecordFields ==
    ASSUME IInv, SendingInOrder, NEW s \in Sinks, AcceptRecord(s)
    PROVE  \A r, k, q :
              /\ r = <<s, nextRecord[s]>> /\ k = KeyOf(r)
              /\ q = (IF k \in DOMAIN localMap[s] THEN localMap[s][k].pendingLogs ELSE <<>>)
              => AcceptedInto(s, k, Append(q, r))
<1>0. SUFFICES ASSUME NEW r, NEW k, NEW q,
                      r = <<s, nextRecord[s]>>, k = KeyOf(r),
                      q = (IF k \in DOMAIN localMap[s] THEN localMap[s][k].pendingLogs ELSE <<>>)
               PROVE  AcceptedInto(s, k, Append(q, r))
  OBVIOUS
<1> DEFINE cache    == IF k \in DOMAIN localMap[s]
                         THEN localMap[s][k] ELSE [pipeline |-> workerMap'[k], pendingLogs |-> <<>>]
           appended == [cache EXCEPT !.pendingLogs = Append(@, r)]
           caches   == Put(localMap[s], k, appended)
<1>1. \/ /\ Len(caches[k].pendingLogs) < BufferCap
         /\ localMap' = [localMap EXCEPT ![s] = caches]
         /\ UNCHANGED <<sendVars, sinkPC>>
      \/ /\ FlushCache(s, k, caches, "accept")
         /\ sinkPC' = [sinkPC EXCEPT ![s] = "flush"]
  BY <1>0 DEF AcceptRecord, KeyOf
<1>2. /\ DOMAIN localMap = Sinks /\ DOMAIN sending = Sinks /\ DOMAIN sendingKey = Sinks
      /\ \A j \in DOMAIN localMap[s] : IsCache(localMap[s][j])
  BY DEF IInv, LocalMapsAreCopies, SendingInOrder
<1>3. IsCache(cache) /\ cache.pendingLogs = q
  <2>1. CASE k \in DOMAIN localMap[s]
    BY <1>0, <1>2, <2>1
  <2>2. CASE k \notin DOMAIN localMap[s]
    <3> DEFINE w == workerMap'[k]
    <3>1. cache = [pipeline |-> w, pendingLogs |-> <<>>] /\ q = <<>>
      BY <1>0, <2>2
    <3> HIDE DEF cache, w
    <3> QED BY <3>1 DEF IsCache
  <2> QED BY <2>1, <2>2
<1>4. IsCache(appended) /\ appended.pendingLogs = Append(q, r)
  <2> DEFINE l == Append(q, r)
  <2>1. appended = [cache EXCEPT !.pendingLogs = l]
    BY <1>3
  <2> HIDE DEF cache, appended, l
  <2>2. IsCache(appended) /\ appended.pendingLogs = l
    BY <1>3, <2>1 DEF IsCache
  <2> QED BY <2>2 DEF l
<1> HIDE DEF appended, cache
<1>5. /\ DOMAIN caches = DOMAIN localMap[s] \cup {k} /\ caches[k] = appended
      /\ \A j \in DOMAIN localMap[s] : j # k => caches[j] = localMap[s][j]
  BY DEF Put
<1>6. \A j \in DOMAIN caches : IsCache(caches[j])
  BY <1>2, <1>4, <1>5
<1> HIDE DEF caches
<1>7. CASE /\ Len(caches[k].pendingLogs) < BufferCap
           /\ localMap' = [localMap EXCEPT ![s] = caches]
           /\ UNCHANGED <<sendVars, sinkPC>>
  <2>1. /\ DOMAIN localMap' = Sinks /\ localMap'[s] = caches
        /\ \A t \in Sinks \ {s} : localMap'[t] = localMap[t]
    BY <1>2, <1>7
  <2>2. UNCHANGED <<sending, sendingKey, after, sinkPC>>
    BY <1>7 DEF sendVars
  <2>3. caches[k].pendingLogs = Append(q, r)
    BY <1>4, <1>5
  <2> QED BY <1>2, <1>5, <1>7, <2>1, <2>2, <2>3 DEF AcceptedInto
<1>8. CASE /\ FlushCache(s, k, caches, "accept")
           /\ sinkPC' = [sinkPC EXCEPT ![s] = "flush"]
  <2>1. k \in DOMAIN caches
    BY <1>5
  <2>2. /\ DOMAIN localMap' = Sinks /\ DOMAIN sending' = Sinks /\ DOMAIN sendingKey' = Sinks
        /\ \A t \in Sinks \ {s} : /\ sending'[t] = sending[t] /\ sendingKey'[t] = sendingKey[t]
                                  /\ localMap'[t] = localMap[t]
        /\ sending'[s] = caches[k].pendingLogs /\ sendingKey'[s] = k
        /\ DOMAIN localMap'[s] = DOMAIN caches
        /\ localMap'[s][k].pendingLogs = <<>>
        /\ \A j \in DOMAIN caches : j # k => localMap'[s][j] = caches[j]
        /\ after' = [after EXCEPT ![s] = "accept"]
    BY <1>2, <1>6, <1>8, <2>1, FlushCacheMoves
  <2>3. caches[k].pendingLogs = Append(q, r)
    BY <1>4, <1>5
  <2> QED BY <1>5, <1>8, <2>2, <2>3 DEF AcceptedInto
<1> QED BY <1>1, <1>7, <1>8

\* A turn of Accept: the record is on its way, behind all others of its connection and key.
LEMMA AcceptRecordPass ==
    ASSUME KeySetAssumption, StateInv, NEW s \in Sinks, AcceptRecord(s)
    PROVE  WayInv'
<1> USE DEF StateInv
<1>0. SUFFICES ASSUME NEW n, NEW r, NEW k, NEW q, NEW q1,
                       n = nextRecord[s], r = <<s, n>>, k = KeyOf(r),
                       q = (IF k \in DOMAIN localMap[s] THEN localMap[s][k].pendingLogs ELSE <<>>),
                       q1 = Append(q, r)
                PROVE  WayInv'
  OBVIOUS
<1>1. r \in Record /\ r[1] = s /\ r[2] = n /\ n \in Nat /\ k \in MergedKeys
  <2>1. r \in Record
    BY <1>0, RecordIsKnown
  <2> QED BY <1>0, <2>1, RecordFacts
<1>2. /\ sinkPC[s] = "accept" /\ n <= batchEnd[s] /\ nextRecord' = [nextRecord EXCEPT ![s] = n + 1]
      /\ UNCHANGED timedOut
  BY <1>0 DEF AcceptRecord
<1>3. sending[s] = <<>>
  BY <1>2 DEF CallInv, SinkStates
<1>4. PipelinesKeepRecords
  <2>1. UNCHANGED <<mapVars, pipelines>> \/ GetOrCreate(KeysOf(r))
    BY <1>0 DEF AcceptRecord
  <2>2. CASE UNCHANGED <<mapVars, pipelines>>
    BY <2>2 DEF PipelinesKeepRecords
  <2>3. CASE GetOrCreate(KeysOf(r))
    <3>1. KeysOf(r) \in KeySets
      BY <1>1, RecordFacts
    <3> DEFINE keys == KeysOf(r)
    <3> HIDE DEF keys
    <3>2. /\ \A p \in DOMAIN pipelines : p \in DOMAIN pipelines' /\ pipelines'[p] = pipelines[p]
          /\ \A p \in DOMAIN pipelines' \ DOMAIN pipelines : pipelines'[p] = NewPipeline(keys)
      BY <2>3, <3>1, GetOrCreateNames DEF IInv, DirsInv, keys
    <3> QED BY <3>2 DEF PipelinesKeepRecords, NewPipeline
  <2> QED BY <2>1, <2>2, <2>3
<1>5. /\ DOMAIN localMap' = Sinks /\ DOMAIN sending' = Sinks /\ DOMAIN sendingKey' = Sinks
      /\ \A t \in Sinks \ {s} : /\ sending'[t] = sending[t] /\ sendingKey'[t] = sendingKey[t]
                                /\ localMap'[t] = localMap[t]
      /\ DOMAIN localMap'[s] = DOMAIN localMap[s] \cup {k}
      /\ \A j \in DOMAIN localMap[s] :
            j # k => localMap'[s][j].pendingLogs = localMap[s][j].pendingLogs
      /\ \/ /\ localMap'[s][k].pendingLogs = q1 /\ Len(q1) < BufferCap
            /\ UNCHANGED <<sending, sendingKey, after, sinkPC>>
         \/ /\ localMap'[s][k].pendingLogs = <<>>
            /\ sending'[s] = q1 /\ sendingKey'[s] = k
            /\ after' = [after EXCEPT ![s] = "accept"]
            /\ sinkPC' = [sinkPC EXCEPT ![s] = "flush"]
  <2>1. AcceptedInto(s, k, Append(q, r))
    BY <1>0, AcceptRecordFields DEF WayInv
  <2>2. AcceptedInto(s, k, q1)
    BY <1>0, <2>1
  <2> QED BY <2>2 DEF AcceptedInto
<1>6. /\ q \in Seq(Record) /\ Ordered(q, InOrder)
      /\ \A x \in Range(q) : x \in Record /\ x[1] = s /\ KeyOf(x) = k /\ OnTheWay(x)
      /\ \A p \in DOMAIN pipelines : Before(Given(p), Range(q))
  <2>1. CASE k \in DOMAIN localMap[s]
    <3>1. q = localMap[s][k].pendingLogs
      BY <1>0, <2>1
    <3>2. Range(q) = Held(s, k)
      BY <3>1, Zenon DEF Held
    <3>3. q \in Seq(Record) /\ Ordered(q, InOrder) /\ \A x \in Held(s, k) : x[1] = s /\ KeyOf(x) = k
      BY <2>1, <3>1 DEF WayInv, CachesInOrder
    <3>4. Range(q) \subseteq Record
      <4>1. q \in Seq(Record)
        BY <3>3
      <4> QED BY <4>1, ElementsOf
    <3>5. \A x \in Held(s, k) : OnTheWay(x)
      BY <2>1, <3>3 DEF OnTheWay
    <3>6. \A p \in DOMAIN pipelines : Before(Given(p), Held(s, k))
      BY <2>1 DEF WayInv, PipelinesFirst
    <3> QED BY <3>2, <3>3, <3>4, <3>5, <3>6
  <2>2. CASE k \notin DOMAIN localMap[s]
    <3>1. q = <<>>
      BY <1>0, <2>2
    <3>2. Range(q) = {}
      BY <3>1, EmptyPiece, Zenon
    <3> QED BY <3>1, <3>2, EmptyPiece DEF Before
  <2> QED BY <2>1, <2>2
<1>7. \A x \in Record : OnTheWay(x) => <<x, r>> \in InOrder
  <2>1. ASSUME NEW x \in Record, OnTheWay(x), x[1] = s PROVE x[2] < n
    BY <1>0, <1>2, <2>1 DEF WayInv, NothingMissing
  <2> QED BY <1>1, <2>1, RecordFacts
<1>8. \A p \in DOMAIN pipelines : Given(p) \subseteq Record /\ \A x \in Given(p) : OnTheWay(x)
  <2> SUFFICES ASSUME NEW p \in DOMAIN pipelines PROVE Given(p) \subseteq Record
    BY DEF OnTheWay
  <2>1. pipelines[p].processed \in Seq(Record) /\ pipelines[p].channel \in Seq(Seq(Record))
    BY DEF WayInv, PipelinesInOrder
  <2> QED BY <2>1, GivenRecords DEF Given
<1>9. /\ q1 \in Seq(Record) /\ Ordered(q1, InOrder) /\ Range(q1) = Range(q) \cup {r}
  BY <1>0, <1>1, <1>6, <1>7, NewestIsLast
<1>10. /\ \A x \in Range(q1) : x[1] = s /\ KeyOf(x) = k
       /\ \A p \in DOMAIN pipelines : Before(Given(p), Range(q1))
  <2>1. KeyOf(r) = k
    BY <1>0
  <2>2. \A x \in Range(q1) : x[1] = s /\ KeyOf(x) = k
    BY <1>1, <1>6, <1>9, <2>1
  <2>3. \A p \in DOMAIN pipelines : Before(Given(p), Range(q1))
    BY <1>6, <1>7, <1>8, <1>9 DEF Before
  <2> QED BY <2>2, <2>3
<1>11. /\ DOMAIN localMap[s] \subseteq MergedKeys
       /\ \A j \in DOMAIN localMap[s] :
             LET l == localMap[s][j].pendingLogs IN
             /\ l \in Seq(Record) /\ Len(l) < BufferCap /\ Ordered(l, InOrder)
             /\ \A x \in Range(l) : x[1] = s /\ KeyOf(x) = j
             /\ \A p \in DOMAIN pipelines : Before(Given(p), Range(l))
  BY DEF WayInv, CachesInOrder, PipelinesFirst, Held
<1>12. ASSUME NEW j \in DOMAIN localMap[s], j # k
       PROVE  Before(Range(q1), Range(localMap[s][j].pendingLogs))
  <2>1. \A x \in Range(q1) : x \in Record /\ KeyOf(x) = k
    BY <1>9, <1>10, ElementsOf
  <2>2. \A x \in Range(localMap[s][j].pendingLogs) : x \in Record /\ KeyOf(x) = j
    BY <1>11, ElementsOf
  <2>3. ASSUME NEW x \in Range(q1), NEW y \in Range(localMap[s][j].pendingLogs)
        PROVE  <<x, y>> \in InOrder
    <3>1. x \in Record /\ y \in Record /\ KeyOf(x) # KeyOf(y)
      BY <1>12, <2>1, <2>2
    <3> QED BY <3>1, RecordFacts
  <2> QED BY <2>3 DEF Before
<1>13. /\ sending'[s] \in Seq(Record) /\ Ordered(sending'[s], InOrder)
       /\ \A x \in Range(sending'[s]) : x[1] = s /\ KeyOf(x) = sendingKey'[s]
       /\ \A p \in DOMAIN pipelines : Before(Given(p), Range(sending'[s]))
  <2>1. CASE UNCHANGED <<sending, sendingKey, after, sinkPC>>
    BY <2>1 DEF WayInv, SendingInOrder, PipelinesFirst, Sending
  <2>2. CASE sending'[s] = q1 /\ sendingKey'[s] = k
    BY <1>9, <1>10, <2>2
  <2> QED BY <1>5, <2>1, <2>2
<1>14. ASSUME NEW j \in DOMAIN localMap'[s]
       PROVE  LET l == localMap'[s][j].pendingLogs IN
              /\ l \in Seq(Record) /\ Len(l) < BufferCap /\ Ordered(l, InOrder)
              /\ \A x \in Range(l) : x[1] = s /\ KeyOf(x) = j
              /\ Before(Range(sending'[s]), Range(l))
              /\ \A p \in DOMAIN pipelines : Before(Given(p), Range(l))
  <2>1. Range(<<>>) = {} /\ \A A : Before(A, {}) /\ Before({}, A)
    BY EmptyPiece DEF Before
  <2>2. CASE j # k
    <3> DEFINE l == localMap[s][j].pendingLogs
    <3>1. localMap'[s][j].pendingLogs = l
      BY <1>5, <1>14, <2>2
    <3>2. sending'[s] = q1 \/ sending'[s] = <<>>
      BY <1>3, <1>5
    <3>3. Before(Range(sending'[s]), Range(l))
      <4>1. CASE sending'[s] = q1
        BY <1>5, <1>12, <1>14, <2>2, <4>1
      <4>2. CASE sending'[s] = <<>>
        BY <2>1, <4>2
      <4> QED BY <3>2, <4>1, <4>2
    <3> QED BY <1>5, <1>11, <1>14, <2>2, <3>1, <3>3
  <2>3. CASE j = k /\ localMap'[s][k].pendingLogs = q1 /\ Len(q1) < BufferCap
             /\ UNCHANGED <<sending, sendingKey, after, sinkPC>>
    <3>1. Before(Range(sending'[s]), Range(q1))
      BY <1>3, <2>1, <2>3
    <3> QED BY <1>9, <1>10, <2>3, <3>1
  <2>4. CASE j = k /\ localMap'[s][k].pendingLogs = <<>>
    <3>1. Len(<<>>) < BufferCap
      BY KeySetAssumption
    <3>2. Range(localMap'[s][j].pendingLogs) = {}
      BY <2>1, <2>4, Zenon
    <3>3. localMap'[s][j].pendingLogs = <<>>
      BY <2>4
    <3> QED BY <2>1, <3>1, <3>2, <3>3, EmptyPiece
  <2> QED BY <1>5, <2>2, <2>3, <2>4
<1>15. PipelinesInOrder' /\ SendingInOrder' /\ CachesInOrder' /\ PipelinesFirst'
  <2>1. DOMAIN localMap'[s] \subseteq MergedKeys
    BY <1>1, <1>5, <1>11
  <2> QED BY <1>4, <1>5, <1>13, <1>14, <2>1, SinkPiecesChange
<1>16. /\ \A x \in Record : OnTheWay(x)' <=> OnTheWay(x) \/ x = r
  <2>1. /\ \A p \in DOMAIN pipelines : p \in DOMAIN pipelines' /\ Given(p)' = Given(p)
        /\ \A p \in DOMAIN pipelines' : p \notin DOMAIN pipelines => Given(p)' = {}
    BY <1>4, PipelinesGrow DEF WayInv, PipelinesKeepRecords
  <2>2. ASSUME NEW x \in Record, x[1] # s PROVE OnTheWay(x)' <=> OnTheWay(x)
    <3>1. x[1] \in Sinks \ {s}
      BY <2>2, RecordFacts
    <3>2. localMap'[x[1]] = localMap[x[1]]
      BY <1>5, <3>1
    <3>3. Sending(x[1])' = Sending(x[1]) /\ \A j : Held(x[1], j)' = Held(x[1], j)
      BY <1>5, <3>1, Zenon DEF Sending, Held
    <3> QED BY <2>1, <3>2, <3>3 DEF OnTheWay
  <2>3. ASSUME NEW x \in Record, x[1] = s PROVE OnTheWay(x)' <=> OnTheWay(x) \/ x = r
    <3>1. \A j \in DOMAIN localMap[s] : j # k => Held(s, j)' = Held(s, j)
      BY <1>5, Zenon DEF Held
    <3>2. Sending(s) = {}
      BY <1>3, EmptyPiece, Zenon DEF Sending
    <3>3. Range(q) = IF k \in DOMAIN localMap[s] THEN Held(s, k) ELSE {}
      <4>1. CASE k \in DOMAIN localMap[s]
        <5>1. q = localMap[s][k].pendingLogs
          BY <1>0, <4>1
        <5> QED BY <4>1, <5>1, Zenon DEF Held
      <4>2. CASE k \notin DOMAIN localMap[s]
        <5>1. q = <<>>
          BY <1>0, <4>2
        <5> QED BY <4>2, <5>1, EmptyPiece, Zenon
      <4> QED BY <4>1, <4>2
    <3>4. Sending(s)' \cup Held(s, k)' = Range(q) \cup {r}
      <4>1. CASE /\ localMap'[s][k].pendingLogs = q1
                 /\ UNCHANGED <<sending, sendingKey, after, sinkPC>>
        <5>1. Held(s, k)' = Range(q1)
          BY <4>1, Zenon DEF Held
        <5>2. Sending(s)' = {}
          BY <4>1, <3>2 DEF Sending
        <5> QED BY <1>9, <5>1, <5>2
      <4>2. CASE localMap'[s][k].pendingLogs = <<>> /\ sending'[s] = q1
        <5>1. Held(s, k)' = {}
          BY <4>2, EmptyPiece, Zenon DEF Held
        <5>2. Sending(s)' = Range(q1)
          BY <4>2, Zenon DEF Sending
        <5> QED BY <1>9, <5>1, <5>2
      <4> QED BY <1>5, <4>1, <4>2
    <3>5. OnTheWay(x)' <=> \/ \E p \in DOMAIN pipelines' : x \in Given(p)'
                           \/ x \in Sending(s)'
                           \/ \E j \in DOMAIN localMap'[s] : x \in Held(s, j)'
      BY <2>3 DEF OnTheWay
    <3>6. OnTheWay(x) <=> \/ \E p \in DOMAIN pipelines : x \in Given(p)
                          \/ x \in Sending(s)
                          \/ \E j \in DOMAIN localMap[s] : x \in Held(s, j)
      BY <2>3 DEF OnTheWay
    <3>7. (\E p \in DOMAIN pipelines' : x \in Given(p)') <=> (\E p \in DOMAIN pipelines : x \in Given(p))
      BY <2>1
    <3>8. (\E j \in DOMAIN localMap'[s] : x \in Held(s, j)')
             <=> (x \in Held(s, k)' \/ \E j \in DOMAIN localMap[s] : j # k /\ x \in Held(s, j))
      BY <1>5, <3>1
    <3>9. (\E j \in DOMAIN localMap[s] : x \in Held(s, j))
             <=> (x \in Range(q) \/ \E j \in DOMAIN localMap[s] : j # k /\ x \in Held(s, j))
      BY <3>3
    <3>10. x \in Sending(s)' \/ x \in Held(s, k)' <=> x \in Range(q) \/ x = r
      BY <3>4
    <3>11. x \notin Sending(s)
      BY <3>2
    <3> QED BY <3>5, <3>6, <3>7, <3>8, <3>9, <3>10, <3>11, Zenon
  <2>4. \A x \in Record : x = r => x[1] = s
    BY <1>1
  <2> QED BY <2>2, <2>3, <2>4
<1>17. NothingMissing'
  <2>1. sinkPC[s] # "gone" /\ sinkPC'[s] # "gone" /\ \A t \in Sinks \ {s} : sinkPC'[t] = sinkPC[t]
    BY <1>2, <1>5 DEF CallInv, SinkStates
  <2>2. nextRecord'[s] = n + 1 /\ \A t \in Sinks \ {s} : nextRecord'[t] = nextRecord[t]
    BY <1>2 DEF CallsInRange
  <2>3. r \notin timedOut
    BY <1>0, <1>1 DEF WayInv, NothingMissing
  <2>4. \A x \in Record : x[1] = s => (x[2] < n + 1 <=> x[2] < n \/ x = r)
    <3>1. \A x \in Record : x = <<x[1], x[2]>> /\ x[2] \in Nat
      BY RecordFacts
    <3>2. \A i \in Nat : i < n + 1 <=> i < n \/ i = n
      BY <1>1
    <3>3. r = <<s, n>>
      BY <1>0
    <3> QED BY <3>1, <3>2, <3>3
  <2>5. ASSUME NEW x \in Record, sinkPC'[x[1]] # "gone"
        PROVE  x[2] < nextRecord'[x[1]] <=> OnTheWay(x)' \/ x \in timedOut'
    <3>1. sinkPC[x[1]] # "gone" /\ x[1] \in Sinks
      BY <2>1, <2>5, RecordFacts
    <3>2. x[2] < nextRecord[x[1]] <=> OnTheWay(x) \/ x \in timedOut
      BY <3>1 DEF WayInv, NothingMissing
    <3>3. CASE x[1] = s
      BY <1>0, <1>2, <1>16, <2>2, <2>4, <3>2, <3>3
    <3>4. CASE x[1] # s
      BY <1>1, <1>2, <1>16, <2>2, <3>1, <3>2, <3>4
    <3> QED BY <3>3, <3>4
  <2>6. ASSUME NEW x \in timedOut' PROVE x[2] < nextRecord'[x[1]] /\ ~OnTheWay(x)'
    <3>1. x \in Record /\ x \in timedOut /\ x[2] < nextRecord[x[1]] /\ ~OnTheWay(x)
      BY <1>2, <2>6 DEF WayInv, NothingMissing
    <3>2. x # r
      BY <2>3, <3>1
    <3>3. ~OnTheWay(x)'
      BY <1>16, <3>1, <3>2
    <3>4. x[2] < nextRecord'[x[1]]
      <4>1. CASE x[1] = s
        BY <1>0, <2>2, <2>4, <3>1, <4>1
      <4>2. CASE x[1] # s
        BY <2>2, <3>1, <4>2, RecordFacts
      <4> QED BY <4>1, <4>2
    <3> QED BY <3>3, <3>4
  <2>7. ASSUME NEW x \in Record, sinkPC'[x[1]] # "gone", x[2] < nextRecord'[x[1]]
        PROVE  KeyOf(x) \in DOMAIN localMap'[x[1]]
    <3>1. sinkPC[x[1]] # "gone" /\ x[1] \in Sinks
      BY <2>1, <2>7, RecordFacts
    <3>2. x[2] < nextRecord[x[1]] => KeyOf(x) \in DOMAIN localMap[x[1]]
      BY <3>1 DEF WayInv, NothingMissing
    <3>3. CASE x[1] = s /\ x # r
      BY <1>0, <1>5, <2>2, <2>4, <2>7, <3>2, <3>3
    <3>4. CASE x = r
      BY <1>0, <1>1, <1>5, <3>4
    <3>5. CASE x[1] # s
      BY <1>5, <2>2, <2>7, <3>1, <3>2, <3>5
    <3> QED BY <3>3, <3>4, <3>5
  <2>8. timedOut' \subseteq Record
    BY <1>2 DEF WayInv, NothingMissing
  <2> QED BY <2>5, <2>6, <2>7, <2>8 DEF NothingMissing
<1> QED BY <1>15, <1>17 DEF WayInv

\* A record is in one place: what comes before something is not in it.
LEMMA OnePlace ==
    ASSUME NEW A, NEW B, NEW r \in Record, r \in A, Before(A, B)
    PROVE  r \notin B
<1> SUFFICES ASSUME r \in B PROVE FALSE
  OBVIOUS
<1>1. <<r, r>> \in InOrder
  BY DEF Before
<1>2. r[2] < r[2] /\ r[2] \in Nat
  BY <1>1, RecordFacts
<1> QED BY <1>2

\* The end of Flush, for the pieces.
LEMMA FlushOverFields ==
    ASSUME SendingInOrder, NEW s \in Sinks, FlushOver(s)
    PROVE  /\ DOMAIN sending' = Sinks /\ DOMAIN sendingKey' = Sinks
           /\ \A t \in Sinks \ {s} : sending'[t] = sending[t] /\ sendingKey'[t] = sendingKey[t]
           /\ sending'[s] = <<>> /\ Sending(s)' = {}
           /\ \A t \in Sinks \ {s} : Sending(t)' = Sending(t)
           /\ UNCHANGED <<localMap, nextRecord>> /\ \A t \in Sinks : \A k : Held(t, k)' = Held(t, k)
<1>1. /\ sending' = [sending EXCEPT ![s] = <<>>]
      /\ sendingKey' = [sendingKey EXCEPT ![s] = <<>>]
      /\ UNCHANGED <<localMap, nextRecord>>
  BY DEF FlushOver, callVars
<1>2. /\ DOMAIN sending' = Sinks /\ DOMAIN sendingKey' = Sinks
      /\ \A t \in Sinks \ {s} : sending'[t] = sending[t] /\ sendingKey'[t] = sendingKey[t]
      /\ sending'[s] = <<>>
  BY <1>1 DEF SendingInOrder
<1>3. Sending(s)' = {}
  BY <1>2, EmptyPiece, Zenon DEF Sending
<1>4. \A t \in Sinks \ {s} : Sending(t)' = Sending(t)
  BY <1>2, Zenon DEF Sending
<1>5. \A t \in Sinks : \A k : Held(t, k)' = Held(t, k)
  BY <1>1, Zenon DEF Held
<1> QED BY <1>1, <1>2, <1>3, <1>4, <1>5

\* The pieces of the connections after Flush.
LEMMA FlushOverKeeps ==
    ASSUME WayInv, NEW s \in Sinks, FlushOver(s)
    PROVE  SendingInOrder' /\ CachesInOrder'
<1>1. /\ DOMAIN sending' = Sinks /\ DOMAIN sendingKey' = Sinks
      /\ \A t \in Sinks \ {s} : sending'[t] = sending[t] /\ sendingKey'[t] = sendingKey[t]
      /\ sending'[s] = <<>> /\ Sending(s)' = {}
      /\ \A t \in Sinks \ {s} : Sending(t)' = Sending(t)
      /\ UNCHANGED <<localMap, nextRecord>> /\ \A t \in Sinks : \A k : Held(t, k)' = Held(t, k)
  BY FlushOverFields DEF WayInv
<1>2. SendingInOrder'
  BY <1>1, EmptyPiece DEF WayInv, SendingInOrder
<1>3. CachesInOrder'
  <2>1. ASSUME NEW t \in Sinks, NEW k \in DOMAIN localMap[t] PROVE Before(Sending(t)', Held(t, k)')
    <3>1. CASE t = s
      BY <1>1, <3>1 DEF Before
    <3>2. CASE t # s
      <4>1. Before(Sending(t), Held(t, k))
        BY DEF WayInv, CachesInOrder
      <4> QED BY <1>1, <3>2, <4>1
    <3> QED BY <3>1, <3>2
  <2> QED BY <1>1, <2>1 DEF WayInv, CachesInOrder
<1> QED BY <1>2, <1>3

\* The channel takes what is sent: it comes after all the pipeline was given, and before what
\* connections still have for it.
LEMMA FlushSendPass ==
    ASSUME StateInv, NEW s \in Sinks, FlushSend(s)
    PROVE  WayInv'
<1> USE DEF StateInv
<1>0. SUFFICES ASSUME NEW p, p = localMap[s][sendingKey[s]].pipeline PROVE WayInv'
  OBVIOUS
<1>1. /\ sinkPC[s] = "flush" /\ FlushOver(s) /\ UNCHANGED timedOut
      /\ Len(pipelines[p].channel) < ChannelCap
  BY <1>0 DEF FlushSend
<1>2. /\ sendingKey[s] \in DOMAIN localMap[s] /\ p \in DOMAIN pipelines
      /\ MergedKey(pipelines[p].keys) = sendingKey[s]
  <2>1. sendingKey[s] \in DOMAIN localMap[s]
    BY <1>1 DEF CallInv, SinkStates
  <2>2. sendingKey[s] \in DOMAIN workerMap /\ p = workerMap[sendingKey[s]]
    BY <1>0, <2>1 DEF IInv, LocalMapsAreCopies, CachesAgree
  <2> QED BY <2>1, <2>2 DEF DirsInv, PipelinesAreNamed
<1>3. /\ DOMAIN pipelines' = DOMAIN pipelines
      /\ \A q \in DOMAIN pipelines : /\ pipelines'[q].keys = pipelines[q].keys
                                     /\ q # p => pipelines'[q] = pipelines[q]
      /\ pipelines'[p].channel = Append(pipelines[p].channel, sending[s])
      /\ pipelines'[p].processed = pipelines[p].processed
  <2>0. SUFFICES ASSUME NEW x, NEW y,
                        x = Append(pipelines[p].channel, sending[s]), y = pipelines[p].processed
                 PROVE  /\ DOMAIN pipelines' = DOMAIN pipelines
                        /\ \A q \in DOMAIN pipelines : /\ pipelines'[q].keys = pipelines[q].keys
                                                       /\ q # p => pipelines'[q] = pipelines[q]
                        /\ pipelines'[p].channel = x /\ pipelines'[p].processed = y
    OBVIOUS
  <2>1. pipelines' = [pipelines EXCEPT ![p] = [[@ EXCEPT !.channel = x] EXCEPT !.processed = y]]
    BY <1>0, <2>0, SendAndReceive
  <2>2. IInv /\ p \in DOMAIN pipelines
    BY <1>2
  <2> QED BY <2>1, <2>2, ChannelFields
<1>4. /\ sending[s] \in Seq(Record) /\ Ordered(sending[s], InOrder)
      /\ \A r \in Sending(s) : r \in Record /\ r[1] = s /\ KeyOf(r) = sendingKey[s]
  <2>1. sending[s] \in Seq(Record)
    BY DEF WayInv, SendingInOrder
  <2>2. Sending(s) \subseteq Record
    BY <2>1, ElementsOf DEF Sending
  <2> QED BY <2>1, <2>2 DEF WayInv, SendingInOrder
<1>5. \A q \in DOMAIN pipelines : q # p => Given(q)' = Given(q)
  BY <1>3, Zenon DEF Given
<1>6. /\ pipelines'[p].channel \in Seq(Seq(Record))
      /\ Len(pipelines'[p].channel) <= ChannelCap
      /\ pipelines'[p].processed \in Seq(Record)
      /\ InQueue(pipelines'[p].processed, pipelines'[p].channel)
      /\ Given(p)' = Given(p) \cup Sending(s)
  <2> DEFINE d == pipelines[p].processed
             c == pipelines[p].channel
             x == sending[s]
  <2>1. d \in Seq(Record) /\ c \in Seq(Seq(Record)) /\ InQueue(d, c)
    BY <1>2 DEF WayInv, PipelinesInOrder
  <2>2. Before(GivenTo(d, c), Range(x))
    BY <1>2 DEF WayInv, PipelinesFirst, Given, Sending
  <2>3. x \in Seq(Record) /\ Ordered(x, InOrder)
    BY <1>4
  <2>4. pipelines'[p].channel = Append(c, x) /\ pipelines'[p].processed = d
    BY <1>2, <1>3
  <2>5. Len(c) \in Nat /\ ChannelCap \in Nat /\ Len(c) < ChannelCap
    BY <1>1, <2>1, KeySetAssumption
  <2>6. Given(p) = GivenTo(d, c) /\ Sending(s) = Range(x)
    BY DEF Given, Sending
  <2>7. Given(p)' = GivenTo(d, Append(c, x))
    BY <2>4, Zenon DEF Given
  <2> HIDE DEF d, c, x
  <2>8. /\ Append(c, x) \in Seq(Seq(Record)) /\ Len(Append(c, x)) = Len(c) + 1
        /\ InQueue(d, Append(c, x))
        /\ GivenTo(d, Append(c, x)) = GivenTo(d, c) \cup Range(x)
    BY <2>1, <2>2, <2>3, QueueTakes
  <2>9. Given(p)' = Given(p) \cup Sending(s)
    BY <2>6, <2>7, <2>8, Zenon
  <2>10. Len(pipelines'[p].channel) <= ChannelCap
    BY <2>4, <2>5, <2>8
  <2> QED BY <2>1, <2>4, <2>8, <2>9, <2>10
<1>7. PipelinesInOrder'
  <2>1. \A q \in DOMAIN pipelines : q # p =>
           /\ pipelines'[q].processed \in Seq(Record)
           /\ pipelines'[q].channel \in Seq(Seq(Record)) /\ Len(pipelines'[q].channel) <= ChannelCap
           /\ InQueue(pipelines'[q].processed, pipelines'[q].channel)
           /\ \A r \in Given(q)' : KeyOf(r) = MergedKey(pipelines'[q].keys)
    BY <1>3, <1>5 DEF WayInv, PipelinesInOrder
  <2>2. \A r \in Given(p)' : KeyOf(r) = MergedKey(pipelines'[p].keys)
    BY <1>2, <1>3, <1>4, <1>6 DEF WayInv, PipelinesInOrder
  <2>3. ASSUME NEW q \in DOMAIN pipelines'
        PROVE  /\ pipelines'[q].processed \in Seq(Record)
               /\ pipelines'[q].channel \in Seq(Seq(Record)) /\ Len(pipelines'[q].channel) <= ChannelCap
               /\ InQueue(pipelines'[q].processed, pipelines'[q].channel)
               /\ \A r \in Given(q)' : KeyOf(r) = MergedKey(pipelines'[q].keys)
    <3>1. CASE q = p
      BY <1>6, <2>2, <3>1
    <3>2. CASE q # p
      BY <1>3, <2>1, <3>2
    <3> QED BY <3>1, <3>2
  <2> QED BY <2>3 DEF PipelinesInOrder
<1>8. /\ sending'[s] = <<>> /\ Sending(s)' = {}
      /\ \A t \in Sinks \ {s} : Sending(t)' = Sending(t)
      /\ UNCHANGED <<localMap, nextRecord>> /\ \A t \in Sinks : \A k : Held(t, k)' = Held(t, k)
  BY <1>1, FlushOverFields DEF WayInv
<1>9. SendingInOrder' /\ CachesInOrder'
  BY <1>1, FlushOverKeeps
<1>10. ASSUME NEW t \in Sinks, NEW k \in DOMAIN localMap[t]
       PROVE  /\ Held(t, k) \subseteq Record /\ Before(Sending(s), Held(t, k))
  <2>1. localMap[t][k].pendingLogs \in Seq(Record) /\ \A r \in Held(t, k) : r[1] = t
    BY DEF WayInv, CachesInOrder
  <2>2. Held(t, k) \subseteq Record
    BY <2>1, ElementsOf DEF Held
  <2>3. CASE t = s
    BY <2>2, <2>3 DEF WayInv, CachesInOrder
  <2>4. CASE t # s
    <3>1. ASSUME NEW a \in Sending(s), NEW b \in Held(t, k) PROVE <<a, b>> \in InOrder
      <4>1. a \in Record /\ b \in Record /\ a[1] # b[1]
        BY <1>4, <2>1, <2>2, <2>4
      <4> QED BY <4>1, RecordFacts
    <3> QED BY <2>2, <3>1 DEF Before
  <2> QED BY <2>3, <2>4
<1>11. ASSUME NEW t \in Sinks, t # s PROVE Before(Sending(s), Sending(t))
  <2>1. sending[t] \in Seq(Record) /\ \A r \in Sending(t) : r[1] = t
    BY DEF WayInv, SendingInOrder
  <2>2. Sending(t) \subseteq Record
    BY <2>1, ElementsOf DEF Sending
  <2>3. ASSUME NEW a \in Sending(s), NEW b \in Sending(t) PROVE <<a, b>> \in InOrder
    <3>1. a \in Record /\ b \in Record /\ a[1] # b[1]
      BY <1>4, <1>11, <2>1, <2>2
    <3> QED BY <3>1, RecordFacts
  <2> QED BY <2>3 DEF Before
<1>12. PipelinesFirst'
  <2> SUFFICES ASSUME NEW q \in DOMAIN pipelines, NEW t \in Sinks
               PROVE  /\ Before(Given(q)', Sending(t)')
                      /\ \A k \in DOMAIN localMap[t] : Before(Given(q)', Held(t, k))
    BY <1>3, <1>8 DEF PipelinesFirst
  <2>1. Given(q)' \subseteq Given(q) \cup Sending(s)
    BY <1>5, <1>6
  <2>2. /\ Before(Given(q), Sending(t))
        /\ \A k \in DOMAIN localMap[t] : Before(Given(q), Held(t, k))
    BY DEF WayInv, PipelinesFirst
  <2>3. Before(Given(q)', Sending(t)')
    <3>1. CASE t = s
      BY <1>8, <3>1 DEF Before
    <3>2. CASE t # s
      BY <1>8, <1>11, <2>1, <2>2, <3>2 DEF Before
    <3> QED BY <3>1, <3>2
  <2>4. \A k \in DOMAIN localMap[t] : Before(Given(q)', Held(t, k))
    BY <1>10, <2>1, <2>2 DEF Before
  <2> QED BY <2>3, <2>4
<1>13. \A r \in Record : OnTheWay(r)' <=> OnTheWay(r)
  <2> SUFFICES ASSUME NEW r \in Record PROVE OnTheWay(r)' <=> OnTheWay(r)
    OBVIOUS
  <2>1. (\E q \in DOMAIN pipelines' : r \in Given(q)')
           <=> (r \in Sending(s) \/ \E q \in DOMAIN pipelines : r \in Given(q))
    BY <1>2, <1>3, <1>5, <1>6
  <2>2. r[1] \in Sinks /\ \A k : Held(r[1], k)' = Held(r[1], k)
    BY <1>8, RecordFacts
  <2>3. r \in Sending(s) => r[1] = s
    BY <1>4
  <2>4. CASE r[1] = s
    <3>1. Sending(r[1])' = {} /\ (r \in Sending(s) <=> r \in Sending(r[1]))
      BY <1>8, <2>4
    <3> QED BY <1>8, <2>1, <2>2, <3>1 DEF OnTheWay
  <2>5. CASE r[1] # s
    <3>1. Sending(r[1])' = Sending(r[1]) /\ r \notin Sending(s)
      BY <1>8, <2>2, <2>3, <2>5
    <3> QED BY <1>8, <2>1, <2>2, <3>1 DEF OnTheWay
  <2> QED BY <2>4, <2>5
<1>14. NothingMissing'
  <2>1. \A t \in Sinks : sinkPC'[t] # "gone" => sinkPC[t] # "gone"
    <3>1. sinkPC' = [sinkPC EXCEPT ![s] = after[s]] /\ sinkPC[s] # "gone"
      BY <1>1 DEF FlushOver
    <3> QED BY <3>1 DEF CallInv, SinkStates
  <2> QED BY <1>1, <1>8, <1>13, <2>1, RecordFacts DEF WayInv, NothingMissing
<1> QED BY <1>7, <1>9, <1>12, <1>14 DEF WayInv

\* A flush that is given up: what was sent is nowhere else.
LEMMA FlushTimeOutPass ==
    ASSUME StateInv, NEW s \in Sinks, FlushTimeOut(s)
    PROVE  WayInv'
<1> USE DEF StateInv
<1>1. /\ sinkPC[s] = "flush" /\ FlushOver(s) /\ timedOut' = timedOut \cup Sending(s)
      /\ UNCHANGED pipelines
  BY DEF FlushTimeOut, Sending
<1>2. /\ sending'[s] = <<>> /\ Sending(s)' = {}
      /\ \A t \in Sinks \ {s} : Sending(t)' = Sending(t)
      /\ UNCHANGED <<localMap, nextRecord>> /\ \A t \in Sinks : \A k : Held(t, k)' = Held(t, k)
  BY <1>1, FlushOverFields DEF WayInv
<1>3. SendingInOrder' /\ CachesInOrder'
  BY <1>1, FlushOverKeeps
<1>4. \A p : Given(p)' = Given(p)
  BY <1>1, Zenon DEF Given
<1>5. PipelinesInOrder'
  BY <1>1, <1>4 DEF WayInv, PipelinesInOrder
<1>6. PipelinesFirst'
  <2>1. ASSUME NEW p \in DOMAIN pipelines, NEW t \in Sinks PROVE Before(Given(p), Sending(t)')
    <3>1. CASE t = s
      BY <1>2, <3>1 DEF Before
    <3>2. CASE t # s
      BY <1>2, <3>2 DEF WayInv, PipelinesFirst
    <3> QED BY <3>1, <3>2
  <2> QED BY <1>1, <1>2, <1>4, <2>1 DEF WayInv, PipelinesFirst
<1>7. \A r \in Sending(s) : r \in Record /\ r[1] = s /\ OnTheWay(r)
  <2>1. sending[s] \in Seq(Record) /\ \A r \in Sending(s) : r[1] = s
    BY DEF WayInv, SendingInOrder
  <2>2. Sending(s) \subseteq Record
    BY <2>1, ElementsOf DEF Sending
  <2> QED BY <2>1, <2>2 DEF OnTheWay
<1>8. \A r \in Record : OnTheWay(r)' <=> OnTheWay(r) /\ r \notin Sending(s)
  <2> SUFFICES ASSUME NEW r \in Record PROVE OnTheWay(r)' <=> OnTheWay(r) /\ r \notin Sending(s)
    OBVIOUS
  <2>1. r[1] \in Sinks
    BY RecordFacts
  <2>2. CASE r[1] # s
    <3>1. r \notin Sending(s) /\ Sending(r[1])' = Sending(r[1])
      BY <1>2, <1>7, <2>1, <2>2
    <3> QED BY <1>1, <1>2, <1>4, <2>1, <3>1 DEF OnTheWay
  <2>3. CASE r[1] = s
    <3>1. OnTheWay(r)' <=> \/ \E p \in DOMAIN pipelines : r \in Given(p)
                           \/ \E k \in DOMAIN localMap[s] : r \in Held(s, k)
      BY <1>1, <1>2, <1>4, <2>3 DEF OnTheWay
    <3>2. OnTheWay(r) <=> \/ \E p \in DOMAIN pipelines : r \in Given(p)
                          \/ r \in Sending(s)
                          \/ \E k \in DOMAIN localMap[s] : r \in Held(s, k)
      BY <2>3 DEF OnTheWay
    <3>3. \A p \in DOMAIN pipelines : r \in Given(p) => r \notin Sending(s)
      <4>1. \A p \in DOMAIN pipelines : Before(Given(p), Sending(s))
        BY DEF WayInv, PipelinesFirst
      <4> QED BY <4>1, OnePlace
    <3>4. \A k \in DOMAIN localMap[s] : r \in Sending(s) => r \notin Held(s, k)
      <4>1. \A k \in DOMAIN localMap[s] : Before(Sending(s), Held(s, k))
        BY DEF WayInv, CachesInOrder
      <4> QED BY <4>1, OnePlace
    <3> QED BY <3>1, <3>2, <3>3, <3>4
  <2> QED BY <2>2, <2>3
<1>9. NothingMissing'
  <2>1. \A t \in Sinks : sinkPC'[t] # "gone" => sinkPC[t] # "gone"
    <3>1. sinkPC' = [sinkPC EXCEPT ![s] = after[s]] /\ sinkPC[s] # "gone"
      BY <1>1 DEF FlushOver
    <3> QED BY <3>1 DEF CallInv, SinkStates
  <2>2. timedOut \subseteq Record /\ \A r \in Record : r[1] \in Sinks
    BY RecordFacts DEF WayInv, NothingMissing
  <2>3. ASSUME NEW r \in Record, sinkPC'[r[1]] # "gone"
        PROVE  r[2] < nextRecord[r[1]] <=> OnTheWay(r)' \/ r \in timedOut'
    <3>1. r[2] < nextRecord[r[1]] <=> OnTheWay(r) \/ r \in timedOut
      BY <2>1, <2>2, <2>3 DEF WayInv, NothingMissing
    <3> QED BY <1>1, <1>7, <1>8, <3>1
  <2>4. ASSUME NEW r \in timedOut' PROVE r[2] < nextRecord[r[1]] /\ ~OnTheWay(r)'
    <3>1. CASE r \in Sending(s)
      <4>1. r \in Record /\ r[1] = s /\ OnTheWay(r)
        BY <1>7, <3>1
      <4>2. r[2] < nextRecord[r[1]]
        BY <1>1, <4>1 DEF WayInv, NothingMissing
      <4> QED BY <1>8, <3>1, <4>1, <4>2
    <3>2. CASE r \in timedOut
      BY <1>8, <2>2, <3>2 DEF WayInv, NothingMissing
    <3> QED BY <1>1, <2>4, <3>1, <3>2
  <2>5. timedOut' \subseteq Record
    BY <1>1, <1>7, <2>2
  <2> QED BY <1>2, <2>1, <2>2, <2>3, <2>4, <2>5 DEF WayInv, NothingMissing
<1> QED BY <1>3, <1>5, <1>6, <1>9 DEF WayInv

\* Walk flushes a cache: it is sent as it was.
LEMMA WalkCachePass ==
    ASSUME StateInv, NEW s \in Sinks, WalkCache(s)
    PROVE  WayInv'
<1> USE DEF StateInv
<1>1. /\ sinkPC[s] = "walk" /\ UNCHANGED <<pipelines, nextRecord, timedOut>>
      /\ \/ UNCHANGED <<sendVars, localMap, sinkPC>>
         \/ \E k \in toWalk[s] : FlushCache(s, k, localMap[s], "walk") /\ sinkPC' = [sinkPC EXCEPT ![s] = "flush"]
  BY DEF WalkCache, callVars
<1>2. PipelinesKeepRecords
  BY <1>1 DEF PipelinesKeepRecords
<1>3. CASE UNCHANGED <<sendVars, localMap, sinkPC>>
  BY <1>1, <1>2, <1>3, RecordsStay DEF sendVars
<1>4. ASSUME NEW k \in toWalk[s], FlushCache(s, k, localMap[s], "walk"),
             sinkPC' = [sinkPC EXCEPT ![s] = "flush"]
      PROVE  WayInv'
  <2>1. k \in DOMAIN localMap[s] /\ sending[s] = <<>>
    BY <1>1, <1>4 DEF CallInv, SinkStates
  <2>2. /\ DOMAIN localMap' = Sinks /\ DOMAIN sending' = Sinks /\ DOMAIN sendingKey' = Sinks
        /\ \A t \in Sinks \ {s} : /\ sending'[t] = sending[t] /\ sendingKey'[t] = sendingKey[t]
                                  /\ localMap'[t] = localMap[t]
        /\ sending'[s] = localMap[s][k].pendingLogs /\ sendingKey'[s] = k
        /\ DOMAIN localMap'[s] = DOMAIN localMap[s]
        /\ localMap'[s][k].pendingLogs = <<>>
        /\ \A j \in DOMAIN localMap[s] : j # k => localMap'[s][j] = localMap[s][j]
    <3>1. /\ DOMAIN localMap = Sinks /\ DOMAIN sending = Sinks /\ DOMAIN sendingKey = Sinks
          /\ \A j \in DOMAIN localMap[s] : IsCache(localMap[s][j])
      BY DEF IInv, LocalMapsAreCopies, WayInv, SendingInOrder
    <3> QED BY <1>4, <2>1, <3>1, FlushCacheMoves
  <2>3. /\ DOMAIN localMap[s] \subseteq MergedKeys
        /\ \A j \in DOMAIN localMap[s] :
              LET l == localMap[s][j].pendingLogs IN
              /\ l \in Seq(Record) /\ Len(l) < BufferCap /\ Ordered(l, InOrder)
              /\ \A x \in Range(l) : x[1] = s /\ KeyOf(x) = j
              /\ \A p \in DOMAIN pipelines : Before(Given(p), Range(l))
    BY DEF WayInv, CachesInOrder, PipelinesFirst, Held
  <2>4. ASSUME NEW j \in DOMAIN localMap[s]
        PROVE  \A x \in Range(localMap[s][j].pendingLogs) : x \in Record /\ KeyOf(x) = j
    <3>1. localMap[s][j].pendingLogs \in Seq(Record)
      BY <2>3
    <3> QED BY <2>3, <3>1, ElementsOf
  <2>5. ASSUME NEW j \in DOMAIN localMap'[s]
        PROVE  LET l == localMap'[s][j].pendingLogs IN
               /\ l \in Seq(Record) /\ Len(l) < BufferCap /\ Ordered(l, InOrder)
               /\ \A x \in Range(l) : x[1] = s /\ KeyOf(x) = j
               /\ Before(Range(sending'[s]), Range(l))
               /\ \A p \in DOMAIN pipelines : Before(Given(p), Range(l))
    <3>1. CASE j # k
      <4>1. localMap'[s][j] = localMap[s][j] /\ j \in DOMAIN localMap[s]
        BY <2>2, <2>5, <3>1
      <4>2. ASSUME NEW x \in Range(localMap[s][k].pendingLogs), NEW y \in Range(localMap[s][j].pendingLogs)
            PROVE  <<x, y>> \in InOrder
        <5>1. x \in Record /\ y \in Record /\ KeyOf(x) # KeyOf(y)
          BY <2>1, <2>4, <3>1, <4>1
        <5> QED BY <5>1, RecordFacts
      <4>3. Before(Range(sending'[s]), Range(localMap[s][j].pendingLogs))
        BY <2>2, <4>2 DEF Before
      <4> QED BY <2>3, <4>1, <4>3
    <3>2. CASE j = k
      <4>1. localMap'[s][j].pendingLogs = <<>>
        BY <2>2, <3>2
      <4>2. Range(localMap'[s][j].pendingLogs) = {}
        BY <4>1, EmptyPiece, Zenon
      <4>3. Len(<<>>) < BufferCap
        BY KeySetAssumption
      <4>4. \A A : Before(A, {})
        BY DEF Before
      <4> QED BY <4>1, <4>2, <4>3, <4>4, EmptyPiece
    <3> QED BY <3>1, <3>2
  <2>6. PipelinesInOrder' /\ SendingInOrder' /\ CachesInOrder' /\ PipelinesFirst'
    <3>1. /\ sending'[s] \in Seq(Record) /\ Ordered(sending'[s], InOrder)
          /\ \A r \in Range(sending'[s]) : r[1] = s /\ KeyOf(r) = sendingKey'[s]
          /\ \A p \in DOMAIN pipelines : Before(Given(p), Range(sending'[s]))
      BY <2>1, <2>2, <2>3
    <3>2. DOMAIN localMap'[s] \subseteq MergedKeys
      BY <2>2, <2>3
    <3> QED BY <1>2, <2>2, <2>5, <3>1, <3>2, SinkPiecesChange
  <2>7. ASSUME NEW r \in Record PROVE OnTheWay(r)' <=> OnTheWay(r)
    <3>1. \A p : Given(p)' = Given(p)
      BY <1>1, Zenon DEF Given
    <3>2. CASE r[1] # s
      <4>1. r[1] \in Sinks \ {s}
        BY <3>2, RecordFacts
      <4>2. Sending(r[1])' = Sending(r[1]) /\ \A j : Held(r[1], j)' = Held(r[1], j)
        BY <2>2, <4>1, Zenon DEF Sending, Held
      <4>3. localMap'[r[1]] = localMap[r[1]]
        BY <2>2, <4>1
      <4> QED BY <1>1, <3>1, <4>2, <4>3 DEF OnTheWay
    <3>3. CASE r[1] = s
      <4>1. Sending(s)' = Held(s, k)
        BY <2>2, Zenon DEF Sending, Held
      <4>2. Held(s, k)' = {}
        BY <2>2, EmptyPiece, Zenon DEF Held
      <4>3. Sending(s) = {}
        BY <2>1, EmptyPiece, Zenon DEF Sending
      <4>4. \A j \in DOMAIN localMap[s] : j # k => Held(s, j)' = Held(s, j)
        BY <2>2, Zenon DEF Held
      <4>5. OnTheWay(r)' <=> \/ \E p \in DOMAIN pipelines : r \in Given(p)
                             \/ r \in Sending(s)'
                             \/ \E j \in DOMAIN localMap[s] : r \in Held(s, j)'
        BY <1>1, <2>2, <3>1, <3>3 DEF OnTheWay
      <4>6. OnTheWay(r) <=> \/ \E p \in DOMAIN pipelines : r \in Given(p)
                            \/ r \in Sending(s)
                            \/ \E j \in DOMAIN localMap[s] : r \in Held(s, j)
        BY <3>3 DEF OnTheWay
      <4>7. (r \in Sending(s)' \/ \E j \in DOMAIN localMap[s] : r \in Held(s, j)')
               <=> (r \in Sending(s) \/ \E j \in DOMAIN localMap[s] : r \in Held(s, j))
        BY <2>1, <4>1, <4>2, <4>3, <4>4
      <4> QED BY <4>5, <4>6, <4>7
    <3> QED BY <3>2, <3>3
  <2>8. NothingMissing'
    <3>1. \A t \in Sinks : sinkPC'[t] # "gone" => sinkPC[t] # "gone"
      BY <1>1, <1>4 DEF CallInv, SinkStates
    <3>2. \A t \in Sinks : DOMAIN localMap'[t] = DOMAIN localMap[t]
      BY <2>2
    <3> QED BY <1>1, <2>7, <3>1, <3>2, RecordFacts DEF WayInv, NothingMissing
  <2> QED BY <2>6, <2>8 DEF WayInv
<1> QED BY <1>1, <1>3, <1>4

\* The worker takes a buffer out of its channel: the pipeline has what it had.
LEMMA WorkerReceivePass ==
    ASSUME StateInv, NEW p \in DOMAIN pipelines, WorkerReceive(p)
    PROVE  WayInv'
<1> USE DEF StateInv
<1> DEFINE d == pipelines[p].processed
           c == pipelines[p].channel
<1>1. /\ c # <<>> /\ UNCHANGED <<nextRecord, timedOut, sending, sendingKey, localMap, sinkPC>>
  BY DEF WorkerReceive, callVars, sendVars
<1>2. /\ DOMAIN pipelines' = DOMAIN pipelines
      /\ \A q \in DOMAIN pipelines : /\ pipelines'[q].keys = pipelines[q].keys
                                     /\ q # p => pipelines'[q] = pipelines[q]
      /\ pipelines'[p].channel = Tail(c) /\ pipelines'[p].processed = d \o Head(c)
  <2>0. SUFFICES ASSUME NEW x, NEW y, x = Tail(c), y = d \o Head(c)
                 PROVE  /\ DOMAIN pipelines' = DOMAIN pipelines
                        /\ \A q \in DOMAIN pipelines : /\ pipelines'[q].keys = pipelines[q].keys
                                                       /\ q # p => pipelines'[q] = pipelines[q]
                        /\ pipelines'[p].channel = x /\ pipelines'[p].processed = y
    OBVIOUS
  <2>1. pipelines' = [pipelines EXCEPT ![p] = [[@ EXCEPT !.channel = x] EXCEPT !.processed = y]]
    BY <2>0, SendAndReceive
  <2>2. IInv /\ p \in DOMAIN pipelines
    OBVIOUS
  <2> QED BY <2>1, <2>2, ChannelFields
<1>3. d \in Seq(Record) /\ c \in Seq(Seq(Record)) /\ InQueue(d, c) /\ Len(c) <= ChannelCap
  BY DEF WayInv, PipelinesInOrder
<1> HIDE DEF d, c
<1>4. /\ d \o Head(c) \in Seq(Record)
      /\ Tail(c) \in Seq(Seq(Record)) /\ Len(Tail(c)) + 1 = Len(c)
      /\ InQueue(d \o Head(c), Tail(c))
      /\ GivenTo(d \o Head(c), Tail(c)) = GivenTo(d, c)
  BY <1>1, <1>3, QueueMoves
<1>5. Given(p)' = Given(p)
  <2>1. Given(p)' = GivenTo(d \o Head(c), Tail(c))
    BY <1>2, Zenon DEF Given
  <2>2. Given(p) = GivenTo(d, c)
    BY DEF Given, d, c
  <2> QED BY <1>4, <2>1, <2>2, Zenon
<1>6. \A q \in DOMAIN pipelines : Given(q)' = Given(q)
  <2>1. \A q \in DOMAIN pipelines : q # p => Given(q)' = Given(q)
    BY <1>2, Zenon DEF Given
  <2> QED BY <1>5, <2>1
<1>7. PipelinesInOrder'
  <2>1. Len(Tail(c)) <= ChannelCap
    <3>1. Len(c) \in Nat /\ Len(Tail(c)) \in Nat /\ ChannelCap \in Nat
      BY <1>3, <1>4, KeySetAssumption
    <3> QED BY <1>3, <1>4, <3>1
  <2>2. ASSUME NEW q \in DOMAIN pipelines
        PROVE  /\ pipelines'[q].processed \in Seq(Record)
               /\ pipelines'[q].channel \in Seq(Seq(Record)) /\ Len(pipelines'[q].channel) <= ChannelCap
               /\ InQueue(pipelines'[q].processed, pipelines'[q].channel)
               /\ \A r \in Given(q)' : KeyOf(r) = MergedKey(pipelines'[q].keys)
    <3>1. \A r \in Given(q)' : KeyOf(r) = MergedKey(pipelines'[q].keys)
      BY <1>2, <1>6 DEF WayInv, PipelinesInOrder
    <3>2. CASE q = p
      BY <1>2, <1>4, <2>1, <3>1, <3>2
    <3>3. CASE q # p
      BY <1>2, <3>1, <3>3 DEF WayInv, PipelinesInOrder
    <3> QED BY <3>2, <3>3
  <2> QED BY <1>2, <2>2 DEF PipelinesInOrder
<1>8. \A t : Sending(t)' = Sending(t) /\ \A k : Held(t, k)' = Held(t, k)
  BY <1>1, Zenon DEF Sending, Held
<1>9. SendingInOrder' /\ CachesInOrder'
  BY <1>1, <1>8 DEF WayInv, SendingInOrder, CachesInOrder
<1>10. PipelinesFirst'
  BY <1>1, <1>2, <1>6, <1>8 DEF WayInv, PipelinesFirst
<1>11. \A r : OnTheWay(r)' <=> OnTheWay(r)
  BY <1>1, <1>2, <1>6, <1>8 DEF OnTheWay
<1>12. NothingMissing'
  BY <1>1, <1>11 DEF WayInv, NothingMissing
<1> QED BY <1>7, <1>9, <1>10, <1>12 DEF WayInv

\* The calls of a connection: what is being sent, and what Close has still to walk.
LEMMA SinkKeepsCalls ==
    ASSUME KeySetAssumption, StateInv, NEW s \in Sinks,
           NewSink(s) \/ Accept(s) \/ Tick(s) \/ Close(s) \/ SinkRuns(s) \/ FlushTimeOut(s)
    PROVE  CallInv'
<1> USE DEF StateInv
<1>1. CASE NewSink(s) \/ Accept(s) \/ AcceptReturns(s)
  <2>1. /\ \/ sinkPC[s] = "absent" /\ sinkPC' = [sinkPC EXCEPT ![s] = "idle"]
           \/ sinkPC[s] = "idle" /\ sinkPC' = [sinkPC EXCEPT ![s] = "accept"]
           \/ sinkPC[s] = "accept" /\ sinkPC' = [sinkPC EXCEPT ![s] = "idle"]
        /\ UNCHANGED <<runs, nextRecord, localMap, toWalk, forceAll, sendingKey, sending, after>>
    BY <1>1 DEF NewSink, Accept, AcceptReturns, orcVars, callVars, walkVars, sendVars
  <2> QED BY <2>1 DEF CallInv, SinkStates, CloseEmpties
<1>2. CASE AcceptRecord(s)
  <2>0. SUFFICES ASSUME NEW r, NEW k, NEW q, AcceptedInto(s, k, q) PROVE CallInv'
    <3>1. \E r, k, q : AcceptedInto(s, k, q)
      <4> DEFINE r == <<s, nextRecord[s]>>
                 k == KeyOf(r)
                 q == IF k \in DOMAIN localMap[s] THEN localMap[s][k].pendingLogs ELSE <<>>
      <4>1. AcceptedInto(s, k, Append(q, r))
        BY <1>2, AcceptRecordFields DEF WayInv
      <4> HIDE DEF r, k, q
      <4> QED BY <4>1
    <3> QED BY <3>1
  <2>1. /\ sinkPC[s] = "accept" /\ UNCHANGED <<runs, toWalk, forceAll>>
        /\ nextRecord' = [nextRecord EXCEPT ![s] = @ + 1]
    BY <1>2 DEF AcceptRecord, orcVars, walkVars
  <2>2. ~forceAll[s]
    BY <2>1 DEF CallInv, CloseEmpties
  <2>3. /\ DOMAIN localMap'[s] = DOMAIN localMap[s] \cup {k}
        /\ \A t \in Sinks \ {s} : /\ sending'[t] = sending[t] /\ sendingKey'[t] = sendingKey[t]
                                  /\ localMap'[t] = localMap[t]
        /\ \/ UNCHANGED <<sending, sendingKey, after, sinkPC>>
           \/ /\ sendingKey'[s] = k /\ after' = [after EXCEPT ![s] = "accept"]
              /\ sinkPC' = [sinkPC EXCEPT ![s] = "flush"]
    BY <2>0 DEF AcceptedInto
  <2>4. SinkStates'
    <3>1. /\ sinkPC' \in [Sinks -> {"absent", "idle", "accept", "flush", "walk", "closed", "gone"}]
          /\ after' \in [Sinks -> {"idle", "accept", "walk"}]
          /\ forceAll' \in [Sinks -> BOOLEAN] /\ DOMAIN toWalk' = Sinks
      BY <2>1, <2>3 DEF CallInv, SinkStates
    <3>2. ASSUME NEW t \in Sinks, t # s
          PROVE  /\ sinkPC'[t] = sinkPC[t] /\ nextRecord'[t] = nextRecord[t]
                 /\ sending'[t] = sending[t] /\ sendingKey'[t] = sendingKey[t]
                 /\ localMap'[t] = localMap[t]
      BY <2>1, <2>3, <3>2 DEF CallInv, SinkStates, CallsInRange
    <3>3. sinkPC'[s] = "accept" \/ sinkPC'[s] = "flush"
      BY <2>1, <2>3 DEF CallInv, SinkStates
    <3>4. sinkPC'[s] = "flush" => sendingKey'[s] \in DOMAIN localMap'[s]
      BY <2>1, <2>3 DEF CallInv, SinkStates
    <3>5. sinkPC'[s] # "flush" => sending'[s] = <<>>
      BY <2>1, <2>3 DEF CallInv, SinkStates
    <3>6. toWalk'[s] \subseteq DOMAIN localMap'[s]
      BY <2>1, <2>3 DEF CallInv, SinkStates
    <3>7. ASSUME NEW t \in Sinks
          PROVE  /\ toWalk'[t] \subseteq DOMAIN localMap'[t]
                 /\ sinkPC'[t] = "absent" => nextRecord'[t] = 1
                 /\ sinkPC'[t] = "flush" => sendingKey'[t] \in DOMAIN localMap'[t]
                 /\ sinkPC'[t] # "flush" => sending'[t] = <<>>
      <4>1. CASE t = s
        BY <3>3, <3>4, <3>5, <3>6, <4>1
      <4>2. CASE t # s
        BY <2>1, <3>2, <4>2 DEF CallInv, SinkStates
      <4> QED BY <4>1, <4>2
    <3> QED BY <3>1, <3>7 DEF SinkStates
  <2>5. CloseEmpties'
    BY <2>1, <2>2, <2>3 DEF CallInv, SinkStates, CloseEmpties
  <2> QED BY <2>1, <2>4, <2>5 DEF CallInv
<1>3. CASE FlushSend(s) \/ FlushTimeOut(s)
  <2>1. /\ sinkPC[s] = "flush" /\ FlushOver(s)
    BY <1>3 DEF FlushSend, FlushTimeOut
  <2>2. /\ sinkPC' = [sinkPC EXCEPT ![s] = after[s]] /\ after' = [after EXCEPT ![s] = "idle"]
        /\ UNCHANGED <<runs, nextRecord, localMap, toWalk, forceAll>>
    BY <2>1 DEF FlushOver, orcVars, callVars, walkVars
  <2>3. /\ sending'[s] = <<>>
        /\ \A t \in Sinks \ {s} : sending'[t] = sending[t] /\ sendingKey'[t] = sendingKey[t]
    BY <2>1, FlushOverFields DEF WayInv
  <2> QED BY <2>1, <2>2, <2>3 DEF CallInv, SinkStates, CloseEmpties
<1>4. CASE Tick(s) \/ Close(s)
  <2>1. PICK force \in BOOLEAN : WalkCaches(s, force)
    BY <1>4 DEF Tick, Close
  <2>2. /\ sinkPC[s] = "idle" /\ sinkPC' = [sinkPC EXCEPT ![s] = "walk"]
        /\ toWalk' = [toWalk EXCEPT ![s] = DOMAIN localMap[s]]
        /\ forceAll' = [forceAll EXCEPT ![s] = force]
        /\ UNCHANGED <<runs, nextRecord, localMap, sendingKey, sending, after>>
    BY <2>1 DEF WalkCaches, orcVars, callVars, sendVars
  <2> QED BY <2>2 DEF CallInv, SinkStates, CloseEmpties
<1>5. CASE WalkCache(s)
  <2>1. PICK k \in toWalk[s] :
           /\ toWalk' = [toWalk EXCEPT ![s] = @ \ {k}]
           /\ \/ /\ localMap[s][k].pendingLogs = <<>> \/ ~forceAll[s]
                 /\ UNCHANGED <<sendVars, localMap, sinkPC>>
              \/ /\ FlushCache(s, k, localMap[s], "walk")
                 /\ sinkPC' = [sinkPC EXCEPT ![s] = "flush"]
    BY <1>5 DEF WalkCache
  <2>2. sinkPC[s] = "walk" /\ UNCHANGED <<runs, nextRecord, forceAll>>
    BY <1>5 DEF WalkCache, orcVars, callVars
  <2>3. k \in DOMAIN localMap[s] /\ toWalk[s] \subseteq DOMAIN localMap[s] /\ DOMAIN toWalk = Sinks
    BY DEF CallInv, SinkStates
  <2>4. CASE /\ localMap[s][k].pendingLogs = <<>> \/ ~forceAll[s]
             /\ UNCHANGED <<sendVars, localMap, sinkPC>>
    BY <2>1, <2>2, <2>3, <2>4 DEF CallInv, SinkStates, CloseEmpties, sendVars
  <2>5. CASE /\ FlushCache(s, k, localMap[s], "walk")
             /\ sinkPC' = [sinkPC EXCEPT ![s] = "flush"]
    <3>1. /\ \A t \in Sinks \ {s} : /\ sending'[t] = sending[t] /\ sendingKey'[t] = sendingKey[t]
                                    /\ localMap'[t] = localMap[t]
          /\ sendingKey'[s] = k
          /\ DOMAIN localMap'[s] = DOMAIN localMap[s]
          /\ localMap'[s][k].pendingLogs = <<>>
          /\ \A j \in DOMAIN localMap[s] : j # k => localMap'[s][j] = localMap[s][j]
          /\ after' = [after EXCEPT ![s] = "walk"]
      <4>1. /\ DOMAIN localMap = Sinks /\ DOMAIN sending = Sinks /\ DOMAIN sendingKey = Sinks
            /\ \A j \in DOMAIN localMap[s] : IsCache(localMap[s][j])
        BY DEF IInv, LocalMapsAreCopies, WayInv, SendingInOrder
      <4> QED BY <2>3, <2>5, <4>1, FlushCacheMoves
    <3>2. SinkStates'
      BY <2>1, <2>2, <2>3, <2>5, <3>1 DEF CallInv, SinkStates
    <3>3. CloseEmpties'
      <4>1. ASSUME NEW t \in Sinks, t # s
            PROVE  /\ sinkPC'[t] = sinkPC[t] /\ forceAll'[t] = forceAll[t] /\ after'[t] = after[t]
                   /\ toWalk'[t] = toWalk[t] /\ localMap'[t] = localMap[t]
        BY <2>1, <2>2, <2>5, <3>1, <4>1
      <4>2. /\ sinkPC'[s] = "flush" /\ after'[s] = "walk" /\ toWalk'[s] = toWalk[s] \ {k}
            /\ forceAll'[s] = forceAll[s]
        BY <2>1, <2>2, <2>3, <2>5, <3>1 DEF CallInv, SinkStates
      <4>3. \A j \in DOMAIN localMap'[s] : forceAll[s] /\ j \notin toWalk'[s] => localMap'[s][j].pendingLogs = <<>>
        BY <3>1, <4>2 DEF CallInv, CloseEmpties
      <4>4. ASSUME NEW t \in Sinks
            PROVE  /\ sinkPC'[t] = "closed" => forceAll'[t]
                   /\ forceAll'[t] =>
                        /\ sinkPC'[t] \in {"walk", "flush", "closed"}
                        /\ sinkPC'[t] = "flush" => after'[t] = "walk"
                        /\ sinkPC'[t] = "closed" => toWalk'[t] = {}
                        /\ \A j \in DOMAIN localMap'[t] : j \notin toWalk'[t] => localMap'[t][j].pendingLogs = <<>>
        <5>1. CASE t = s
          BY <4>2, <4>3, <5>1
        <5>2. CASE t # s
          BY <4>1, <5>2 DEF CallInv, CloseEmpties
        <5> QED BY <5>1, <5>2
      <4> QED BY <4>4 DEF CloseEmpties
    <3> QED BY <2>2, <3>2, <3>3 DEF CallInv
  <2> QED BY <2>1, <2>4, <2>5
<1>6. CASE WalkReturns(s)
  <2>1. /\ sinkPC[s] = "walk" /\ toWalk[s] = {}
        /\ sinkPC' = [sinkPC EXCEPT ![s] = IF forceAll[s] THEN "closed" ELSE "idle"]
        /\ UNCHANGED <<runs, nextRecord, localMap, toWalk, forceAll, sendingKey, sending, after>>
    BY <1>6 DEF WalkReturns, orcVars, callVars, walkVars, sendVars
  <2> QED BY <2>1 DEF CallInv, SinkStates, CloseEmpties
<1> QED BY <1>1, <1>2, <1>3, <1>4, <1>5, <1>6 DEF SinkRuns

\* It all holds before the first orchestrator has started.
LEMMA InitState == Init => StateInv
<1> SUFFICES ASSUME Init PROVE StateInv
  OBVIOUS
<1>1. CallsInRange
  <2>1. \A s \in Sinks : Len(RecordKeys[s]) \in Nat
    BY KeySetAssumption
  <2> QED BY <2>1 DEF Init, CallsInRange
<1>2. WayInv
  BY EmptyRun DEF Init, NoRecords
<1>3. CallInv
  <2>1. 1 \in 1..MaxRuns
    BY KeySetAssumption
  <2> QED BY <2>1 DEF Init, CallInv, SinkStates, CloseEmpties
<1> QED BY <1>1, <1>2, <1>3, InitIInv, InitDirsInv DEF StateInv

\* The next orchestrator has no records either; connections it does not know are gone.
LEMMA NextRunPass ==
    ASSUME StateInv, NextRun
    PROVE  WayInv' /\ CallInv'
<1> USE DEF StateInv
<1>1. /\ runs < MaxRuns /\ runs' = runs + 1
      /\ pipelines' = <<>> /\ UNCHANGED <<nextRecord, timedOut>>
      /\ sinkPC' = [s \in Sinks |-> IF sinkPC[s] = "absent" THEN "absent" ELSE "gone"]
      /\ localMap' = [s \in Sinks |-> <<>>]
      /\ sending' = [s \in Sinks |-> <<>>] /\ sendingKey' = [s \in Sinks |-> <<>>]
      /\ after' = [s \in Sinks |-> "idle"]
      /\ toWalk' = [s \in Sinks |-> {}] /\ forceAll' = [s \in Sinks |-> FALSE]
  BY DEF NextRun, callVars
<1>2. \A s \in Sinks : sinkPC'[s] # "gone" => nextRecord'[s] = 1
  BY <1>1 DEF CallInv, SinkStates
<1>3. timedOut' \subseteq Record /\ \A r \in timedOut' : r[2] < nextRecord'[r[1]]
  BY <1>1 DEF WayInv, NothingMissing
<1>4. WayInv'
  BY <1>1, <1>2, <1>3, EmptyRunNext DEF NoRecords
<1>5. CallInv'
  <2>1. runs' \in 1..MaxRuns
    <3>1. runs \in 1..MaxRuns /\ MaxRuns \in Nat
      BY KeySetAssumption DEF CallInv
    <3> QED BY <1>1, <3>1
  <2> QED BY <1>1, <1>2, <2>1 DEF CallInv, SinkStates, CloseEmpties
<1> QED BY <1>4, <1>5

\* Steps of NewOrchestrator, of the end of workers and of Destroy leave connections alone.
LEMMA OtherStepsPass ==
    ASSUME StateInv,
           \/ Start \/ DestroyClose \/ DestroyWait \/ Terminated \/ UNCHANGED vars
           \/ \E p \in DOMAIN pipelines : WorkerStop(p)
    PROVE  WayInv' /\ CallInv'
<1> USE DEF StateInv
<1>1. UNCHANGED <<runs, sinkPC, callVars, localMap, walkVars, sendVars, timedOut>>
  BY DEF Start, RecoverPipeline, IgnoreMalformed, Started, DestroyClose, DestroyWait, Terminated,
         WorkerStop, orcVars, vars
<1>2. UNCHANGED <<sending, sendingKey, after, nextRecord, toWalk, forceAll>>
  BY <1>1 DEF callVars, walkVars, sendVars
<1>3. CallInv'
  BY <1>1, <1>2 DEF CallInv, SinkStates, CloseEmpties
<1>4. PipelinesKeepRecords
  <2>1. CASE UNCHANGED pipelines
    BY <2>1 DEF PipelinesKeepRecords
  <2>2. CASE DestroyClose \/ \E p \in DOMAIN pipelines : WorkerStop(p)
    BY <2>2, FlagSteps DEF PipelinesKeepRecords
  <2>3. CASE RecoverPipeline
    <3>1. PICK id \in toRecover : Len(SplitID(id)) = NumKeys /\ GetOrCreate(SplitID(id))
      BY <2>3 DEF RecoverPipeline
    <3>2. Splits(id)
      BY <3>1 DEF DirsInv, DirsAreServed, DirsAreApart, Splits
    <3> DEFINE keys == SplitID(id)
    <3>3. keys \in KeySets
      BY <3>2, SplitOfID, SplitAssumption
    <3> HIDE DEF keys
    <3>4. /\ \A p \in DOMAIN pipelines : p \in DOMAIN pipelines' /\ pipelines'[p] = pipelines[p]
          /\ \A p \in DOMAIN pipelines' \ DOMAIN pipelines : pipelines'[p] = NewPipeline(keys)
      <4>1. GetOrCreate(keys)
        BY <3>1 DEF keys
      <4> QED BY <3>3, <4>1, GetOrCreateNames DEF IInv, DirsInv
    <3> QED BY <3>4 DEF PipelinesKeepRecords, NewPipeline
  <2>4. CASE IgnoreMalformed \/ Started \/ DestroyWait \/ Terminated \/ UNCHANGED vars
    BY <2>1, <2>4 DEF IgnoreMalformed, Started, DestroyWait, Terminated, vars
  <2> QED BY <2>2, <2>3, <2>4 DEF Start
<1>5. WayInv'
  BY <1>1, <1>2, <1>4, RecordsStay
<1> QED BY <1>3, <1>5

\* Connections' other steps leave the records where they are.
LEMMA SinkPass ==
    ASSUME KeySetAssumption, StateInv, NEW s \in Sinks,
           NewSink(s) \/ Accept(s) \/ Tick(s) \/ Close(s) \/ SinkRuns(s) \/ FlushTimeOut(s)
    PROVE  WayInv'
<1>1. CASE NewSink(s) \/ Accept(s) \/ Tick(s) \/ Close(s) \/ AcceptReturns(s) \/ WalkReturns(s)
  <2>1. /\ UNCHANGED <<pipelines, nextRecord, localMap, sendVars, timedOut>>
        /\ sinkPC[s] # "gone" /\ \E pc : sinkPC' = [sinkPC EXCEPT ![s] = pc]
    BY <1>1 DEF NewSink, Accept, Tick, Close, WalkCaches, AcceptReturns, WalkReturns, callVars
  <2>2. PipelinesKeepRecords
    BY <2>1 DEF PipelinesKeepRecords
  <2>3. UNCHANGED <<sending, sendingKey, localMap, nextRecord, timedOut>>
    BY <2>1 DEF sendVars
  <2>4. \A t \in Sinks : sinkPC'[t] # "gone" => sinkPC[t] # "gone"
    BY <2>1 DEF StateInv, CallInv, SinkStates
  <2> QED BY <2>2, <2>3, <2>4, RecordsStay DEF StateInv
<1>2. CASE AcceptRecord(s)
  BY <1>2, AcceptRecordPass
<1>3. CASE FlushSend(s)
  BY <1>3, FlushSendPass
<1>4. CASE FlushTimeOut(s)
  BY <1>4, FlushTimeOutPass
<1>5. CASE WalkCache(s)
  BY <1>5, WalkCachePass
<1> QED BY <1>1, <1>2, <1>3, <1>4, <1>5 DEF SinkRuns

\* Every step keeps all of it.
LEMMA NextKeepsState == StateInv /\ [Next]_vars => StateInv'
<1> SUFFICES ASSUME StateInv, [Next]_vars PROVE StateInv'
  OBVIOUS
<1>1. IInv' /\ CallsInRange' /\ DirsInv'
  BY NextKeepsIInv, CallsKept, NextKeepsDirs, KeySetAssumption, SplitAssumption DEF StateInv
<1>2. ASSUME NEW s \in Sinks,
             NewSink(s) \/ Accept(s) \/ Tick(s) \/ Close(s) \/ SinkRuns(s) \/ FlushTimeOut(s)
      PROVE  WayInv' /\ CallInv'
  BY <1>2, SinkPass, SinkKeepsCalls, KeySetAssumption
<1>3. ASSUME NEW p \in DOMAIN pipelines, WorkerReceive(p) PROVE WayInv' /\ CallInv'
  <2>1. UNCHANGED <<runs, sinkPC, nextRecord, localMap, toWalk, forceAll, sending, sendingKey, after>>
    BY <1>3 DEF WorkerReceive, orcVars, callVars, walkVars, sendVars
  <2>2. CallInv'
    BY <2>1 DEF StateInv, CallInv, SinkStates, CloseEmpties
  <2> QED BY <1>3, <2>2, WorkerReceivePass
<1>4. ASSUME Restart \/ Crash PROVE WayInv' /\ CallInv'
  BY <1>4, NextRunPass DEF Restart, Crash
<1>5. ASSUME \/ Start \/ DestroyClose \/ DestroyWait \/ Terminated \/ UNCHANGED vars
             \/ \E p \in DOMAIN pipelines : WorkerStop(p)
      PROVE  WayInv' /\ CallInv'
  BY <1>5, OtherStepsPass
<1>6. WayInv' /\ CallInv'
  BY <1>2, <1>3, <1>4, <1>5 DEF Next, Worker
<1> QED BY <1>1, <1>6 DEF StateInv

\* In every reachable state each record is where it should be.
THEOREM StateInvHolds == Spec => []StateInv
BY InitState, NextKeepsState, PTL DEF Spec

-----------------------------------------------------------------------------
(* From the connection to the end of the worker *)

\* A pipeline's records one after the other.
LEMMA QueueInLine ==
    ASSUME NEW d \in Seq(Record), NEW c \in Seq(Seq(Record)), InQueue(d, c)
    PROVE  /\ d \o FlattenSeq(c) \in Seq(Record)
           /\ Range(d \o FlattenSeq(c)) = GivenTo(d, c)
           /\ Ordered(d \o FlattenSeq(c), InOrder)
<1>1. /\ FlattenSeq(c) \in Seq(Record)
      /\ Range(FlattenSeq(c)) = UNION {Range(c[i]) : i \in 1..Len(c)}
  BY FlattenFacts
<1>2. Ordered(FlattenSeq(c), InOrder)
  <2>1. /\ \A i \in 1..Len(c) : Ordered(c[i], InOrder)
        /\ \A i, j \in 1..Len(c) : i < j => Precedes(c[i], c[j], InOrder)
    BY DEF InQueue
  <2> QED BY <2>1, FlattenFacts
<1>3. Precedes(d, FlattenSeq(c), InOrder)
  <2>1. \A i \in 1..Len(c) : \A a \in Range(d), b \in Range(c[i]) : <<a, b>> \in InOrder
    BY DEF InQueue, Precedes
  <2> QED BY <1>1, <2>1 DEF Precedes
<1>4. Range(d \o FlattenSeq(c)) = Range(d) \cup Range(FlattenSeq(c))
  BY <1>1, JoinedFacts
<1>5. Range(d \o FlattenSeq(c)) = GivenTo(d, c)
  BY <1>1, <1>4, Zenon DEF GivenTo
<1>6. Ordered(d, InOrder)
  BY DEF InQueue
<1> QED BY <1>1, <1>2, <1>3, <1>5, <1>6, JoinedFacts

\* The way of a key is in order, and has what its pipeline was given, what is being sent with the
\* key and what is in its cache.
LEMMA WayInLine ==
    ASSUME StateInv, NEW s \in Sinks, NEW k \in DOMAIN localMap[s]
    PROVE  /\ localMap[s][k].pipeline \in DOMAIN pipelines
           /\ localMap[s][k].pipeline = workerMap[k]
           /\ Way(s, k) \in Seq(Record) /\ Ordered(Way(s, k), InOrder)
           /\ Range(Way(s, k)) = Given(localMap[s][k].pipeline)
                                   \cup {r \in Sending(s) : sendingKey[s] = k} \cup Held(s, k)
<1>1. SUFFICES ASSUME NEW p, p = localMap[s][k].pipeline
      PROVE  /\ p \in DOMAIN pipelines /\ p = workerMap[k]
             /\ Way(s, k) \in Seq(Record) /\ Ordered(Way(s, k), InOrder)
             /\ Range(Way(s, k)) = Given(p) \cup {r \in Sending(s) : sendingKey[s] = k} \cup Held(s, k)
  OBVIOUS
<1>2. p \in DOMAIN pipelines /\ p = workerMap[k]
  BY <1>1 DEF StateInv, IInv, LocalMapsAreCopies, CachesAgree, MapIsComplete
<1>3. PICK queue : queue = pipelines[p].processed \o FlattenSeq(pipelines[p].channel)
  OBVIOUS
<1>4. queue \in Seq(Record) /\ Range(queue) = Given(p) /\ Ordered(queue, InOrder)
  <2>1. /\ pipelines[p].processed \in Seq(Record) /\ pipelines[p].channel \in Seq(Seq(Record))
        /\ InQueue(pipelines[p].processed, pipelines[p].channel)
    BY <1>2 DEF StateInv, WayInv, PipelinesInOrder
  <2> QED BY <1>3, <2>1, QueueInLine DEF Given
<1>5. PICK x : x = IF sendingKey[s] = k THEN sending[s] ELSE <<>>
  OBVIOUS
<1>6. /\ x \in Seq(Record) /\ Ordered(x, InOrder)
      /\ Range(x) = {r \in Sending(s) : sendingKey[s] = k}
  <2>1. sending[s] \in Seq(Record) /\ Ordered(sending[s], InOrder)
    BY DEF StateInv, WayInv, SendingInOrder
  <2>2. CASE sendingKey[s] = k
    <3>1. x = sending[s]
      BY <1>5, <2>2
    <3>2. Range(x) = Sending(s)
      BY <3>1, Zenon DEF Sending
    <3> QED BY <2>1, <2>2, <3>1, <3>2
  <2>3. CASE sendingKey[s] # k
    <3>1. x = <<>>
      BY <1>5, <2>3
    <3>2. Range(x) = {}
      BY <3>1, EmptyPiece, Zenon
    <3>3. x \in Seq(Record) /\ Ordered(x, InOrder)
      BY <3>1, EmptyPiece, Zenon
    <3> QED BY <2>3, <3>2, <3>3
  <2> QED BY <2>2, <2>3
<1>7. PICK y : y = localMap[s][k].pendingLogs
  OBVIOUS
<1>8. y \in Seq(Record) /\ Ordered(y, InOrder) /\ Range(y) = Held(s, k)
  <2>1. Range(y) = Held(s, k)
    BY <1>7, Zenon DEF Held
  <2> QED BY <1>7, <2>1 DEF StateInv, WayInv, CachesInOrder
<1>9. Way(s, k) = queue \o x \o y
  BY <1>1, <1>3, <1>5, <1>7 DEF Way
<1>10. /\ Before(Given(p), Range(x)) /\ Before(Given(p), Held(s, k)) /\ Before(Range(x), Held(s, k))
  <2>1. /\ Before(Given(p), Sending(s)) /\ Before(Given(p), Held(s, k)) /\ Before(Sending(s), Held(s, k))
    BY <1>2 DEF StateInv, WayInv, PipelinesFirst, CachesInOrder
  <2> QED BY <1>6, <2>1 DEF Before
<1>11. PICK sent : sent = queue \o x
  OBVIOUS
<1>12. sent \in Seq(Record) /\ Range(sent) = Range(queue) \cup Range(x) /\ Ordered(sent, InOrder)
  <2>1. Precedes(queue, x, InOrder)
    BY <1>4, <1>10 DEF Before, Precedes
  <2>2. Range(queue \o x) = Range(queue) \cup Range(x)
    BY <1>4, <1>6, JoinedFacts
  <2>3. Range(sent) = Range(queue) \cup Range(x)
    BY <1>11, <2>2, Zenon
  <2> QED BY <1>4, <1>6, <1>11, <2>1, <2>3, JoinedFacts
<1>13. PICK way : way = sent \o y
  OBVIOUS
<1>14. way \in Seq(Record) /\ Range(way) = Range(sent) \cup Range(y) /\ Ordered(way, InOrder)
  <2>1. Precedes(sent, y, InOrder)
    BY <1>4, <1>8, <1>10, <1>12 DEF Before, Precedes
  <2>2. Range(sent \o y) = Range(sent) \cup Range(y)
    BY <1>8, <1>12, JoinedFacts
  <2>3. Range(way) = Range(sent) \cup Range(y)
    BY <1>13, <2>2, Zenon
  <2> QED BY <1>8, <1>12, <1>13, <2>1, <2>3, JoinedFacts
<1>15. Way(s, k) = way
  BY <1>9, <1>11, <1>13
<1>16. Range(Way(s, k)) = Range(way)
  BY <1>15, Zenon
<1>17. Range(way) = Given(p) \cup {r \in Sending(s) : sendingKey[s] = k} \cup Held(s, k)
  BY <1>4, <1>6, <1>8, <1>12, <1>14, Zenon
<1> QED BY <1>2, <1>14, <1>15, <1>16, <1>17

\* Where a record is tells whose it is: the pipeline, the flush and the cache of its key.
LEMMA PlacesByKey ==
    ASSUME StateInv, NEW s \in Sinks, NEW k \in DOMAIN localMap[s], NEW r \in Record,
           r[1] = s, KeyOf(r) = k, OnTheWay(r)
    PROVE  r \in Given(localMap[s][k].pipeline) \/ (r \in Sending(s) /\ sendingKey[s] = k) \/ r \in Held(s, k)
<1>1. ASSUME NEW p \in DOMAIN pipelines, r \in Given(p) PROVE p = localMap[s][k].pipeline
  <2>1. KeyOf(r) = MergedKey(pipelines[p].keys)
    BY <1>1 DEF StateInv, WayInv, PipelinesInOrder
  <2>2. workerMap[MergedKey(pipelines[p].keys)] = p
    BY DEF StateInv, DirsInv, PipelinesAreNamed
  <2> QED BY <2>1, <2>2, WayInLine
<1>2. r \in Sending(s) => sendingKey[s] = k
  BY DEF StateInv, WayInv, SendingInOrder
<1>3. ASSUME NEW j \in DOMAIN localMap[s], r \in Held(s, j) PROVE j = k
  BY <1>3 DEF StateInv, WayInv, CachesInOrder
<1> QED BY <1>1, <1>2, <1>3 DEF OnTheWay

\* Each record a connection has accepted is once on its way, in order with those of its key set.
LEMMA StateIsInOrder == StateInv => InOrderPerKeySet
<1> SUFFICES ASSUME StateInv, NEW s \in Sinks, sinkPC[s] # "gone", NEW keys \in KeySets
             PROVE  LET way     == Way(s, MergedKey(keys))
                        Mine(r) == r[1] = s /\ KeysOf(r) = keys
                    IN  /\ {r \in Range(way) : Mine(r)} =
                              {r \in {s} \X (1..(nextRecord[s] - 1)) : KeysOf(r) = keys /\ r \notin timedOut}
                        /\ \A i, j \in DOMAIN way :
                              i < j /\ Mine(way[i]) /\ Mine(way[j]) => way[i][2] < way[j][2]
  BY DEF InOrderPerKeySet
<1>1. SUFFICES ASSUME NEW k, k = MergedKey(keys), NEW way, way = Way(s, k)
      PROVE  /\ {r \in Range(way) : r[1] = s /\ KeysOf(r) = keys} =
                    {r \in {s} \X (1..(nextRecord[s] - 1)) : KeysOf(r) = keys /\ r \notin timedOut}
             /\ \A i, j \in DOMAIN way :
                   i < j /\ way[i][1] = s /\ KeysOf(way[i]) = keys /\ way[j][1] = s /\ KeysOf(way[j]) = keys
                      => way[i][2] < way[j][2]
  OBVIOUS
<1>2. /\ nextRecord[s] \in 1..(Len(RecordKeys[s]) + 1) /\ Len(RecordKeys[s]) \in Nat
  BY KeySetAssumption DEF StateInv, CallsInRange
<1>3. ASSUME NEW r \in {s} \X (1..(nextRecord[s] - 1)), KeysOf(r) = keys
      PROVE  r \in Record /\ r[1] = s /\ r[2] < nextRecord[s] /\ KeyOf(r) = k
  <2>1. r = <<s, r[2]>> /\ r[1] = s /\ r[2] \in 1..(nextRecord[s] - 1)
    OBVIOUS
  <2>2. r[2] \in 1..Len(RecordKeys[s]) /\ r[2] < nextRecord[s]
    BY <1>2, <2>1
  <2>3. r \in Record
    BY <2>1, <2>2, RecordFacts
  <2> QED BY <1>1, <1>3, <2>1, <2>2, <2>3 DEF KeyOf
<1>4. ASSUME NEW r \in Record, r[1] = s, r[2] < nextRecord[s]
      PROVE  r \in {s} \X (1..(nextRecord[s] - 1))
  <2>1. r = <<s, r[2]>> /\ r[2] \in Nat /\ r[2] > 0
    BY <1>4, RecordFacts
  <2> QED BY <1>2, <1>4, <2>1
<1>5. CASE k \notin DOMAIN localMap[s]
  <2>1. way = <<>>
    BY <1>1, <1>5 DEF Way
  <2>2. Range(way) = {} /\ DOMAIN way = {}
    <3>1. Range(way) = {}
      BY <2>1, EmptyPiece, Zenon
    <3> QED BY <2>1, <3>1
  <2>3. \A r \in Record : r[1] = s /\ r[2] < nextRecord[s] => KeyOf(r) \in DOMAIN localMap[s]
    BY DEF StateInv, WayInv, NothingMissing
  <2>4. {r \in {s} \X (1..(nextRecord[s] - 1)) : KeysOf(r) = keys /\ r \notin timedOut} = {}
    BY <1>3, <1>5, <2>3
  <2> QED BY <2>2, <2>4
<1>6. CASE k \in DOMAIN localMap[s]
  <2>1. PICK p \in DOMAIN pipelines :
           /\ p = localMap[s][k].pipeline
           /\ way \in Seq(Record) /\ Ordered(way, InOrder)
           /\ Range(way) = Given(p) \cup {r \in Sending(s) : sendingKey[s] = k} \cup Held(s, k)
    BY <1>1, <1>6, WayInLine
  <2>2. ASSUME NEW r \in Range(way), r[1] = s, KeysOf(r) = keys
        PROVE  r \in {s} \X (1..(nextRecord[s] - 1)) /\ r \notin timedOut
    <3>1. r \in Record
      <4>1. Range(way) \subseteq Record
        BY <2>1, ElementsOf
      <4> QED BY <4>1
    <3>2. OnTheWay(r)
      BY <1>6, <2>1, <2>2 DEF OnTheWay
    <3>3. r[2] < nextRecord[s] /\ r \notin timedOut
      BY <2>2, <3>1, <3>2 DEF StateInv, WayInv, NothingMissing
    <3> QED BY <1>4, <2>2, <3>1, <3>3
  <2>3. ASSUME NEW r \in {s} \X (1..(nextRecord[s] - 1)), KeysOf(r) = keys, r \notin timedOut
        PROVE  r \in Range(way) /\ r[1] = s
    <3>1. r \in Record /\ r[1] = s /\ r[2] < nextRecord[s] /\ KeyOf(r) = k
      BY <1>3, <2>3
    <3>2. OnTheWay(r)
      BY <2>3, <3>1 DEF StateInv, WayInv, NothingMissing
    <3> QED BY <1>6, <2>1, <3>1, <3>2, PlacesByKey
  <2>4. ASSUME NEW i \in DOMAIN way, NEW j \in DOMAIN way, i < j,
               way[i][1] = s, KeysOf(way[i]) = keys, way[j][1] = s, KeysOf(way[j]) = keys
        PROVE  way[i][2] < way[j][2]
    <3>1. i \in 1..Len(way) /\ j \in 1..Len(way) /\ way[i] \in Record /\ way[j] \in Record
      BY <2>1
    <3>2. <<way[i], way[j]>> \in InOrder
      BY <2>1, <2>4, <3>1 DEF Ordered
    <3>3. KeyOf(way[i]) = k /\ KeyOf(way[j]) = k
      BY <1>1, <2>4 DEF KeyOf
    <3> QED BY <2>4, <3>1, <3>2, <3>3, RecordFacts
  <2> QED BY <2>2, <2>3, <2>4
<1> QED BY <1>5, <1>6

\* The types.
LEMMA StateIsTyped == StateInv => TypeOK
<1> SUFFICES ASSUME StateInv PROVE TypeOK
  OBVIOUS
<1>1. orcPC \in {"starting", "up", "waiting", "done"}
  BY DEF StateInv, IInv, WorkThenClose
<1>2. toRecover \subseteq {WorkerID(keys) : keys \in KeySets}
  BY DEF StateInv, DirsInv, DirsAreApart, DirsAreServed, IDs
<1>3. DOMAIN workerMap \subseteq MergedKeys /\ Range(workerMap) \subseteq DOMAIN pipelines
  BY DEF StateInv, DirsInv, PipelinesAreNamed, Range
<1>4. objectCount \in 0..Len(pipelines)
  <2>1. Len(pipelines) \in Nat /\ DOMAIN pipelines = 1..Len(pipelines)
    BY PipelineNumbers DEF StateInv, IInv
  <2>2. IsFiniteSet(1..Len(pipelines)) /\ Cardinality(1..Len(pipelines)) = Len(pipelines)
    <3> DEFINE n == Len(pipelines)
    <3> HIDE DEF n
    <3>1. n \in Nat => IsFiniteSet(1..n) /\ Cardinality(1..n) = IF 1 > n THEN 0 ELSE n - 1 + 1
      BY FS_Interval
    <3>2. n \in Nat => IsFiniteSet(1..n) /\ Cardinality(1..n) = n
      BY <3>1
    <3> QED BY <2>1, <3>2 DEF n
  <2>3. Unstopped \subseteq 1..Len(pipelines)
    BY <2>1 DEF Unstopped
  <2>4. Cardinality(Unstopped) \in Nat /\ Cardinality(Unstopped) <= Len(pipelines)
    BY <2>2, <2>3, FS_Subset, FS_CardinalityType
  <2> QED BY <2>1, <2>4 DEF StateInv, IInv, CounterIsExact
<1>5. \A p \in DOMAIN pipelines :
         /\ pipelines[p].keys \in KeySets
         /\ Len(pipelines[p].channel) <= ChannelCap
         /\ pipelines[p].processed \in Seq(Record)
  BY DEF StateInv, DirsInv, PipelinesAreNamed, WayInv, PipelinesInOrder
<1>6. sinkPC \in [Sinks -> {"absent", "idle", "accept", "flush", "walk", "closed", "gone"}]
  BY DEF StateInv, CallInv, SinkStates
<1>7. ASSUME NEW s \in Sinks
      PROVE  /\ nextRecord[s] \in 1..(Len(RecordKeys[s]) + 1) /\ batchEnd[s] \in 0..Len(RecordKeys[s])
             /\ after[s] \in {"idle", "accept", "walk"}
             /\ DOMAIN localMap[s] \subseteq MergedKeys
             /\ \A k \in DOMAIN localMap[s] :
                   /\ localMap[s][k].pipeline \in DOMAIN pipelines
                   /\ Len(localMap[s][k].pendingLogs) < BufferCap
             /\ sending[s] \in Seq(Record)
             /\ toWalk[s] \subseteq DOMAIN localMap[s]
             /\ forceAll[s] \in BOOLEAN
  <2>1. nextRecord[s] \in 1..(Len(RecordKeys[s]) + 1) /\ batchEnd[s] \in 0..Len(RecordKeys[s])
    BY DEF StateInv, CallsInRange
  <2>2. /\ after[s] \in {"idle", "accept", "walk"}
        /\ toWalk[s] \subseteq DOMAIN localMap[s] /\ forceAll[s] \in BOOLEAN
    BY DEF StateInv, CallInv, SinkStates
  <2>3. /\ DOMAIN localMap[s] \subseteq MergedKeys /\ sending[s] \in Seq(Record)
        /\ \A k \in DOMAIN localMap[s] : Len(localMap[s][k].pendingLogs) < BufferCap
    BY DEF StateInv, WayInv, CachesInOrder, SendingInOrder
  <2>4. \A k \in DOMAIN localMap[s] : localMap[s][k].pipeline \in DOMAIN pipelines
    BY WayInLine
  <2> QED BY <2>1, <2>2, <2>3, <2>4
<1>8. timedOut \subseteq Record /\ runs \in 1..MaxRuns
  BY DEF StateInv, WayInv, NothingMissing, CallInv
<1> QED BY <1>1, <1>2, <1>3, <1>4, <1>5, <1>6, <1>7, <1>8 DEF TypeOK

\* What a closed connection has accepted was given to pipelines; when these have emptied their
\* channels, they have processed it.
LEMMA ClosedIsProcessed ==
    ASSUME StateInv, DestroyWaitsForAll, orcPC = "done",
           NEW s \in Sinks, sinkPC[s] = "closed", NEW i \in 1..(nextRecord[s] - 1)
    PROVE  <<s, i>> \in timedOut \/ \E p \in DOMAIN pipelines : <<s, i>> \in Range(pipelines[p].processed)
<1>1. <<s, i>> \in Record /\ <<s, i>>[1] = s /\ <<s, i>>[2] < nextRecord[s]
  <2>1. nextRecord[s] \in 1..(Len(RecordKeys[s]) + 1) /\ Len(RecordKeys[s]) \in Nat
    BY KeySetAssumption DEF StateInv, CallsInRange
  <2>2. i \in 1..Len(RecordKeys[s]) /\ i < nextRecord[s]
    BY <2>1
  <2> QED BY <2>2, RecordFacts
<1>2. Sending(s) = {}
  <2>1. sending[s] = <<>>
    BY DEF StateInv, CallInv, SinkStates
  <2> QED BY <2>1, EmptyPiece, Zenon DEF Sending
<1>3. \A k \in DOMAIN localMap[s] : Held(s, k) = {}
  <2>1. \A k \in DOMAIN localMap[s] : localMap[s][k].pendingLogs = <<>>
    BY DEF StateInv, CallInv, CloseEmpties
  <2> QED BY <2>1, EmptyPiece, Zenon DEF Held
<1>4. ASSUME NEW p \in DOMAIN pipelines PROVE Given(p) = Range(pipelines[p].processed)
  <2>1. pipelines[p].channel = <<>>
    BY DEF DestroyWaitsForAll
  <2>2. 1..Len(pipelines[p].channel) = {}
    BY <2>1
  <2> QED BY <2>2 DEF Given, GivenTo
<1>5. OnTheWay(<<s, i>>) \/ <<s, i>> \in timedOut
  BY <1>1 DEF StateInv, WayInv, NothingMissing
<1> QED BY <1>1, <1>2, <1>3, <1>4, <1>5 DEF OnTheWay

\* With any number of connections, key sets, records and restarts: records accepted stay in order in
\* the way of their key set, none lost or twice but for flushes that timed out, and when Shutdown
\* returns all of a closed connection have been processed (orchestrator.go:66-163).
THEOREM RecordsAreKept == Spec => []RecordsKept
<1>1. StateInv /\ DestroyWaitsForAll => RecordsKept
  <2> SUFFICES ASSUME StateInv, DestroyWaitsForAll PROVE RecordsKept
    OBVIOUS
  <2>1. NothingLeftBehind
    BY ClosedIsProcessed DEF NothingLeftBehind
  <2> QED BY <2>1, StateIsInOrder, StateIsTyped DEF RecordsKept
<1> QED BY <1>1, StateInvHolds, ShutdownIsComplete, PTL
=============================================================================
