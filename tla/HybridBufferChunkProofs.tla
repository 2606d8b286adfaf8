------------------------ MODULE HybridBufferChunkProofs ------------------------
(***************************************************************************)
(* More about HybridBuffer: what becomes of each chunk.  Chunks are in the  *)
(* order of their IDs through all the places where a chunk may be, each ID  *)
(* is in one place, and so the gauges are exact, every chunk is accounted   *)
(* for, none comes back after it was consumed, the directory stays within   *)
(* its limit, and the consumer is dealt with as its contract says.          *)
(***************************************************************************)
EXTENDS HybridBufferProofs, FunctionTheorems

-----------------------------------------------------------------------------
(* The inductive invariant *)

\* What may be put in order: the IDs of two sets of chunks.
Before(S, T) == \A c \in S, d \in T : c.id < d.id
AscendingIDs(q) == \A i, j \in 1..Len(q) : i < j => q[i].id < q[j].id

\* The places of a chunk, from the consumer back to the pipeline, and beside them the chunk that
\* saveEverything is writing.
AtConsumer == (held \cup {leaving}) \ {NoChunk}
InOutput   == ToSet(outputChannel)
AtFeeder   == ({lastInputChunk} \cup (IF feederPC = "write" THEN {} ELSE {feederChunk})) \ {NoChunk}
InInput    == ToSet(inputChannel)
AtAccept   == {accepting} \ {NoChunk}
InSaving   == IF feederPC = "write" THEN {feederChunk} ELSE {}

AllPlaces == AtConsumer \cup InOutput \cup AtFeeder \cup InInput \cup AtAccept \cup InSaving

\* Chunks are in the order of their IDs through all places.
InLine ==
    /\ Before(AtConsumer, InOutput \cup AtFeeder \cup InInput \cup AtAccept)
    /\ Before(InOutput, AtFeeder \cup InInput \cup AtAccept)
    /\ Before(AtFeeder, InInput \cup AtAccept)
    /\ Before(InInput, AtAccept)
    /\ AscendingIDs(outputChannel) /\ AscendingIDs(inputChannel)
    /\ \A c, d \in AtConsumer : c.id = d.id => c = d
    /\ leaving \notin held

\* The chunk being written by saveEverything has left the line.
SavedApart ==
    \A c \in InSaving, d \in AtConsumer \cup InOutput \cup AtFeeder \cup InInput \cup AtAccept : c.id # d.id

\* What this run has settled.
Settled == shelved \cup undeleted \cup IDs(leftover)

\* IDs are used once: chunks to come and chunks settled are not in the agent.
UsedOnce ==
    /\ \A i \in IDs(InAgent) \cup Settled \cup {j \in ChunkID : disk[j] # "none"} : i < nextID
    /\ IDs(InAgent) \cap Settled = {}

\* Files: only a bufferer with a directory has saved chunks, and what is being written has none yet.
FilesNeedDir ==
    /\ \A c \in InAgent : c.saved => hasDir
    /\ acceptPC = "write" => hasDir /\ ~accepting.saved
    /\ feederPC = "write" => hasDir /\ ~feederChunk.saved
    /\ leaving # NoChunk => hasDir /\ ~leaving.saved

\* The shutdown as far as it concerns what a run leaves behind.
EndOfRun ==
    /\ destroyPC \in {"down", "up", "wait", "close"} => outputState = "open"
    /\ outputState = "closed" <=> feederPC = "signal"
    /\ consumerPC # "running" => outputState # "open"
    /\ destroyPC = "done" => feederPC = "stopped"
    /\ outputState = "signaled" <=> feederPC \in {"save", "write", "stopped"}
    /\ destroyPC = "down" => Settled = {}
    /\ outputState = "open" => shelved = {} /\ leftover = {}

SentAll ==
    destroyPC \in {"close", "signal", "waiting", "done"} /\ ShouldWaitPendingChunks /\ "timeout" \notin Faults
       => InAgent = {} /\ leftover = {} /\ shelved = {}

OneEach == InLine /\ SavedApart

-----------------------------------------------------------------------------
(* Queues in the order of their IDs *)

\* Chunk IDs are numbers.
LEMMA ChunkIDIsInt == \A c \in Chunk : c.id \in ChunkID /\ c.id \in Int
<1>1. MaxChunks \in Int
  BY BoundsAssumption
<1> QED
  BY <1>1 DEF Chunk, ChunkID

\* What is received from a queue in order precedes everything that stays in it.
LEMMA PopFacts ==
    ASSUME NEW q \in Seq(Chunk), q # <<>>, AscendingIDs(q)
    PROVE  /\ Head(q) \in Chunk /\ Tail(q) \in Seq(Chunk)
           /\ ToSet(q) = {Head(q)} \cup ToSet(Tail(q))
           /\ AscendingIDs(Tail(q))
           /\ Before({Head(q)}, ToSet(Tail(q)))
<1>1. /\ Head(q) \in Chunk /\ Head(q) = q[1] /\ Tail(q) \in Seq(Chunk)
      /\ Len(q) \in Nat /\ Len(q) > 0 /\ Len(Tail(q)) = Len(q) - 1
      /\ \A i \in 1..Len(Tail(q)) : i + 1 \in 1..Len(q) /\ Tail(q)[i] = q[i + 1]
  BY QueueSteps
<1>2. /\ DOMAIN q = 1..Len(q) /\ DOMAIN Tail(q) = 1..Len(Tail(q))
      /\ 1 \in 1..Len(q)
  BY <1>1
<1>3. ToSet(q) = {Head(q)} \cup ToSet(Tail(q))
  <2>1. ToSet(Tail(q)) \subseteq ToSet(q)
    BY <1>1, <1>2 DEF ToSet
  <2>2. ASSUME NEW i \in 1..Len(q) PROVE q[i] \in {Head(q)} \cup ToSet(Tail(q))
    <3>1. CASE i = 1
      BY <1>1, <3>1
    <3>2. CASE i # 1
      <4>1. i - 1 \in 1..Len(Tail(q))
        BY <1>1, <3>2
      <4>2. Tail(q)[i - 1] = q[(i - 1) + 1] /\ (i - 1) + 1 = i
        BY <1>1, <4>1
      <4> QED
        BY <1>2, <4>1, <4>2 DEF ToSet
    <3> QED
      BY <3>1, <3>2
  <2>3. ToSet(q) \subseteq {Head(q)} \cup ToSet(Tail(q))
    BY <1>2, <2>2 DEF ToSet
  <2>4. Head(q) \in ToSet(q)
    BY <1>1, <1>2 DEF ToSet
  <2> QED
    BY <2>1, <2>3, <2>4
<1>4. AscendingIDs(Tail(q))
  BY <1>1 DEF AscendingIDs
<1>5. Before({Head(q)}, ToSet(Tail(q)))
  BY <1>1, <1>2 DEF AscendingIDs, Before, ToSet
<1> QED
  BY <1>1, <1>3, <1>4, <1>5

\* A chunk that comes after everything in a queue may be queued.
LEMMA PushFacts ==
    ASSUME NEW q \in Seq(Chunk), NEW c \in Chunk, AscendingIDs(q), Before(ToSet(q), {c})
    PROVE  /\ Append(q, c) \in Seq(Chunk)
           /\ ToSet(Append(q, c)) = ToSet(q) \cup {c}
           /\ AscendingIDs(Append(q, c))
<1>1. /\ Append(q, c) \in Seq(Chunk) /\ Len(Append(q, c)) = Len(q) + 1
      /\ \A i \in 1..Len(Append(q, c)) :
            Append(q, c)[i] = IF i = Len(q) + 1 THEN c ELSE q[i]
      /\ Len(q) \in Nat
  BY QueueSteps
<1>2. DOMAIN q = 1..Len(q) /\ DOMAIN Append(q, c) = 1..(Len(q) + 1)
  BY <1>1
<1>3. ToSet(Append(q, c)) \subseteq ToSet(q) \cup {c}
  BY <1>1, <1>2 DEF ToSet
<1>4. ToSet(q) \subseteq ToSet(Append(q, c))
  BY <1>1, <1>2 DEF ToSet
<1>5. c \in ToSet(Append(q, c))
  <2>1. Len(q) + 1 \in 1..(Len(q) + 1)
    BY <1>1
  <2> QED
    BY <1>1, <1>2, <2>1 DEF ToSet
<1>6. \A i \in 1..Len(q) : q[i].id < c.id
  BY <1>2 DEF Before, ToSet
<1>7. AscendingIDs(Append(q, c))
  BY <1>1, <1>6 DEF AscendingIDs
<1> QED
  BY <1>1, <1>3, <1>4, <1>5, <1>7

\* In a queue in order no two chunks have the same ID.
LEMMA NoTwinsInQueue ==
    ASSUME NEW q \in Seq(Chunk), AscendingIDs(q), NEW c \in ToSet(q), NEW d \in ToSet(q), c.id = d.id
    PROVE  c = d
<1>1. PICK i \in 1..Len(q) : c = q[i]
  BY DEF ToSet
<1>2. PICK j \in 1..Len(q) : d = q[j]
  BY DEF ToSet
<1>3. q[i].id \in Int /\ q[j].id \in Int
  BY ChunkIDIsInt
<1>4. ~(i < j) /\ ~(j < i)
  BY <1>1, <1>2, <1>3 DEF AscendingIDs
<1> QED
  BY <1>1, <1>2, <1>4

\* An empty queue holds nothing.
LEMMA EmptyFacts == ToSet(<<>>) = {} /\ AscendingIDs(<<>>)
  BY DEF ToSet, AscendingIDs

-----------------------------------------------------------------------------
(* The places of a chunk *)

\* All places together are the agent, and what is in them are chunks.
AgentFilled == InAgent = AllPlaces /\ AllPlaces \subseteq Chunk

LEMMA PlacesAreAgent == IInv => AgentFilled
<1> SUFFICES ASSUME IInv PROVE AgentFilled
  OBVIOUS
<1>1. /\ InInput \subseteq Chunk /\ InOutput \subseteq Chunk /\ held \subseteq Chunk
      /\ {accepting, feederChunk, lastInputChunk, leaving} \subseteq Chunk \cup {NoChunk}
  BY DEF IInv, TypeOK, InInput, InOutput, ToSet
<1>2. feederPC = "write" => feederChunk # NoChunk
  BY DEF IInv, ChunkVariables
<1>3. NoChunk \notin InInput \cup InOutput \cup held
  BY <1>1, NoChunkIsNoChunk
<1>4. AtConsumer \cup InOutput \cup AtFeeder \cup InInput \cup AtAccept \cup InSaving \subseteq Chunk
  BY <1>1, <1>2 DEF AtConsumer, AtFeeder, AtAccept, InSaving
<1>5. InAgent = AtConsumer \cup InOutput \cup AtFeeder \cup InInput \cup AtAccept \cup InSaving
  BY <1>2, <1>3 DEF InAgent, AtConsumer, InOutput, AtFeeder, InInput, AtAccept, InSaving
<1> QED
  BY <1>4, <1>5 DEF AllPlaces, AgentFilled

\* The same of the next state.
LEMMA PlacesAreAgentNext == IInv' => AgentFilled'
<1>1. IInv => AgentFilled
  BY PlacesAreAgent
<1> QED
  BY <1>1, PTL

\* The feeder has one chunk at most, and so has Accept.
LEMMA SingleChunks ==
    ASSUME IInv
    PROVE  /\ \A c, d \in AtFeeder : c = d
           /\ \A c, d \in AtAccept : c = d
           /\ \A c, d \in InSaving : c = d
  BY DEF IInv, ChunkVariables, ShutdownOrder, AtFeeder, AtAccept, InSaving

\* Being in line, no two chunks of the agent have the same ID.
LEMMA NoTwins ==
    ASSUME IInv, OneEach, NEW c \in InAgent, NEW d \in InAgent, c.id = d.id
    PROVE  c = d
<1>1. /\ c \in AtConsumer \cup InOutput \cup AtFeeder \cup InInput \cup AtAccept \cup InSaving
      /\ d \in AtConsumer \cup InOutput \cup AtFeeder \cup InInput \cup AtAccept \cup InSaving
      /\ c \in Chunk /\ d \in Chunk
  BY PlacesAreAgent DEF AllPlaces, AgentFilled
<1>2. c.id \in Int /\ d.id \in Int
  BY <1>1, ChunkIDIsInt
<1>3. CASE c \in InSaving \/ d \in InSaving
  BY <1>1, <1>3, SingleChunks DEF OneEach, SavedApart
<1>4. CASE c \in InOutput /\ d \in InOutput
  BY <1>4, NoTwinsInQueue DEF OneEach, InLine, InOutput, IInv, TypeOK
<1>5. CASE c \in InInput /\ d \in InInput
  BY <1>5, NoTwinsInQueue DEF OneEach, InLine, InInput, IInv, TypeOK
<1>6. CASE c \in AtConsumer /\ d \in AtConsumer
  BY <1>6 DEF OneEach, InLine
<1>7. CASE \/ c \in AtConsumer /\ d \in InOutput \cup AtFeeder \cup InInput \cup AtAccept
           \/ d \in AtConsumer /\ c \in InOutput \cup AtFeeder \cup InInput \cup AtAccept
           \/ c \in InOutput /\ d \in AtFeeder \cup InInput \cup AtAccept
           \/ d \in InOutput /\ c \in AtFeeder \cup InInput \cup AtAccept
           \/ c \in AtFeeder /\ d \in InInput \cup AtAccept
           \/ d \in AtFeeder /\ c \in InInput \cup AtAccept
           \/ c \in InInput /\ d \in AtAccept
           \/ d \in InInput /\ c \in AtAccept
  <2>1. c.id < d.id \/ d.id < c.id
    BY <1>7 DEF OneEach, InLine, Before
  <2> QED
    BY <1>2, <2>1
<1> QED
  BY <1>1, <1>3, <1>4, <1>5, <1>6, <1>7, SingleChunks

-----------------------------------------------------------------------------
(* How each step moves chunks from one place to another *)

\* Steps that leave every chunk where it is.
QuietPlaces ==
    /\ UNCHANGED <<accepting, inputChannel, feederChunk, lastInputChunk, outputChannel, held, leaving>>
    /\ feederPC' = "write" <=> feederPC = "write"

\* What moves no chunk keeps chunks in line.
LEMMA QuietMoves == OneEach /\ QuietPlaces => OneEach' /\ InAgent' = InAgent
<1> SUFFICES ASSUME OneEach, QuietPlaces PROVE OneEach' /\ InAgent' = InAgent
  OBVIOUS
<1>1. /\ AtConsumer' = AtConsumer /\ InOutput' = InOutput /\ AtFeeder' = AtFeeder
      /\ InInput' = InInput /\ AtAccept' = AtAccept /\ InSaving' = InSaving
      /\ InAgent' = InAgent
  BY DEF QuietPlaces, AtConsumer, InOutput, AtFeeder, InInput, AtAccept, InSaving, InAgent
<1>2. UNCHANGED <<inputChannel, outputChannel, held, leaving>>
  BY DEF QuietPlaces
<1>3. InLine'
  BY <1>1, <1>2 DEF OneEach, InLine
<1>4. SavedApart'
  BY <1>1 DEF OneEach, SavedApart
<1> QED
  BY <1>1, <1>3, <1>4 DEF OneEach

\* Accept takes the chunk with the next ID, or drops it at once.
LEMMA AcceptBeginMoves ==
    ASSUME IInv, OneEach, UsedOnce, AcceptBegin
    PROVE  /\ OneEach'
           /\ nextID \in ChunkID /\ nextID \notin IDs(InAgent)
           /\ \/ accepting' = NewChunk(nextID) /\ InAgent' = InAgent \cup {NewChunk(nextID)}
              \/ accepting' = accepting /\ UNCHANGED acceptPC /\ InAgent' = InAgent
<1> DEFINE c == NewChunk(nextID)
<1>1. /\ nextID \in ChunkID /\ accepting = NoChunk /\ acceptPC = "idle"
      /\ UNCHANGED <<inputChannel, feederPC, feederChunk, lastInputChunk, outputChannel, held, leaving>>
      /\ accepting' = c \/ (accepting' = accepting /\ UNCHANGED acceptPC)
  BY DEF AcceptBegin, feederVars, consumerVars, IInv, ChunkVariables
<1>2. c \in Chunk /\ c.id = nextID /\ c # NoChunk
  BY <1>1, ChunkConstructors, NoChunkIsNoChunk DEF NewChunk
<1>3. \A d \in InAgent : d.id < nextID /\ d.id \in Int
  BY PlacesAreAgent, ChunkIDIsInt DEF UsedOnce, IDs, AgentFilled
<1>4. nextID \notin IDs(InAgent)
  BY <1>3 DEF IDs
<1>5. CASE accepting' = accepting /\ UNCHANGED acceptPC
  BY <1>1, <1>4, <1>5, QuietMoves DEF QuietPlaces
<1>6. CASE accepting' = c
  <2>1. /\ AtConsumer' = AtConsumer /\ InOutput' = InOutput /\ AtFeeder' = AtFeeder
        /\ InInput' = InInput /\ InSaving' = InSaving /\ AtAccept = {} /\ AtAccept' = {c}
    BY <1>1, <1>2, <1>6 DEF AtConsumer, InOutput, AtFeeder, InInput, AtAccept, InSaving
  <2>2. InAgent' = InAgent \cup {c}
    BY <1>1, <1>2, <1>6 DEF InAgent
  <2>3. \A d \in AtConsumer \cup InOutput \cup AtFeeder \cup InInput \cup InSaving : d.id < c.id /\ d.id # c.id
    <3>1. c.id \in Int
      BY <1>2, ChunkIDIsInt
    <3> QED
      BY <1>2, <1>3, <3>1, PlacesAreAgent DEF AllPlaces, AgentFilled
  <2>4. InLine'
    BY <1>1, <2>1, <2>3 DEF OneEach, InLine, Before
  <2>5. SavedApart'
    BY <2>1, <2>3 DEF OneEach, SavedApart
  <2> QED
    BY <1>1, <1>4, <1>6, <2>2, <2>4, <2>5 DEF OneEach
<1> QED
  BY <1>1, <1>5, <1>6

\* The write of Accept leaves the chunk where it is, without its data, or drops it.
LEMMA AcceptWriteMoves ==
    ASSUME IInv, IInv', OneEach, AcceptWrite
    PROVE  /\ OneEach' /\ accepting \in InAgent
           /\ Unloaded(accepting).id = accepting.id /\ Unloaded(accepting).saved
           /\ \/ WriteChunkFile(accepting) /\ InAgent' = (InAgent \ {accepting}) \cup {Unloaded(accepting)}
              \/ WriteChunkFileFails(accepting) /\ InAgent' = InAgent \ {accepting}
<1>1. /\ UNCHANGED <<inputChannel, feederPC, feederChunk, lastInputChunk, outputChannel, held, leaving>>
      /\ \/ WriteChunkFile(accepting) /\ accepting' = Unloaded(accepting)
         \/ WriteChunkFileFails(accepting) /\ accepting' = NoChunk
  BY DEF AcceptWrite, feederVars, consumerVars
<1>2. accepting \in Chunk /\ accepting # NoChunk
  BY NoChunkIsNoChunk DEF AcceptWrite, IInv, TypeOK, ChunkVariables
<1>3. /\ Unloaded(accepting).id = accepting.id /\ Unloaded(accepting).saved
      /\ Unloaded(accepting) # NoChunk
  BY <1>2, ChunkConstructors, NoChunkIsNoChunk DEF Unloaded, Chunk
<1>4. /\ AtConsumer' = AtConsumer /\ InOutput' = InOutput /\ AtFeeder' = AtFeeder
      /\ InInput' = InInput /\ InSaving' = InSaving /\ AtAccept = {accepting}
      /\ \/ WriteChunkFile(accepting) /\ AtAccept' = {Unloaded(accepting)}
         \/ WriteChunkFileFails(accepting) /\ AtAccept' = {}
  BY <1>1, <1>2, <1>3 DEF AtConsumer, InOutput, AtFeeder, InInput, AtAccept, InSaving
<1>5. \A d \in AtConsumer \cup InOutput \cup AtFeeder \cup InInput \cup InSaving : d # accepting
  <2>1. accepting.id \in Int
    BY <1>2, ChunkIDIsInt
  <2> QED
    BY <1>4, <2>1 DEF OneEach, InLine, SavedApart, Before
<1>6. InLine'
  BY <1>1, <1>3, <1>4 DEF OneEach, InLine, Before
<1>7. SavedApart'
  BY <1>3, <1>4 DEF OneEach, SavedApart
<1>8. accepting \in InAgent
  BY <1>4, PlacesAreAgent DEF AllPlaces, AgentFilled
<1> QED
  BY <1>3, <1>4, <1>5, <1>6, <1>7, <1>8, PlacesAreAgent, PlacesAreAgentNext DEF OneEach, AllPlaces, AgentFilled

\* The non-blocking send moves the chunk to the end of inputChannel, or drops it.
LEMMA AcceptSendMoves ==
    ASSUME IInv, IInv', OneEach, AcceptSend
    PROVE  /\ OneEach' /\ accepting \in InAgent
           /\ \/ inputChannel' = Append(inputChannel, accepting) /\ InAgent' = InAgent
                 /\ UNCHANGED <<pendingChunks, diskGauges, dropped>>
              \/ OnChunkDropped(accepting) /\ InAgent' = InAgent \ {accepting}
                 /\ UNCHANGED <<inputChannel, queueGauges>>
<1>1. /\ UNCHANGED <<feederPC, feederChunk, lastInputChunk, outputChannel, held, leaving>>
      /\ accepting' = NoChunk
      /\ \/ inputChannel' = Append(inputChannel, accepting)
            /\ UNCHANGED <<pendingChunks, diskGauges, dropped>>
         \/ UNCHANGED <<inputChannel, queueGauges>> /\ OnChunkDropped(accepting)
  BY DEF AcceptSend, feederVars, consumerVars
<1>2. accepting \in Chunk /\ accepting # NoChunk
  BY NoChunkIsNoChunk DEF AcceptSend, IInv, TypeOK, ChunkVariables
<1>3. /\ AtConsumer' = AtConsumer /\ InOutput' = InOutput /\ AtFeeder' = AtFeeder
      /\ InSaving' = InSaving /\ AtAccept = {accepting} /\ AtAccept' = {}
  BY <1>1, <1>2 DEF AtConsumer, InOutput, AtFeeder, AtAccept, InSaving
<1>4. /\ inputChannel' = Append(inputChannel, accepting) =>
            InInput' = InInput \cup {accepting} /\ AscendingIDs(inputChannel')
      /\ UNCHANGED inputChannel => InInput' = InInput /\ AscendingIDs(inputChannel')
  <2>1. inputChannel \in Seq(Chunk) /\ AscendingIDs(inputChannel) /\ Before(ToSet(inputChannel), {accepting})
    BY <1>3 DEF IInv, TypeOK, OneEach, InLine, InInput
  <2> QED
    BY <1>2, <2>1, PushFacts DEF InInput
<1>5. \A d \in AtConsumer \cup InOutput \cup AtFeeder \cup InInput \cup InSaving : d # accepting
  <2>1. accepting.id \in Int
    BY <1>2, ChunkIDIsInt
  <2> QED
    BY <1>3, <2>1 DEF OneEach, InLine, SavedApart, Before
<1>6. InLine'
  BY <1>1, <1>3, <1>4 DEF OneEach, InLine, Before
<1>7. SavedApart'
  BY <1>1, <1>3, <1>4 DEF OneEach, SavedApart
<1>8. accepting \in InAgent
  BY <1>3, PlacesAreAgent DEF AllPlaces, AgentFilled
<1>9. inputChannel' = Append(inputChannel, accepting) => InAgent' = InAgent
  BY <1>3, <1>4, PlacesAreAgent, PlacesAreAgentNext DEF AllPlaces, AgentFilled
<1>10. UNCHANGED inputChannel => InAgent' = InAgent \ {accepting}
  <2>1. /\ InAgent = AtConsumer \cup InOutput \cup AtFeeder \cup InInput \cup {accepting} \cup InSaving
        /\ InAgent' = AtConsumer' \cup InOutput' \cup AtFeeder' \cup InInput' \cup InSaving'
    BY <1>3, PlacesAreAgent, PlacesAreAgentNext DEF AllPlaces, AgentFilled
  <2> QED
    BY <1>3, <1>4, <1>5, <2>1
<1> QED
  BY <1>1, <1>6, <1>7, <1>8, <1>9, <1>10 DEF OneEach

\* The feeder takes the oldest chunk of inputChannel.
LEMMA FeederReceiveMoves ==
    ASSUME IInv, IInv', OneEach, FeederReceive
    PROVE  OneEach' /\ InAgent' = InAgent
<1> DEFINE c == Head(inputChannel)
<1>1. /\ UNCHANGED <<accepting, lastInputChunk, outputChannel, held, leaving>>
      /\ feederPC' = "load" /\ feederPC # "write" /\ feederChunk = NoChunk /\ lastInputChunk = NoChunk
      /\ feederChunk' = c /\ inputChannel # <<>> /\ inputChannel' = Tail(inputChannel)
  BY DEF FeederReceive, acceptVars, consumerVars, IInv, ChunkVariables, ShutdownOrder
<1>2. /\ c \in Chunk
      /\ ToSet(inputChannel) = {c} \cup ToSet(Tail(inputChannel))
      /\ AscendingIDs(Tail(inputChannel))
      /\ Before({c}, ToSet(Tail(inputChannel)))
  BY <1>1, PopFacts DEF IInv, TypeOK, OneEach, InLine
<1>3. c # NoChunk
  BY <1>2, NoChunkIsNoChunk
<1> HIDE DEF c
<1>4. /\ AtConsumer' = AtConsumer /\ InOutput' = InOutput /\ AtAccept' = AtAccept
      /\ InSaving = {} /\ InSaving' = {} /\ AtFeeder = {} /\ AtFeeder' = {c}
      /\ InInput = {c} \cup InInput' /\ Before({c}, InInput')
  BY <1>1, <1>2, <1>3 DEF AtConsumer, InOutput, AtFeeder, InInput, AtAccept, InSaving
<1>5. InLine'
  BY <1>1, <1>2, <1>4 DEF OneEach, InLine, Before
<1>6. SavedApart'
  BY <1>4 DEF SavedApart
<1>7. InAgent' = InAgent
  BY <1>4, PlacesAreAgent, PlacesAreAgentNext DEF AllPlaces, AgentFilled
<1> QED
  BY <1>5, <1>6, <1>7 DEF OneEach

\* A chunk whose data the feeder could not load is gone; otherwise it stays with the feeder.
LEMMA FeederLoadMoves ==
    ASSUME IInv, IInv', OneEach, FeederLoad
    PROVE  /\ OneEach' /\ feederChunk \in InAgent /\ feederChunk \in Chunk
           /\ \E d \in LoadResults(feederChunk) :
                 /\ AfterLoad(d)
                 /\ \/ d \in {"none", "empty"} /\ InAgent' = InAgent \ {feederChunk}
                    \/ d \in {"part", "full"} /\ InAgent' = InAgent
<1>1. /\ UNCHANGED <<accepting, inputChannel, lastInputChunk, outputChannel, held, leaving>>
      /\ feederPC = "load" /\ lastInputChunk = NoChunk
      /\ feederChunk \in Chunk /\ feederChunk # NoChunk
  BY NoChunkIsNoChunk DEF FeederLoad, acceptVars, consumerVars, IInv, TypeOK, ChunkVariables, ShutdownOrder
<1>2. PICK d \in LoadResults(feederChunk) : AfterLoad(d)
  BY DEF FeederLoad
<1>3. AtFeeder = {feederChunk}
  BY <1>1 DEF AtFeeder
<1>4. feederChunk \in InAgent
  BY <1>3, PlacesAreAgent DEF AllPlaces, AgentFilled
<1>5. CASE d \in {"part", "full"}
  <2>1. feederChunk' = feederChunk /\ feederPC' = "push"
    BY <1>2, <1>5 DEF AfterLoad
  <2> QED
    BY <1>1, <1>2, <1>4, <1>5, <2>1, QuietMoves DEF QuietPlaces
<1>6. CASE d \in {"none", "empty"}
  <2>1. feederChunk' = NoChunk /\ feederPC' = "recv"
    BY <1>2, <1>6 DEF AfterLoad
  <2>2. /\ AtConsumer' = AtConsumer /\ InOutput' = InOutput /\ AtAccept' = AtAccept
        /\ InInput' = InInput /\ InSaving = {} /\ InSaving' = {} /\ AtFeeder' = {}
    BY <1>1, <2>1 DEF AtConsumer, InOutput, AtFeeder, InInput, AtAccept, InSaving
  <2>3. InLine'
    BY <1>1, <2>2 DEF OneEach, InLine, Before
  <2>4. SavedApart'
    BY <2>2 DEF SavedApart
  <2>5. \A e \in AtConsumer \cup InOutput \cup InInput \cup AtAccept : e # feederChunk
    <3>1. feederChunk.id \in Int
      BY <1>1, ChunkIDIsInt
    <3> QED
      BY <1>3, <3>1 DEF OneEach, InLine, Before
  <2>6. InAgent' = InAgent \ {feederChunk}
    BY <1>3, <2>2, <2>5, PlacesAreAgent, PlacesAreAgentNext DEF AllPlaces, AgentFilled
  <2> QED
    BY <1>1, <1>2, <1>4, <1>6, <2>3, <2>4, <2>6 DEF OneEach
<1> QED
  BY <1>2, <1>5, <1>6 DEF AfterLoad

\* The feeder hands its chunk over, with the data it loaded.
LEMMA FeederPushMoves ==
    ASSUME IInv, IInv', OneEach, FeederPush
    PROVE  /\ OneEach' /\ feederChunk \in InAgent /\ feederChunk \in Chunk
           /\ WithData(feederChunk, loadedData).id = feederChunk.id
           /\ WithData(feederChunk, loadedData).saved = feederChunk.saved
           /\ InAgent' = (InAgent \ {feederChunk}) \cup {WithData(feederChunk, loadedData)}
           /\ Before(AtConsumer \cup InOutput, {feederChunk})
<1> DEFINE c == WithData(feederChunk, loadedData)
<1>1. /\ UNCHANGED <<accepting, inputChannel, lastInputChunk, held, leaving>>
      /\ feederPC = "push" /\ lastInputChunk = NoChunk
      /\ feederChunk \in Chunk /\ feederChunk # NoChunk
      /\ feederPC' = "recv" /\ feederChunk' = NoChunk
      /\ outputChannel' = Append(outputChannel, c)
  BY NoChunkIsNoChunk DEF FeederPush, acceptVars, consumerVars, IInv, TypeOK, ChunkVariables, ShutdownOrder
<1>2. c \in Chunk /\ c.id = feederChunk.id /\ c.saved = feederChunk.saved
  BY <1>1, ChunkConstructors DEF IInv, TypeOK, WithData, Chunk
<1> HIDE DEF c
<1>3. /\ AtConsumer' = AtConsumer /\ AtAccept' = AtAccept
      /\ InInput' = InInput /\ InSaving = {} /\ InSaving' = {}
      /\ AtFeeder = {feederChunk} /\ AtFeeder' = {}
  BY <1>1 DEF AtConsumer, AtFeeder, InInput, AtAccept, InSaving
<1>4. Before(InOutput, {c})
  BY <1>2, <1>3 DEF OneEach, InLine, Before
<1>5. InOutput' = InOutput \cup {c} /\ AscendingIDs(outputChannel')
  BY <1>1, <1>2, <1>4, PushFacts DEF IInv, TypeOK, OneEach, InLine, InOutput
<1>6. InLine'
  BY <1>1, <1>2, <1>3, <1>5 DEF OneEach, InLine, Before
<1>7. SavedApart'
  BY <1>3 DEF SavedApart
<1>8. \A e \in AtConsumer \cup InOutput \cup InInput \cup AtAccept : e # feederChunk
  <2>1. feederChunk.id \in Int
    BY <1>1, ChunkIDIsInt
  <2> QED
    BY <1>3, <2>1 DEF OneEach, InLine, Before
<1>9. InAgent' = (InAgent \ {feederChunk}) \cup {c} /\ feederChunk \in InAgent
  BY <1>3, <1>5, <1>8, PlacesAreAgent, PlacesAreAgentNext DEF AllPlaces, AgentFilled
<1>10. Before(AtConsumer \cup InOutput, {feederChunk})
  BY <1>3 DEF OneEach, InLine, Before
<1> QED
  BY <1>1, <1>2, <1>6, <1>7, <1>9, <1>10 DEF OneEach, c

\* A chunk that could not be handed over is kept as lastInputChunk.
LEMMA FeederAbortMoves ==
    ASSUME IInv, IInv', OneEach, FeederAbort
    PROVE  OneEach' /\ InAgent' = InAgent
<1>1. /\ UNCHANGED <<accepting, inputChannel, outputChannel, held, leaving>>
      /\ feederPC = "push" /\ lastInputChunk = NoChunk /\ feederChunk # NoChunk
      /\ feederPC' = "close" /\ feederChunk' = NoChunk /\ lastInputChunk' = feederChunk
  BY DEF FeederAbort, acceptVars, consumerVars, IInv, ChunkVariables, ShutdownOrder
<1>2. /\ AtConsumer' = AtConsumer /\ InOutput' = InOutput /\ AtAccept' = AtAccept
      /\ InInput' = InInput /\ InSaving = {} /\ InSaving' = {} /\ AtFeeder' = AtFeeder
  BY <1>1 DEF AtConsumer, InOutput, AtFeeder, InInput, AtAccept, InSaving
<1>3. InLine'
  BY <1>1, <1>2 DEF OneEach, InLine
<1>4. SavedApart'
  BY <1>2 DEF SavedApart
<1>5. InAgent' = InAgent
  BY <1>2, PlacesAreAgent, PlacesAreAgentNext DEF AllPlaces, AgentFilled
<1> QED
  BY <1>3, <1>4, <1>5 DEF OneEach

\* saveEverything takes a chunk from one of the three places where it may be; it is written,
\* or gone: put away with the file it has, or dropped.
LEMMA FeederSaveMoves ==
    ASSUME IInv, IInv', OneEach, FeederSave
    PROVE  /\ OneEach'
           /\ \E c \in InAgent :
                 /\ c \in Chunk /\ BeginUnload(c)
                 /\ \/ feederPC' = "write" /\ feederChunk' = c /\ InAgent' = InAgent
                    \/ UNCHANGED <<feederPC, feederChunk>> /\ InAgent' = InAgent \ {c}
           /\ \/ UNCHANGED outputChannel
              \/ outputChannel # <<>> /\ outputChannel' = Tail(outputChannel)
<1>1. PICK c \in Chunk : SaveNext(c) /\ BeginUnload(c)
  BY DEF FeederSave
<1>2. /\ UNCHANGED <<accepting, held, leaving>>
      /\ feederPC = "save" /\ feederChunk = NoChunk /\ accepting = NoChunk
      /\ \/ feederPC' = "write" /\ feederChunk' = c
         \/ UNCHANGED <<feederPC, feederChunk>>
      /\ c # NoChunk /\ c.id \in Int
  BY <1>1, NoChunkIsNoChunk, ChunkIDIsInt
  DEF FeederSave, BeginUnload, acceptVars, consumerVars, IInv, ChunkVariables, ShutdownOrder, InputChannelClosed
<1>3. /\ AtConsumer' = AtConsumer /\ AtAccept = {} /\ AtAccept' = {} /\ InSaving = {}
      /\ AtFeeder = {lastInputChunk} \ {NoChunk} /\ AtFeeder' = {lastInputChunk'} \ {NoChunk}
      /\ \/ feederPC' = "write" /\ feederChunk' = c /\ InSaving' = {c}
         \/ UNCHANGED <<feederPC, feederChunk>> /\ InSaving' = {}
  BY <1>2 DEF AtConsumer, AtFeeder, AtAccept, InSaving
<1>4. /\ AscendingIDs(inputChannel') /\ AscendingIDs(outputChannel')
      /\ \/ /\ InInput = {c} \cup InInput' /\ Before({c}, InInput')
            /\ AtFeeder' = AtFeeder /\ InOutput' = InOutput
         \/ /\ AtFeeder = {c} /\ AtFeeder' = {}
            /\ InInput' = InInput /\ InOutput' = InOutput
         \/ /\ InOutput = {c} \cup InOutput' /\ Before({c}, InOutput')
            /\ AtFeeder' = AtFeeder /\ InInput' = InInput
  <2>1. CASE inputChannel # <<>>
    <3>1. c = Head(inputChannel) /\ inputChannel' = Tail(inputChannel) /\ UNCHANGED <<lastInputChunk, outputChannel>>
      BY <1>1, <2>1 DEF SaveNext
    <3>2. /\ ToSet(inputChannel) = {c} \cup ToSet(Tail(inputChannel))
          /\ AscendingIDs(Tail(inputChannel))
          /\ Before({c}, ToSet(Tail(inputChannel)))
      BY <2>1, <3>1, PopFacts DEF IInv, TypeOK, OneEach, InLine
    <3> QED
      BY <1>3, <3>1, <3>2 DEF InInput, InOutput, OneEach, InLine
  <2>2. CASE inputChannel = <<>> /\ lastInputChunk # NoChunk
    <3>1. c = lastInputChunk /\ lastInputChunk' = NoChunk /\ UNCHANGED <<inputChannel, outputChannel>>
      BY <1>1, <2>2 DEF SaveNext
    <3> QED
      BY <1>2, <1>3, <3>1 DEF InInput, InOutput, OneEach, InLine
  <2>3. CASE inputChannel = <<>> /\ lastInputChunk = NoChunk
    <3>1. /\ outputChannel # <<>> /\ c = Head(outputChannel) /\ outputChannel' = Tail(outputChannel)
          /\ UNCHANGED <<inputChannel, lastInputChunk>>
      BY <1>1, <2>3 DEF SaveNext
    <3>2. /\ ToSet(outputChannel) = {c} \cup ToSet(Tail(outputChannel))
          /\ AscendingIDs(Tail(outputChannel))
          /\ Before({c}, ToSet(Tail(outputChannel)))
      BY <3>1, PopFacts DEF IInv, TypeOK, OneEach, InLine
    <3> QED
      BY <1>3, <3>1, <3>2 DEF InInput, InOutput, OneEach, InLine
  <2> QED
    BY <2>1, <2>2, <2>3
<1>5. InLine'
  BY <1>2, <1>3, <1>4 DEF OneEach, InLine, Before
<1>6. \A d \in AtConsumer' \cup InOutput' \cup AtFeeder' \cup InInput' : d.id # c.id
  BY <1>2, <1>3, <1>4 DEF OneEach, InLine, Before
<1>7. SavedApart'
  BY <1>3, <1>6 DEF SavedApart
<1>8. c \in InAgent /\ InAgent = {c} \cup (AtConsumer' \cup InOutput' \cup AtFeeder' \cup InInput')
  BY <1>3, <1>4, PlacesAreAgent DEF AllPlaces, AgentFilled
<1>9. InAgent' = (AtConsumer' \cup InOutput' \cup AtFeeder' \cup InInput') \cup InSaving'
  BY <1>3, PlacesAreAgentNext DEF AllPlaces, AgentFilled
<1>10. \/ feederPC' = "write" /\ feederChunk' = c /\ InAgent' = InAgent
       \/ UNCHANGED <<feederPC, feederChunk>> /\ InAgent' = InAgent \ {c}
  BY <1>3, <1>6, <1>8, <1>9
<1>11. \/ UNCHANGED outputChannel
       \/ outputChannel # <<>> /\ outputChannel' = Tail(outputChannel)
  BY <1>1 DEF SaveNext
<1> QED
  BY <1>1, <1>5, <1>7, <1>8, <1>10, <1>11 DEF OneEach

\* The chunk that saveEverything has written, or dropped, is gone.
LEMMA FeederSaveWriteMoves ==
    ASSUME IInv, IInv', OneEach, FeederSaveWrite
    PROVE  /\ OneEach' /\ feederChunk \in InAgent /\ feederChunk \in Chunk
           /\ InAgent' = InAgent \ {feederChunk}
<1>1. /\ UNCHANGED <<accepting, inputChannel, lastInputChunk, outputChannel, held, leaving>>
      /\ feederPC = "write" /\ feederPC' = "save" /\ feederChunk' = NoChunk
      /\ feederChunk \in Chunk /\ feederChunk # NoChunk
  BY NoChunkIsNoChunk DEF FeederSaveWrite, acceptVars, consumerVars, IInv, TypeOK, ChunkVariables
<1>2. /\ AtConsumer' = AtConsumer /\ InOutput' = InOutput /\ AtAccept' = AtAccept
      /\ InInput' = InInput /\ InSaving = {feederChunk} /\ InSaving' = {} /\ AtFeeder' = AtFeeder
  BY <1>1 DEF AtConsumer, InOutput, AtFeeder, InInput, AtAccept, InSaving
<1>3. InLine'
  BY <1>1, <1>2 DEF OneEach, InLine
<1>4. SavedApart'
  BY <1>2 DEF SavedApart
<1>5. \A d \in AtConsumer \cup InOutput \cup AtFeeder \cup InInput \cup AtAccept : d # feederChunk
  BY <1>2 DEF OneEach, SavedApart
<1>6. feederChunk \in InAgent /\ InAgent' = InAgent \ {feederChunk}
  BY <1>2, <1>5, PlacesAreAgent, PlacesAreAgentNext DEF AllPlaces, AgentFilled
<1> QED
  BY <1>1, <1>3, <1>4, <1>6 DEF OneEach

\* The consumer takes the oldest chunk of outputChannel.
LEMMA ConsumerReceiveMoves ==
    ASSUME IInv, IInv', OneEach, ConsumerReceive
    PROVE  OneEach' /\ InAgent' = InAgent
<1> DEFINE c == Head(outputChannel)
<1>1. /\ UNCHANGED <<accepting, inputChannel, feederPC, feederChunk, lastInputChunk, leaving>>
      /\ outputChannel # <<>> /\ outputChannel' = Tail(outputChannel)
      /\ held' = held \cup {c} /\ leaving = NoChunk
  BY DEF ConsumerReceive, acceptVars, feederVars, IInv, ShutdownOrder
<1>2. /\ c \in Chunk
      /\ ToSet(outputChannel) = {c} \cup ToSet(Tail(outputChannel))
      /\ AscendingIDs(Tail(outputChannel))
      /\ Before({c}, ToSet(Tail(outputChannel)))
  BY <1>1, PopFacts DEF IInv, TypeOK, OneEach, InLine
<1>3. c # NoChunk /\ c.id \in Int
  BY <1>2, NoChunkIsNoChunk, ChunkIDIsInt
<1> HIDE DEF c
<1>4. /\ AtAccept' = AtAccept /\ InSaving' = InSaving /\ AtFeeder' = AtFeeder /\ InInput' = InInput
      /\ InOutput = {c} \cup InOutput' /\ Before({c}, InOutput')
      /\ AtConsumer' = AtConsumer \cup {c}
      /\ held \cup {leaving} \subseteq AtConsumer \cup {NoChunk}
  BY <1>1, <1>2, <1>3 DEF AtConsumer, InOutput, AtFeeder, InInput, AtAccept, InSaving
<1>5. \A d \in AtConsumer : d.id # c.id
  BY <1>3, <1>4 DEF OneEach, InLine, Before
<1>6. leaving' \notin held'
  BY <1>1, <1>3 DEF OneEach, InLine
<1>7. InLine'
  BY <1>1, <1>2, <1>4, <1>5, <1>6 DEF OneEach, InLine, Before
<1>8. SavedApart'
  BY <1>4 DEF OneEach, SavedApart
<1>9. InAgent' = InAgent
  BY <1>4, PlacesAreAgent, PlacesAreAgentNext DEF AllPlaces, AgentFilled
<1> QED
  BY <1>7, <1>8, <1>9 DEF OneEach

\* What leaves the consumer leaves the agent.
LEMMA ConsumerRemoves ==
    ASSUME IInv, IInv', OneEach, NEW c \in AtConsumer, AtConsumer' = AtConsumer \ {c},
           leaving' \notin held',
           UNCHANGED <<accepting, inputChannel, feederPC, feederChunk, lastInputChunk, outputChannel>>
    PROVE  OneEach' /\ c \in InAgent /\ c \in Chunk /\ InAgent' = InAgent \ {c}
<1>1. /\ AtAccept' = AtAccept /\ InSaving' = InSaving /\ AtFeeder' = AtFeeder
      /\ InInput' = InInput /\ InOutput' = InOutput
  BY DEF InOutput, AtFeeder, InInput, AtAccept, InSaving
<1>2. c \in Chunk /\ c \in InAgent
  BY PlacesAreAgent DEF AllPlaces, AgentFilled
<1>3. InLine'
  BY <1>1 DEF OneEach, InLine, Before
<1>4. SavedApart'
  BY <1>1 DEF OneEach, SavedApart
<1>5. \A d \in InOutput \cup AtFeeder \cup InInput \cup AtAccept \cup InSaving : d # c
  <2>1. c.id \in Int
    BY <1>2, ChunkIDIsInt
  <2> QED
    BY <2>1 DEF OneEach, InLine, SavedApart, Before
<1>6. InAgent' = InAgent \ {c}
  BY <1>1, <1>5, PlacesAreAgent, PlacesAreAgentNext DEF AllPlaces, AgentFilled
<1> QED
  BY <1>2, <1>3, <1>4, <1>6 DEF OneEach

\* A consumed chunk is gone.
LEMMA OnChunkConsumedMoves ==
    ASSUME IInv, IInv', OneEach, NEW c \in held, OnChunkConsumed(c)
    PROVE  /\ OneEach' /\ c \in InAgent /\ c \in Chunk /\ InAgent' = InAgent \ {c}
           /\ c \in AtConsumer /\ AtConsumer' = AtConsumer \ {c}
<1>1. /\ UNCHANGED <<accepting, inputChannel, feederPC, feederChunk, lastInputChunk, outputChannel, leaving>>
      /\ held' = held \ {c} /\ leaving = NoChunk /\ c # NoChunk
  BY NoChunkIsNoChunk DEF OnChunkConsumed, acceptVars, feederVars, IInv, TypeOK, ShutdownOrder
<1>2. c \in AtConsumer /\ AtConsumer' = AtConsumer \ {c} /\ leaving' \notin held'
  BY <1>1 DEF AtConsumer, OneEach, InLine
<1> QED
  BY <1>1, <1>2, ConsumerRemoves

\* A chunk left over is gone, or about to be written.
LEMMA OnChunkLeftoverMoves ==
    ASSUME IInv, IInv', OneEach, NEW c \in held, OnChunkLeftover(c)
    PROVE  /\ OneEach' /\ c \in InAgent /\ c \in Chunk
           /\ \/ (c.saved \/ CannotUnload(c)) /\ CountLeftover(c, c.saved) /\ InAgent' = InAgent \ {c} /\ UNCHANGED leaving
                 /\ AtConsumer' = AtConsumer \ {c}
              \/ leaving' = c /\ ~c.saved /\ ~CannotUnload(c) /\ InAgent' = InAgent /\ AtConsumer' = AtConsumer
                 /\ UNCHANGED <<pendingChunks, leftover, lost>>
<1>1. /\ UNCHANGED <<accepting, inputChannel, feederPC, feederChunk, lastInputChunk, outputChannel>>
      /\ held' = held \ {c} /\ leaving = NoChunk /\ c # NoChunk /\ c \in Chunk
  BY NoChunkIsNoChunk DEF OnChunkLeftover, acceptVars, feederVars, IInv, TypeOK
<1>2. c \in AtConsumer /\ c \in InAgent
  BY <1>1 DEF AtConsumer, InAgent
<1>3. CASE leaving' = NoChunk
  <2>1. AtConsumer' = AtConsumer \ {c} /\ leaving' \notin held' /\ UNCHANGED leaving
    BY <1>1, <1>3 DEF AtConsumer, OneEach, InLine
  <2>2. (c.saved \/ CannotUnload(c)) /\ CountLeftover(c, c.saved)
    BY <1>1, <1>3 DEF OnChunkLeftover
  <2> QED
    BY <1>1, <1>2, <2>1, <2>2, ConsumerRemoves
<1>4. CASE leaving' # NoChunk
  <2>1. leaving' = c /\ ~c.saved /\ ~CannotUnload(c) /\ UNCHANGED <<pendingChunks, leftover, lost>>
    BY <1>1, <1>4 DEF OnChunkLeftover
  <2>2. /\ AtConsumer' = AtConsumer /\ leaving' \notin held'
        /\ AtAccept' = AtAccept /\ InSaving' = InSaving /\ AtFeeder' = AtFeeder
        /\ InInput' = InInput /\ InOutput' = InOutput
    BY <1>1, <1>2, <2>1 DEF AtConsumer, InOutput, AtFeeder, InInput, AtAccept, InSaving
  <2>3. InLine'
    BY <1>1, <2>2 DEF OneEach, InLine
  <2>4. SavedApart'
    BY <2>2 DEF OneEach, SavedApart
  <2>5. InAgent' = InAgent
    BY <2>2, PlacesAreAgent, PlacesAreAgentNext DEF AllPlaces, AgentFilled
  <2> QED
    BY <1>1, <1>2, <2>1, <2>2, <2>3, <2>4, <2>5 DEF OneEach
<1> QED
  BY <1>3, <1>4

\* The chunk that OnChunkLeftover has written, or not, is gone.
LEMMA LeftoverWriteMoves ==
    ASSUME IInv, IInv', OneEach, LeftoverWrite
    PROVE  /\ OneEach' /\ leaving \in InAgent /\ leaving \in Chunk /\ InAgent' = InAgent \ {leaving}
           /\ leaving \in AtConsumer /\ AtConsumer' = AtConsumer \ {leaving}
<1>1. /\ UNCHANGED <<accepting, inputChannel, feederPC, feederChunk, lastInputChunk, outputChannel, held>>
      /\ leaving # NoChunk /\ leaving' = NoChunk
  BY DEF LeftoverWrite, acceptVars, feederVars
<1>2. leaving \in AtConsumer /\ AtConsumer' = AtConsumer \ {leaving}
  BY <1>1 DEF AtConsumer, OneEach, InLine
<1>3. leaving' \notin held'
  BY <1>1, NoChunkIsNoChunk DEF IInv, TypeOK
<1> QED
  BY <1>1, <1>2, <1>3, ConsumerRemoves

\* When the process ends nothing is left in memory.
LEMMA MemoryGoneMoves == MemoryGone => OneEach' /\ InAgent' = {}
<1> SUFFICES ASSUME MemoryGone PROVE OneEach' /\ InAgent' = {}
  OBVIOUS
<1>1. /\ accepting' = NoChunk /\ inputChannel' = <<>> /\ outputChannel' = <<>>
      /\ feederPC' = "recv" /\ feederChunk' = NoChunk /\ lastInputChunk' = NoChunk
      /\ held' = {} /\ leaving' = NoChunk
  BY DEF MemoryGone
<1>2. /\ AtConsumer' = {} /\ InOutput' = {} /\ AtFeeder' = {} /\ InInput' = {} /\ AtAccept' = {}
      /\ InSaving' = {} /\ InAgent' = {}
  BY <1>1, EmptyFacts DEF AtConsumer, InOutput, AtFeeder, InInput, AtAccept, InSaving, InAgent
<1>3. InLine'
  BY <1>1, <1>2, EmptyFacts DEF InLine, Before
<1>4. SavedApart'
  BY <1>2 DEF SavedApart
<1> QED
  BY <1>2, <1>3, <1>4 DEF OneEach

\* What recoverExistingChunks queues is in order, and only IDs that were found.
LEMMA RecoveredInOrder ==
    ASSUME NEW ids \in SUBSET ChunkID, NEW list \in SortedList(ids)
    PROVE  /\ Recovered(list) \in Seq(ids) /\ Len(Recovered(list)) \in Nat
           /\ \A i, j \in 1..Len(Recovered(list)) : i < j => Recovered(list)[i] < Recovered(list)[j]
<1>1. Cardinality(ids) \in Nat
  BY ChunkIDsAreFinite
<1>2. /\ list \in Seq(ids) /\ Len(list) = Cardinality(ids)
      /\ \A i, j \in 1..Len(list) : i < j => list[i] < list[j]
  BY <1>1 DEF SortedList
<1> DEFINE n == IF Len(list) < QueueCap THEN Len(list) ELSE QueueCap
<1>3. n \in 0..Len(list) /\ Recovered(list) = SubSeq(list, 1, n)
  BY <1>1, <1>2, BoundsAssumption DEF Recovered
<1> HIDE DEF n
<1>4. /\ Recovered(list) \in Seq(ids) /\ Len(Recovered(list)) = n
      /\ \A i \in 1..n : Recovered(list)[i] = list[i]
  BY <1>1, <1>2, <1>3
<1> QED
  BY <1>1, <1>2, <1>3, <1>4

\* A queue in order holds as many chunks as it is long.
LEMMA QueueCardinality ==
    ASSUME NEW q \in Seq(Chunk), AscendingIDs(q)
    PROVE  IsFiniteSet(ToSet(q)) /\ Cardinality(ToSet(q)) = Len(q)
<1> DEFINE f == [i \in 1..Len(q) |-> q[i]]
<1>1. f \in [1..Len(q) -> ToSet(q)] /\ Len(q) \in Nat
  BY DEF ToSet
<1>2. \A t \in ToSet(q) : \E i \in 1..Len(q) : f[i] = t
  BY DEF ToSet
<1>3. \A i, j \in 1..Len(q) : f[i] = f[j] => i = j
  <2>1. \A i \in 1..Len(q) : q[i].id \in Int
    BY ChunkIDIsInt
  <2> QED
    BY <1>1, <2>1 DEF AscendingIDs
<1>4. f \in Surjection(1..Len(q), ToSet(q))
  BY <1>1, <1>2, Fun_IsSurj
<1>5. f \in Injection(1..Len(q), ToSet(q))
  BY <1>1, <1>3, Fun_IsInj
<1>6. IsFiniteSet(1..Len(q)) /\ Cardinality(1..Len(q)) = Len(q)
  <2>1. /\ IsFiniteSet(1..Len(q))
        /\ Cardinality(1..Len(q)) = IF 1 > Len(q) THEN 0 ELSE Len(q) - 1 + 1
    BY <1>1, FS_Interval
  <2> QED
    BY <1>1, <2>1
<1> QED
  BY <1>4, <1>5, <1>6, FS_Surjection

\* A process that starts has the recovered chunks, all of them with a file, in order.
LEMMA StartMoves ==
    ASSUME IInv, IInv', Start
    PROVE  /\ OneEach' /\ InAgent = {} /\ InAgent' = ToSet(inputChannel')
           /\ \A c \in InAgent' : c.saved /\ c.id \in ChunkID /\ disk[c.id] # "none" /\ hasDir'
           /\ \A i \in 1..Len(inputChannel') : inputChannel'[i].saved
           /\ Cardinality(InAgent') = Len(inputChannel')
           /\ pendingChunks' = Len(inputChannel') /\ persistentChunks' = Len(inputChannel')
           /\ queuedTransient' = 0 /\ queuedPersistent' = Len(inputChannel')
<1>1. /\ accepting = NoChunk /\ feederChunk = NoChunk /\ lastInputChunk = NoChunk
      /\ inputChannel = <<>> /\ outputChannel = <<>> /\ held = {} /\ leaving = NoChunk
      /\ UNCHANGED <<accepting, feederChunk, lastInputChunk, outputChannel, held, leaving>>
      /\ feederPC' = "recv"
  BY DEF Start, acceptVars, IInv, ChunkVariables, ShutdownOrder
<1>2. /\ AtConsumer' = {} /\ InOutput' = {} /\ AtFeeder' = {} /\ AtAccept' = {} /\ InSaving' = {}
      /\ InAgent = {}
  BY <1>1, EmptyFacts DEF AtConsumer, InOutput, AtFeeder, AtAccept, InSaving, InAgent
<1>3. PICK found \in {ScanResult(hasDir')} \cup {{}} :
          \E list \in SortedList(found) : RecoverExistingChunks(Recovered(list))
  BY DEF Start
<1>4. found \in SUBSET ChunkID /\ \A i \in found : disk[i] # "none" /\ hasDir'
  BY <1>3 DEF ScanResult
<1>5. PICK list \in SortedList(found) : RecoverExistingChunks(Recovered(list))
  BY <1>3
<1> DEFINE q == Recovered(list)
<1>6. /\ q \in Seq(found) /\ Len(q) \in Nat
      /\ \A i, j \in 1..Len(q) : i < j => q[i] < q[j]
  BY <1>4, RecoveredInOrder
<1>7. /\ inputChannel' = [k \in 1..Len(q) |-> FileChunk(q[k])]
      /\ pendingChunks' = Len(q) /\ persistentChunks' = Len(q)
      /\ queuedTransient' = 0 /\ queuedPersistent' = Len(q)
  BY <1>5 DEF RecoverExistingChunks
<1> HIDE DEF q
<1>8. /\ Len(inputChannel') = Len(q) /\ DOMAIN inputChannel' = 1..Len(q)
      /\ \A k \in 1..Len(q) : /\ inputChannel'[k].id = q[k] /\ inputChannel'[k].saved
                              /\ q[k] \in found
  BY <1>6, <1>7 DEF FileChunk
<1>9. AscendingIDs(inputChannel')
  BY <1>6, <1>8 DEF AscendingIDs
<1>10. inputChannel' \in Seq(Chunk)
  BY DEF IInv, TypeOK
<1>11. InInput' = ToSet(inputChannel') /\ InAgent' = ToSet(inputChannel')
  BY <1>2, PlacesAreAgentNext DEF AllPlaces, AgentFilled, InInput
<1>12. InLine'
  BY <1>1, <1>2, <1>9, EmptyFacts DEF InLine, Before
<1>13. SavedApart'
  BY <1>2 DEF SavedApart
<1>14. \A c \in InAgent' : c.saved /\ c.id \in ChunkID /\ disk[c.id] # "none" /\ hasDir'
  BY <1>4, <1>8, <1>11 DEF ToSet
<1>15. Cardinality(InAgent') = Len(inputChannel')
  BY <1>9, <1>10, <1>11, QueueCardinality
<1> QED
  BY <1>2, <1>7, <1>8, <1>11, <1>12, <1>13, <1>14, <1>15 DEF OneEach

-----------------------------------------------------------------------------
(* Chunks stay in line, and each ID is used once *)

\* Nothing that the books are kept about changes.
SameBooks ==
    UNCHANGED <<nextID, hasDir, disk, pendingChunks, diskGauges, consumed, dropped, lost, leftover,
                shelved, kept, uncountedBytes>>

\* Steps by which no chunk enters the agent, leaves it or changes.
QuietStep ==
    \/ DestroyBegin \/ WaitPendingChunks \/ DestroyClose \/ DestroySignal \/ DestroyEnd
    \/ FeederReceive \/ FeederInputEnded \/ FeederAbort
    \/ FeederCloseOutput \/ FeederSignalOutput \/ FeederStop
    \/ ConsumerReceive \/ ConsumerLeave \/ ConsumerFinish
    \/ UNCHANGED vars

\* The bookkeeping is not touched by them.
LEMMA QuietSteps ==
    ASSUME IInv, IInv', OneEach, QuietStep
    PROVE  OneEach' /\ InAgent' = InAgent /\ SameBooks
<1>1. SameBooks
  BY DEF QuietStep, SameBooks, acceptVars, runHistory, feederStepUnchanged, destroyUnchanged, vars,
         DestroyBegin, WaitPendingChunks, DestroyClose, DestroySignal, DestroyEnd,
         FeederReceive, FeederInputEnded, FeederAbort, FeederCloseOutput, FeederSignalOutput,
         FeederStop, ConsumerReceive, ConsumerLeave, ConsumerFinish
<1>2. CASE FeederReceive \/ FeederAbort \/ ConsumerReceive
  BY <1>1, <1>2, FeederReceiveMoves, FeederAbortMoves, ConsumerReceiveMoves
<1>3. CASE ~(FeederReceive \/ FeederAbort \/ ConsumerReceive)
  <2>1. QuietPlaces
    BY <1>3
    DEF QuietStep, QuietPlaces, acceptVars, feederVars, consumerVars, feederStepUnchanged,
        destroyUnchanged, vars,
        DestroyBegin, WaitPendingChunks, DestroyClose, DestroySignal, DestroyEnd,
        FeederInputEnded, FeederCloseOutput, FeederSignalOutput,
        FeederStop, ConsumerLeave, ConsumerFinish
  <2> QED
    BY <1>1, <2>1, QuietMoves
<1> QED
  BY <1>2, <1>3

\* The steps that are left are the ones that matter to the books.
LEMMA StepKinds ==
    ASSUME [Next]_vars
    PROVE  \/ QuietStep \/ Start \/ AcceptBegin \/ AcceptWrite \/ AcceptSend
           \/ FeederLoad \/ FeederPush \/ FeederSave \/ FeederSaveWrite
           \/ (\E c \in held : OnChunkConsumed(c)) \/ (\E c \in held : OnChunkLeftover(c))
           \/ LeftoverWrite \/ Exit \/ Crash
  BY DEF Next, Pipeline, Destroy, Feeder, Consumer, Terminated, QuietStep

\* Whatever happens, chunks stay in the order of their IDs.
LEMMA OneEachStep == IInv /\ OneEach /\ UsedOnce /\ [Next]_vars => OneEach'
<1> SUFFICES ASSUME IInv, OneEach, UsedOnce, [Next]_vars PROVE OneEach'
  OBVIOUS
<1>1. IInv'
  BY StepInvariant
<1> QED
  BY <1>1, StepKinds, QuietSteps, StartMoves, AcceptBeginMoves, AcceptWriteMoves, AcceptSendMoves,
     FeederLoadMoves, FeederPushMoves, FeederSaveMoves, FeederSaveWriteMoves,
     OnChunkConsumedMoves, OnChunkLeftoverMoves, LeftoverWriteMoves, MemoryGoneMoves
  DEF Exit, Crash

\* Removing the one chunk with an ID removes the ID.
LEMMA RemoveID ==
    ASSUME IInv, OneEach, NEW c \in InAgent, InAgent' = InAgent \ {c}
    PROVE  c.id \in IDs(InAgent) /\ IDs(InAgent') = IDs(InAgent) \ {c.id}
  BY NoTwins DEF IDs

\* Replacing a chunk by one with the same ID does not change the set of IDs.
LEMMA ReplaceID ==
    ASSUME NEW c \in InAgent, NEW d, d.id = c.id, InAgent' = (InAgent \ {c}) \cup {d}
    PROVE  IDs(InAgent') = IDs(InAgent)
  BY DEF IDs

\* The IDs that have a file.
HasFile == {i \in ChunkID : disk[i] # "none"}

\* IDs remain used once when what is settled was in the agent, and what is new on disk too.
LEMMA UsedOnceRule ==
    ASSUME UsedOnce, nextID' = nextID, IDs(InAgent') \subseteq IDs(InAgent),
           Settled' \subseteq Settled \cup (IDs(InAgent) \ IDs(InAgent')),
           HasFile' \subseteq HasFile \cup IDs(InAgent)
    PROVE  UsedOnce'
  BY DEF UsedOnce, HasFile

\* A write concerns no other file than the chunk's own.
LEMMA WritesOneFile ==
    ASSUME TypeOK, NEW c \in Chunk, WriteChunkFile(c) \/ WriteChunkFileFails(c)
    PROVE  HasFile' \subseteq HasFile \cup {c.id}
<1>1. \E x : disk' = [disk EXCEPT ![c.id] = x]
  BY DEF WriteChunkFile, WriteChunkFileFails
<1> QED
  BY <1>1 DEF TypeOK, HasFile

\* Removing a file adds none.
LEMMA RemoveChunkFiles ==
    ASSUME TypeOK, NEW c, RemoveChunk(c)
    PROVE  /\ HasFile' \subseteq HasFile
           /\ undeleted' \subseteq undeleted \cup {c.id}
           /\ \A i \in ChunkID : i # c.id => disk'[i] = disk[i]
  BY DEF TypeOK, HasFile, RemoveChunk, kept

\* The ID of a new chunk is higher than any before, and an ID that was settled does not come back.
LEMMA UsedOnceStep == IInv /\ OneEach /\ UsedOnce /\ EndOfRun /\ [Next]_vars => UsedOnce'
<1> SUFFICES ASSUME IInv, OneEach, UsedOnce, EndOfRun, [Next]_vars PROVE UsedOnce'
  OBVIOUS
<1> USE DEF acceptVars, runHistory, kept
<1>0. IInv' /\ TypeOK
  BY StepInvariant DEF IInv
<1>1. CASE QuietStep
  <2>1. InAgent' = InAgent /\ SameBooks
    BY <1>0, <1>1, QuietSteps
  <2>2. Settled' = Settled
    BY <2>1 DEF SameBooks, Settled
  <2>3. UNCHANGED <<nextID, disk>>
    BY <2>1 DEF SameBooks
  <2> QED
    BY <2>1, <2>2, <2>3 DEF UsedOnce
<1>2. CASE Start
  <2>1. /\ \A c \in InAgent' : c.id \in ChunkID /\ disk[c.id] # "none"
        /\ UNCHANGED <<nextID, disk, shelved, undeleted, leftover>>
    BY <1>0, <1>2, StartMoves DEF Start
  <2>2. Settled' = {}
    BY <1>2, <2>1 DEF Start, EndOfRun, Settled
  <2>3. \A i \in IDs(InAgent') : i \in ChunkID /\ disk[i] # "none"
    BY <2>1 DEF IDs
  <2> QED
    BY <2>1, <2>2, <2>3 DEF UsedOnce
<1>3. CASE AcceptBegin
  <2>1. /\ nextID \in ChunkID /\ nextID \notin IDs(InAgent)
        /\ \/ InAgent' = InAgent \cup {NewChunk(nextID)}
           \/ InAgent' = InAgent
    BY <1>0, <1>3, AcceptBeginMoves
  <2>2. nextID' = nextID + 1 /\ UNCHANGED <<disk, shelved, undeleted, leftover>>
    BY <1>3 DEF AcceptBegin
  <2>3. Settled' = Settled
    BY <2>2 DEF Settled
  <2>4. IDs(InAgent') \subseteq IDs(InAgent) \cup {nextID}
    BY <2>1 DEF IDs, NewChunk
  <2>5. \A i \in IDs(InAgent) \cup Settled \cup {j \in ChunkID : disk[j] # "none"} : i \in Int /\ i < nextID
    <3>1. IDs(InAgent) \subseteq ChunkID
      BY <1>0, ChunksInAgent DEF IDs
    <3>2. Settled \subseteq ChunkID
      BY <1>0, ChunkIDIsInt DEF Settled, IDs, TypeOK
    <3>3. ChunkID \subseteq Int
      BY BoundsAssumption DEF ChunkID
    <3> QED
      BY <3>1, <3>2, <3>3 DEF UsedOnce
  <2>6. nextID \in Int
    BY <2>1, BoundsAssumption DEF ChunkID
  <2> QED
    BY <2>2, <2>3, <2>4, <2>5, <2>6 DEF UsedOnce
<1>4. CASE AcceptWrite
  <2>1. /\ accepting \in InAgent /\ Unloaded(accepting).id = accepting.id
        /\ \/ WriteChunkFile(accepting) /\ InAgent' = (InAgent \ {accepting}) \cup {Unloaded(accepting)}
           \/ WriteChunkFileFails(accepting) /\ InAgent' = InAgent \ {accepting}
    BY <1>0, <1>4, AcceptWriteMoves
  <2>2. /\ accepting \in Chunk /\ accepting.id \in IDs(InAgent)
        /\ IDs(InAgent') \subseteq IDs(InAgent)
    BY <1>0, <2>1, ChunksInAgent DEF IDs
  <2>3. nextID' = nextID /\ UNCHANGED <<shelved, undeleted, leftover>>
    BY <1>4 DEF AcceptWrite
  <2>4. HasFile' \subseteq HasFile \cup IDs(InAgent)
    BY <1>0, <2>1, <2>2, WritesOneFile
  <2>5. Settled' = Settled
    BY <2>3 DEF Settled
  <2> QED
    BY <2>2, <2>3, <2>4, <2>5, UsedOnceRule
<1>5. CASE AcceptSend \/ FeederPush
  <2>1. IDs(InAgent') \subseteq IDs(InAgent)
    BY <1>0, <1>5, AcceptSendMoves, FeederPushMoves DEF IDs
  <2>2. nextID' = nextID /\ UNCHANGED <<disk, shelved, undeleted, leftover>>
    BY <1>5 DEF AcceptSend, FeederPush
  <2>3. HasFile' = HasFile /\ Settled' = Settled
    BY <2>2 DEF HasFile, Settled
  <2> QED
    BY <2>1, <2>2, <2>3, UsedOnceRule
<1>6. CASE FeederLoad
  <2>1. PICK d \in LoadResults(feederChunk) :
           /\ AfterLoad(d)
           /\ \/ d \in {"none", "empty"} /\ InAgent' = InAgent \ {feederChunk}
              \/ d \in {"part", "full"} /\ InAgent' = InAgent
    BY <1>0, <1>6, FeederLoadMoves
  <2>2. feederChunk \in InAgent /\ feederChunk \in Chunk
    BY <1>0, <1>6, FeederLoadMoves
  <2>3. /\ nextID' = nextID /\ UNCHANGED <<shelved, leftover>>
        /\ HasFile' \subseteq HasFile
        /\ undeleted' \subseteq IF d = "empty" THEN undeleted \cup {feederChunk.id} ELSE undeleted
    <3>1. WithData(feederChunk, d).id = feederChunk.id
      BY <2>2 DEF WithData, Chunk
    <3>2. nextID' = nextID /\ UNCHANGED <<shelved, leftover>>
      BY <1>6 DEF FeederLoad
    <3>3. CASE d = "empty"
      <4>1. RemoveChunk(WithData(feederChunk, d))
        BY <2>1, <3>3 DEF AfterLoad
      <4> QED
        BY <1>0, <3>1, <3>2, <3>3, <4>1, RemoveChunkFiles
    <3>4. CASE d # "empty"
      BY <2>1, <3>2, <3>4 DEF AfterLoad, HasFile
    <3> QED
      BY <3>3, <3>4
  <2>4. /\ IDs(InAgent') \subseteq IDs(InAgent)
        /\ d = "empty" => feederChunk.id \in IDs(InAgent) \ IDs(InAgent')
    <3>1. CASE InAgent' = InAgent \ {feederChunk}
      BY <2>2, <3>1, RemoveID
    <3>2. CASE d \in {"part", "full"} /\ InAgent' = InAgent
      BY <3>2
    <3> QED
      BY <2>1, <3>1, <3>2
  <2>5. Settled' \subseteq Settled \cup (IDs(InAgent) \ IDs(InAgent'))
    BY <2>3, <2>4 DEF Settled
  <2> QED
    BY <2>3, <2>4, <2>5, UsedOnceRule
<1>7. CASE FeederSave
  <2>1. PICK c \in InAgent :
           /\ c \in Chunk /\ BeginUnload(c)
           /\ \/ feederPC' = "write" /\ feederChunk' = c /\ InAgent' = InAgent
              \/ UNCHANGED <<feederPC, feederChunk>> /\ InAgent' = InAgent \ {c}
    BY <1>0, <1>7, FeederSaveMoves
  <2>2. nextID' = nextID /\ UNCHANGED <<disk, undeleted, leftover>> /\ feederPC = "save"
    BY <1>7 DEF FeederSave
  <2>3. HasFile' = HasFile
    BY <2>2 DEF HasFile
  <2>4. CASE feederPC' = "write" /\ InAgent' = InAgent
    <3>1. UNCHANGED shelved
      BY <2>1, <2>2, <2>4 DEF BeginUnload
    <3>2. Settled' = Settled
      BY <2>2, <3>1 DEF Settled
    <3> QED
      BY <2>2, <2>3, <2>4, <3>2, UsedOnceRule
  <2>5. CASE InAgent' = InAgent \ {c}
    <3>1. c.id \in IDs(InAgent) /\ IDs(InAgent') = IDs(InAgent) \ {c.id}
      BY <2>5, RemoveID
    <3>2. shelved' \subseteq shelved \cup {c.id}
      BY <2>1 DEF BeginUnload
    <3>3. Settled' \subseteq Settled \cup {c.id}
      BY <2>2, <3>2 DEF Settled
    <3> QED
      BY <2>2, <2>3, <3>1, <3>3, UsedOnceRule
  <2> QED
    BY <2>1, <2>4, <2>5
<1>8. CASE FeederSaveWrite
  <2>1. feederChunk \in InAgent /\ feederChunk \in Chunk /\ InAgent' = InAgent \ {feederChunk}
    BY <1>0, <1>8, FeederSaveWriteMoves
  <2>2. feederChunk.id \in IDs(InAgent) /\ IDs(InAgent') = IDs(InAgent) \ {feederChunk.id}
    BY <2>1, RemoveID
  <2>3. /\ nextID' = nextID /\ UNCHANGED <<undeleted, leftover>>
        /\ shelved' \subseteq shelved \cup {feederChunk.id}
        /\ HasFile' \subseteq HasFile \cup {feederChunk.id}
    BY <1>0, <1>8, <2>1, WritesOneFile DEF FeederSaveWrite
  <2>4. Settled' \subseteq Settled \cup {feederChunk.id}
    BY <2>3 DEF Settled
  <2> QED
    BY <2>2, <2>3, <2>4, UsedOnceRule
<1>9. ASSUME NEW c \in held, OnChunkConsumed(c) PROVE UsedOnce'
  <2>1. c \in InAgent /\ c \in Chunk /\ InAgent' = InAgent \ {c}
    BY <1>0, <1>9, OnChunkConsumedMoves
  <2>2. c.id \in IDs(InAgent) /\ IDs(InAgent') = IDs(InAgent) \ {c.id}
    BY <2>1, RemoveID
  <2>3. /\ nextID' = nextID /\ UNCHANGED <<shelved, leftover>>
        /\ undeleted' \subseteq undeleted \cup {c.id}
        /\ HasFile' \subseteq HasFile
    BY <1>0, <1>9, RemoveChunkFiles DEF OnChunkConsumed
  <2>4. Settled' \subseteq Settled \cup {c.id}
    BY <2>3 DEF Settled
  <2> QED
    BY <2>2, <2>3, <2>4, UsedOnceRule
<1>10. ASSUME NEW c \in held, OnChunkLeftover(c) PROVE UsedOnce'
  <2>1. /\ c \in InAgent /\ c \in Chunk
        /\ \/ CountLeftover(c, c.saved) /\ InAgent' = InAgent \ {c}
           \/ InAgent' = InAgent /\ UNCHANGED <<pendingChunks, leftover, lost>>
    BY <1>0, <1>10, OnChunkLeftoverMoves
  <2>2. nextID' = nextID /\ UNCHANGED <<disk, shelved, undeleted>>
    BY <1>10 DEF OnChunkLeftover
  <2>3. HasFile' = HasFile
    BY <2>2 DEF HasFile
  <2>4. CASE CountLeftover(c, c.saved) /\ InAgent' = InAgent \ {c}
    <3>1. c.id \in IDs(InAgent) /\ IDs(InAgent') = IDs(InAgent) \ {c.id}
      BY <2>1, <2>4, RemoveID
    <3>2. Settled' \subseteq Settled \cup {c.id}
      BY <2>1, <2>2, <2>4 DEF Settled, CountLeftover, IDs, Chunk
    <3> QED
      BY <2>2, <2>3, <3>1, <3>2, UsedOnceRule
  <2>5. CASE InAgent' = InAgent /\ UNCHANGED leftover
    <3>1. Settled' = Settled
      BY <2>2, <2>5 DEF Settled
    <3> QED
      BY <2>2, <2>3, <2>5, <3>1, UsedOnceRule
  <2> QED
    BY <2>1, <2>4, <2>5
<1>11. CASE LeftoverWrite
  <2>1. leaving \in InAgent /\ leaving \in Chunk /\ InAgent' = InAgent \ {leaving}
    BY <1>0, <1>11, LeftoverWriteMoves
  <2>2. leaving.id \in IDs(InAgent) /\ IDs(InAgent') = IDs(InAgent) \ {leaving.id}
    BY <2>1, RemoveID
  <2>3. /\ nextID' = nextID /\ UNCHANGED <<shelved, undeleted>>
        /\ HasFile' \subseteq HasFile \cup {leaving.id}
        /\ CountLeftover(leaving, TRUE) \/ CountLeftover(leaving, FALSE)
    BY <1>0, <1>11, <2>1, WritesOneFile DEF LeftoverWrite
  <2>4. Settled' \subseteq Settled \cup {leaving.id}
    BY <2>1, <2>3 DEF Settled, CountLeftover, IDs, Chunk
  <2> QED
    BY <2>2, <2>3, <2>4, UsedOnceRule
<1>12. CASE Exit
  <2>1. InAgent' = {} /\ Settled' = {} /\ UNCHANGED <<nextID, disk>>
    BY <1>12, MemoryGoneMoves DEF Exit, MemoryGone, Settled, IDs
  <2> QED
    BY <2>1 DEF UsedOnce, IDs
<1>13. CASE Crash
  <2>1. InAgent' = {} /\ Settled' = {} /\ nextID' = nextID
    BY <1>13, MemoryGoneMoves DEF Crash, MemoryGone, Settled, IDs
  <2>2. PICK written \in [{c.id : c \in InWrite} -> File] :
           disk' = [i \in ChunkID |->
                     IF i \in DOMAIN written /\ written[i] # "none" THEN written[i] ELSE disk[i]]
    BY <1>13 DEF Crash
  <2>3. \A i \in ChunkID : disk'[i] # "none" => disk[i] # "none" \/ i \in {c.id : c \in InWrite}
    BY <2>2
  <2>4. InWrite \subseteq InAgent
    BY DEF InWrite, InAgent
  <2>5. HasFile' \subseteq HasFile \cup IDs(InAgent)
    BY <2>3, <2>4 DEF HasFile, IDs
  <2> QED
    BY <2>1, <2>5, UsedOnceRule DEF IDs
<1> QED
  BY <1>1, <1>2, <1>3, <1>4, <1>5, <1>6, <1>7, <1>8, <1>9, <1>10, <1>11, <1>12, <1>13, StepKinds

\* Only a bufferer with a directory has chunks with files, and what it writes has none yet.
LEMMA FilesNeedDirStep == IInv /\ OneEach /\ UsedOnce /\ FilesNeedDir /\ [Next]_vars => FilesNeedDir'
<1> SUFFICES ASSUME IInv, OneEach, UsedOnce, FilesNeedDir, [Next]_vars PROVE FilesNeedDir'
  OBVIOUS
<1> USE DEF acceptVars, feederVars, consumerVars
<1>0. IInv'
  BY StepInvariant
<1>1. CASE QuietStep
  <2>1. InAgent' = InAgent /\ hasDir' = hasDir
    BY <1>0, <1>1, QuietSteps DEF SameBooks
  <2>2. UNCHANGED <<acceptPC, accepting, leaving>>
    BY <1>1
    DEF QuietStep, feederStepUnchanged, destroyUnchanged, vars,
        DestroyBegin, WaitPendingChunks, DestroyClose, DestroySignal, DestroyEnd,
        FeederReceive, FeederInputEnded, FeederAbort, FeederCloseOutput, FeederSignalOutput,
        FeederStop, ConsumerReceive, ConsumerLeave, ConsumerFinish
  <2>3. feederPC' = "write" => feederPC = "write" /\ UNCHANGED feederChunk
    BY <1>1
    DEF QuietStep, feederStepUnchanged, destroyUnchanged, vars,
        DestroyBegin, WaitPendingChunks, DestroyClose, DestroySignal, DestroyEnd,
        FeederReceive, FeederInputEnded, FeederAbort, FeederCloseOutput, FeederSignalOutput,
        FeederStop, ConsumerReceive, ConsumerLeave, ConsumerFinish
  <2> QED
    BY <2>1, <2>2, <2>3 DEF FilesNeedDir
<1>2. CASE Start
  <2>1. \A c \in InAgent' : c.saved => hasDir'
    BY <1>0, <1>2, StartMoves
  <2>2. acceptPC' # "write" /\ feederPC' # "write" /\ leaving' = NoChunk
    BY <1>2 DEF Start, IInv, ChunkVariables, ShutdownOrder
  <2> QED
    BY <2>1, <2>2 DEF FilesNeedDir
<1>3. CASE AcceptBegin
  <2>1. InAgent' = InAgent \cup {NewChunk(nextID)} \/ InAgent' = InAgent
    BY <1>0, <1>3, AcceptBeginMoves
  <2>2. ~NewChunk(nextID).saved
    BY DEF NewChunk
  <2>3. /\ UNCHANGED <<hasDir, feederPC, feederChunk, leaving>>
        /\ acceptPC' = "write" => accepting' = NewChunk(nextID) /\ hasDir
    BY <1>3 DEF AcceptBegin, CannotUnload, IInv, ChunkVariables
  <2> QED
    BY <2>1, <2>2, <2>3 DEF FilesNeedDir
<1>4. CASE AcceptWrite
  <2>1. /\ InAgent' \subseteq InAgent \cup {Unloaded(accepting)}
        /\ acceptPC = "write" /\ acceptPC' # "write"
        /\ UNCHANGED <<hasDir, feederPC, feederChunk, leaving>>
    BY <1>0, <1>4, AcceptWriteMoves DEF AcceptWrite
  <2> QED
    BY <2>1 DEF FilesNeedDir
<1>5. CASE AcceptSend
  <2>1. /\ InAgent' \subseteq InAgent /\ acceptPC' # "write"
        /\ UNCHANGED <<hasDir, feederPC, feederChunk, leaving>>
    BY <1>0, <1>5, AcceptSendMoves DEF AcceptSend
  <2> QED
    BY <2>1 DEF FilesNeedDir
<1>6. CASE FeederLoad
  <2>1. /\ InAgent' \subseteq InAgent /\ feederPC' # "write"
        /\ UNCHANGED <<hasDir, acceptPC, accepting, leaving>>
    BY <1>0, <1>6, FeederLoadMoves DEF FeederLoad, AfterLoad
  <2> QED
    BY <2>1 DEF FilesNeedDir
<1>7. CASE FeederPush
  <2>1. /\ InAgent' \subseteq InAgent \cup {WithData(feederChunk, loadedData)} /\ feederPC' # "write"
        /\ feederChunk \in InAgent /\ WithData(feederChunk, loadedData).saved = feederChunk.saved
        /\ UNCHANGED <<hasDir, acceptPC, accepting, leaving>>
    BY <1>0, <1>7, FeederPushMoves DEF FeederPush
  <2> QED
    BY <2>1 DEF FilesNeedDir
<1>8. CASE FeederSave
  <2>1. /\ UNCHANGED <<hasDir, acceptPC, accepting, leaving>> /\ feederPC = "save"
    BY <1>8 DEF FeederSave
  <2>2. /\ InAgent' \subseteq InAgent
        /\ feederPC' = "write" => hasDir /\ ~feederChunk'.saved
    BY <1>0, <1>8, <2>1, FeederSaveMoves DEF BeginUnload, CannotUnload
  <2> QED
    BY <2>1, <2>2 DEF FilesNeedDir
<1>9. CASE FeederSaveWrite
  <2>1. /\ InAgent' \subseteq InAgent /\ feederPC' # "write"
        /\ UNCHANGED <<hasDir, acceptPC, accepting, leaving>>
    BY <1>0, <1>9, FeederSaveWriteMoves DEF FeederSaveWrite
  <2> QED
    BY <2>1 DEF FilesNeedDir
<1>10. ASSUME NEW c \in held, OnChunkConsumed(c) PROVE FilesNeedDir'
  <2>1. /\ InAgent' \subseteq InAgent
        /\ UNCHANGED <<hasDir, acceptPC, accepting, feederPC, feederChunk, leaving>>
    BY <1>0, <1>10, OnChunkConsumedMoves DEF OnChunkConsumed
  <2> QED
    BY <2>1 DEF FilesNeedDir
<1>11. ASSUME NEW c \in held, OnChunkLeftover(c) PROVE FilesNeedDir'
  <2>1. /\ InAgent' \subseteq InAgent
        /\ UNCHANGED <<hasDir, acceptPC, accepting, feederPC, feederChunk>>
        /\ leaving' # leaving => leaving' = c /\ ~c.saved /\ hasDir
    BY <1>0, <1>11, OnChunkLeftoverMoves DEF OnChunkLeftover, CannotUnload
  <2> QED
    BY <2>1 DEF FilesNeedDir
<1>12. CASE LeftoverWrite
  <2>1. /\ InAgent' \subseteq InAgent /\ leaving' = NoChunk
        /\ UNCHANGED <<hasDir, acceptPC, accepting, feederPC, feederChunk>>
    BY <1>0, <1>12, LeftoverWriteMoves DEF LeftoverWrite
  <2> QED
    BY <2>1 DEF FilesNeedDir
<1>13. CASE Exit \/ Crash
  <2>1. InAgent' = {} /\ acceptPC' # "write" /\ feederPC' # "write" /\ leaving' = NoChunk
    BY <1>13, MemoryGoneMoves DEF Exit, Crash, MemoryGone
  <2> QED
    BY <2>1 DEF FilesNeedDir
<1> QED
  BY <1>1, <1>2, <1>3, <1>4, <1>5, <1>6, <1>7, <1>8, <1>9, <1>10, <1>11, <1>12, <1>13, StepKinds

\* outputChannel is open until the feeder ends, and nothing is put away before.
LEMMA EndOfRunStep == IInv /\ EndOfRun /\ [Next]_vars => EndOfRun'
<1> SUFFICES ASSUME IInv, EndOfRun, [Next]_vars PROVE EndOfRun'
  OBVIOUS
<1> USE DEF acceptVars, feederVars, consumerVars, runHistory, kept
<1>1. CASE Start \/ AcceptBegin \/ AcceptWrite \/ AcceptSend
  BY <1>1 DEF Start, AcceptBegin, AcceptWrite, AcceptSend, EndOfRun, Settled, IInv, ShutdownOrder
<1>2. CASE DestroyBegin \/ WaitPendingChunks \/ DestroyClose \/ DestroySignal \/ DestroyEnd
  BY <1>2
  DEF DestroyBegin, WaitPendingChunks, DestroyClose, DestroySignal, DestroyEnd, destroyUnchanged,
      EndOfRun, Settled, IInv, ShutdownOrder
<1>3. CASE FeederReceive \/ FeederInputEnded \/ FeederPush \/ FeederAbort
  BY <1>3
  DEF FeederReceive, FeederInputEnded, FeederPush, FeederAbort,
      EndOfRun, Settled, IInv, TypeOK, ShutdownOrder
<1>4. CASE FeederLoad
  <2>1. /\ feederPC' \in {"recv", "push"} /\ feederPC = "load"
        /\ UNCHANGED <<destroyPC, outputState, consumerPC, leftover, shelved>>
    BY <1>4 DEF FeederLoad, AfterLoad
  <2>2. destroyPC # "down"
    BY <2>1 DEF IInv, ShutdownOrder
  <2> QED
    BY <2>1, <2>2 DEF EndOfRun, IInv, TypeOK
<1>5. CASE FeederCloseOutput \/ FeederSignalOutput \/ FeederStop
  BY <1>5
  DEF FeederCloseOutput, FeederSignalOutput, FeederStop, feederStepUnchanged,
      EndOfRun, Settled, IInv, TypeOK, ShutdownOrder, InputChannelClosed
<1>6. CASE FeederSave \/ FeederSaveWrite
  <2>1. /\ feederPC \in {"save", "write"} /\ feederPC' \in {"save", "write"}
        /\ UNCHANGED <<destroyPC, outputState, consumerPC>>
    BY <1>6 DEF FeederSave, FeederSaveWrite, BeginUnload
  <2>2. destroyPC \notin {"down", "done"} /\ outputState = "signaled"
    BY <2>1 DEF IInv, ShutdownOrder, EndOfRun
  <2> QED
    BY <2>1, <2>2 DEF EndOfRun
<1>7. CASE ConsumerReceive \/ ConsumerLeave \/ ConsumerFinish
  BY <1>7 DEF ConsumerReceive, ConsumerLeave, ConsumerFinish, EndOfRun, Settled, IInv, TypeOK, ShutdownOrder
<1>8. ASSUME NEW c \in held, OnChunkConsumed(c) PROVE EndOfRun'
  BY <1>8 DEF OnChunkConsumed, EndOfRun, IInv, ShutdownOrder
<1>9. ASSUME NEW c \in held, OnChunkLeftover(c) PROVE EndOfRun'
  BY <1>9 DEF OnChunkLeftover, EndOfRun, IInv, ShutdownOrder
<1>10. CASE LeftoverWrite
  BY <1>10 DEF LeftoverWrite, EndOfRun, IInv, ShutdownOrder
<1>11. CASE Exit \/ Crash
  BY <1>11 DEF Exit, Crash, MemoryGone, EndOfRun, Settled, IDs
<1>12. CASE UNCHANGED vars
  BY <1>12 DEF vars, EndOfRun, Settled
<1> QED
  BY <1>1, <1>2, <1>3, <1>4, <1>5, <1>6, <1>7, <1>8, <1>9, <1>10, <1>11, <1>12
  DEF Next, Pipeline, Destroy, Feeder, Consumer, Terminated

\* What is known of the chunks, in every state of every run.
ChunkInv == OneEach /\ UsedOnce /\ FilesNeedDir /\ EndOfRun

\* A process that was never started has no chunks.
LEMMA ChunkInvInit == Init => ChunkInv
<1> SUFFICES ASSUME Init PROVE ChunkInv
  OBVIOUS
<1>1. /\ InAgent = {} /\ AtConsumer = {} /\ InOutput = {} /\ AtFeeder = {} /\ InInput = {} /\ AtAccept = {}
      /\ InSaving = {} /\ Settled = {}
  BY EmptyFacts DEF Init, AtConsumer, InOutput, AtFeeder, InInput, AtAccept, InSaving, InAgent, Settled, IDs
<1>2. InLine /\ SavedApart
  BY <1>1, EmptyFacts DEF Init, InLine, SavedApart, Before
<1>3. UsedOnce
  BY <1>1 DEF Init, UsedOnce, IDs
<1>4. FilesNeedDir /\ EndOfRun
  BY <1>1 DEF Init, FilesNeedDir, EndOfRun
<1> QED
  BY <1>2, <1>3, <1>4 DEF ChunkInv, OneEach

\* Both invariants hold in every state of every run.
LEMMA ChunkInvariance == Spec => [](IInv /\ ChunkInv)
<1>1. Init => IInv /\ ChunkInv
  BY InitInvariant, ChunkInvInit
<1>2. IInv /\ ChunkInv /\ [Next]_vars => (IInv /\ ChunkInv)'
  BY StepInvariant, OneEachStep, UsedOnceStep, FilesNeedDirStep, EndOfRunStep DEF ChunkInv
<1> QED
  BY <1>1, <1>2, PTL DEF Spec

-----------------------------------------------------------------------------
(* The order in which chunks reach the consumer *)

\* A sequence of numbers in ascending order, and sets of numbers one below the other.
Ascending(s) == \A i, j \in 1..Len(s) : i < j => s[i] < s[j]
Below(S, T)  == \A x \in S, y \in T : x < y

\* Joining two lists in order, the first below the second, gives a list in order.
LEMMA JoinFacts ==
    ASSUME NEW s \in Seq(Int), NEW t \in Seq(Int), Ascending(s), Ascending(t), Below(ToSet(s), ToSet(t))
    PROVE  /\ s \o t \in Seq(Int) /\ Ascending(s \o t)
           /\ ToSet(s \o t) = ToSet(s) \cup ToSet(t)
<1>1. /\ s \o t \in Seq(Int) /\ Len(s \o t) = Len(s) + Len(t)
      /\ Len(s) \in Nat /\ Len(t) \in Nat
      /\ \A i \in 1..(Len(s) + Len(t)) : (s \o t)[i] = IF i <= Len(s) THEN s[i] ELSE t[i - Len(s)]
  OBVIOUS
<1> DEFINE q == s \o t
<1>2. /\ DOMAIN s = 1..Len(s) /\ DOMAIN t = 1..Len(t) /\ DOMAIN q = 1..(Len(s) + Len(t))
  BY <1>1
<1>3. \A i \in 1..Len(s) : i \in 1..(Len(s) + Len(t)) /\ q[i] = s[i]
  BY <1>1
<1>4. \A j \in 1..Len(t) : Len(s) + j \in 1..(Len(s) + Len(t)) /\ q[Len(s) + j] = t[j]
  BY <1>1
<1>5. \A i \in 1..(Len(s) + Len(t)) : i \in 1..Len(s) \/ i - Len(s) \in 1..Len(t)
  BY <1>1
<1>6. \A i \in 1..(Len(s) + Len(t)) :
        \/ i \in 1..Len(s) /\ q[i] = s[i]
        \/ i - Len(s) \in 1..Len(t) /\ q[i] = t[i - Len(s)]
  BY <1>1
<1>7. \A i \in 1..Len(s), j \in 1..Len(t) : s[i] < t[j]
  BY <1>2 DEF Below, ToSet
<1> HIDE DEF q
<1>8. ToSet(q) = ToSet(s) \cup ToSet(t)
  <2>1. ToSet(q) \subseteq ToSet(s) \cup ToSet(t)
    BY <1>2, <1>6 DEF ToSet
  <2>2. ToSet(s) \subseteq ToSet(q)
    BY <1>2, <1>3 DEF ToSet
  <2>3. ToSet(t) \subseteq ToSet(q)
    BY <1>2, <1>4 DEF ToSet
  <2> QED
    BY <2>1, <2>2, <2>3
<1>9. Ascending(q)
  <2> SUFFICES ASSUME NEW i \in 1..(Len(s) + Len(t)), NEW j \in 1..(Len(s) + Len(t)), i < j
               PROVE  q[i] < q[j]
    BY <1>1 DEF Ascending, q
  <2>1. CASE i \in 1..Len(s) /\ j \in 1..Len(s)
    BY <1>3, <2>1 DEF Ascending
  <2>2. CASE i \in 1..Len(s) /\ j \notin 1..Len(s)
    BY <1>6, <1>7, <1>3, <2>2
  <2>3. CASE i \notin 1..Len(s)
    <3>0. j \notin 1..Len(s) /\ i - Len(s) < j - Len(s)
      BY <1>1, <2>3
    <3>1. /\ i - Len(s) \in 1..Len(t) /\ q[i] = t[i - Len(s)]
          /\ j - Len(s) \in 1..Len(t) /\ q[j] = t[j - Len(s)]
          /\ i - Len(s) < j - Len(s)
      BY <1>6, <2>3, <3>0
    <3> QED
      BY <3>1 DEF Ascending
  <2> QED
    BY <2>1, <2>2, <2>3
<1> QED
  BY <1>1, <1>8, <1>9 DEF q

\* The IDs of a queue in order, and the ID of a chunk that may be there.
LEMMA QueueIDs ==
    ASSUME NEW q \in Seq(Chunk), AscendingIDs(q)
    PROVE  LET s == [i \in 1..Len(q) |-> q[i].id]
           IN  s \in Seq(Int) /\ Ascending(s) /\ ToSet(s) = IDs(ToSet(q))
<1> DEFINE s == [i \in 1..Len(q) |-> q[i].id]
<1>1. \A i \in 1..Len(q) : q[i] \in Chunk /\ q[i].id \in Int
  BY ChunkIDIsInt
<1>2. s \in Seq(Int) /\ Len(s) = Len(q) /\ DOMAIN s = 1..Len(q) /\ DOMAIN q = 1..Len(q)
  BY <1>1
<1>3. Ascending(s)
  BY <1>2 DEF AscendingIDs, Ascending
<1>4. ToSet(s) = IDs(ToSet(q))
  BY <1>2 DEF ToSet, IDs
<1> QED
  BY <1>2, <1>3, <1>4

\* A list of one number, or of none.
LEMMA OneID ==
    ASSUME NEW b \in BOOLEAN, NEW c, b => c.id \in Int
    PROVE  LET s == IF b THEN <<c.id>> ELSE <<>>
           IN  s \in Seq(Int) /\ Ascending(s) /\ ToSet(s) = IF b THEN {c.id} ELSE {}
<1>1. CASE b
  <2>1. <<c.id>> \in Seq(Int) /\ Len(<<c.id>>) = 1 /\ <<c.id>>[1] = c.id /\ DOMAIN <<c.id>> = {1}
    BY <1>1
  <2>2. Ascending(<<c.id>>) /\ ToSet(<<c.id>>) = {c.id}
    BY <2>1 DEF Ascending, ToSet
  <2> QED
    BY <1>1, <2>1, <2>2
<1>2. CASE ~b
  <2>1. <<>> \in Seq(Int) /\ Ascending(<<>>) /\ ToSet(<<>>) = {}
    BY DEF Ascending, ToSet
  <2> QED
    BY <1>2, <2>1
<1> QED
  BY <1>1, <1>2

\* The chunks the consumer has not received, except the one being put away.
ToCome == InOutput \cup AtFeeder \cup InInput \cup AtAccept

\* Whatever is to come has a higher ID than what was received.
ReceivedInv ==
    /\ \A i \in IDs(ToCome) : lastReceived < i
    /\ lastReceived < nextID
    /\ destroyPC = "down" => lastReceived = 0

\* From outputChannel back to Accept, all IDs are in order, and above those received.
LEMMA QueuedInOrder ==
    ASSUME IInv, OneEach, ReceivedInv
    PROVE  /\ \A i, j \in 1..Len(QueuedIDs) : i < j => QueuedIDs[i] < QueuedIDs[j]
           /\ \A i \in 1..Len(QueuedIDs) : lastReceived < QueuedIDs[i]
           /\ \A c, d \in held : c.id = d.id => c = d
<1> DEFINE s1 == [i \in 1..Len(outputChannel) |-> outputChannel[i].id]
           s2 == IF feederChunk # NoChunk /\ feederPC # "write" THEN <<feederChunk.id>> ELSE <<>>
           s3 == IF lastInputChunk # NoChunk THEN <<lastInputChunk.id>> ELSE <<>>
           s4 == [i \in 1..Len(inputChannel) |-> inputChannel[i].id]
           s5 == IF accepting # NoChunk THEN <<accepting.id>> ELSE <<>>
<1>1. \A c \in AllPlaces : c \in Chunk /\ c.id \in Int
  BY PlacesAreAgent, ChunkIDIsInt DEF AgentFilled
<1>2. /\ s1 \in Seq(Int) /\ Ascending(s1) /\ ToSet(s1) = IDs(InOutput)
      /\ s4 \in Seq(Int) /\ Ascending(s4) /\ ToSet(s4) = IDs(InInput)
  BY QueueIDs DEF IInv, TypeOK, OneEach, InLine, InOutput, InInput
<1>3. s2 \in Seq(Int) /\ Ascending(s2) /\ ToSet(s2) \subseteq IDs(AtFeeder)
  <2> DEFINE b == feederChunk # NoChunk /\ feederPC # "write"
  <2>1. b => feederChunk \in AtFeeder
    BY DEF AtFeeder
  <2>2. b => feederChunk.id \in Int /\ feederChunk.id \in IDs(AtFeeder)
    BY <1>1, <2>1 DEF AllPlaces, IDs
  <2>3. b \in BOOLEAN
    OBVIOUS
  <2> HIDE DEF b
  <2>4. s2 = IF b THEN <<feederChunk.id>> ELSE <<>>
    BY DEF b
  <2> QED
    BY <2>2, <2>3, <2>4, OneID
<1>4. s3 \in Seq(Int) /\ Ascending(s3) /\ ToSet(s3) \subseteq IDs(AtFeeder)
  <2> DEFINE b == lastInputChunk # NoChunk
  <2>1. b => lastInputChunk \in AtFeeder
    BY DEF AtFeeder
  <2>2. b => lastInputChunk.id \in Int /\ lastInputChunk.id \in IDs(AtFeeder)
    BY <1>1, <2>1 DEF AllPlaces, IDs
  <2>3. b \in BOOLEAN
    OBVIOUS
  <2> HIDE DEF b
  <2>4. s3 = IF b THEN <<lastInputChunk.id>> ELSE <<>>
    BY DEF b
  <2> QED
    BY <2>2, <2>3, <2>4, OneID
<1>5. s5 \in Seq(Int) /\ Ascending(s5) /\ ToSet(s5) \subseteq IDs(AtAccept)
  <2> DEFINE b == accepting # NoChunk
  <2>1. b => accepting \in AtAccept
    BY DEF AtAccept
  <2>2. b => accepting.id \in Int /\ accepting.id \in IDs(AtAccept)
    BY <1>1, <2>1 DEF AllPlaces, IDs
  <2>3. b \in BOOLEAN
    OBVIOUS
  <2> HIDE DEF b
  <2>4. s5 = IF b THEN <<accepting.id>> ELSE <<>>
    BY DEF b
  <2> QED
    BY <2>2, <2>3, <2>4, OneID
<1>6. Below(ToSet(s2), ToSet(s3))
  <2>1. s2 = <<>> \/ s3 = <<>>
    BY DEF IInv, ChunkVariables, ShutdownOrder
  <2> QED
    BY <2>1, EmptyFacts DEF Below
<1>7. QueuedIDs = s1 \o s2 \o s3 \o s4 \o s5
  BY DEF QueuedIDs
<1>8. /\ Below(IDs(AtConsumer), IDs(InOutput) \cup IDs(AtFeeder) \cup IDs(InInput) \cup IDs(AtAccept))
      /\ Below(IDs(InOutput), IDs(AtFeeder) \cup IDs(InInput) \cup IDs(AtAccept))
      /\ Below(IDs(AtFeeder), IDs(InInput) \cup IDs(AtAccept))
      /\ Below(IDs(InInput), IDs(AtAccept))
  BY DEF OneEach, InLine, Before, Below, IDs
<1> HIDE DEF s1, s2, s3, s4, s5
<1>9. s1 \o s2 \in Seq(Int) /\ Ascending(s1 \o s2) /\ ToSet(s1 \o s2) = ToSet(s1) \cup ToSet(s2)
  <2>1. Below(ToSet(s1), ToSet(s2))
    BY <1>2, <1>3, <1>8 DEF Below
  <2> QED
    BY <1>2, <1>3, <2>1, JoinFacts
<1>10. /\ s1 \o s2 \o s3 \in Seq(Int) /\ Ascending(s1 \o s2 \o s3)
       /\ ToSet(s1 \o s2 \o s3) = ToSet(s1) \cup ToSet(s2) \cup ToSet(s3)
  <2>1. Below(ToSet(s1 \o s2), ToSet(s3))
    BY <1>2, <1>4, <1>6, <1>8, <1>9 DEF Below
  <2> QED
    BY <1>4, <1>9, <2>1, JoinFacts
<1>11. /\ s1 \o s2 \o s3 \o s4 \in Seq(Int) /\ Ascending(s1 \o s2 \o s3 \o s4)
       /\ ToSet(s1 \o s2 \o s3 \o s4) = ToSet(s1) \cup ToSet(s2) \cup ToSet(s3) \cup ToSet(s4)
  <2>1. Below(ToSet(s1 \o s2 \o s3), ToSet(s4))
    BY <1>2, <1>3, <1>4, <1>8, <1>10 DEF Below
  <2> QED
    BY <1>2, <1>10, <2>1, JoinFacts
<1>12. /\ QueuedIDs \in Seq(Int) /\ Ascending(QueuedIDs)
       /\ ToSet(QueuedIDs) = ToSet(s1) \cup ToSet(s2) \cup ToSet(s3) \cup ToSet(s4) \cup ToSet(s5)
  <2>1. Below(ToSet(s1 \o s2 \o s3 \o s4), ToSet(s5))
    BY <1>2, <1>3, <1>4, <1>5, <1>8, <1>11 DEF Below
  <2> QED
    BY <1>5, <1>7, <1>11, <2>1, JoinFacts
<1>13. ToSet(QueuedIDs) \subseteq IDs(ToCome)
  BY <1>2, <1>3, <1>4, <1>5, <1>12 DEF ToCome, IDs
<1>14. \A i \in 1..Len(QueuedIDs) : lastReceived < QueuedIDs[i]
  <2>1. \A i \in 1..Len(QueuedIDs) : QueuedIDs[i] \in ToSet(QueuedIDs)
    BY <1>12 DEF ToSet
  <2> QED
    BY <1>13, <2>1 DEF ReceivedInv
<1>15. held \subseteq AtConsumer
  BY NoChunkIsNoChunk DEF AtConsumer, IInv, TypeOK
<1>16. \A c, d \in held : c.id = d.id => c = d
  BY <1>15 DEF OneEach, InLine
<1> QED
  BY <1>12, <1>14, <1>16 DEF Ascending

\* What was to come, in a state where nothing has been received or skipped.
LEMMA ReceivedRule ==
    ASSUME ReceivedInv, UNCHANGED <<lastReceived, nextID>>, destroyPC' = "down" => destroyPC = "down",
           IDs(ToCome') \subseteq IDs(ToCome)
    PROVE  ReceivedInv'
  BY DEF ReceivedInv

\* The consumer receives the lowest ID of those to come, and an ID that comes later is higher.
LEMMA ReceivedStep == IInv /\ ChunkInv /\ ReceivedInv /\ [Next]_vars => ReceivedInv'
<1> SUFFICES ASSUME IInv, ChunkInv, ReceivedInv, [Next]_vars PROVE ReceivedInv'
  OBVIOUS
<1> USE DEF acceptVars, feederVars, consumerVars, runHistory
<1>0. /\ IInv' /\ OneEach /\ UsedOnce
      /\ inputChannel \in Seq(Chunk) /\ outputChannel \in Seq(Chunk)
      /\ AscendingIDs(inputChannel) /\ AscendingIDs(outputChannel)
  BY StepInvariant DEF ChunkInv, OneEach, InLine, IInv, TypeOK
<1>1. CASE Start
  <2>1. lastReceived' = 0 /\ nextID' = nextID /\ destroyPC' = "up" /\ lastReceived < nextID
    BY <1>1 DEF Start, ReceivedInv
  <2>2. \A c \in ToCome' : c.id \in ChunkID
    BY <1>0, PlacesAreAgentNext, ChunkIDIsInt DEF AgentFilled, AllPlaces, ToCome
  <2>3. \A i \in IDs(ToCome') : i \in ChunkID /\ 0 < i
    BY <2>2, BoundsAssumption DEF IDs, ChunkID
  <2>4. lastReceived' = lastReceived
    BY <1>1 DEF Start
  <2> QED
    BY <2>1, <2>3, <2>4 DEF ReceivedInv
<1>2. CASE AcceptBegin
  <2>1. /\ nextID \in ChunkID /\ nextID' = nextID + 1 /\ destroyPC' = "up" /\ lastReceived' = lastReceived
        /\ UNCHANGED <<inputChannel, feederPC, feederChunk, lastInputChunk, outputChannel>>
        /\ accepting' \in {accepting, NewChunk(nextID)} /\ NewChunk(nextID).id = nextID
    BY <1>2 DEF AcceptBegin, NewChunk
  <2>2. IDs(ToCome') \subseteq IDs(ToCome) \cup {nextID}
    BY <2>1 DEF ToCome, InOutput, AtFeeder, InInput, AtAccept, IDs
  <2>3. nextID \in Int /\ lastReceived \in Int
    BY <2>1, BoundsAssumption DEF ChunkID, IInv, TypeOK
  <2> QED
    BY <2>1, <2>2, <2>3 DEF ReceivedInv
<1>3. CASE AcceptWrite
  <2>1. /\ UNCHANGED <<inputChannel, feederPC, feederChunk, lastInputChunk, outputChannel, lastReceived, nextID, destroyPC>>
        /\ accepting' \in {Unloaded(accepting), NoChunk}
    BY <1>3 DEF AcceptWrite
  <2>2. accepting \in AtAccept /\ Unloaded(accepting).id = accepting.id
    BY <1>0, <1>3, AcceptWriteMoves DEF AcceptWrite, AtAccept, IInv, ChunkVariables
  <2>3. IDs(ToCome') \subseteq IDs(ToCome)
    BY <2>1, <2>2 DEF ToCome, InOutput, AtFeeder, InInput, AtAccept, IDs
  <2> QED
    BY <2>1, <2>3, ReceivedRule
<1>4. CASE AcceptSend
  <2>1. /\ UNCHANGED <<feederPC, feederChunk, lastInputChunk, outputChannel, lastReceived, nextID, destroyPC>>
        /\ accepting' = NoChunk /\ inputChannel' \in {inputChannel, Append(inputChannel, accepting)}
    BY <1>4 DEF AcceptSend
  <2>2. accepting \in AtAccept /\ accepting \in Chunk
    BY <1>4, NoChunkIsNoChunk DEF AcceptSend, AtAccept, IInv, ChunkVariables, TypeOK
  <2>3. Before(ToSet(inputChannel), {accepting})
    BY <2>2 DEF Before, InInput, OneEach, InLine, ChunkInv
  <2>4. InInput' \subseteq InInput \cup {accepting}
    BY <1>0, <2>1, <2>2, <2>3, PushFacts DEF InInput
  <2>5. IDs(ToCome') \subseteq IDs(ToCome)
    BY <2>1, <2>2, <2>4 DEF ToCome, InOutput, AtFeeder, AtAccept, IDs
  <2> QED
    BY <2>1, <2>5, ReceivedRule
<1>5. CASE FeederReceive
  <2>1. /\ UNCHANGED <<accepting, lastInputChunk, outputChannel, lastReceived, nextID, destroyPC>>
        /\ inputChannel # <<>> /\ inputChannel' = Tail(inputChannel)
        /\ feederChunk' = Head(inputChannel)
    BY <1>5 DEF FeederReceive
  <2>2. InInput = {feederChunk'} \cup InInput'
    BY <1>0, <2>1, PopFacts DEF InInput
  <2>3. IDs(ToCome') \subseteq IDs(ToCome)
    BY <2>1, <2>2 DEF ToCome, InOutput, AtFeeder, AtAccept, IDs
  <2> QED
    BY <2>1, <2>3, ReceivedRule
<1>6. CASE FeederAbort \/ FeederLoad \/ FeederSaveWrite
  <2>1. /\ UNCHANGED <<accepting, inputChannel, outputChannel, lastReceived, nextID, destroyPC>>
        /\ feederChunk' \in {feederChunk, NoChunk} /\ lastInputChunk' \in {lastInputChunk, feederChunk}
        /\ feederPC = "write" => feederChunk' = NoChunk /\ lastInputChunk' = lastInputChunk
    BY <1>6 DEF FeederAbort, FeederLoad, AfterLoad, FeederSaveWrite
  <2>2. IDs(ToCome') \subseteq IDs(ToCome)
    BY <2>1 DEF ToCome, InOutput, InInput, AtFeeder, AtAccept, IDs
  <2> QED
    BY <2>1, <2>2, ReceivedRule
<1>7. CASE FeederPush
  <2> DEFINE c == WithData(feederChunk, loadedData)
  <2>1. /\ UNCHANGED <<accepting, inputChannel, lastInputChunk, lastReceived, nextID, destroyPC>>
        /\ feederPC = "push" /\ feederChunk' = NoChunk /\ outputChannel' = Append(outputChannel, c)
    BY <1>7 DEF FeederPush
  <2>2. /\ feederChunk \in Chunk /\ c.id = feederChunk.id /\ c \in Chunk
        /\ feederChunk \in AtFeeder
    BY <1>0, <1>7, <2>1, FeederPushMoves, ChunkConstructors, NoChunkIsNoChunk DEF AtFeeder, IInv, TypeOK
  <2>3. Before(ToSet(outputChannel), {c})
    BY <2>2 DEF Before, InOutput, OneEach, InLine, ChunkInv
  <2> HIDE DEF c
  <2>4. InOutput' = InOutput \cup {c}
    BY <1>0, <2>1, <2>2, <2>3, PushFacts DEF InOutput
  <2>5. IDs(ToCome') \subseteq IDs(ToCome)
    BY <2>1, <2>2, <2>4 DEF ToCome, InInput, AtFeeder, AtAccept, IDs
  <2> QED
    BY <2>1, <2>5, ReceivedRule
<1>8. CASE FeederSave
  <2>1. PICK c \in Chunk : SaveNext(c) /\ BeginUnload(c)
    BY <1>8 DEF FeederSave
  <2>2. /\ UNCHANGED <<accepting, lastReceived, nextID, destroyPC>> /\ feederChunk = NoChunk
        /\ feederPC' = "write" \/ feederChunk' = NoChunk
    BY <1>8, <2>1 DEF FeederSave, BeginUnload, IInv, ChunkVariables
  <2>3. /\ InInput' \subseteq InInput /\ InOutput' \subseteq InOutput
        /\ lastInputChunk' \in {lastInputChunk, NoChunk}
    BY <1>0, <2>1, PopFacts DEF SaveNext, InInput, InOutput
  <2>4. IDs(ToCome') \subseteq IDs(ToCome)
    BY <2>2, <2>3 DEF ToCome, AtFeeder, AtAccept, IDs
  <2> QED
    BY <2>2, <2>4, ReceivedRule
<1>9. CASE ConsumerReceive
  <2> DEFINE c == Head(outputChannel)
  <2>1. /\ UNCHANGED <<accepting, inputChannel, feederPC, feederChunk, lastInputChunk, nextID, destroyPC>>
        /\ outputChannel # <<>> /\ outputChannel' = Tail(outputChannel) /\ lastReceived' = c.id
        /\ consumerPC = "running"
    BY <1>9 DEF ConsumerReceive
  <2>2. c \in InOutput /\ InOutput' \subseteq InOutput /\ Before({c}, InOutput')
    BY <1>0, <2>1, PopFacts DEF InOutput
  <2>3. Before({c}, AtFeeder \cup InInput \cup AtAccept)
    BY <1>0, <2>2 DEF OneEach, InLine, Before
  <2>4. ToCome' = InOutput' \cup AtFeeder \cup InInput \cup AtAccept
    BY <2>1 DEF ToCome, InInput, AtFeeder, AtAccept
  <2>5. \A i \in IDs(ToCome') : c.id < i
    BY <2>2, <2>3, <2>4 DEF Before, IDs
  <2>6. c.id < nextID
    BY <1>0, <2>2, PlacesAreAgent DEF AgentFilled, AllPlaces, UsedOnce, IDs
  <2>7. destroyPC # "down"
    BY <2>1 DEF IInv, ShutdownOrder
  <2> QED
    BY <2>1, <2>5, <2>6, <2>7 DEF ReceivedInv
<1>10. CASE Exit \/ Crash
  <2>1. /\ lastReceived' = 0 /\ nextID' = nextID /\ accepting' = NoChunk /\ inputChannel' = <<>>
        /\ outputChannel' = <<>> /\ feederChunk' = NoChunk /\ lastInputChunk' = NoChunk
    BY <1>10 DEF Exit, Crash, MemoryGone
  <2>2. IDs(ToCome') = {}
    BY <2>1, EmptyFacts DEF ToCome, InOutput, InInput, AtFeeder, AtAccept, IDs
  <2>3. 0 < nextID
    BY DEF IInv, TypeOK
  <2> QED
    BY <2>1, <2>2, <2>3 DEF ReceivedInv
<1>11. ASSUME \/ DestroyBegin \/ WaitPendingChunks \/ DestroyClose \/ DestroySignal \/ DestroyEnd
              \/ FeederInputEnded \/ FeederCloseOutput \/ FeederSignalOutput \/ FeederStop
              \/ ConsumerLeave \/ ConsumerFinish \/ LeftoverWrite \/ UNCHANGED vars
              \/ \E c \in held : OnChunkConsumed(c) \/ OnChunkLeftover(c)
       PROVE  ReceivedInv'
  <2>1. /\ UNCHANGED <<accepting, inputChannel, feederChunk, lastInputChunk, outputChannel, lastReceived, nextID>>
        /\ feederPC = "write" => feederPC' = "write"
        /\ destroyPC' = "down" => destroyPC = "down"
    BY <1>11
    DEF DestroyBegin, WaitPendingChunks, DestroyClose, DestroySignal, DestroyEnd, destroyUnchanged,
        FeederInputEnded, FeederCloseOutput, FeederSignalOutput, FeederStop, feederStepUnchanged,
        ConsumerLeave, ConsumerFinish, LeftoverWrite, OnChunkConsumed, OnChunkLeftover, vars
  <2>2. IDs(ToCome') \subseteq IDs(ToCome)
    BY <2>1 DEF ToCome, InOutput, InInput, AtFeeder, AtAccept, IDs
  <2> QED
    BY <2>1, <2>2, ReceivedRule
<1> QED
  BY <1>1, <1>2, <1>3, <1>4, <1>5, <1>6, <1>7, <1>8, <1>9, <1>10, <1>11
  DEF Next, Pipeline, Destroy, Feeder, Consumer, Terminated

\* Nothing has been received before the first start.
LEMMA ReceivedInit == Init => ReceivedInv
<1>1. Init => ToCome = {}
  BY EmptyFacts DEF Init, ToCome, InOutput, InInput, AtFeeder, AtAccept
<1> QED
  BY <1>1 DEF Init, ReceivedInv, IDs

-----------------------------------------------------------------------------
(* The contract with the consumer *)

\* Sending and receiving chunks is sending and receiving IDs.
LEMMA IDsOfQueue ==
    ASSUME NEW q \in Seq(Chunk), NEW r \in Seq(Chunk)
    PROVE  LET s == [i \in 1..Len(q) |-> q[i].id]
               t == [i \in 1..Len(r) |-> r[i].id]
           IN  /\ s \in Seq(Int) /\ t \in Seq(Int)
               /\ Len(s) = Len(q) /\ ToSet(s) = IDs(ToSet(q))
               /\ \A c \in Chunk : r = Append(q, c) => t = Append(s, c.id)
               /\ q # <<>> => s # <<>> /\ Head(s) = Head(q).id
               /\ q # <<>> /\ r = Tail(q) => t = Tail(s)
<1> DEFINE s == [i \in 1..Len(q) |-> q[i].id]
           t == [i \in 1..Len(r) |-> r[i].id]
<1>1. \A i \in 1..Len(q) : q[i].id \in Int
  BY ChunkIDIsInt
<1>2. \A i \in 1..Len(r) : r[i].id \in Int
  BY ChunkIDIsInt
<1>3. /\ s \in Seq(Int) /\ t \in Seq(Int) /\ Len(s) = Len(q) /\ Len(t) = Len(r)
      /\ Len(q) \in Nat /\ Len(r) \in Nat
  BY <1>1, <1>2
<1>4. ToSet(s) = IDs(ToSet(q))
  BY <1>3 DEF ToSet, IDs
<1>5. ASSUME NEW c \in Chunk, r = Append(q, c) PROVE t = Append(s, c.id)
  <2>1. /\ Len(r) = Len(q) + 1
        /\ \A i \in 1..Len(r) : r[i] = IF i = Len(q) + 1 THEN c ELSE q[i]
    BY <1>5, QueueSteps
  <2>2. /\ Append(s, c.id) \in Seq(Int) /\ Len(Append(s, c.id)) = Len(s) + 1
        /\ \A i \in 1..(Len(s) + 1) : Append(s, c.id)[i] = IF i = Len(s) + 1 THEN c.id ELSE s[i]
    <3>1. c.id \in Int
      BY ChunkIDIsInt
    <3> QED
      BY <1>3, <3>1
  <2>3. \A i \in 1..Len(t) : t[i] = Append(s, c.id)[i]
    BY <1>3, <2>1, <2>2
  <2> HIDE DEF s, t
  <2> QED
    BY <1>3, <2>1, <2>2, <2>3, SeqEqual
<1>6. ASSUME q # <<>> PROVE s # <<>> /\ Head(s) = Head(q).id
  BY <1>3, <1>6
<1>7. ASSUME q # <<>>, r = Tail(q) PROVE t = Tail(s)
  <2>1. /\ Len(r) = Len(q) - 1 /\ Len(q) > 0
        /\ \A i \in 1..Len(r) : i + 1 \in 1..Len(q) /\ r[i] = q[i + 1]
    BY <1>7, QueueSteps
  <2>2. s # <<>>
    BY <1>3, <1>7
  <2>3. /\ Tail(s) \in Seq(Int) /\ Len(Tail(s)) = Len(s) - 1
        /\ \A i \in 1..(Len(s) - 1) : Tail(s)[i] = s[i + 1]
    <3> HIDE DEF s
    <3> QED
      BY <1>3, <2>2
  <2>4. \A i \in 1..Len(t) : t[i] = Tail(s)[i]
    BY <1>3, <2>1, <2>3
  <2> HIDE DEF s, t
  <2> QED
    BY <1>3, <2>1, <2>3, <2>4, SeqEqual
<1> QED
  BY <1>3, <1>4, <1>5, <1>6, <1>7

\* What the contract sees is unchanged, or changes by a step of the contract.
ContractStep == [Contract!Next]_(Contract!vars)

\* What the contract sees.
ContractView == <<outputChannel, outputState, held, leaving, leftover, consumed, consumerPC>>

\* A step that changes nothing of it is a stutter.
LEMMA ContractStutters == UNCHANGED ContractView => ContractStep
  BY DEF ContractView, ContractStep, Contract!vars

\* What the consumer reports back is one ID.
LEMMA ConsumerIDs ==
    ASSUME OneEach, NEW c \in AtConsumer
    PROVE  c.id \in IDs(AtConsumer) /\ IDs(AtConsumer \ {c}) = IDs(AtConsumer) \ {c.id}
  BY DEF OneEach, InLine, IDs

\* While the process runs, what the buffer and its consumer do to each other is what the
\* contract allows them to do.
LEMMA ContractSteps ==
    ASSUME IInv, ChunkInv, [Next]_vars, destroyPC # "down", destroyPC' # "down"
    PROVE  ContractStep
<1> USE DEF acceptVars, feederVars, consumerVars, runHistory, kept
<1> DEFINE ids == [i \in 1..Len(outputChannel) |-> outputChannel[i].id]
           H   == IDs((held \cup {leaving}) \ {NoChunk})
<1>0. /\ IInv' /\ OneEach /\ outputChannel \in Seq(Chunk) /\ outputChannel' \in Seq(Chunk)
      /\ H = IDs(AtConsumer) /\ H' = IDs(AtConsumer')
  BY StepInvariant DEF ChunkInv, IInv, TypeOK, AtConsumer
<1>1. CASE FeederPush
  <2> DEFINE c == WithData(feederChunk, loadedData)
  <2>1. /\ feederChunk \in Chunk /\ c.id = feederChunk.id
        /\ Before(AtConsumer \cup InOutput, {feederChunk})
    BY <1>0, <1>1, FeederPushMoves
  <2>2. c \in Chunk
    BY <2>1, ChunkConstructors DEF IInv, TypeOK
  <2>3. /\ feederPC = "push" /\ Len(outputChannel) < MemoryCap
        /\ outputChannel' = Append(outputChannel, c)
        /\ UNCHANGED <<outputState, held, leaving, leftover, consumed, consumerPC>>
    BY <1>1 DEF FeederPush
  <2>4. outputState = "open"
    BY <2>3 DEF ChunkInv, EndOfRun, IInv, TypeOK
  <2> HIDE DEF c
  <2>5. /\ ids' = Append(ids, feederChunk.id) /\ Len(ids) < MemoryCap
        /\ \A d \in ToSet(ids) \cup H : d < feederChunk.id
    <3>1. /\ ids' = Append(ids, c.id) /\ Len(ids) = Len(outputChannel)
          /\ ToSet(ids) = IDs(ToSet(outputChannel))
      BY <1>0, <2>2, <2>3, IDsOfQueue
    <3>2. \A d \in IDs(InOutput) \cup IDs(AtConsumer) : d < feederChunk.id
      BY <2>1 DEF Before, IDs
    <3> QED
      BY <1>0, <2>1, <2>3, <3>1, <3>2 DEF InOutput
  <2>6. feederChunk.id \in 1..MaxChunks
    BY <2>1, ChunkIDIsInt DEF ChunkID
  <2>7. H' = H
    BY <2>3
  <2>8. PICK i \in 1..MaxChunks : i = feederChunk.id
    BY <2>6
  <2>9. Contract!Send(i)
    BY <2>3, <2>4, <2>5, <2>7, <2>8 DEF Contract!Send, Contract!ToSet, ToSet
  <2> QED
    BY <2>9 DEF ContractStep, Contract!Next
<1>2. CASE FeederCloseOutput
  <2>1. /\ feederPC = "close" /\ outputState' = "closed"
        /\ UNCHANGED <<outputChannel, held, leaving, leftover, consumed, consumerPC>>
    BY <1>2 DEF FeederCloseOutput, feederStepUnchanged
  <2>2. outputState = "open"
    BY <2>1 DEF ChunkInv, EndOfRun, IInv, TypeOK
  <2>3. Contract!Close
    BY <2>1, <2>2 DEF Contract!Close
  <2> QED
    BY <2>3 DEF ContractStep, Contract!Next
<1>3. CASE FeederSignalOutput
  <2>1. /\ feederPC = "signal" /\ outputState' = "signaled"
        /\ UNCHANGED <<outputChannel, held, leaving, leftover, consumed, consumerPC>>
    BY <1>3 DEF FeederSignalOutput, feederStepUnchanged
  <2>2. outputState = "closed"
    BY <2>1 DEF ChunkInv, EndOfRun
  <2>3. Contract!Signal
    BY <2>1, <2>2 DEF Contract!Signal
  <2> QED
    BY <2>3 DEF ContractStep, Contract!Next
<1>4. CASE FeederSave
  <2>1. /\ feederPC = "save"
        /\ UNCHANGED <<outputState, held, leaving, leftover, consumed, consumerPC>>
        /\ \/ UNCHANGED outputChannel
           \/ outputChannel # <<>> /\ outputChannel' = Tail(outputChannel)
    BY <1>0, <1>4, FeederSaveMoves DEF FeederSave
  <2>2. outputState = "signaled"
    BY <2>1 DEF ChunkInv, EndOfRun
  <2>3. CASE UNCHANGED outputChannel
    BY <2>1, <2>3, ContractStutters DEF ContractView
  <2>4. CASE outputChannel # <<>> /\ outputChannel' = Tail(outputChannel)
    <3>1. ids # <<>> /\ ids' = Tail(ids)
      BY <1>0, <2>4, IDsOfQueue
    <3>2. H' = H
      BY <2>1
    <3>3. Contract!TakeBack
      BY <2>1, <2>2, <3>1, <3>2 DEF Contract!TakeBack
    <3> QED
      BY <3>3 DEF ContractStep, Contract!Next
  <2> QED
    BY <2>1, <2>3, <2>4
<1>5. CASE ConsumerReceive
  <2>1. /\ consumerPC = "running" /\ outputChannel # <<>>
        /\ held' = held \cup {Head(outputChannel)} /\ outputChannel' = Tail(outputChannel)
        /\ UNCHANGED <<outputState, leaving, leftover, consumed, consumerPC>>
    BY <1>5 DEF ConsumerReceive
  <2>2. ids # <<>> /\ Head(ids) = Head(outputChannel).id /\ ids' = Tail(ids)
    BY <1>0, <2>1, IDsOfQueue
  <2>3. H' = H \cup {Head(ids)}
    <3>1. Head(outputChannel) # NoChunk
      BY <1>0, <2>1, QueueSteps, NoChunkIsNoChunk
    <3> QED
      BY <2>1, <2>2, <3>1 DEF IDs
  <2>4. Contract!Receive
    BY <2>1, <2>2, <2>3 DEF Contract!Receive
  <2> QED
    BY <2>4 DEF ContractStep, Contract!Next
<1>6. ASSUME NEW c \in held, OnChunkConsumed(c) PROVE ContractStep
  <2>1. c \in AtConsumer /\ AtConsumer' = AtConsumer \ {c}
    BY <1>0, <1>6, OnChunkConsumedMoves
  <2>2. c.id \in H /\ H' = H \ {c.id}
    BY <1>0, <2>1, ConsumerIDs
  <2>3. /\ consumerPC = "running" /\ consumed' = consumed \cup {c.id}
        /\ UNCHANGED <<outputChannel, outputState, leftover, consumerPC>>
    BY <1>6 DEF OnChunkConsumed
  <2>4. Contract!Consume(c.id)
    BY <2>2, <2>3 DEF Contract!Consume
  <2> QED
    BY <2>2, <2>4 DEF ContractStep, Contract!Next
<1>7. ASSUME NEW c \in AtConsumer, NEW ok, CountLeftover(c, ok), AtConsumer' = AtConsumer \ {c},
             consumerPC = "leaving",
             UNCHANGED <<outputChannel, outputState, consumed, consumerPC>>
      PROVE  ContractStep
  <2>1. c \in Chunk
    BY PlacesAreAgent DEF AgentFilled, AllPlaces
  <2>2. c.id \in H /\ H' = H \ {c.id}
    BY <1>0, <1>7, ConsumerIDs
  <2>3. IDs(leftover') = IDs(leftover) \cup {c.id}
    <3>1. leftover' = leftover \cup {[c EXCEPT !.saved = ok]} /\ [c EXCEPT !.saved = ok].id = c.id
      BY <1>7, <2>1 DEF CountLeftover, Chunk
    <3> QED
      BY <3>1 DEF IDs
  <2>4. outputState # "open"
    BY <1>7 DEF ChunkInv, EndOfRun
  <2>5. Contract!Leave(c.id)
    BY <1>7, <2>2, <2>3, <2>4 DEF Contract!Leave
  <2> QED
    BY <2>2, <2>5 DEF ContractStep, Contract!Next
<1>8. ASSUME NEW c \in held, OnChunkLeftover(c) PROVE ContractStep
  <2>1. /\ consumerPC = "leaving"
        /\ UNCHANGED <<outputChannel, outputState, consumed, consumerPC>>
    BY <1>8 DEF OnChunkLeftover
  <2>2. \/ CountLeftover(c, c.saved) /\ AtConsumer' = AtConsumer \ {c}
        \/ AtConsumer' = AtConsumer /\ UNCHANGED leftover
    BY <1>0, <1>8, OnChunkLeftoverMoves
  <2>3. CASE CountLeftover(c, c.saved) /\ AtConsumer' = AtConsumer \ {c}
    <3>1. c \in AtConsumer
      BY NoChunkIsNoChunk DEF AtConsumer, IInv, TypeOK
    <3> QED
      BY <1>7, <2>1, <2>3, <3>1
  <2>4. CASE AtConsumer' = AtConsumer /\ UNCHANGED leftover
    <3>1. H' = H
      BY <1>0, <2>4
    <3> QED
      BY <2>1, <2>4, <3>1 DEF ContractStep, Contract!vars
  <2> QED
    BY <2>2, <2>3, <2>4
<1>9. CASE LeftoverWrite
  <2>1. /\ UNCHANGED <<outputChannel, outputState, consumed, consumerPC>>
        /\ CountLeftover(leaving, TRUE) \/ CountLeftover(leaving, FALSE)
        /\ consumerPC = "leaving"
    BY <1>9 DEF LeftoverWrite, IInv, ShutdownOrder
  <2>2. leaving \in AtConsumer /\ AtConsumer' = AtConsumer \ {leaving}
    BY <1>0, <1>9, LeftoverWriteMoves
  <2> QED
    BY <1>7, <2>1, <2>2
<1>10. CASE ConsumerFinish
  <2>1. /\ consumerPC = "leaving" /\ held = {} /\ leaving = NoChunk /\ consumerPC' = "finished"
        /\ UNCHANGED <<outputChannel, outputState, held, leaving, leftover, consumed>>
    BY <1>10 DEF ConsumerFinish
  <2>2. outputState # "open" /\ H = {} /\ H' = H
    BY <2>1 DEF ChunkInv, EndOfRun, IDs
  <2>3. Contract!Finish
    BY <2>1, <2>2 DEF Contract!Finish
  <2> QED
    BY <2>3 DEF ContractStep, Contract!Next
<1>11. CASE ConsumerLeave
  <2>1. /\ consumerPC = "running" /\ consumerPC' = "leaving"
        /\ UNCHANGED <<outputChannel, outputState, held, leaving, leftover, consumed>>
    BY <1>11 DEF ConsumerLeave
  <2> QED
    BY <2>1 DEF ContractStep, Contract!vars
<1>12. CASE AcceptBegin \/ AcceptWrite \/ AcceptSend \/ FeederLoad \/ FeederSaveWrite
  BY <1>12, ContractStutters
  DEF AcceptBegin, AcceptWrite, AcceptSend, FeederLoad, FeederSaveWrite, ContractView
<1>13. CASE \/ DestroyBegin \/ WaitPendingChunks \/ DestroyClose \/ DestroySignal \/ DestroyEnd
            \/ FeederReceive \/ FeederInputEnded \/ FeederAbort \/ FeederStop \/ UNCHANGED vars
  BY <1>13, ContractStutters
  DEF DestroyBegin, WaitPendingChunks, DestroyClose, DestroySignal, DestroyEnd, destroyUnchanged,
      FeederReceive, FeederInputEnded, FeederAbort, FeederStop, feederStepUnchanged, vars, ContractView
<1>14. CASE Start \/ Exit \/ Crash
  BY <1>14 DEF Start, Exit, Crash, MemoryGone
<1> QED
  BY <1>1, <1>2, <1>3, <1>4, <1>5, <1>6, <1>8, <1>9, <1>10, <1>11, <1>12, <1>13, <1>14
  DEF Next, Pipeline, Destroy, Feeder, Consumer, Terminated

\* Every step of the running process, seen from the channel between the buffer and its consumer,
\* is a step of the contract that the output clients are proved to keep: chunks are sent in order,
\* the channel is closed and then signaled, chunks are taken back only after that, and each chunk
\* received is reported once.
THEOREM ConsumerContractKept == Spec => KeepsConsumerContract
<1>1. IInv /\ ChunkInv /\ [Next]_vars => (destroyPC # "down" /\ destroyPC' # "down" => ContractStep)
  BY ContractSteps
<1>2. IInv /\ ChunkInv /\ [Next]_vars
        => [destroyPC # "down" /\ destroyPC' # "down" => [Contract!Next]_(Contract!vars)]_vars
  BY <1>1 DEF ContractStep
<1> QED
  BY <1>2, ChunkInvariance, PTL DEF Spec, KeepsConsumerContract

-----------------------------------------------------------------------------
(* No chunk disappears without a trace *)

\* The IDs that can still be told of, and the IDs for which a file is relied on.
Traced   == consumed \cup dropped \cup lost \cup IDs(InAgent) \cup HasFile
Promised == IDs({c \in InAgent : c.saved}) \cup shelved \cup IDs({c \in leftover : c.saved})

AccountInv ==
    /\ 1..(nextID - 1) \subseteq Traced
    /\ Promised \subseteq HasFile

\* A chunk that leaves the agent takes its promise along.
LEMMA PromiseLeaves ==
    ASSUME IInv, ChunkInv, NEW c \in InAgent, InAgent' = InAgent \ {c}, UNCHANGED <<shelved, leftover>>
    PROVE  Promised' \subseteq Promised \ {c.id}
<1>1. c.id \notin shelved \cup IDs(leftover)
  BY DEF ChunkInv, UsedOnce, Settled, IDs
<1>2. c.id \notin IDs({d \in leftover : d.saved})
  BY <1>1 DEF IDs
<1>3. \A d \in InAgent' : d.id # c.id
  BY NoTwins DEF ChunkInv
<1> QED
  BY <1>1, <1>2, <1>3 DEF Promised, IDs

\* A write loses no file, and if it succeeds there is one.
LEMMA WriteKeepsFiles ==
    ASSUME TypeOK, NEW c \in Chunk, WriteChunkFile(c) \/ WriteChunkFileFails(c)
    PROVE  HasFile \subseteq HasFile' /\ (WriteChunkFile(c) => c.id \in HasFile')
<1>1. c.id \in ChunkID /\ c.data # "none"
  BY DEF Chunk, Data
<1>2. \E x : disk' = [disk EXCEPT ![c.id] = x] /\ (x # "none" \/ x = disk[c.id])
             /\ (WriteChunkFile(c) => x # "none")
  <2>1. CASE WriteChunkFile(c)
    BY <1>1, <2>1 DEF WriteChunkFile
  <2>2. CASE ~WriteChunkFile(c)
    BY <2>2 DEF WriteChunkFileFails
  <2> QED
    BY <2>1, <2>2
<1>3. PICK x : disk' = [disk EXCEPT ![c.id] = x] /\ (x # "none" \/ x = disk[c.id])
               /\ (WriteChunkFile(c) => x # "none")
  BY <1>2
<1>4. disk'[c.id] = x /\ \A i \in ChunkID : i # c.id => disk'[i] = disk[i]
  BY <1>1, <1>3 DEF TypeOK
<1> HIDE DEF HasFile
<1>5. \A i \in ChunkID : disk[i] # "none" => disk'[i] # "none"
  BY <1>3, <1>4
<1>6. HasFile \subseteq HasFile'
  BY <1>5 DEF HasFile
<1>7. WriteChunkFile(c) => c.id \in HasFile'
  BY <1>1, <1>3, <1>4 DEF HasFile
<1> QED
  BY <1>6, <1>7

\* What is on its way is traced, whatever happens to it; and a file that is relied on is there.
LEMMA AccountStep == IInv /\ ChunkInv /\ AccountInv /\ [Next]_vars => AccountInv'
<1> SUFFICES ASSUME IInv, ChunkInv, AccountInv, [Next]_vars PROVE AccountInv'
  OBVIOUS
<1> USE DEF acceptVars, runHistory, kept
<1>0. IInv' /\ TypeOK /\ OneEach /\ UsedOnce /\ nextID \in Int
  <2>1. TypeOK /\ OneEach /\ UsedOnce
    BY DEF IInv, ChunkInv
  <2>2. IInv'
    BY StepInvariant
  <2>3. nextID \in Int
    BY <2>1, BoundsAssumption DEF TypeOK
  <2> QED
    BY <2>1, <2>2, <2>3
<1>1. ASSUME nextID' = nextID, Traced \subseteq Traced', Promised' \subseteq HasFile' PROVE AccountInv'
  BY <1>1 DEF AccountInv
<1>2. CASE QuietStep
  <2>1. InAgent' = InAgent /\ UNCHANGED <<nextID, disk, consumed, dropped, lost, shelved, leftover>>
    BY <1>0, <1>2, QuietSteps DEF SameBooks
  <2>2. HasFile' = HasFile
    BY <2>1 DEF HasFile
  <2>3. Traced' = Traced /\ Promised' = Promised
    BY <2>1, <2>2 DEF Traced, Promised
  <2> QED
    BY <1>1, <2>1, <2>2, <2>3 DEF AccountInv
<1>3. CASE Start
  <2>1. /\ InAgent = {} /\ \A c \in InAgent' : c.id \in ChunkID /\ disk[c.id] # "none"
        /\ UNCHANGED <<nextID, disk, consumed, dropped, lost, shelved, leftover>>
    BY <1>0, <1>3, StartMoves DEF Start
  <2>2. HasFile' = HasFile /\ Traced \subseteq Traced'
    BY <2>1 DEF HasFile, Traced, IDs
  <2>3. Promised' \subseteq HasFile
    BY <2>1 DEF Promised, HasFile, AccountInv, IDs
  <2> QED
    BY <1>1, <2>1, <2>2, <2>3
<1>4. CASE AcceptBegin
  <2>1. /\ nextID' = nextID + 1 /\ UNCHANGED <<disk, consumed, lost, shelved, leftover>>
        /\ \/ InAgent' = InAgent \cup {NewChunk(nextID)} /\ UNCHANGED dropped
           \/ InAgent' = InAgent /\ dropped' = dropped \cup {nextID}
    <3>1. /\ nextID' = nextID + 1 /\ UNCHANGED <<disk, consumed, lost, shelved, leftover>>
          /\ \/ accepting' = NewChunk(nextID) /\ UNCHANGED dropped
             \/ UNCHANGED accepting /\ dropped' = dropped \cup {nextID}
      BY <1>4 DEF AcceptBegin, NewChunk
    <3>2. NewChunk(nextID) # accepting
      BY <1>4 DEF AcceptBegin, NewChunk, NoChunk
    <3> QED
      BY <1>0, <1>4, <3>1, <3>2, AcceptBeginMoves
  <2>2. NewChunk(nextID).id = nextID /\ ~NewChunk(nextID).saved
    BY DEF NewChunk
  <2>3. HasFile' = HasFile
    BY <2>1 DEF HasFile
  <2>4. Traced \cup {nextID} \subseteq Traced'
    BY <2>1, <2>2, <2>3 DEF Traced, IDs
  <2>5. Promised' = Promised
    BY <2>1, <2>2 DEF Promised
  <2>6. 1..(nextID' - 1) \subseteq (1..(nextID - 1)) \cup {nextID}
    BY <1>0, <2>1
  <2> QED
    BY <2>3, <2>4, <2>5, <2>6 DEF AccountInv
<1>5. CASE AcceptWrite
  <2>1. /\ accepting \in InAgent /\ Unloaded(accepting).id = accepting.id
        /\ \/ WriteChunkFile(accepting) /\ InAgent' = (InAgent \ {accepting}) \cup {Unloaded(accepting)}
           \/ WriteChunkFileFails(accepting) /\ InAgent' = InAgent \ {accepting}
    BY <1>0, <1>5, AcceptWriteMoves
  <2>2. accepting \in Chunk
    BY <1>0, <2>1, ChunksInAgent
  <2>3. nextID' = nextID /\ UNCHANGED <<consumed, lost, shelved, leftover>>
    BY <1>5 DEF AcceptWrite
  <2>4. HasFile \subseteq HasFile' /\ (WriteChunkFile(accepting) => accepting.id \in HasFile')
    BY <1>0, <2>1, <2>2, WriteKeepsFiles
  <2>5. CASE WriteChunkFile(accepting) /\ InAgent' = (InAgent \ {accepting}) \cup {Unloaded(accepting)}
    <3>1. IDs(InAgent') = IDs(InAgent)
      BY <2>1, <2>5, ReplaceID
    <3>2. dropped \subseteq dropped'
      BY <1>5 DEF AcceptWrite
    <3>3. Traced \subseteq Traced'
      BY <2>3, <2>4, <3>1, <3>2 DEF Traced
    <3>4. Promised' \subseteq Promised \cup {accepting.id}
      BY <2>1, <2>3, <2>5 DEF Promised, IDs
    <3> QED
      BY <1>1, <2>3, <2>4, <2>5, <3>3, <3>4 DEF AccountInv
  <2>6. CASE ~(WriteChunkFile(accepting) /\ InAgent' = (InAgent \ {accepting}) \cup {Unloaded(accepting)})
    <3>1. InAgent' = InAgent \ {accepting}
      BY <2>1, <2>6
    <3>2. dropped' = dropped \cup {accepting.id}
      <4>1. \/ WriteChunkFile(accepting) /\ accepting' = Unloaded(accepting)
            \/ dropped' = dropped \cup {accepting.id}
        BY <1>5 DEF AcceptWrite
      <4>2. accepting' = Unloaded(accepting) => InAgent' # InAgent \ {accepting}
        <5>1. ASSUME accepting' = Unloaded(accepting) PROVE Unloaded(accepting) \in InAgent'
          <6>1. Unloaded(accepting) # NoChunk
            BY <2>2, ChunkConstructors, NoChunkIsNoChunk
          <6> QED
            BY <5>1, <6>1 DEF InAgent
        <5>2. Unloaded(accepting) \in InAgent => Unloaded(accepting) = accepting
          BY <1>0, <2>1, NoTwins
        <5> QED
          BY <5>1, <5>2
      <4> QED
        BY <3>1, <4>1, <4>2
    <3>3. IDs(InAgent') = IDs(InAgent) \ {accepting.id}
      BY <1>0, <2>1, <3>1, RemoveID
    <3>4. Traced \subseteq Traced'
      BY <2>3, <2>4, <3>2, <3>3 DEF Traced
    <3>5. Promised' \subseteq Promised
      BY <2>1, <2>3, <3>1, PromiseLeaves
    <3> QED
      BY <1>1, <2>3, <2>4, <3>4, <3>5 DEF AccountInv
  <2> QED
    BY <2>5, <2>6
<1>6. CASE AcceptSend
  <2>1. /\ accepting \in InAgent /\ nextID' = nextID /\ UNCHANGED <<disk, consumed, lost, shelved, leftover>>
        /\ \/ InAgent' = InAgent /\ UNCHANGED dropped
           \/ InAgent' = InAgent \ {accepting} /\ dropped' = dropped \cup {accepting.id}
    BY <1>0, <1>6, AcceptSendMoves DEF AcceptSend, OnChunkDropped
  <2>2. HasFile' = HasFile
    BY <2>1 DEF HasFile
  <2>3. Traced \subseteq Traced'
    BY <1>0, <2>1, <2>2, RemoveID DEF Traced
  <2>4. Promised' \subseteq Promised
    BY <2>1 DEF Promised, IDs
  <2> QED
    BY <1>1, <2>1, <2>2, <2>3, <2>4 DEF AccountInv
<1>7. CASE FeederLoad
  <2>1. PICK d \in LoadResults(feederChunk) :
           /\ AfterLoad(d)
           /\ \/ d \in {"none", "empty"} /\ InAgent' = InAgent \ {feederChunk}
              \/ d \in {"part", "full"} /\ InAgent' = InAgent
    BY <1>0, <1>7, FeederLoadMoves
  <2>2. /\ feederChunk \in InAgent /\ feederChunk \in Chunk
        /\ nextID' = nextID /\ UNCHANGED <<consumed, lost, shelved, leftover>>
    BY <1>0, <1>7, FeederLoadMoves DEF FeederLoad
  <2>3. CASE d \in {"part", "full"}
    <3>1. UNCHANGED <<disk, dropped>> /\ InAgent' = InAgent
      BY <2>1, <2>3 DEF AfterLoad
    <3>2. HasFile' = HasFile
      BY <3>1 DEF HasFile
    <3>3. Traced' = Traced /\ Promised' = Promised
      BY <2>2, <3>1, <3>2 DEF Traced, Promised
    <3> QED
      BY <1>1, <2>2, <3>2, <3>3 DEF AccountInv
  <2>4. CASE d \in {"none", "empty"}
    <3>1. InAgent' = InAgent \ {feederChunk} /\ dropped' = dropped \cup {feederChunk.id}
      BY <2>1, <2>4 DEF AfterLoad, OnChunkDropped
    <3>2. HasFile \subseteq HasFile' \cup {feederChunk.id}
      <4>1. \A i \in ChunkID : i # feederChunk.id => disk'[i] = disk[i]
        <5>1. WithData(feederChunk, d).id = feederChunk.id
          BY <2>2 DEF WithData, Chunk
        <5> QED
          BY <1>0, <2>1, <2>4, <5>1, RemoveChunkFiles DEF AfterLoad
      <4> QED
        BY <4>1 DEF HasFile
    <3>3. IDs(InAgent') = IDs(InAgent) \ {feederChunk.id}
      BY <1>0, <2>2, <3>1, RemoveID
    <3>4. Traced \subseteq Traced'
      BY <2>2, <3>1, <3>2, <3>3 DEF Traced
    <3>5. Promised' \subseteq Promised \ {feederChunk.id}
      BY <2>2, <3>1, PromiseLeaves
    <3> QED
      BY <1>1, <2>2, <3>2, <3>4, <3>5 DEF AccountInv
  <2> QED
    BY <2>1, <2>3, <2>4
<1>8. CASE FeederPush
  <2> DEFINE c == WithData(feederChunk, loadedData)
  <2>1. /\ feederChunk \in InAgent /\ c.id = feederChunk.id /\ c.saved = feederChunk.saved
        /\ InAgent' = (InAgent \ {feederChunk}) \cup {c}
        /\ nextID' = nextID /\ UNCHANGED <<disk, consumed, dropped, lost, shelved, leftover>>
    BY <1>0, <1>8, FeederPushMoves DEF FeederPush
  <2> HIDE DEF c
  <2>2. HasFile' = HasFile /\ IDs(InAgent') = IDs(InAgent)
    BY <2>1, ReplaceID DEF HasFile
  <2>3. Traced' = Traced
    BY <2>1, <2>2 DEF Traced
  <2>4. Promised' \subseteq Promised
    BY <2>1 DEF Promised, IDs
  <2> QED
    BY <1>1, <2>1, <2>2, <2>3, <2>4 DEF AccountInv
<1>9. CASE FeederSave
  <2>1. PICK c \in InAgent :
           /\ c \in Chunk /\ BeginUnload(c)
           /\ \/ feederPC' = "write" /\ feederChunk' = c /\ InAgent' = InAgent
              \/ UNCHANGED <<feederPC, feederChunk>> /\ InAgent' = InAgent \ {c}
    BY <1>0, <1>9, FeederSaveMoves
  <2>2. nextID' = nextID /\ UNCHANGED <<disk, consumed, lost, leftover>> /\ feederPC = "save"
    BY <1>9 DEF FeederSave
  <2>3. HasFile' = HasFile
    BY <2>2 DEF HasFile
  <2>4. CASE feederPC' = "write" /\ InAgent' = InAgent
    <3>1. UNCHANGED <<dropped, shelved>>
      BY <2>1, <2>2, <2>4 DEF BeginUnload
    <3>2. Traced' = Traced /\ Promised' = Promised
      BY <2>2, <2>3, <2>4, <3>1 DEF Traced, Promised
    <3> QED
      BY <1>1, <2>2, <2>3, <3>2 DEF AccountInv
  <2>5. CASE UNCHANGED <<feederPC, feederChunk>> /\ InAgent' = InAgent \ {c}
    <3>1. \/ c.saved /\ shelved' = shelved \cup {c.id} /\ UNCHANGED dropped
          \/ UNCHANGED shelved /\ dropped' = dropped \cup {c.id}
      BY <2>1, <2>2, <2>5 DEF BeginUnload, OnChunkDropped
    <3>2. c.saved => c.id \in HasFile
      <4>1. c.saved => c.id \in Promised
        BY DEF Promised, IDs
      <4> QED
        BY <4>1 DEF AccountInv
    <3>3. IDs(InAgent') = IDs(InAgent) \ {c.id}
      BY <1>0, <2>5, RemoveID
    <3>4. Traced \subseteq Traced'
      BY <2>2, <2>3, <3>1, <3>2, <3>3 DEF Traced
    <3>5. Promised' \subseteq HasFile
      BY <2>2, <2>5, <3>1, <3>2 DEF Promised, AccountInv, IDs
    <3> QED
      BY <1>1, <2>2, <2>3, <3>4, <3>5
  <2> QED
    BY <2>1, <2>4, <2>5
<1>10. CASE FeederSaveWrite
  <2>1. feederChunk \in InAgent /\ feederChunk \in Chunk /\ InAgent' = InAgent \ {feederChunk}
    BY <1>0, <1>10, FeederSaveWriteMoves
  <2>2. IDs(InAgent') = IDs(InAgent) \ {feederChunk.id}
    BY <1>0, <2>1, RemoveID
  <2>3. /\ nextID' = nextID /\ UNCHANGED <<consumed, lost, leftover>>
        /\ \/ WriteChunkFile(feederChunk) /\ shelved' = shelved \cup {feederChunk.id} /\ UNCHANGED dropped
           \/ WriteChunkFileFails(feederChunk) /\ dropped' = dropped \cup {feederChunk.id} /\ UNCHANGED shelved
    BY <1>10 DEF FeederSaveWrite
  <2>4. HasFile \subseteq HasFile' /\ (WriteChunkFile(feederChunk) => feederChunk.id \in HasFile')
    BY <1>0, <2>1, <2>3, WriteKeepsFiles
  <2>5. Traced \subseteq Traced'
    BY <2>2, <2>3, <2>4 DEF Traced
  <2>6. Promised' \subseteq HasFile'
    BY <2>1, <2>3, <2>4 DEF Promised, AccountInv, IDs
  <2> QED
    BY <1>1, <2>3, <2>5, <2>6
<1>11. ASSUME NEW c \in held, OnChunkConsumed(c) PROVE AccountInv'
  <2>1. c \in InAgent /\ c \in Chunk /\ InAgent' = InAgent \ {c}
    BY <1>0, <1>11, OnChunkConsumedMoves
  <2>2. IDs(InAgent') = IDs(InAgent) \ {c.id}
    BY <1>0, <2>1, RemoveID
  <2>3. /\ nextID' = nextID /\ UNCHANGED <<dropped, lost, shelved, leftover>>
        /\ consumed' = consumed \cup {c.id}
        /\ \A i \in ChunkID : i # c.id => disk'[i] = disk[i]
    BY <1>0, <1>11, RemoveChunkFiles DEF OnChunkConsumed
  <2>4. HasFile \subseteq HasFile' \cup {c.id}
    BY <2>3 DEF HasFile
  <2>5. Traced \subseteq Traced'
    BY <2>2, <2>3, <2>4 DEF Traced
  <2>6. Promised' \subseteq Promised \ {c.id}
    BY <2>1, <2>3, PromiseLeaves
  <2> QED
    BY <1>1, <2>3, <2>4, <2>5, <2>6 DEF AccountInv
<1>12. ASSUME NEW c \in InAgent, NEW ok \in BOOLEAN, CountLeftover(c, ok), InAgent' = InAgent \ {c},
              nextID' = nextID, UNCHANGED <<consumed, dropped, shelved>>,
              HasFile \subseteq HasFile', ok => c.id \in HasFile'
       PROVE  AccountInv'
  <2>1. /\ leftover' = leftover \cup {[c EXCEPT !.saved = ok]}
        /\ lost' = IF ok THEN lost ELSE lost \cup {c.id}
        /\ [c EXCEPT !.saved = ok].id = c.id /\ [c EXCEPT !.saved = ok].saved = ok
    <3>1. c \in Chunk
      BY <1>0, ChunksInAgent
    <3> QED
      BY <1>12, <3>1 DEF CountLeftover, Chunk
  <2>2. IDs(InAgent') = IDs(InAgent) \ {c.id}
    BY <1>0, <1>12, RemoveID
  <2>3. Traced \subseteq Traced'
    BY <1>12, <2>1, <2>2 DEF Traced
  <2>4. Promised' \subseteq HasFile'
    BY <1>12, <2>1 DEF Promised, AccountInv, IDs
  <2> QED
    BY <1>1, <1>12, <2>3, <2>4
<1>13. ASSUME NEW c \in held, OnChunkLeftover(c) PROVE AccountInv'
  <2>1. /\ c \in InAgent /\ c \in Chunk
        /\ \/ CountLeftover(c, c.saved) /\ InAgent' = InAgent \ {c}
           \/ InAgent' = InAgent /\ UNCHANGED <<leftover, lost>>
    BY <1>0, <1>13, OnChunkLeftoverMoves
  <2>2. nextID' = nextID /\ UNCHANGED <<disk, consumed, dropped, shelved>>
    BY <1>13 DEF OnChunkLeftover
  <2>3. HasFile' = HasFile
    BY <2>2 DEF HasFile
  <2>4. CASE CountLeftover(c, c.saved) /\ InAgent' = InAgent \ {c}
    <3>1. c.saved \in BOOLEAN /\ (c.saved => c.id \in Promised)
      BY <2>1 DEF Promised, IDs, Chunk
    <3>2. c.saved => c.id \in HasFile'
      BY <2>3, <3>1 DEF AccountInv
    <3> QED
      BY <1>12, <2>1, <2>2, <2>3, <2>4, <3>1, <3>2
  <2>5. CASE InAgent' = InAgent /\ UNCHANGED <<leftover, lost>>
    <3>1. Traced' = Traced /\ Promised' = Promised
      BY <2>2, <2>3, <2>5 DEF Traced, Promised
    <3> QED
      BY <1>1, <2>2, <2>3, <3>1 DEF AccountInv
  <2> QED
    BY <2>1, <2>4, <2>5
<1>14. CASE LeftoverWrite
  <2>1. leaving \in InAgent /\ leaving \in Chunk /\ InAgent' = InAgent \ {leaving}
    BY <1>0, <1>14, LeftoverWriteMoves
  <2>2. /\ nextID' = nextID /\ UNCHANGED <<consumed, dropped, shelved>>
        /\ \/ WriteChunkFile(leaving) /\ CountLeftover(leaving, TRUE)
           \/ WriteChunkFileFails(leaving) /\ CountLeftover(leaving, FALSE)
    BY <1>14 DEF LeftoverWrite
  <2>3. HasFile \subseteq HasFile' /\ (WriteChunkFile(leaving) => leaving.id \in HasFile')
    BY <1>0, <2>1, <2>2, WriteKeepsFiles
  <2>4. PICK c \in InAgent : c = leaving
    BY <2>1
  <2> QED
    BY <1>12, <2>1, <2>2, <2>3, <2>4
<1>15. CASE Exit
  <2>1. InAgent = {}
    <3>1. feederPC = "stopped"
      BY <1>15 DEF Exit, ChunkInv, EndOfRun
    <3> QED
      BY <3>1, StoppedIsDrained DEF StoppedMeansDrained
  <2>2. /\ UNCHANGED <<nextID, disk, consumed, dropped, lost>> /\ InAgent' = {} /\ shelved' = {} /\ leftover' = {}
    BY <1>15, MemoryGoneMoves DEF Exit, MemoryGone
  <2>3. HasFile' = HasFile
    BY <2>2 DEF HasFile
  <2>4. Traced' = Traced /\ Promised' = {}
    BY <2>1, <2>2, <2>3 DEF Traced, Promised, IDs
  <2> QED
    BY <1>1, <2>2, <2>4
<1>16. CASE Crash
  <2>1. /\ UNCHANGED <<nextID, consumed, dropped>> /\ InAgent' = {} /\ shelved' = {} /\ leftover' = {}
        /\ lost' = lost \cup {c.id : c \in {x \in InAgent : ~x.saved}}
    BY <1>16, MemoryGoneMoves DEF Crash, MemoryGone
  <2>2. HasFile \subseteq HasFile'
    <3>1. PICK written \in [{c.id : c \in InWrite} -> File] :
             disk' = [i \in ChunkID |->
                       IF i \in DOMAIN written /\ written[i] # "none" THEN written[i] ELSE disk[i]]
      BY <1>16 DEF Crash
    <3> QED
      BY <3>1 DEF HasFile
  <2>3. IDs(InAgent) \subseteq lost' \cup HasFile
    <3>1. \A c \in InAgent : c.saved => c.id \in HasFile
      BY DEF AccountInv, Promised, IDs
    <3> QED
      BY <2>1, <3>1 DEF IDs
  <2>4. Traced \subseteq Traced' /\ Promised' = {}
    BY <2>1, <2>2, <2>3 DEF Traced, Promised, IDs
  <2> QED
    BY <1>1, <2>1, <2>4
<1> QED
  BY <1>2, <1>3, <1>4, <1>5, <1>6, <1>7, <1>8, <1>9, <1>10, <1>11, <1>13, <1>14, <1>15, <1>16, StepKinds

\* Whatever Accept was given has been consumed or counted as dropped, is in the agent, has a file
\* to be recovered from, or is one of the losses that the program does not count; and every
\* chunk without its data in memory has its file, in this run and for the next one.
THEOREM AllAccountedFor == Spec => []EveryChunkAccountedFor
<1>1. Init => AccountInv
  <2>1. Init => InAgent = {}
    BY EmptyFacts DEF Init, InAgent
  <2>2. Init => nextID = 1 /\ shelved = {} /\ leftover = {}
    BY DEF Init
  <2> QED
    BY <2>1, <2>2 DEF AccountInv, Promised, IDs
<1>2. IInv /\ ChunkInv /\ AccountInv /\ [Next]_vars => AccountInv'
  BY AccountStep
<1>3. AccountInv => EveryChunkAccountedFor
  BY DEF AccountInv, EveryChunkAccountedFor, Traced, Promised, HasFile, IDs
<1> QED
  BY <1>1, <1>2, <1>3, ChunkInvariance, PTL DEF Spec

-----------------------------------------------------------------------------
(* What is on disk, and what was consumed *)

\* A saved chunk has in its file at least the bytes it has in memory; one that is not saved is
\* complete, has no file, and was not consumed.
Backed(c) ==
    IF c.saved THEN DataLen(c.data) <= DataLen(disk[c.id])
               ELSE c.data = "full" /\ disk[c.id] = "none" /\ c.id \notin consumed

\* So is every chunk of the agent; and a consumed ID has a file only where it could not be deleted.
ContentInv ==
    /\ \A c \in InAgent : Backed(c)
    /\ feederPC = "push" => Backed(WithData(feederChunk, loadedData))
    /\ \A i \in consumed : i < nextID /\ (disk[i] # "none" => i \in undeletedEver)

\* A step that concerns one chunk: it leaves the agent, or others come for it.
OneConcerned(c, S) ==
    /\ InAgent' \subseteq (InAgent \ {c}) \cup S
    /\ \A d \in S : Backed(d)'
    /\ \A i \in ChunkID : i # c.id => disk'[i] = disk[i]
    /\ consumed' \subseteq consumed \cup {c.id} /\ undeletedEver \subseteq undeletedEver'
    /\ c.id \in consumed' => (disk'[c.id] # "none" => c.id \in undeletedEver')
    /\ nextID' = nextID
    /\ feederPC' = "push" =>
          feederPC = "push" /\ feederChunk # c /\ UNCHANGED <<feederChunk, loadedData>>

\* Such a step leaves the content of all other chunks as it was.
LEMMA ContentRule ==
    ASSUME IInv, OneEach, UsedOnce, ContentInv, NEW c \in InAgent, NEW S, OneConcerned(c, S)
    PROVE  ContentInv'
<1> USE DEF OneConcerned
<1>1. c \in Chunk /\ \A d \in InAgent : d \in Chunk /\ d.id \in ChunkID /\ d.id \in IDs(InAgent)
  BY ChunksInAgent DEF IInv, IDs
<1>2. \A d \in InAgent \ {c} : d.id # c.id
  BY NoTwins
<1>3. \A d \in InAgent \ {c} : Backed(d)'
  BY <1>1, <1>2 DEF ContentInv, Backed
<1>4. \A d \in InAgent' : Backed(d)'
  BY <1>3
<1>5. ASSUME feederPC' = "push" PROVE Backed(WithData(feederChunk, loadedData))'
  <2>1. feederChunk \in InAgent \ {c}
    BY <1>5 DEF IInv, ChunkVariables, InAgent
  <2>2. /\ WithData(feederChunk, loadedData).id = feederChunk.id
        /\ WithData(feederChunk, loadedData).saved = feederChunk.saved
    BY <1>1, <2>1 DEF WithData, Chunk
  <2>3. feederChunk.id \in ChunkID /\ feederChunk.id # c.id
    BY <1>1, <1>2, <2>1
  <2>4. Backed(WithData(feederChunk, loadedData))
    BY <1>5 DEF ContentInv
  <2>5. PICK d : d = WithData(feederChunk, loadedData)
    OBVIOUS
  <2>6. Backed(d)'
    BY <2>2, <2>3, <2>4, <2>5 DEF Backed
  <2>7. WithData(feederChunk, loadedData)' = d
    BY <1>5, <2>5
  <2> QED
    BY <2>6, <2>7 DEF Backed
<1>6. c.id < nextID
  BY <1>1 DEF UsedOnce
<1>7. consumed \subseteq ChunkID
  BY DEF IInv, TypeOK
<1>8. \A i \in consumed' : i < nextID' /\ (disk'[i] # "none" => i \in undeletedEver')
  BY <1>6, <1>7 DEF ContentInv
<1> QED
  BY <1>4, <1>5, <1>8 DEF ContentInv

\* No step makes a chunk lose the content it stands for, or brings a consumed one back.
LEMMA ContentStep == IInv /\ ChunkInv /\ ContentInv /\ [Next]_vars => ContentInv'
<1> SUFFICES ASSUME IInv, ChunkInv, ContentInv, [Next]_vars PROVE ContentInv'
  OBVIOUS
<1> USE DEF acceptVars, feederVars, runHistory, kept
<1>0. /\ IInv' /\ TypeOK /\ OneEach /\ UsedOnce /\ FilesNeedDir /\ disk \in [ChunkID -> File]
      /\ consumed \subseteq ChunkID
  BY StepInvariant DEF IInv, TypeOK, ChunkInv
<1>1. CASE QuietStep
  <2>1. InAgent' = InAgent /\ UNCHANGED <<nextID, disk, consumed, undeletedEver>>
    BY <1>0, <1>1, QuietSteps DEF SameBooks
  <2>2. feederPC' = "push" => feederPC = "push" /\ UNCHANGED <<feederChunk, loadedData>>
    BY <1>1 DEF QuietStep, feederStepUnchanged, destroyUnchanged, vars,
         DestroyBegin, WaitPendingChunks, DestroyClose, DestroySignal, DestroyEnd,
         FeederReceive, FeederInputEnded, FeederAbort, FeederCloseOutput, FeederSignalOutput,
         FeederStop, ConsumerReceive, ConsumerLeave, ConsumerFinish
  <2> QED
    BY <2>1, <2>2 DEF ContentInv, Backed
<1>2. CASE Start
  <2>1. /\ \A c \in InAgent' : c \in Chunk /\ c.saved
        /\ UNCHANGED <<nextID, disk, consumed, undeletedEver>> /\ feederPC' = "recv"
    BY <1>0, <1>2, StartMoves, PlacesAreAgentNext DEF Start, AgentFilled
  <2>2. \A c \in InAgent' : c.data = "nil"
    <3>1. InAgent' = ToSet(inputChannel') /\ \A i \in 1..Len(inputChannel') : inputChannel'[i].saved
      BY <1>0, <1>2, StartMoves
    <3>0. inputChannel' \in Seq(Chunk)
      BY <1>0 DEF IInv, TypeOK
    <3>1a. \A i \in 1..Len(inputChannel') : Unloadable(inputChannel'[i])
      BY <1>0 DEF IInv, FirstHalf, Unloadable
    <3>2. \A i \in 1..Len(inputChannel') : inputChannel'[i] \in Chunk /\ Unloadable(inputChannel'[i])
      BY <3>0, <3>1a
    <3>3. DOMAIN inputChannel' = 1..Len(inputChannel')
      BY <3>0
    <3>4. \A i \in 1..Len(inputChannel') : inputChannel'[i].data = "nil"
      BY <3>1, <3>2, NoChunkIsNoChunk DEF Unloadable
    <3> QED
      BY <3>1, <3>3, <3>4 DEF ToSet
  <2>3. \A c \in InAgent' : Backed(c)'
    BY <2>1, <2>2, DataLenRange DEF Backed, DataLen, FullLen
  <2> QED
    BY <2>1, <2>3 DEF ContentInv
<1>3. CASE AcceptBegin
  <2>1. /\ nextID' = nextID + 1 /\ UNCHANGED <<disk, consumed, undeletedEver, feederPC, feederChunk, loadedData>>
        /\ InAgent' \subseteq InAgent \cup {NewChunk(nextID)} /\ nextID \in ChunkID /\ nextID \in Int
    BY <1>0, <1>3, AcceptBeginMoves, BoundsAssumption DEF AcceptBegin, TypeOK
  <2>2. disk[nextID] = "none" /\ nextID \notin consumed
    BY <1>0, <2>1 DEF UsedOnce, ContentInv
  <2>3. PICK c : c = NewChunk(nextID)
    OBVIOUS
  <2>4. Backed(c)'
    BY <2>1, <2>2, <2>3 DEF Backed, NewChunk
  <2>5. \A d \in InAgent' : Backed(d)'
    BY <2>1, <2>3, <2>4 DEF ContentInv, Backed
  <2>6. feederPC' = "push" => Backed(WithData(feederChunk, loadedData))'
    BY <2>1 DEF ContentInv, Backed
  <2>7. \A i \in consumed : i < nextID' /\ i \in Int
    BY <1>0, <2>1, BoundsAssumption DEF ContentInv, ChunkID
  <2> QED
    BY <2>1, <2>5, <2>6, <2>7 DEF ContentInv
<1>4. ASSUME NEW c \in InAgent, ~c.saved, NEW x, disk' = [disk EXCEPT ![c.id] = x],
             InAgent' = InAgent \ {c}, UNCHANGED <<nextID, consumed, undeletedEver>>,
             feederPC' = "push" =>
                feederPC = "push" /\ feederChunk # c /\ UNCHANGED <<feederChunk, loadedData>>
      PROVE  ContentInv'
  <2>1. c.id \notin consumed /\ \A i \in ChunkID : i # c.id => disk'[i] = disk[i]
    BY <1>0, <1>4 DEF ContentInv, Backed
  <2>2. InAgent' \subseteq (InAgent \ {c}) \cup {}
    BY <1>4
  <2> QED
    <3>1. OneConcerned(c, {})
      BY <1>4, <2>1, <2>2 DEF OneConcerned
    <3> QED
      BY <1>0, <3>1, ContentRule
<1>5. CASE AcceptWrite
  <2>1. /\ accepting \in InAgent /\ accepting \in Chunk /\ ~accepting.saved /\ acceptPC = "write"
        /\ \/ WriteChunkFile(accepting) /\ InAgent' = (InAgent \ {accepting}) \cup {Unloaded(accepting)}
           \/ WriteChunkFileFails(accepting) /\ InAgent' = InAgent \ {accepting}
        /\ UNCHANGED <<nextID, consumed, undeletedEver, feederPC, feederChunk, loadedData>>
    BY <1>0, <1>5, AcceptWriteMoves, ChunksInAgent DEF AcceptWrite, FilesNeedDir
  <2>2. \E x : disk' = [disk EXCEPT ![accepting.id] = x]
    BY <2>1 DEF WriteChunkFile, WriteChunkFileFails
  <2>3. feederPC' = "push" => feederChunk # accepting
    <3>1. feederPC = "push" => feederChunk \in AtFeeder
      BY <1>0 DEF AtFeeder, IInv, ChunkVariables
    <3>2. accepting \in AtAccept
      BY <2>1, NoChunkIsNoChunk DEF AtAccept
    <3>3. accepting.id \in Int
      BY <2>1, ChunkIDIsInt
    <3> QED
      BY <1>0, <2>1, <3>1, <3>2, <3>3 DEF OneEach, InLine, Before
  <2>4. PICK c \in InAgent : c = accepting
    BY <2>1
  <2>5. CASE InAgent' = InAgent \ {accepting}
    BY <1>4, <2>1, <2>2, <2>3, <2>4, <2>5
  <2>6. CASE InAgent' = (InAgent \ {accepting}) \cup {Unloaded(accepting)}
    <3>1. PICK d : d = Unloaded(accepting)
      OBVIOUS
    <3>2. d.saved /\ d.data = "nil"
      BY <2>1, <3>1 DEF Unloaded, Chunk
    <3>3. Backed(d)'
      BY <3>2, DataLenRange DEF Backed, DataLen, FullLen
    <3>4. InAgent' \subseteq (InAgent \ {c}) \cup {d} /\ \A e \in {d} : Backed(e)'
      BY <2>4, <2>6, <3>1, <3>3
    <3>5. c.id \notin consumed /\ \A i \in ChunkID : i # c.id => disk'[i] = disk[i]
      BY <1>0, <2>1, <2>2, <2>4 DEF ContentInv, Backed
    <3> QED
      <4>1. OneConcerned(c, {d})
        BY <2>1, <2>3, <2>4, <3>4, <3>5 DEF OneConcerned
      <4> QED
        BY <1>0, <4>1, ContentRule
  <2> QED
    BY <2>1, <2>5, <2>6
<1>6. ASSUME NEW c \in InAgent, InAgent' \subseteq InAgent, UNCHANGED <<nextID, disk, consumed, undeletedEver>>,
             feederPC' = "push" => feederPC = "push" /\ UNCHANGED <<feederChunk, loadedData>>
      PROVE  ContentInv'
  BY <1>6 DEF ContentInv, Backed
<1>7. CASE AcceptSend
  BY <1>0, <1>6, <1>7, AcceptSendMoves DEF AcceptSend
<1>8. CASE FeederLoad
  <2>1. PICK d \in LoadResults(feederChunk) :
           /\ AfterLoad(d)
           /\ \/ d \in {"none", "empty"} /\ InAgent' = InAgent \ {feederChunk}
              \/ d \in {"part", "full"} /\ InAgent' = InAgent
    BY <1>0, <1>8, FeederLoadMoves
  <2>2. /\ feederChunk \in InAgent /\ feederChunk \in Chunk /\ Unloadable(feederChunk) /\ feederPC = "load"
        /\ UNCHANGED <<nextID, consumed>>
    BY <1>0, <1>8, FeederLoadMoves DEF FeederLoad, IInv, FirstHalf
  <2>3. Backed(feederChunk)
    BY <2>2 DEF ContentInv
  <2>4. CASE d \in {"part", "full"}
    <3>1. /\ UNCHANGED <<disk, feederChunk, undeletedEver>> /\ InAgent' = InAgent
          /\ loadedData' = d /\ feederPC' = "push"
      BY <2>1, <2>4 DEF AfterLoad
    <3>2. PICK e : e = WithData(feederChunk, d)
      OBVIOUS
    <3>3. e.id = feederChunk.id /\ e.saved = feederChunk.saved /\ e.data = d
      BY <2>2, <3>2 DEF WithData, Chunk
    <3>4. IF feederChunk.saved THEN d = disk[feederChunk.id] ELSE d = "full"
      BY <2>1, <2>2, <2>4, NoChunkIsNoChunk DEF LoadResults, Unloadable
    <3>5. Backed(e)'
      BY <2>2, <2>3, <3>1, <3>3, <3>4, DataLenRange DEF Backed, FullLen
    <3>6. Backed(WithData(feederChunk, loadedData))'
      BY <3>1, <3>2, <3>5 DEF Backed
    <3>7. \A c \in InAgent' : Backed(c)'
      BY <2>2, <3>1 DEF ContentInv, Backed
    <3> QED
      BY <2>2, <3>1, <3>6, <3>7 DEF ContentInv
  <2>5. CASE d \in {"none", "empty"}
    <3>1. InAgent' = InAgent \ {feederChunk} /\ feederPC' = "recv" /\ undeletedEver \subseteq undeletedEver'
      BY <2>1, <2>5 DEF AfterLoad, RemoveChunk
    <3>2. \A i \in ChunkID : i # feederChunk.id => disk'[i] = disk[i]
      <4>1. WithData(feederChunk, d).id = feederChunk.id
        BY <2>2 DEF WithData, Chunk
      <4> QED
        BY <1>0, <2>1, <2>5, <4>1, RemoveChunkFiles DEF AfterLoad
    <3>3. disk'[feederChunk.id] # "none" => disk[feederChunk.id] # "none"
      <4>1. WithData(feederChunk, d).id = feederChunk.id /\ feederChunk.id \in ChunkID
        BY <2>2 DEF WithData, Chunk
      <4> QED
        BY <1>0, <2>1, <2>5, <4>1 DEF AfterLoad, RemoveChunk
    <3>4. PICK c \in InAgent : c = feederChunk
      BY <2>2
    <3>5. InAgent' \subseteq (InAgent \ {c}) \cup {} /\ \A e \in {} : Backed(e)'
      BY <3>1, <3>4
    <3>6. c.id \in consumed' => (disk'[c.id] # "none" => c.id \in undeletedEver')
      BY <2>2, <3>1, <3>3, <3>4 DEF ContentInv
    <3>7. consumed' \subseteq consumed \cup {c.id} /\ feederPC' # "push" /\ nextID' = nextID
      BY <2>2, <3>1
    <3> QED
      <4>1. OneConcerned(c, {})
        BY <3>1, <3>2, <3>4, <3>5, <3>6, <3>7 DEF OneConcerned
      <4> QED
        BY <1>0, <4>1, ContentRule
  <2> QED
    BY <2>1, <2>4, <2>5
<1>9. CASE FeederPush
  <2>1. PICK d : d = WithData(feederChunk, loadedData)
    OBVIOUS
  <2>2. /\ feederChunk \in InAgent /\ InAgent' = (InAgent \ {feederChunk}) \cup {d}
        /\ UNCHANGED <<nextID, disk, consumed, undeletedEver>> /\ feederPC' = "recv" /\ feederPC = "push"
    BY <1>0, <1>9, <2>1, FeederPushMoves DEF FeederPush
  <2>3. Backed(d)
    BY <2>1, <2>2 DEF ContentInv
  <2> QED
    BY <2>2, <2>3 DEF ContentInv, Backed
<1>10. CASE FeederSave
  <2>1. InAgent' \subseteq InAgent /\ UNCHANGED <<nextID, disk, consumed, undeletedEver>> /\ feederPC' # "push"
    <3>1. InAgent' \subseteq InAgent
      BY <1>0, <1>10, FeederSaveMoves
    <3> QED
      BY <1>10, <3>1 DEF FeederSave, BeginUnload
  <2> QED
    BY <2>1 DEF ContentInv, Backed
<1>11. CASE FeederSaveWrite
  <2>1. /\ feederChunk \in InAgent /\ feederChunk \in Chunk /\ ~feederChunk.saved
        /\ InAgent' = InAgent \ {feederChunk}
        /\ WriteChunkFile(feederChunk) \/ WriteChunkFileFails(feederChunk)
        /\ UNCHANGED <<nextID, consumed, undeletedEver>> /\ feederPC' # "push"
    BY <1>0, <1>11, FeederSaveWriteMoves DEF FeederSaveWrite, FilesNeedDir
  <2>2. \E x : disk' = [disk EXCEPT ![feederChunk.id] = x]
    BY <2>1 DEF WriteChunkFile, WriteChunkFileFails
  <2> QED
    BY <1>4, <2>1, <2>2
<1>12. ASSUME NEW c \in held, OnChunkConsumed(c) PROVE ContentInv'
  <2>1. /\ c \in InAgent /\ c \in Chunk /\ InAgent' = InAgent \ {c} /\ RemoveChunk(c)
        /\ consumed' = consumed \cup {c.id}
        /\ UNCHANGED <<nextID, feederPC, feederChunk, loadedData>>
    BY <1>0, <1>12, OnChunkConsumedMoves DEF OnChunkConsumed
  <2>2. undeletedEver \subseteq undeletedEver' /\ \A i \in ChunkID : i # c.id => disk'[i] = disk[i]
    BY <1>0, <2>1, RemoveChunkFiles DEF RemoveChunk
  <2>3. Backed(c) /\ (c.saved => hasDir) /\ c.id \in ChunkID
    BY <1>0, <2>1, ChunksInAgent DEF ContentInv, FilesNeedDir
  <2>4. disk'[c.id] # "none" => c.id \in undeletedEver'
    BY <1>0, <2>1, <2>3 DEF RemoveChunk, Backed
  <2>5. feederPC' = "push" => feederChunk # c
    <3>1. feederPC = "push" => feederChunk \in AtFeeder
      BY <1>0 DEF AtFeeder, IInv, ChunkVariables
    <3>2. c \in AtConsumer
      BY <1>0, <1>12, OnChunkConsumedMoves
    <3>3. c.id \in Int
      BY <2>1, ChunkIDIsInt
    <3> QED
      BY <1>0, <2>1, <3>1, <3>2, <3>3 DEF OneEach, InLine, Before
  <2>6. InAgent' \subseteq (InAgent \ {c}) \cup {} /\ \A e \in {} : Backed(e)'
    BY <2>1
  <2> QED
    <3>1. OneConcerned(c, {})
      BY <2>1, <2>2, <2>4, <2>5, <2>6 DEF OneConcerned
    <3> QED
      BY <1>0, <2>1, <3>1, ContentRule
<1>13. ASSUME NEW c \in held, OnChunkLeftover(c) PROVE ContentInv'
  <2>1. /\ c \in InAgent /\ InAgent' \subseteq InAgent
        /\ UNCHANGED <<nextID, disk, consumed, undeletedEver, feederPC, feederChunk, loadedData>>
    BY <1>0, <1>13, OnChunkLeftoverMoves DEF OnChunkLeftover
  <2> QED
    BY <1>6, <2>1
<1>14. CASE LeftoverWrite
  <2>1. /\ leaving \in InAgent /\ leaving \in Chunk /\ InAgent' = InAgent \ {leaving} /\ ~leaving.saved
        /\ leaving \in AtConsumer
        /\ WriteChunkFile(leaving) \/ WriteChunkFileFails(leaving)
        /\ UNCHANGED <<nextID, consumed, undeletedEver, feederPC, feederChunk, loadedData>>
    BY <1>0, <1>14, LeftoverWriteMoves DEF LeftoverWrite, FilesNeedDir
  <2>2. \E x : disk' = [disk EXCEPT ![leaving.id] = x]
    BY <2>1 DEF WriteChunkFile, WriteChunkFileFails
  <2>3. feederPC' = "push" => feederChunk # leaving
    <3>1. feederPC = "push" => feederChunk \in AtFeeder
      BY <1>0 DEF AtFeeder, IInv, ChunkVariables
    <3>2. leaving.id \in Int
      BY <2>1, ChunkIDIsInt
    <3> QED
      BY <1>0, <2>1, <3>1, <3>2 DEF OneEach, InLine, Before
  <2> QED
    BY <1>4, <2>1, <2>2, <2>3
<1>15. CASE Exit
  <2>1. UNCHANGED <<nextID, disk, consumed, undeletedEver>> /\ InAgent' = {} /\ feederPC' = "recv"
    BY <1>15, MemoryGoneMoves DEF Exit, MemoryGone
  <2> QED
    BY <2>1 DEF ContentInv
<1>16. CASE Crash
  <2>1. UNCHANGED <<nextID, consumed, undeletedEver>> /\ InAgent' = {} /\ feederPC' = "recv"
    BY <1>16, MemoryGoneMoves DEF Crash, MemoryGone
  <2>2. PICK written \in [{c.id : c \in InWrite} -> File] :
           disk' = [i \in ChunkID |->
                     IF i \in DOMAIN written /\ written[i] # "none" THEN written[i] ELSE disk[i]]
    BY <1>16 DEF Crash
  <2>3. \A c \in InWrite : c.id \notin consumed
    <3>1. \A c \in InWrite : c \in InAgent /\ ~c.saved
      BY <1>0 DEF InWrite, InAgent, FilesNeedDir
    <3> QED
      BY <3>1 DEF ContentInv, Backed
  <2>4. \A i \in consumed : disk'[i] = disk[i]
    BY <1>0, <2>2, <2>3
  <2> QED
    BY <2>1, <2>4 DEF ContentInv
<1> QED
  BY <1>1, <1>2, <1>3, <1>5, <1>7, <1>8, <1>9, <1>10, <1>11, <1>12, <1>13, <1>14, <1>15, <1>16, StepKinds

\* A process that was never started has consumed nothing.
LEMMA ContentInit == Init => ContentInv
<1>1. Init => InAgent = {}
  BY EmptyFacts DEF Init, InAgent
<1> QED
  BY <1>1 DEF Init, ContentInv

\* In a run chunks reach the consumer in the order of their IDs and none of them twice; and a
\* chunk consumed in this run or an earlier one is not handled again, unless its file stayed.
THEOREM InOrder == Spec => []InOrderOnce
<1>1. Init => AccountInv /\ ContentInv /\ ReceivedInv
  <2>1. Init => InAgent = {} /\ nextID = 1 /\ shelved = {} /\ leftover = {}
    BY EmptyFacts DEF Init, InAgent
  <2> QED
    BY <2>1, ContentInit, ReceivedInit DEF AccountInv, Promised, IDs
<1>2. IInv /\ ChunkInv /\ (AccountInv /\ ContentInv /\ ReceivedInv) /\ [Next]_vars
        => (AccountInv /\ ContentInv /\ ReceivedInv)'
  BY AccountStep, ContentStep, ReceivedStep
<1>3. IInv /\ ChunkInv /\ AccountInv /\ ContentInv /\ ReceivedInv => InOrderOnce
  <2> SUFFICES ASSUME IInv, ChunkInv, AccountInv, ContentInv, ReceivedInv PROVE InOrderOnce
    OBVIOUS
  <2>1. ASSUME NEW c \in InAgent, c.id \in consumed PROVE c.id \in undeletedEver
    <3>1. c.saved
      BY <2>1 DEF ContentInv, Backed
    <3>2. c.id \in HasFile
      BY <3>1 DEF AccountInv, Promised, IDs
    <3> QED
      BY <2>1, <3>2 DEF ContentInv, HasFile
  <2>2. IDs(InAgent) \cap consumed \subseteq undeletedEver
    BY <2>1 DEF IDs
  <2>3. OneEach
    BY DEF ChunkInv
  <2> QED
    BY <2>2, <2>3, QueuedInOrder DEF InOrderOnce
<1> QED
  BY <1>1, <1>2, <1>3, ChunkInvariance, PTL DEF Spec

-----------------------------------------------------------------------------
(* The bytes in the directory *)

\* What SizeOf says of all the files f, a function of the IDs.
BytesOf(f) ==
    Cardinality({j \in ChunkID : f[j] \in {"part", "full"}}) + Cardinality({j \in ChunkID : f[j] = "full"})

\* All files are counted.
LEMMA AllBytes == SizeOf(ChunkID) = BytesOf(disk) /\ SizeOf(ChunkID)' = BytesOf(disk')
  BY DEF SizeOf, BytesOf

\* There are finitely many files.
LEMMA BytesAreInt == ASSUME NEW f PROVE BytesOf(f) \in Int
<1> DEFINE A == {j \in ChunkID : f[j] \in {"part", "full"}}
           B == {j \in ChunkID : f[j] = "full"}
<1>1. A \in SUBSET ChunkID /\ B \in SUBSET ChunkID
  OBVIOUS
<1>2. Cardinality(A) \in Int /\ Cardinality(B) \in Int
  BY <1>1, ChunkIDsAreFinite
<1> QED
  BY <1>2 DEF BytesOf

\* A set of IDs that differs from another in one ID at most.
LEMMA OneMore ==
    ASSUME NEW A \in SUBSET ChunkID, NEW B \in SUBSET ChunkID, NEW i \in ChunkID,
           \A j \in ChunkID : j # i => (j \in A <=> j \in B)
    PROVE  Cardinality(A) + (IF i \in B THEN 1 ELSE 0) = Cardinality(B) + (IF i \in A THEN 1 ELSE 0)
<1>1. /\ IsFiniteSet(A) /\ IsFiniteSet(B) /\ Cardinality(A) \in Nat /\ Cardinality(B) \in Nat
  BY ChunkIDsAreFinite
<1>2. CASE (i \in A /\ i \in B) \/ (i \notin A /\ i \notin B)
  <2>1. A = B
    BY <1>2
  <2> QED
    BY <1>2, <2>1
<1>3. CASE i \in A /\ i \notin B
  <2>1. A = B \cup {i}
    BY <1>3
  <2>2. Cardinality(A) = Cardinality(B) + 1
    BY <1>1, <1>3, <2>1, FS_AddElement
  <2> QED
    BY <1>1, <1>3, <2>2
<1>4. CASE i \notin A /\ i \in B
  <2>1. B = A \cup {i}
    BY <1>4
  <2>2. Cardinality(B) = Cardinality(A) + 1
    BY <1>1, <1>4, <2>1, FS_AddElement
  <2> QED
    BY <1>1, <1>4, <2>2
<1> QED
  BY <1>2, <1>3, <1>4

\* A write or a removal changes the bytes by those of its own file.
LEMMA OneFileBytes ==
    ASSUME NEW f \in [ChunkID -> File], NEW g \in [ChunkID -> File], NEW i \in ChunkID,
           \A j \in ChunkID : j # i => g[j] = f[j]
    PROVE  /\ BytesOf(f) \in Nat /\ BytesOf(g) \in Nat
           /\ BytesOf(g) + DataLen(f[i]) = BytesOf(f) + DataLen(g[i])
<1> DEFINE Sized(h) == {j \in ChunkID : h[j] \in {"part", "full"}}
           Whole(h) == {j \in ChunkID : h[j] = "full"}
<1>1. /\ Cardinality(Sized(f)) \in Nat /\ Cardinality(Sized(g)) \in Nat
      /\ Cardinality(Whole(f)) \in Nat /\ Cardinality(Whole(g)) \in Nat
  <2>1. /\ Sized(f) \in SUBSET ChunkID /\ Sized(g) \in SUBSET ChunkID
        /\ Whole(f) \in SUBSET ChunkID /\ Whole(g) \in SUBSET ChunkID
    OBVIOUS
  <2> QED
    BY <2>1, ChunkIDsAreFinite
<1>2. Cardinality(Sized(f)) + (IF i \in Sized(g) THEN 1 ELSE 0)
        = Cardinality(Sized(g)) + (IF i \in Sized(f) THEN 1 ELSE 0)
  <2>1. \A j \in ChunkID : j # i => (j \in Sized(f) <=> j \in Sized(g))
    OBVIOUS
  <2>2. Sized(f) \in SUBSET ChunkID /\ Sized(g) \in SUBSET ChunkID
    OBVIOUS
  <2> HIDE DEF Sized
  <2> QED
    BY <2>1, <2>2, OneMore
<1>3. Cardinality(Whole(f)) + (IF i \in Whole(g) THEN 1 ELSE 0)
        = Cardinality(Whole(g)) + (IF i \in Whole(f) THEN 1 ELSE 0)
  <2>1. \A j \in ChunkID : j # i => (j \in Whole(f) <=> j \in Whole(g))
    OBVIOUS
  <2>2. Whole(f) \in SUBSET ChunkID /\ Whole(g) \in SUBSET ChunkID
    OBVIOUS
  <2> HIDE DEF Whole
  <2> QED
    BY <2>1, <2>2, OneMore
<1>4. /\ DataLen(f[i]) = (IF i \in Sized(f) THEN 1 ELSE 0) + (IF i \in Whole(f) THEN 1 ELSE 0)
      /\ DataLen(g[i]) = (IF i \in Sized(g) THEN 1 ELSE 0) + (IF i \in Whole(g) THEN 1 ELSE 0)
  BY DEF DataLen
<1>5. BytesOf(f) = Cardinality(Sized(f)) + Cardinality(Whole(f)) /\ BytesOf(g) = Cardinality(Sized(g)) + Cardinality(Whole(g))
  BY DEF BytesOf
<1> HIDE DEF Sized, Whole
<1> QED
  BY <1>1, <1>2, <1>3, <1>4, <1>5

\* The gauge and what the start left out of it are no less than the bytes in the directory.
BytesInv == destroyPC # "down" => SizeOf(ChunkID) <= persistentChunkBytes + uncountedBytes

\* A write that succeeds adds no more bytes than it counts, and one that fails adds none.
LEMMA WriteBytes ==
    ASSUME TypeOK, NEW c \in Chunk, c.data = "full", WriteChunkFile(c) \/ WriteChunkFileFails(c)
    PROVE  /\ SizeOf(ChunkID) \in Int /\ SizeOf(ChunkID)' \in Int /\ persistentChunkBytes' \in Int
           /\ persistentChunkBytes' >= persistentChunkBytes
           /\ SizeOf(ChunkID)' - SizeOf(ChunkID) <= persistentChunkBytes' - persistentChunkBytes
           /\ SizeOf(ChunkID)' - SizeOf(ChunkID) <= DataLen(c.data)
<1>1. /\ c.id \in ChunkID /\ c.data \in File /\ disk \in [ChunkID -> File] /\ persistentChunkBytes \in Int
      /\ DataLen("empty") = 0 /\ \A d : DataLen(d) \in 0..2
      /\ DataLen("part") = 1 /\ DataLen("full") = 2
  BY DataLenRange DEF TypeOK, Chunk, Data, File, DataLen, FullLen
<1>2. PICK x \in File : disk' = [disk EXCEPT ![c.id] = x] /\
               \/ /\ x = c.data \/ x = "part"
                  /\ persistentChunkBytes' = persistentChunkBytes + DataLen(c.data)
                  /\ WriteChunkFile(c)
               \/ (x = disk[c.id] \/ x = "empty") /\ persistentChunkBytes' = persistentChunkBytes
  <2>1. CASE WriteChunkFile(c)
    BY <1>1, <2>1 DEF WriteChunkFile, File
  <2>2. CASE WriteChunkFileFails(c)
    BY <1>1, <2>2 DEF WriteChunkFileFails, diskGauges, File
  <2> QED
    BY <2>1, <2>2
<1>3. disk' \in [ChunkID -> File] /\ disk'[c.id] = x /\ \A j \in ChunkID : j # c.id => disk'[j] = disk[j]
  BY <1>1, <1>2
<1>4. /\ BytesOf(disk) \in Nat /\ BytesOf(disk') \in Nat
      /\ BytesOf(disk') + DataLen(disk[c.id]) = BytesOf(disk) + DataLen(x)
  BY <1>1, <1>3, OneFileBytes
<1> QED
  BY <1>1, <1>2, <1>4, AllBytes

\* Every chunk that is being written is complete.
LEMMA InWriteIsFull ==
    ASSUME IInv, ChunkInv, ContentInv
    PROVE  \A c \in InWrite : c \in InAgent /\ c \in Chunk /\ ~c.saved /\ c.data = "full" /\ disk[c.id] = "none"
<1>1. \A c \in InWrite : c \in InAgent /\ ~c.saved
  BY DEF ChunkInv, FilesNeedDir, InWrite, InAgent
<1> QED
  BY <1>1, ChunksInAgent DEF IInv, ContentInv, Backed

\* Whatever a run writes or removes it counts, and what it found and did not count is remembered.
LEMMA BytesStep == IInv /\ ChunkInv /\ ContentInv /\ BytesInv /\ [Next]_vars => BytesInv'
<1> SUFFICES ASSUME IInv, ChunkInv, ContentInv, BytesInv, [Next]_vars, destroyPC' # "down"
             PROVE  SizeOf(ChunkID)' <= persistentChunkBytes' + uncountedBytes'
  BY DEF BytesInv
<1> USE DEF acceptVars, runHistory
<1>0. /\ TypeOK /\ IInv' /\ OneEach /\ FilesNeedDir
      /\ disk \in [ChunkID -> File] /\ disk' \in [ChunkID -> File]
      /\ persistentChunkBytes \in Int /\ persistentChunkBytes' \in Int
      /\ uncountedBytes \in Int /\ uncountedBytes' \in Int
      /\ SizeOf(ChunkID) \in Int /\ SizeOf(ChunkID)' \in Int
  <2>1. TypeOK /\ IInv' /\ OneEach /\ FilesNeedDir
    BY StepInvariant DEF IInv, ChunkInv
  <2>2. TypeOK'
    BY <2>1 DEF IInv
  <2>3. SizeOf(ChunkID) \in Int
    BY SizeIsInt
  <2>4. SizeOf(ChunkID)' \in Int
    BY AllBytes, BytesAreInt
  <2> QED
    BY <2>1, <2>2, <2>3, <2>4 DEF TypeOK
<1>1. CASE Start
  <2>1. \E stated \in SUBSET ChunkID :
           persistentChunkBytes' = SizeOf(stated) /\ uncountedBytes' = SizeOf(ChunkID) - SizeOf(stated)
    <3>1. PICK found \in SUBSET ChunkID :
            \E list \in SortedList(found) : RecoverExistingChunks(Recovered(list))
      BY <1>1 DEF Start, ScanResult
    <3>2. PICK list \in SortedList(found) : RecoverExistingChunks(Recovered(list))
      BY <3>1
    <3>3. Recovered(list) \in Seq(ChunkID)
      BY RecoveredFits
    <3>4. ToSet(Recovered(list)) \in SUBSET ChunkID
      BY <3>3 DEF ToSet
    <3> QED
      BY <3>2, <3>4 DEF RecoverExistingChunks
  <2>2. SizeOf(ChunkID)' = SizeOf(ChunkID)
    BY <1>1, AllBytes DEF Start
  <2>3. \A stated \in SUBSET ChunkID : SizeOf(stated) \in Int
    BY SizeIsInt
  <2> QED
    BY <1>0, <2>1, <2>2, <2>3
<1>2. ASSUME ~Start PROVE destroyPC # "down" /\ uncountedBytes' = uncountedBytes
  <2>1. ~Exit /\ ~Crash /\ (destroyPC = "down" => Settled = {})
    BY DEF Exit, Crash, MemoryGone, ChunkInv, EndOfRun
  <2>2. uncountedBytes' = uncountedBytes
    BY <1>2, <2>1, StepKinds
    DEF QuietStep, AcceptBegin, AcceptWrite, AcceptSend, FeederLoad, FeederPush, FeederSave,
        FeederSaveWrite, OnChunkConsumed, OnChunkLeftover, LeftoverWrite, vars, feederStepUnchanged,
        destroyUnchanged, DestroyBegin, WaitPendingChunks, DestroyClose, DestroySignal, DestroyEnd,
        FeederReceive, FeederInputEnded, FeederAbort, FeederCloseOutput, FeederSignalOutput,
        FeederStop, ConsumerReceive, ConsumerLeave, ConsumerFinish
  <2>3. destroyPC # "down"
    BY <1>2, <2>1, StepKinds
    DEF QuietStep, AcceptBegin, AcceptWrite, AcceptSend, FeederLoad, FeederPush, FeederSave,
        FeederSaveWrite, OnChunkConsumed, OnChunkLeftover, LeftoverWrite, vars, feederStepUnchanged,
        destroyUnchanged, DestroyBegin, WaitPendingChunks, DestroyClose, DestroySignal, DestroyEnd,
        FeederReceive, FeederInputEnded, FeederAbort, FeederCloseOutput, FeederSignalOutput,
        FeederStop, ConsumerReceive, ConsumerLeave, ConsumerFinish
  <2> QED
    BY <2>2, <2>3
<1>3. ASSUME ~Start PROVE SizeOf(ChunkID) <= persistentChunkBytes + uncountedBytes
  BY <1>2, <1>3 DEF BytesInv
<1>4. ASSUME ~Start, UNCHANGED disk, persistentChunkBytes' = persistentChunkBytes
      PROVE  SizeOf(ChunkID)' <= persistentChunkBytes' + uncountedBytes'
  BY <1>2, <1>3, <1>4, AllBytes
<1>5. ASSUME ~Start, NEW c \in Chunk, c.data = "full", WriteChunkFile(c) \/ WriteChunkFileFails(c)
      PROVE  SizeOf(ChunkID)' <= persistentChunkBytes' + uncountedBytes'
  BY <1>0, <1>2, <1>3, <1>5, WriteBytes
<1>6. ASSUME ~Start, NEW c, c.id \in ChunkID, RemoveChunk(c), c.saved => DataLen(c.data) <= DataLen(disk[c.id])
      PROVE  SizeOf(ChunkID)' <= persistentChunkBytes' + uncountedBytes'
  <2>1. CASE UNCHANGED <<disk, persistentChunkBytes>>
    BY <1>4, <1>6, <2>1
  <2>2. CASE ~UNCHANGED <<disk, persistentChunkBytes>>
    <3>1. /\ c.saved /\ disk' = [disk EXCEPT ![c.id] = "none"]
          /\ persistentChunkBytes' = persistentChunkBytes - DataLen(c.data)
      BY <1>6, <2>2 DEF RemoveChunk, diskGauges
    <3>2. disk'[c.id] = "none" /\ \A j \in ChunkID : j # c.id => disk'[j] = disk[j]
      BY <1>0, <1>6, <3>1
    <3>3. BytesOf(disk') + DataLen(disk[c.id]) = BytesOf(disk) + DataLen("none")
      BY <1>0, <1>6, <3>2, OneFileBytes
    <3>4. DataLen("none") = 0 /\ DataLen(c.data) \in Int /\ DataLen(disk[c.id]) \in Int
      BY DataLenIsInt DEF DataLen
    <3>5. BytesOf(disk) \in Int /\ BytesOf(disk') \in Int
      BY <1>0, AllBytes
    <3> QED
      BY <1>0, <1>2, <1>3, <1>6, <3>1, <3>3, <3>4, <3>5, AllBytes
  <2> QED
    BY <2>1, <2>2
<1>7. CASE QuietStep
  <2>1. UNCHANGED <<disk, persistentChunkBytes>> /\ destroyPC' # "down"
    BY <1>0, <1>7, QuietSteps DEF SameBooks, diskGauges
  <2>2. Start \/ ~Start
    OBVIOUS
  <2> QED
    BY <1>1, <1>4, <2>1, <2>2
<1>8. ASSUME ~Start, NEW c \in Chunk, c.data = "nil", OnChunkDropped(c), UNCHANGED disk
      PROVE  SizeOf(ChunkID)' <= persistentChunkBytes' + uncountedBytes'
  <2>1. persistentChunkBytes' = persistentChunkBytes
    BY <1>0, <1>8 DEF OnChunkDropped, DataLen, diskGauges
  <2> QED
    BY <1>4, <1>8, <2>1
<1>9. CASE AcceptBegin /\ ~Start
  BY <1>4, <1>9 DEF AcceptBegin, diskGauges
<1>10. CASE AcceptWrite /\ ~Start
  <2>1. accepting \in InWrite /\ (WriteChunkFile(accepting) \/ WriteChunkFileFails(accepting))
    BY <1>10, NoChunkIsNoChunk DEF AcceptWrite, InWrite, IInv, ChunkVariables
  <2>2. accepting \in Chunk /\ accepting.data = "full"
    BY <2>1, InWriteIsFull
  <2> QED
    BY <1>5, <1>10, <2>1, <2>2
<1>11. CASE AcceptSend /\ ~Start
  <2>1. accepting \in Chunk /\ Unloadable(accepting)
    BY <1>0, <1>11, NoChunkIsNoChunk DEF AcceptSend, IInv, TypeOK, ChunkVariables, FirstHalf
  <2>2. UNCHANGED disk /\ persistentChunkBytes' = persistentChunkBytes
    BY <1>0, <1>11, <2>1, NoChunkIsNoChunk DEF AcceptSend, OnChunkDropped, Unloadable, DataLen, diskGauges
  <2> QED
    BY <1>4, <1>11, <2>2
<1>12. CASE FeederLoad /\ ~Start
  <2>1. feederChunk \in Chunk /\ Unloadable(feederChunk) /\ feederChunk.id \in ChunkID
    BY <1>0, <1>12, NoChunkIsNoChunk DEF FeederLoad, IInv, TypeOK, ChunkVariables, FirstHalf, Chunk
  <2>2. PICK d \in LoadResults(feederChunk) : AfterLoad(d)
    BY <1>12 DEF FeederLoad
  <2>3. CASE d = "none"
    <3>1. UNCHANGED disk /\ OnChunkDropped(feederChunk)
      BY <2>2, <2>3 DEF AfterLoad
    <3>2. persistentChunkBytes' = persistentChunkBytes
      BY <1>0, <2>1, <3>1, NoChunkIsNoChunk DEF OnChunkDropped, Unloadable, DataLen, diskGauges
    <3> QED
      BY <1>4, <1>12, <3>1, <3>2
  <2>4. CASE d = "empty"
    <3>1. PICK c : c = WithData(feederChunk, d)
      OBVIOUS
    <3>2. c.id \in ChunkID /\ c.data = "empty" /\ RemoveChunk(c)
      BY <2>1, <2>2, <2>4, <3>1 DEF AfterLoad, WithData, Chunk
    <3>3. DataLen(c.data) <= DataLen(disk[c.id])
      BY <3>2, DataLenRange DEF DataLen, FullLen
    <3> QED
      BY <1>6, <1>12, <3>2, <3>3
  <2>5. CASE d \in {"part", "full"}
    BY <1>4, <1>12, <2>2, <2>5 DEF AfterLoad, diskGauges
  <2> QED
    BY <2>2, <2>3, <2>4, <2>5 DEF AfterLoad
<1>13. CASE FeederPush /\ ~Start
  BY <1>4, <1>13 DEF FeederPush, diskGauges
<1>14. CASE FeederSave /\ ~Start
  <2>1. PICK c \in Chunk : BeginUnload(c)
    BY <1>14 DEF FeederSave
  <2>2. UNCHANGED disk /\ persistentChunkBytes' = persistentChunkBytes
    BY <1>14, <2>1 DEF FeederSave, BeginUnload, OnChunkDropped, diskGauges
  <2> QED
    BY <1>4, <1>14, <2>2
<1>15. CASE FeederSaveWrite /\ ~Start
  <2>1. feederChunk \in InWrite /\ (WriteChunkFile(feederChunk) \/ WriteChunkFileFails(feederChunk))
    BY <1>15, NoChunkIsNoChunk DEF FeederSaveWrite, InWrite, IInv, ChunkVariables
  <2>2. feederChunk \in Chunk /\ feederChunk.data = "full"
    BY <2>1, InWriteIsFull
  <2> QED
    BY <1>5, <1>15, <2>1, <2>2
<1>16. ASSUME NEW c \in held, OnChunkConsumed(c), ~Start
       PROVE  SizeOf(ChunkID)' <= persistentChunkBytes' + uncountedBytes'
  <2>1. c \in InAgent /\ c.id \in ChunkID /\ RemoveChunk(c)
    BY <1>0, <1>16, OnChunkConsumedMoves, ChunksInAgent DEF OnChunkConsumed
  <2>2. c.saved => DataLen(c.data) <= DataLen(disk[c.id])
    BY <2>1 DEF ContentInv, Backed
  <2> QED
    BY <1>6, <1>16, <2>1, <2>2
<1>17. ASSUME NEW c \in held, OnChunkLeftover(c), ~Start
       PROVE  SizeOf(ChunkID)' <= persistentChunkBytes' + uncountedBytes'
  BY <1>4, <1>17 DEF OnChunkLeftover, diskGauges
<1>18. CASE LeftoverWrite /\ ~Start
  <2>1. leaving \in InWrite /\ (WriteChunkFile(leaving) \/ WriteChunkFileFails(leaving))
    BY <1>18 DEF LeftoverWrite, InWrite
  <2>2. leaving \in Chunk /\ leaving.data = "full"
    BY <2>1, InWriteIsFull
  <2> QED
    BY <1>5, <1>18, <2>1, <2>2
<1>19. ~Exit /\ ~Crash
  BY DEF Exit, Crash, MemoryGone
<1> QED
  BY <1>1, <1>7, <1>9, <1>10, <1>11, <1>12, <1>13, <1>14, <1>15, <1>16, <1>17, <1>18, <1>19, StepKinds

\* With the bytes in writing no more than one chunk above the limit, so are those in the directory.
LEMMA GrowthStep ==
    IInv /\ ChunkInv /\ ContentInv /\ SpaceInv /\ BytesInv /\ [Next]_vars
      => (runs' = runs /\ SizeOf(ChunkID)' > SizeOf(ChunkID)
            => SizeOf(ChunkID)' <= MaxTotalBytes + FullLen + uncountedBytes)
<1> SUFFICES ASSUME IInv, ChunkInv, ContentInv, SpaceInv, BytesInv, [Next]_vars,
                    runs' = runs, SizeOf(ChunkID)' > SizeOf(ChunkID)
             PROVE  SizeOf(ChunkID)' <= MaxTotalBytes + FullLen + uncountedBytes
  OBVIOUS
<1> USE DEF acceptVars, runHistory
<1>0. /\ TypeOK /\ IInv' /\ OneEach /\ FilesNeedDir
      /\ disk \in [ChunkID -> File] /\ disk' \in [ChunkID -> File]
      /\ persistentChunkBytes \in Int /\ MaxTotalBytes \in Int /\ FullLen = 2
      /\ uncountedBytes \in Int
      /\ SizeOf(ChunkID) \in Int /\ SizeOf(ChunkID)' \in Int
  <2>1. TypeOK /\ IInv' /\ OneEach /\ FilesNeedDir
    BY StepInvariant DEF IInv, ChunkInv
  <2>2. TypeOK'
    BY <2>1 DEF IInv
  <2>3. SizeOf(ChunkID) \in Int
    BY SizeIsInt
  <2>4. SizeOf(ChunkID)' \in Int
    BY AllBytes, BytesAreInt
  <2>5. FullLen = 2 /\ MaxTotalBytes \in Int
    BY BoundsAssumption DEF FullLen, DataLen
  <2> QED
    BY <2>1, <2>2, <2>3, <2>4, <2>5 DEF TypeOK
<1>1. disk' # disk
  BY <1>0, AllBytes
<1>2. /\ \A d : DataLen(d) \in 0..2
      /\ DataLen("full") = 2
  BY DataLenRange DEF FullLen, DataLen
<1>3. \A c \in InWrite : c \in InAgent /\ c \in Chunk /\ ~c.saved /\ c.data = "full" /\ disk[c.id] = "none"
  BY InWriteIsFull
<1>4. /\ acceptPC = "write" => accepting \in InWrite /\ accepting # NoChunk
      /\ feederPC = "write" => feederChunk \in InWrite /\ feederChunk # NoChunk
      /\ leaving # NoChunk => leaving \in InWrite
  BY DEF InWrite, IInv, ChunkVariables
<1>5. InWrite # {} => destroyPC # "down"
  BY DEF InWrite, IInv, ChunkVariables, ShutdownOrder, InputChannelClosed
<1>6. InWrite # {} => SizeOf(ChunkID) <= persistentChunkBytes + uncountedBytes
  BY <1>5 DEF BytesInv
<1>7. BytesInWrite = (IF acceptPC = "write" THEN 2 ELSE 0) + (IF feederPC = "write" THEN 2 ELSE 0)
                       + (IF leaving # NoChunk THEN 2 ELSE 0)
  BY <1>2, <1>3, <1>4 DEF BytesInWrite
<1>8. InWrite # {} => persistentChunkBytes + BytesInWrite <= MaxTotalBytes + FullLen
  BY DEF SpaceInv, InWrite
<1>9. ASSUME NEW c \in InWrite, WriteChunkFile(c) \/ WriteChunkFileFails(c), BytesInWrite >= 2
      PROVE  SizeOf(ChunkID)' <= MaxTotalBytes + FullLen + uncountedBytes
  <2>1. SizeOf(ChunkID)' - SizeOf(ChunkID) <= DataLen(c.data) /\ DataLen(c.data) = 2
    BY <1>0, <1>2, <1>3, <1>9, WriteBytes
  <2>2. BytesInWrite \in Int
    BY <1>7
  <2> QED
    BY <1>0, <1>6, <1>8, <1>9, <2>1, <2>2
<1>10. CASE AcceptWrite
  <2>1. acceptPC = "write" /\ (WriteChunkFile(accepting) \/ WriteChunkFileFails(accepting))
    BY <1>10 DEF AcceptWrite
  <2>2. BytesInWrite >= 2
    BY <1>7, <2>1
  <2> QED
    BY <1>4, <1>9, <2>1, <2>2
<1>11. CASE FeederSaveWrite
  <2>1. feederPC = "write" /\ (WriteChunkFile(feederChunk) \/ WriteChunkFileFails(feederChunk))
    BY <1>11 DEF FeederSaveWrite
  <2>2. BytesInWrite >= 2
    BY <1>7, <2>1
  <2> QED
    BY <1>4, <1>9, <2>1, <2>2
<1>12. CASE LeftoverWrite
  <2>1. leaving # NoChunk /\ (WriteChunkFile(leaving) \/ WriteChunkFileFails(leaving))
    BY <1>12 DEF LeftoverWrite
  <2>2. BytesInWrite >= 2
    BY <1>7, <2>1
  <2> QED
    BY <1>4, <1>9, <2>1, <2>2
<1>13. ASSUME NEW c, c.id \in ChunkID, RemoveChunk(c) PROVE FALSE
  <2>1. disk' = [disk EXCEPT ![c.id] = "none"]
    BY <1>1, <1>13 DEF RemoveChunk
  <2>2. disk'[c.id] = "none" /\ \A j \in ChunkID : j # c.id => disk'[j] = disk[j]
    BY <1>0, <1>13, <2>1
  <2>3. BytesOf(disk') + DataLen(disk[c.id]) = BytesOf(disk) + DataLen("none")
    BY <1>0, <1>13, <2>2, OneFileBytes
  <2>4. DataLen("none") = 0 /\ DataLen(disk[c.id]) \in 0..2
    BY <1>2 DEF DataLen
  <2>5. BytesOf(disk) \in Int /\ BytesOf(disk') \in Int /\ BytesOf(disk') > BytesOf(disk)
    BY <1>0, AllBytes
  <2> QED
    BY <2>3, <2>4, <2>5
<1>14. CASE FeederLoad
  <2>1. feederChunk \in Chunk
    BY <1>0, <1>14, FeederLoadMoves
  <2>2. PICK d \in LoadResults(feederChunk) : AfterLoad(d)
    BY <1>14 DEF FeederLoad
  <2>3. RemoveChunk(WithData(feederChunk, d))
    BY <1>1, <2>2 DEF AfterLoad
  <2>4. WithData(feederChunk, d).id \in ChunkID
    BY <2>1 DEF WithData, Chunk
  <2> QED
    BY <1>13, <2>3, <2>4
<1>15. ASSUME NEW c \in held, OnChunkConsumed(c) PROVE FALSE
  <2>1. c.id \in ChunkID /\ RemoveChunk(c)
    BY <1>0, <1>15, OnChunkConsumedMoves, ChunksInAgent DEF OnChunkConsumed
  <2> QED
    BY <1>13, <2>1
<1>16. CASE Crash
  <2>1. PICK written \in [{c.id : c \in InWrite} -> File] :
           disk' = [i \in ChunkID |->
                     IF i \in DOMAIN written /\ written[i] # "none" THEN written[i] ELSE disk[i]]
    BY <1>16 DEF Crash
  <2>2. \A i \in ChunkID : i \notin {c.id : c \in InWrite} => disk'[i] = disk[i]
    BY <2>1
  <2> DEFINE a == IF feederPC = "write" THEN feederChunk ELSE accepting
             inputWrites == acceptPC = "write" \/ feederPC = "write"
  <2>3. /\ inputWrites => a \in InWrite
        /\ \A c \in InWrite : (inputWrites /\ c = a) \/ (leaving # NoChunk /\ c = leaving)
    BY <1>4, OneInputWriter DEF InWrite
  <2>4. BytesInWrite = (IF inputWrites THEN 2 ELSE 0) + (IF leaving # NoChunk THEN 2 ELSE 0)
    BY <1>7, OneInputWriter
  <2> DEFINE h == [j \in ChunkID |-> IF inputWrites /\ j = a.id THEN disk'[j] ELSE disk[j]]
  <2>5. h \in [ChunkID -> File]
    BY <1>0
  <2>6. BytesOf(h) \in Int /\ BytesOf(disk) \in Int
        /\ BytesOf(h) <= BytesOf(disk) + (IF inputWrites THEN 2 ELSE 0)
    <3>1. CASE inputWrites
      <4>1. a.id \in ChunkID /\ \A j \in ChunkID : j # a.id => h[j] = disk[j]
        BY <1>3, <2>3, <3>1 DEF Chunk
      <4>2. /\ BytesOf(disk) \in Nat /\ BytesOf(h) \in Nat
            /\ BytesOf(h) + DataLen(disk[a.id]) = BytesOf(disk) + DataLen(h[a.id])
        <5> HIDE DEF h, a
        <5> QED
          BY <1>0, <2>5, <4>1, OneFileBytes
      <4>3. DataLen(disk[a.id]) \in 0..2 /\ DataLen(h[a.id]) \in 0..2
        BY <1>2
      <4> HIDE DEF h, a
      <4> QED
        BY <3>1, <4>2, <4>3
    <3>2. CASE ~inputWrites
      <4>1. h = disk
        BY <1>0, <3>2
      <4>2. BytesOf(disk) \in Int
        BY <1>0, AllBytes
      <4> HIDE DEF h
      <4> QED
        BY <3>2, <4>1, <4>2
    <3> QED
      BY <3>1, <3>2
  <2>7. BytesOf(disk') \in Int /\ BytesOf(disk') <= BytesOf(h) + (IF leaving # NoChunk THEN 2 ELSE 0)
    <3>1. CASE leaving # NoChunk
      <4>1. leaving.id \in ChunkID /\ \A j \in ChunkID : j # leaving.id => disk'[j] = h[j]
        <5>1. leaving.id \in ChunkID
          BY <1>3, <1>4, <3>1 DEF Chunk
        <5>2. ASSUME NEW j \in ChunkID, j # leaving.id, ~(inputWrites /\ j = a.id) PROVE disk'[j] = disk[j]
          <6>1. j \notin {c.id : c \in InWrite}
            BY <2>3, <5>2
          <6> QED
            BY <2>2, <6>1
        <5> QED
          BY <5>1, <5>2
      <4>2. /\ BytesOf(h) \in Nat /\ BytesOf(disk') \in Nat
            /\ BytesOf(disk') + DataLen(h[leaving.id]) = BytesOf(h) + DataLen(disk'[leaving.id])
        <5> HIDE DEF h
        <5> QED
          BY <1>0, <2>5, <4>1, OneFileBytes
      <4>3. DataLen(h[leaving.id]) \in 0..2 /\ DataLen(disk'[leaving.id]) \in 0..2
        BY <1>2
      <4> HIDE DEF h
      <4> QED
        BY <3>1, <4>2, <4>3
    <3>2. CASE leaving = NoChunk
      <4>1. \A j \in ChunkID : disk'[j] = h[j]
        <5>1. ASSUME NEW j \in ChunkID, ~(inputWrites /\ j = a.id) PROVE disk'[j] = disk[j]
          <6>1. j \notin {c.id : c \in InWrite}
            BY <2>3, <3>2, <5>1
          <6> QED
            BY <2>2, <6>1
        <5> QED
          BY <5>1
      <4>2. disk' = h
        BY <1>0, <2>5, <4>1
      <4> HIDE DEF h
      <4> QED
        BY <2>6, <3>2, <4>2
    <3> QED
      BY <3>1, <3>2
  <2>8. InWrite # {}
    BY <1>0, <1>1, <2>2
  <2> HIDE DEF h, a, inputWrites
  <2> QED
    BY <1>0, <1>6, <1>8, <2>4, <2>6, <2>7, <2>8, AllBytes
<1>17. ~QuietStep
  BY <1>0, <1>1, QuietSteps DEF SameBooks
<1>18. ~Start /\ ~Exit /\ ~AcceptBegin /\ ~AcceptSend /\ ~FeederPush /\ ~FeederSave
       /\ \A c \in held : ~OnChunkLeftover(c)
  BY <1>1 DEF Start, Exit, AcceptBegin, AcceptSend, FeederPush, FeederSave, OnChunkLeftover
<1> QED
  BY <1>10, <1>11, <1>12, <1>14, <1>15, <1>16, <1>17, <1>18, StepKinds

\* No step of a run, and no crash in the middle of its writes, takes the bytes in the directory
\* further than one chunk above the limit, beside those that the start did not count.
THEOREM OvershootBounded == Spec => SpaceOvershootBounded
<1> DEFINE Bounded == runs' = runs /\ SizeOf(ChunkID)' > SizeOf(ChunkID)
                        => SizeOf(ChunkID)' <= MaxTotalBytes + FullLen + uncountedBytes
<1>1. Init => ContentInv /\ SpaceInv /\ BytesInv
  BY ContentInit, NoChunkIsNoChunk DEF Init, SpaceInv, BytesInv
<1>2. IInv /\ ChunkInv /\ (ContentInv /\ SpaceInv /\ BytesInv) /\ [Next]_vars
        => (ContentInv /\ SpaceInv /\ BytesInv)'
  BY ContentStep, SpaceStep, BytesStep
<1>3. IInv /\ ChunkInv /\ ContentInv /\ SpaceInv /\ BytesInv /\ [Next]_vars => [Bounded]_vars
  BY GrowthStep
<1> QED
  BY <1>1, <1>2, <1>3, ChunkInvariance, PTL DEF Spec, SpaceOvershootBounded

-----------------------------------------------------------------------------
(* The gauges of chunks *)

SavedIn(S) == {c \in S : c.saved}

\* 1 for what holds, 0 for what does not.
One(b) == IF b THEN 1 ELSE 0

ChunkGauges ==
    /\ IsFiniteSet(leftover)
    /\ pendingChunks = Cardinality(InAgent) + Cardinality(shelved)
    /\ persistentChunks = Cardinality(SavedIn(InAgent)) + Cardinality(shelved)
                            + Cardinality(SavedIn(leftover)) + Cardinality(undeleted)

\* There are no more chunks in the agent than IDs.
LEMMA AgentIsFinite ==
    ASSUME IInv, OneEach
    PROVE  /\ IsFiniteSet(InAgent) /\ IsFiniteSet(SavedIn(InAgent))
           /\ Cardinality(InAgent) \in Nat /\ Cardinality(SavedIn(InAgent)) \in Nat
<1> DEFINE f == [c \in InAgent |-> c.id]
<1>1. f \in [InAgent -> ChunkID]
  BY ChunksInAgent DEF IInv
<1>2. \A c, d \in InAgent : f[c] = f[d] => c = d
  BY NoTwins
<1>3. f \in Injection(InAgent, ChunkID)
  BY <1>1, <1>2, Fun_IsInj
<1>4. IsFiniteSet(ChunkID)
  BY ChunkIDsAreFinite
<1>5. IsFiniteSet(InAgent)
  BY <1>3, <1>4, FS_Injection
<1>6. SavedIn(InAgent) \in SUBSET InAgent
  BY DEF SavedIn
<1>7. IsFiniteSet(SavedIn(InAgent))
  BY <1>5, <1>6, FS_Subset
<1> QED
  BY <1>5, <1>7, FS_CardinalityType

\* A chunk that leaves the agent makes one less.
LEMMA LeaveCounts ==
    ASSUME IInv, OneEach, NEW c \in InAgent, InAgent' = InAgent \ {c}
    PROVE  /\ Cardinality(InAgent') = Cardinality(InAgent) - 1
           /\ Cardinality(SavedIn(InAgent')) = Cardinality(SavedIn(InAgent)) - One(c.saved)
<1>1. IsFiniteSet(InAgent) /\ IsFiniteSet(SavedIn(InAgent)) /\ Cardinality(SavedIn(InAgent)) \in Nat
  BY AgentIsFinite
<1>2. Cardinality(InAgent') = Cardinality(InAgent) - 1
  BY <1>1, FS_RemoveElement
<1>3. SavedIn(InAgent') = SavedIn(InAgent) \ {c} /\ (c \in SavedIn(InAgent) <=> c.saved)
  BY DEF SavedIn
<1>4. Cardinality(SavedIn(InAgent) \ {c}) =
        IF c \in SavedIn(InAgent) THEN Cardinality(SavedIn(InAgent)) - 1 ELSE Cardinality(SavedIn(InAgent))
  BY <1>1, FS_RemoveElement
<1>5. Cardinality(SavedIn(InAgent')) = Cardinality(SavedIn(InAgent) \ {c})
  BY <1>3, Zenon
<1>6. c \in SavedIn(InAgent) <=> c.saved
  BY <1>3
<1> DEFINE m == Cardinality(SavedIn(InAgent'))
           n == Cardinality(SavedIn(InAgent))
<1>7. m = IF c.saved THEN n - 1 ELSE n
  BY <1>4, <1>5, <1>6, Zenon
<1>8. n \in Int
  BY <1>1
<1> HIDE DEF m, n
<1>9. m = n - One(c.saved)
  BY <1>7, <1>8 DEF One
<1> QED
  BY <1>2, <1>9 DEF m, n

\* A chunk replaced by one with the same ID counts once, and as saved if the new one is.
LEMMA ReplaceCounts ==
    ASSUME IInv, OneEach, NEW c \in InAgent, NEW d, d.id = c.id, InAgent' = (InAgent \ {c}) \cup {d}
    PROVE  /\ Cardinality(InAgent') = Cardinality(InAgent)
           /\ Cardinality(SavedIn(InAgent')) =
                Cardinality(SavedIn(InAgent)) - One(c.saved) + One(d.saved)
<1> DEFINE R == InAgent \ {c}
           T == SavedIn(InAgent) \ {c}
<1>1. /\ IsFiniteSet(InAgent) /\ IsFiniteSet(SavedIn(InAgent))
      /\ Cardinality(InAgent) \in Nat /\ Cardinality(SavedIn(InAgent)) \in Nat
  BY AgentIsFinite
<1>2. d \notin R
  BY NoTwins
<1>3. IsFiniteSet(R) /\ Cardinality(R) = Cardinality(InAgent) - 1
  BY <1>1, FS_RemoveElement
<1>4. Cardinality(InAgent') = Cardinality(InAgent)
  <2>1. Cardinality(R \cup {d}) = Cardinality(R) + 1
    BY <1>2, <1>3, FS_AddElement
  <2>2. Cardinality(InAgent') = Cardinality(R \cup {d})
    BY Zenon
  <2> HIDE DEF R
  <2> QED
    BY <1>1, <1>3, <2>1, <2>2
<1>5. /\ c \in SavedIn(InAgent) <=> c.saved
      /\ d \notin T
      /\ SavedIn(InAgent') = IF d.saved THEN T \cup {d} ELSE T
  BY <1>2 DEF SavedIn
<1>6. /\ IsFiniteSet(T)
      /\ Cardinality(T) = IF c \in SavedIn(InAgent) THEN Cardinality(SavedIn(InAgent)) - 1
                                                    ELSE Cardinality(SavedIn(InAgent))
  BY <1>1, FS_RemoveElement
<1>7. Cardinality(T \cup {d}) = Cardinality(T) + 1
  BY <1>5, <1>6, FS_AddElement
<1> DEFINE U == T \cup {d}
<1>8. Cardinality(U) = Cardinality(T) + 1 /\ SavedIn(InAgent') = IF d.saved THEN U ELSE T
  BY <1>5, <1>7
<1> HIDE DEF R, T, U
<1> QED
  BY <1>1, <1>4, <1>5, <1>6, <1>8 DEF One

\* One more ID.
LEMMA AddIDCounts ==
    ASSUME NEW S \in SUBSET ChunkID, NEW i \in ChunkID, i \notin S, NEW T, T = S \cup {i}
    PROVE  Cardinality(T) = Cardinality(S) + 1
<1>1. IsFiniteSet(S)
  BY ChunkIDsAreFinite
<1>2. Cardinality(S \cup {i}) = Cardinality(S) + 1
  BY <1>1, FS_AddElement
<1> QED
  BY <1>2, Zenon

\* One more leftover.
LEMMA AddLeftoverCounts ==
    ASSUME IsFiniteSet(leftover), NEW c, c \notin leftover, leftover' = leftover \cup {c}
    PROVE  /\ IsFiniteSet(leftover') /\ Cardinality(SavedIn(leftover)) \in Nat
           /\ Cardinality(SavedIn(leftover')) = Cardinality(SavedIn(leftover)) + One(c.saved)
<1>1. IsFiniteSet(leftover')
  BY FS_AddElement
<1>2. SavedIn(leftover) \in SUBSET leftover /\ c \notin SavedIn(leftover)
  BY DEF SavedIn
<1>3. IsFiniteSet(SavedIn(leftover)) /\ Cardinality(SavedIn(leftover)) \in Nat
  BY <1>2, FS_Subset, FS_CardinalityType
<1>4. SavedIn(leftover') = IF c.saved THEN SavedIn(leftover) \cup {c} ELSE SavedIn(leftover)
  BY DEF SavedIn
<1>5. Cardinality(SavedIn(leftover) \cup {c}) = Cardinality(SavedIn(leftover)) + 1
  BY <1>2, <1>3, FS_AddElement
<1> QED
  BY <1>1, <1>3, <1>4, <1>5 DEF One

\* The two gauges that follow the chunks are exact after every step.
LEMMA ChunkGaugesStep == IInv /\ ChunkInv /\ ChunkGauges /\ [Next]_vars => ChunkGauges'
<1> SUFFICES ASSUME IInv, ChunkInv, ChunkGauges, [Next]_vars PROVE ChunkGauges'
  OBVIOUS
<1> USE DEF acceptVars, diskGauges, runHistory, kept
<1>0. /\ IInv' /\ TypeOK /\ OneEach /\ UsedOnce /\ IsFiniteSet(leftover)
      /\ shelved \in SUBSET ChunkID /\ undeleted \in SUBSET ChunkID
      /\ \A c \in InAgent : c \in Chunk /\ c.id \in ChunkID
  BY StepInvariant, ChunksInAgent DEF IInv, TypeOK, ChunkInv, ChunkGauges
<1>01. /\ Cardinality(InAgent) \in Nat /\ Cardinality(SavedIn(InAgent)) \in Nat
       /\ Cardinality(shelved) \in Nat /\ Cardinality(undeleted) \in Nat
       /\ Cardinality(SavedIn(leftover)) \in Nat
  <2>1. SavedIn(leftover) \in SUBSET leftover
    BY DEF SavedIn
  <2>2. Cardinality(SavedIn(leftover)) \in Nat
    BY <1>0, <2>1, FS_Subset, FS_CardinalityType
  <2> QED
    BY <1>0, <2>2, AgentIsFinite, ChunkIDsAreFinite
<1>02. /\ Cardinality({}) = 0 /\ SavedIn({}) = {} /\ IsFiniteSet({})
  BY FS_EmptySet DEF SavedIn
<1>03. \A c \in InAgent : c.id \notin shelved /\ c.id \notin undeleted
                          /\ \A x \in BOOLEAN : [c EXCEPT !.saved = x] \notin leftover
  <2>1. \A c \in InAgent : c.id \notin Settled
    BY <1>0 DEF UsedOnce, IDs
  <2>2. \A c \in InAgent, x \in BOOLEAN : [c EXCEPT !.saved = x].id = c.id
    BY <1>0 DEF Chunk
  <2> QED
    BY <2>1, <2>2 DEF Settled, IDs
<1>1. CASE QuietStep
  <2>1. InAgent' = InAgent /\ UNCHANGED <<pendingChunks, persistentChunks, leftover, shelved, undeleted>>
    BY <1>0, <1>1, QuietSteps DEF SameBooks
  <2> QED
    BY <2>1 DEF ChunkGauges
<1>2. CASE Start
  <2>1. /\ \A c \in InAgent' : c.saved
        /\ pendingChunks' = Cardinality(InAgent') /\ persistentChunks' = Cardinality(InAgent')
    BY <1>0, <1>2, StartMoves
  <2>2. leftover' = {} /\ shelved' = {} /\ undeleted' = {}
    <3>1. Settled = {} /\ UNCHANGED <<leftover, shelved, undeleted>>
      BY <1>2 DEF Start, ChunkInv, EndOfRun
    <3>2. \A c \in leftover : c.id \in Settled
      BY DEF Settled, IDs
    <3> QED
      BY <3>1, <3>2 DEF Settled
  <2>3. SavedIn(InAgent') = InAgent'
    BY <2>1 DEF SavedIn
  <2>4. pendingChunks' \in Int
    BY <1>0 DEF IInv, TypeOK
  <2>5. /\ Cardinality(SavedIn(InAgent')) = Cardinality(InAgent')
        /\ Cardinality(leftover') = 0 /\ Cardinality(SavedIn(leftover')) = 0
        /\ Cardinality(shelved') = 0 /\ Cardinality(undeleted') = 0 /\ IsFiniteSet(leftover')
    BY <1>02, <2>2, <2>3, Zenon
  <2>6. pendingChunks' = Cardinality(InAgent') /\ persistentChunks' = Cardinality(InAgent')
    BY <2>1
  <2> QED
    BY <2>4, <2>5, <2>6 DEF ChunkGauges
<1>3. CASE AcceptBegin
  <2> DEFINE c == NewChunk(nextID)
  <2>1. /\ UNCHANGED <<persistentChunks, leftover, shelved, undeleted>>
        /\ \/ InAgent' = InAgent \cup {c} /\ pendingChunks' = pendingChunks + 1
           \/ InAgent' = InAgent /\ UNCHANGED pendingChunks
    <3>1. /\ UNCHANGED <<persistentChunks, leftover, shelved, undeleted>>
          /\ \/ accepting' = c /\ pendingChunks' = pendingChunks + 1
             \/ UNCHANGED <<accepting, pendingChunks>>
      BY <1>3 DEF AcceptBegin
    <3>2. c # accepting
      BY <1>3 DEF AcceptBegin, NewChunk, NoChunk
    <3> QED
      BY <1>0, <1>3, <3>1, <3>2, AcceptBeginMoves
  <2>2. c \notin InAgent /\ ~c.saved
    <3>1. nextID \notin IDs(InAgent) /\ c.id = nextID /\ ~c.saved
      BY <1>0, <1>3, AcceptBeginMoves DEF NewChunk
    <3> QED
      BY <3>1 DEF IDs
  <2> HIDE DEF c
  <2>3. Cardinality(InAgent \cup {c}) = Cardinality(InAgent) + 1
    BY <1>0, <2>2, AgentIsFinite, FS_AddElement
  <2>4. SavedIn(InAgent') = SavedIn(InAgent)
    BY <2>1, <2>2 DEF SavedIn
  <2>5. \/ Cardinality(InAgent') = Cardinality(InAgent) + 1 /\ pendingChunks' = pendingChunks + 1
        \/ Cardinality(InAgent') = Cardinality(InAgent) /\ UNCHANGED pendingChunks
    BY <2>1, <2>3, Zenon
  <2>6. UNCHANGED <<persistentChunks, leftover, shelved, undeleted>>
    BY <2>1
  <2>7. Cardinality(SavedIn(InAgent')) = Cardinality(SavedIn(InAgent))
    BY <2>4, Zenon
  <2> QED
    BY <1>0, <1>01, <2>5, <2>6, <2>7 DEF ChunkGauges
<1>4. CASE AcceptWrite
  <2>1. /\ accepting \in InAgent /\ Unloaded(accepting).id = accepting.id /\ Unloaded(accepting).saved
        /\ \/ WriteChunkFile(accepting) /\ InAgent' = (InAgent \ {accepting}) \cup {Unloaded(accepting)}
           \/ WriteChunkFileFails(accepting) /\ InAgent' = InAgent \ {accepting}
    BY <1>0, <1>4, AcceptWriteMoves
  <2>2. ~accepting.saved
    BY <1>4 DEF AcceptWrite, ChunkInv, FilesNeedDir
  <2>3. /\ UNCHANGED <<leftover, shelved, undeleted>>
        /\ \/ accepting' = Unloaded(accepting) /\ persistentChunks' = persistentChunks + 1 /\ UNCHANGED pendingChunks
           \/ accepting' = NoChunk /\ UNCHANGED persistentChunks /\ pendingChunks' = pendingChunks - 1
    BY <1>4 DEF AcceptWrite, WriteChunkFile, WriteChunkFileFails
  <2>4. accepting' \in InAgent' \/ accepting' = NoChunk
    BY DEF InAgent
  <2>5. CASE accepting' = Unloaded(accepting)
    <3>1. Unloaded(accepting) # NoChunk
      BY <2>1 DEF NoChunk
    <3>2. Unloaded(accepting) \notin InAgent \ {accepting}
      BY <1>0, <2>1, NoTwins
    <3>3. InAgent' = (InAgent \ {accepting}) \cup {Unloaded(accepting)}
      BY <2>1, <2>4, <2>5, <3>1, <3>2
    <3>4. /\ Cardinality(InAgent') = Cardinality(InAgent)
          /\ Cardinality(SavedIn(InAgent')) = Cardinality(SavedIn(InAgent)) + 1
      <4>1. PICK c \in InAgent : c = accepting
        BY <2>1
      <4>2. PICK d : d = Unloaded(accepting)
        OBVIOUS
      <4>3. /\ Cardinality(InAgent') = Cardinality(InAgent)
            /\ Cardinality(SavedIn(InAgent')) =
                 Cardinality(SavedIn(InAgent)) - One(c.saved) + One(d.saved)
        <5>1. d.id = c.id /\ InAgent' = (InAgent \ {c}) \cup {d}
          BY <2>1, <3>3, <4>1, <4>2, Zenon
        <5> HIDE DEF acceptVars
        <5> QED
          BY <1>0, <5>1, ReplaceCounts
      <4>4. One(c.saved) = 0 /\ One(d.saved) = 1
        BY <2>1, <2>2, <4>1, <4>2 DEF One
      <4> QED
        BY <1>01, <4>3, <4>4
    <3>5. persistentChunks' = persistentChunks + 1 /\ UNCHANGED <<pendingChunks, leftover, shelved, undeleted>>
      BY <2>3, <2>5, <3>1
    <3> QED
      BY <1>0, <1>01, <3>4, <3>5 DEF ChunkGauges
  <2>6. CASE accepting' = NoChunk
    <3>1. Unloaded(accepting) # NoChunk
      BY <2>1 DEF NoChunk
    <3>2. AtAccept' = {} /\ accepting \in AtAccept
      BY <1>4, <2>6 DEF AtAccept, AcceptWrite, IInv, ChunkVariables
    <3>3. InAgent' = InAgent \ {accepting}
      <4>1. Unloaded(accepting) \notin InAgent'
        <5>1. UNCHANGED <<inputChannel, feederChunk, lastInputChunk, outputChannel, held, leaving>>
          BY <1>4 DEF AcceptWrite, feederVars, consumerVars
        <5>2. InAgent' \subseteq InAgent
          BY <2>6, <5>1 DEF InAgent
        <5>3. Unloaded(accepting) \in InAgent => Unloaded(accepting) = accepting
          BY <1>0, <2>1, NoTwins
        <5> QED
          BY <2>1, <2>2, <5>2, <5>3
      <4> QED
        BY <2>1, <4>1
    <3>4. /\ Cardinality(InAgent') = Cardinality(InAgent) - 1
          /\ Cardinality(SavedIn(InAgent')) = Cardinality(SavedIn(InAgent))
      <4>1. PICK c \in InAgent : c = accepting
        BY <2>1
      <4>2. InAgent' = InAgent \ {c}
        BY <3>3, <4>1, Zenon
      <4>3. /\ Cardinality(InAgent') = Cardinality(InAgent) - 1
            /\ Cardinality(SavedIn(InAgent')) = Cardinality(SavedIn(InAgent)) - One(c.saved)
        BY <1>0, <4>2, LeaveCounts
      <4>4. One(c.saved) = 0
        BY <2>2, <4>1 DEF One
      <4> QED
        BY <1>01, <4>3, <4>4
    <3>5. UNCHANGED <<persistentChunks, leftover, shelved, undeleted>> /\ pendingChunks' = pendingChunks - 1
      BY <2>3, <2>6, <3>1
    <3> QED
      BY <1>0, <1>01, <3>4, <3>5 DEF ChunkGauges
  <2> QED
    BY <2>3, <2>5, <2>6
<1>5. ASSUME NEW c \in InAgent, InAgent' = InAgent \ {c}, OnChunkDropped(c),
             UNCHANGED <<leftover, shelved, undeleted>>
      PROVE  ChunkGauges'
  <2>1. /\ Cardinality(InAgent') = Cardinality(InAgent) - 1
        /\ Cardinality(SavedIn(InAgent')) = Cardinality(SavedIn(InAgent)) - One(c.saved)
    BY <1>0, <1>5, LeaveCounts
  <2>2. /\ persistentChunks' = persistentChunks - One(c.saved)
        /\ pendingChunks' = pendingChunks - 1
    <3>1. persistentChunks \in Int
      BY <1>0 DEF TypeOK
    <3> QED
      BY <1>5, <3>1 DEF OnChunkDropped, One
  <2>3. One(c.saved) \in Int
    BY DEF One
  <2>4. UNCHANGED <<leftover, shelved, undeleted>>
    BY <1>5
  <2> QED
    BY <1>0, <1>01, <2>1, <2>2, <2>3, <2>4 DEF ChunkGauges
<1>6. CASE AcceptSend
  <2>1. /\ accepting \in InAgent /\ UNCHANGED <<leftover, shelved, undeleted>>
        /\ \/ InAgent' = InAgent /\ UNCHANGED <<pendingChunks, persistentChunks>>
           \/ InAgent' = InAgent \ {accepting} /\ OnChunkDropped(accepting)
    BY <1>0, <1>6, AcceptSendMoves DEF AcceptSend
  <2>2. CASE InAgent' = InAgent /\ UNCHANGED <<pendingChunks, persistentChunks>>
    BY <2>1, <2>2 DEF ChunkGauges
  <2>3. CASE InAgent' = InAgent \ {accepting} /\ OnChunkDropped(accepting)
    <3>1. PICK c \in InAgent : c = accepting
      BY <2>1
    <3>2. OnChunkDropped(c)
      BY <2>3, <3>1 DEF OnChunkDropped
    <3> QED
      BY <1>5, <2>1, <2>3, <3>1, <3>2
  <2> QED
    BY <2>1, <2>2, <2>3
<1>7. ASSUME NEW c \in InAgent, NEW d, d.id = c.id, d.saved = c.saved, InAgent' = InAgent \ {c}, RemoveChunk(d),
             pendingChunks' = pendingChunks - 1, UNCHANGED <<leftover, shelved>>
      PROVE  ChunkGauges'
  <2>1. /\ Cardinality(InAgent') = Cardinality(InAgent) - 1
        /\ Cardinality(SavedIn(InAgent')) = Cardinality(SavedIn(InAgent)) - One(c.saved)
    BY <1>0, <1>7, LeaveCounts
  <2>2. c.saved => hasDir
    BY DEF ChunkInv, FilesNeedDir
  <2>3. \/ ~c.saved /\ UNCHANGED <<persistentChunks, undeleted>>
        \/ c.saved /\ persistentChunks' = persistentChunks - 1 /\ UNCHANGED undeleted
        \/ c.saved /\ undeleted' = undeleted \cup {c.id} /\ UNCHANGED persistentChunks
    BY <1>7, <2>2 DEF RemoveChunk
  <2>4. \/ ~c.saved /\ persistentChunks' = persistentChunks /\ Cardinality(undeleted') = Cardinality(undeleted)
        \/ c.saved /\ persistentChunks' = persistentChunks - 1 /\ Cardinality(undeleted') = Cardinality(undeleted)
        \/ c.saved /\ persistentChunks' = persistentChunks /\ Cardinality(undeleted') = Cardinality(undeleted) + 1
    <3>1. ASSUME undeleted' = undeleted \cup {c.id} PROVE Cardinality(undeleted') = Cardinality(undeleted) + 1
      BY <1>0, <1>03, <3>1, AddIDCounts
    <3> QED
      BY <2>3, <3>1, Zenon
  <2>5. UNCHANGED <<leftover, shelved>> /\ pendingChunks' = pendingChunks - 1
    BY <1>7
  <2> QED
    BY <1>0, <1>01, <2>1, <2>4, <2>5 DEF ChunkGauges, One
<1>8. CASE FeederLoad
  <2>1. PICK d \in LoadResults(feederChunk) :
           /\ AfterLoad(d)
           /\ \/ d \in {"none", "empty"} /\ InAgent' = InAgent \ {feederChunk}
              \/ d \in {"part", "full"} /\ InAgent' = InAgent
    BY <1>0, <1>8, FeederLoadMoves
  <2>2. /\ feederChunk \in InAgent /\ feederChunk \in Chunk /\ UNCHANGED <<leftover, shelved>>
    BY <1>0, <1>8, FeederLoadMoves DEF FeederLoad
  <2>3. PICK c \in InAgent : c = feederChunk
    BY <2>2
  <2>4. CASE d \in {"part", "full"}
    <3>1. UNCHANGED <<pendingChunks, persistentChunks, undeleted>> /\ InAgent' = InAgent
      BY <2>1, <2>4 DEF AfterLoad
    <3> QED
      BY <2>2, <3>1 DEF ChunkGauges
  <2>5. CASE d = "none"
    <3>1. OnChunkDropped(c) /\ UNCHANGED undeleted
      BY <2>1, <2>3, <2>5 DEF AfterLoad, OnChunkDropped
    <3> QED
      BY <1>5, <2>1, <2>2, <2>3, <2>5, <3>1
  <2>6. CASE d = "empty"
    <3>1. PICK e : e = WithData(feederChunk, d)
      OBVIOUS
    <3>2. e.id = c.id /\ e.saved = c.saved
      BY <2>2, <2>3, <3>1 DEF WithData, Chunk
    <3>3. RemoveChunk(e) /\ pendingChunks' = pendingChunks - 1
      BY <2>1, <2>6, <3>1 DEF AfterLoad, RemoveChunk
    <3> QED
      BY <1>7, <2>1, <2>2, <2>3, <2>6, <3>2, <3>3
  <2> QED
    BY <2>1, <2>4, <2>5, <2>6
<1>9. CASE FeederPush
  <2> DEFINE c == WithData(feederChunk, loadedData)
  <2>1. /\ feederChunk \in InAgent /\ c.id = feederChunk.id /\ c.saved = feederChunk.saved
        /\ InAgent' = (InAgent \ {feederChunk}) \cup {c}
        /\ UNCHANGED <<pendingChunks, persistentChunks, leftover, shelved, undeleted>>
    BY <1>0, <1>9, FeederPushMoves DEF FeederPush
  <2> HIDE DEF c
  <2>2. /\ Cardinality(InAgent') = Cardinality(InAgent)
        /\ Cardinality(SavedIn(InAgent')) = Cardinality(SavedIn(InAgent))
    BY <1>0, <1>01, <2>1, ReplaceCounts DEF One
  <2> QED
    BY <2>1, <2>2 DEF ChunkGauges
<1>10. CASE FeederSave
  <2>1. PICK c \in InAgent :
           /\ c \in Chunk /\ BeginUnload(c)
           /\ \/ feederPC' = "write" /\ feederChunk' = c /\ InAgent' = InAgent
              \/ UNCHANGED <<feederPC, feederChunk>> /\ InAgent' = InAgent \ {c}
    BY <1>0, <1>10, FeederSaveMoves
  <2>2. UNCHANGED <<leftover, undeleted>> /\ feederPC = "save"
    BY <1>10 DEF FeederSave
  <2>3. CASE feederPC' = "write" /\ InAgent' = InAgent
    <3>1. UNCHANGED <<pendingChunks, persistentChunks, shelved>>
      BY <2>1, <2>2, <2>3 DEF BeginUnload
    <3> QED
      BY <2>2, <2>3, <3>1 DEF ChunkGauges
  <2>4. CASE UNCHANGED <<feederPC, feederChunk>> /\ InAgent' = InAgent \ {c}
    <3>1. \/ c.saved /\ shelved' = shelved \cup {c.id} /\ UNCHANGED <<pendingChunks, persistentChunks>>
          \/ UNCHANGED shelved /\ OnChunkDropped(c)
      BY <2>1, <2>2, <2>4 DEF BeginUnload
    <3>2. CASE c.saved /\ shelved' = shelved \cup {c.id} /\ UNCHANGED <<pendingChunks, persistentChunks>>
      <4>1. Cardinality(shelved') = Cardinality(shelved) + 1
        BY <1>0, <1>03, <3>2, AddIDCounts
      <4>2. /\ Cardinality(InAgent') = Cardinality(InAgent) - 1
            /\ Cardinality(SavedIn(InAgent')) = Cardinality(SavedIn(InAgent)) - 1
        BY <1>0, <2>4, <3>2, LeaveCounts DEF One
      <4>3. UNCHANGED <<pendingChunks, persistentChunks, leftover, undeleted>>
        BY <2>2, <3>2
      <4> QED
        BY <1>0, <1>01, <4>1, <4>2, <4>3 DEF ChunkGauges
    <3>3. CASE UNCHANGED shelved /\ OnChunkDropped(c)
      BY <1>5, <2>2, <2>4, <3>3
    <3> QED
      BY <3>1, <3>2, <3>3
  <2> QED
    BY <2>1, <2>3, <2>4
<1>11. CASE FeederSaveWrite
  <2>1. feederChunk \in InAgent /\ InAgent' = InAgent \ {feederChunk} /\ ~feederChunk.saved
    BY <1>0, <1>11, FeederSaveWriteMoves DEF FeederSaveWrite, ChunkInv, FilesNeedDir
  <2>2. /\ Cardinality(InAgent') = Cardinality(InAgent) - 1
        /\ Cardinality(SavedIn(InAgent')) = Cardinality(SavedIn(InAgent))
    <3>1. PICK c \in InAgent : c = feederChunk
      BY <2>1
    <3>2. InAgent' = InAgent \ {c}
      BY <2>1, <3>1, Zenon
    <3>3. /\ Cardinality(InAgent') = Cardinality(InAgent) - 1
          /\ Cardinality(SavedIn(InAgent')) = Cardinality(SavedIn(InAgent)) - One(c.saved)
      BY <1>0, <3>2, LeaveCounts
    <3>4. One(c.saved) = 0
      BY <2>1, <3>1 DEF One
    <3> QED
      BY <1>01, <3>3, <3>4
  <2>3. /\ UNCHANGED <<leftover, undeleted>>
        /\ \/ persistentChunks' = persistentChunks + 1 /\ shelved' = shelved \cup {feederChunk.id} /\ UNCHANGED pendingChunks
           \/ pendingChunks' = pendingChunks - 1 /\ UNCHANGED <<shelved, persistentChunks>>
    BY <1>11 DEF FeederSaveWrite, WriteChunkFile, WriteChunkFileFails
  <2>4. \/ /\ persistentChunks' = persistentChunks + 1 /\ pendingChunks' = pendingChunks
           /\ Cardinality(shelved') = Cardinality(shelved) + 1
        \/ /\ persistentChunks' = persistentChunks /\ pendingChunks' = pendingChunks - 1
           /\ Cardinality(shelved') = Cardinality(shelved)
    <3>1. ASSUME shelved' = shelved \cup {feederChunk.id} PROVE Cardinality(shelved') = Cardinality(shelved) + 1
      BY <1>0, <1>03, <2>1, <3>1, AddIDCounts
    <3> QED
      BY <2>3, <3>1, Zenon
  <2>5. UNCHANGED <<leftover, undeleted>>
    BY <2>3
  <2> QED
    BY <1>0, <1>01, <2>2, <2>4, <2>5 DEF ChunkGauges
<1>12. ASSUME NEW c \in held, OnChunkConsumed(c) PROVE ChunkGauges'
  <2>1. c \in InAgent /\ InAgent' = InAgent \ {c}
    BY <1>0, <1>12, OnChunkConsumedMoves
  <2>2. RemoveChunk(c) /\ pendingChunks' = pendingChunks - 1 /\ UNCHANGED <<leftover, shelved>>
    BY <1>12 DEF OnChunkConsumed
  <2> QED
    BY <1>7, <2>1, <2>2
<1>13. ASSUME NEW c \in InAgent, NEW ok \in BOOLEAN, CountLeftover(c, ok), InAgent' = InAgent \ {c},
              UNCHANGED <<shelved, undeleted>>,
              persistentChunks' = persistentChunks - One(c.saved) + One(ok)
       PROVE  ChunkGauges'
  <2> DEFINE d == [c EXCEPT !.saved = ok]
  <2>1. /\ leftover' = leftover \cup {d} /\ pendingChunks' = pendingChunks - 1
        /\ d \notin leftover /\ d.saved = ok
    BY <1>0, <1>03, <1>13 DEF CountLeftover, Chunk
  <2> HIDE DEF d
  <2>2. /\ IsFiniteSet(leftover')
        /\ Cardinality(SavedIn(leftover')) = Cardinality(SavedIn(leftover)) + One(ok)
    BY <1>0, <2>1, AddLeftoverCounts
  <2>3. /\ Cardinality(InAgent') = Cardinality(InAgent) - 1
        /\ Cardinality(SavedIn(InAgent')) = Cardinality(SavedIn(InAgent)) - One(c.saved)
    BY <1>0, <1>13, LeaveCounts
  <2>4. One(c.saved) \in Int /\ One(ok) \in Int
    BY DEF One
  <2>5. /\ UNCHANGED <<shelved, undeleted>> /\ pendingChunks' = pendingChunks - 1
        /\ persistentChunks' = persistentChunks - One(c.saved) + One(ok)
    BY <1>13, <2>1
  <2> QED
    BY <1>01, <2>2, <2>3, <2>4, <2>5 DEF ChunkGauges
<1>14. ASSUME NEW c \in held, OnChunkLeftover(c) PROVE ChunkGauges'
  <2>1. /\ c \in InAgent /\ c \in Chunk
        /\ \/ CountLeftover(c, c.saved) /\ InAgent' = InAgent \ {c}
           \/ InAgent' = InAgent /\ UNCHANGED <<pendingChunks, leftover>>
    BY <1>0, <1>14, OnChunkLeftoverMoves
  <2>2. UNCHANGED <<persistentChunks, shelved, undeleted>>
    BY <1>14 DEF OnChunkLeftover
  <2>3. CASE CountLeftover(c, c.saved) /\ InAgent' = InAgent \ {c}
    <3>1. c.saved \in BOOLEAN /\ persistentChunks' = persistentChunks - One(c.saved) + One(c.saved)
      <4>1. persistentChunks \in Int
        BY <1>0 DEF TypeOK
      <4> QED
        BY <2>1, <2>2, <4>1 DEF Chunk, One
    <3> QED
      BY <1>13, <2>1, <2>2, <2>3, <3>1
  <2>4. CASE InAgent' = InAgent /\ UNCHANGED <<pendingChunks, leftover>>
    BY <2>2, <2>4 DEF ChunkGauges
  <2> QED
    BY <2>1, <2>3, <2>4
<1>15. CASE LeftoverWrite
  <2>1. leaving \in InAgent /\ InAgent' = InAgent \ {leaving} /\ ~leaving.saved
    BY <1>0, <1>15, LeftoverWriteMoves DEF LeftoverWrite, ChunkInv, FilesNeedDir
  <2>3. PICK c \in InAgent : c = leaving
    BY <2>1
  <2>2. PICK ok \in BOOLEAN : CountLeftover(c, ok) /\ persistentChunks' = persistentChunks + One(ok)
    <3>1. \/ CountLeftover(c, TRUE) /\ persistentChunks' = persistentChunks + 1
          \/ CountLeftover(c, FALSE) /\ persistentChunks' = persistentChunks
      BY <1>15, <2>3 DEF LeftoverWrite, WriteChunkFile, WriteChunkFileFails, CountLeftover
    <3>2. persistentChunks + 0 = persistentChunks
      BY <1>0 DEF TypeOK
    <3>3. One(TRUE) = 1 /\ One(FALSE) = 0
      BY DEF One
    <3>4. CASE CountLeftover(c, TRUE) /\ persistentChunks' = persistentChunks + 1
      <4>1. CountLeftover(c, TRUE) /\ persistentChunks' = persistentChunks + One(TRUE)
        BY <3>3, <3>4
      <4> QED
        BY <4>1, Zenon
    <3>5. CASE CountLeftover(c, FALSE) /\ persistentChunks' = persistentChunks
      <4>1. CountLeftover(c, FALSE) /\ persistentChunks' = persistentChunks + One(FALSE)
        BY <3>2, <3>3, <3>5
      <4> QED
        BY <4>1, Zenon
    <3> QED
      BY <3>1, <3>4, <3>5
  <2>4. CountLeftover(c, ok)
    BY <2>2
  <2>5. /\ UNCHANGED <<shelved, undeleted>>
        /\ persistentChunks' = persistentChunks - One(c.saved) + One(ok)
    <3>1. persistentChunks \in Int
      BY <1>0 DEF TypeOK
    <3> QED
      BY <1>15, <2>1, <2>2, <2>3, <3>1 DEF LeftoverWrite, One
  <2> QED
    BY <1>13, <2>1, <2>3, <2>4, <2>5
<1>16. CASE Exit \/ Crash
  <2>1. /\ InAgent' = {} /\ pendingChunks' = 0 /\ persistentChunks' = 0
        /\ leftover' = {} /\ shelved' = {} /\ undeleted' = {}
    BY <1>16, MemoryGoneMoves DEF Exit, Crash, MemoryGone
  <2>2. /\ Cardinality(InAgent') = 0 /\ Cardinality(SavedIn(InAgent')) = 0
        /\ Cardinality(SavedIn(leftover')) = 0
        /\ Cardinality(shelved') = 0 /\ Cardinality(undeleted') = 0 /\ IsFiniteSet(leftover')
    BY <1>02, <2>1, Zenon
  <2>3. pendingChunks' = 0 /\ persistentChunks' = 0
    BY <2>1
  <2> QED
    BY <2>2, <2>3 DEF ChunkGauges
<1> QED
  BY <1>1, <1>2, <1>3, <1>4, <1>6, <1>8, <1>9, <1>10, <1>11, <1>12, <1>14, <1>15, <1>16, StepKinds

-----------------------------------------------------------------------------
(* The gauges of inputChannel *)

OnDisk   == {c \in Chunk : c.saved}
InMemory == {c \in Chunk : ~c.saved}

\* Where a queue has a chunk of a kind.
PositionsOf(q, S) == {i \in 1..Len(q) : q[i] \in S}

QueueGauges ==
    feederPC \in {"recv", "load", "push"} =>
        /\ queuedTransient = Cardinality(PositionsOf(inputChannel, InMemory))
        /\ queuedPersistent = Cardinality(PositionsOf(inputChannel, OnDisk))

\* The positions of a queue can be counted.
LEMMA PositionsAreFinite ==
    ASSUME NEW q \in Seq(Chunk), NEW S
    PROVE  IsFiniteSet(PositionsOf(q, S)) /\ Cardinality(PositionsOf(q, S)) \in Nat
<1>1. Len(q) \in Int /\ 1 \in Int
  OBVIOUS
<1>2. IsFiniteSet(1..Len(q))
  BY <1>1, FS_Interval
<1>3. PositionsOf(q, S) \in SUBSET (1..Len(q))
  BY DEF PositionsOf
<1>4. IsFiniteSet(PositionsOf(q, S))
  BY <1>2, <1>3, FS_Subset
<1> QED
  BY <1>4, FS_CardinalityType

\* A chunk queued counts once, as what it is.
LEMMA PushCounts ==
    ASSUME NEW q \in Seq(Chunk), NEW c \in Chunk, NEW S
    PROVE  Cardinality(PositionsOf(Append(q, c), S)) =
             IF c \in S THEN Cardinality(PositionsOf(q, S)) + 1 ELSE Cardinality(PositionsOf(q, S))
<1>1. /\ Len(Append(q, c)) = Len(q) + 1 /\ Len(q) \in Nat
      /\ \A i \in 1..Len(Append(q, c)) : Append(q, c)[i] = IF i = Len(q) + 1 THEN c ELSE q[i]
  BY QueueSteps
<1>2. CASE c \in S
  <2>1. PositionsOf(Append(q, c), S) = PositionsOf(q, S) \cup {Len(q) + 1}
    BY <1>1, <1>2 DEF PositionsOf
  <2>2. Len(q) + 1 \notin PositionsOf(q, S)
    BY <1>1 DEF PositionsOf
  <2>3. Cardinality(PositionsOf(q, S) \cup {Len(q) + 1}) = Cardinality(PositionsOf(q, S)) + 1
    BY <2>2, PositionsAreFinite, FS_AddElement
  <2>4. Cardinality(PositionsOf(Append(q, c), S)) = Cardinality(PositionsOf(q, S)) + 1
    BY <2>1, <2>3, Zenon
  <2> QED
    BY <1>2, <2>4
<1>3. CASE c \notin S
  <2>1. PositionsOf(Append(q, c), S) = PositionsOf(q, S)
    BY <1>1, <1>3 DEF PositionsOf
  <2> QED
    BY <1>3, <2>1, Zenon
<1> QED
  BY <1>2, <1>3

\* A chunk received no longer does.
LEMMA PopCounts ==
    ASSUME NEW q \in Seq(Chunk), q # <<>>, NEW S
    PROVE  Cardinality(PositionsOf(Tail(q), S)) =
             IF Head(q) \in S THEN Cardinality(PositionsOf(q, S)) - 1 ELSE Cardinality(PositionsOf(q, S))
<1>1. /\ Head(q) = q[1] /\ 1 \in 1..Len(q) /\ Tail(q) \in Seq(Chunk)
      /\ Len(q) \in Nat /\ Len(Tail(q)) = Len(q) - 1
      /\ \A i \in 1..Len(Tail(q)) : i + 1 \in 1..Len(q) /\ Tail(q)[i] = q[i + 1]
  BY QueueSteps
<1> DEFINE T == PositionsOf(Tail(q), S)
           R == PositionsOf(q, S) \ {1}
           f == [i \in T |-> i + 1]
<1>2. IsFiniteSet(T)
  BY <1>1, PositionsAreFinite
<1>3. f \in [T -> R]
  <2>1. \A i \in T : i + 1 \in R
    BY <1>1 DEF PositionsOf
  <2> QED
    BY <2>1
<1>4. \A i, j \in T : f[i] = f[j] => i = j
  BY <1>1 DEF PositionsOf
<1>5. \A r \in R : \E i \in T : f[i] = r
  <2>1. SUFFICES ASSUME NEW r \in R PROVE r - 1 \in T /\ f[r - 1] = r
    BY <2>1
  <2>2. r \in 1..Len(q) /\ r # 1 /\ q[r] \in S
    BY DEF PositionsOf
  <2>3. r - 1 \in 1..Len(Tail(q)) /\ (r - 1) + 1 = r
    BY <1>1, <2>2
  <2>4. Tail(q)[r - 1] = q[r]
    BY <1>1, <2>3
  <2>5. r - 1 \in T
    BY <2>2, <2>3, <2>4 DEF PositionsOf
  <2> QED
    BY <2>3, <2>5
<1> HIDE DEF f
<1>6. f \in Injection(T, R)
  BY <1>3, <1>4, Fun_IsInj
<1>7. f \in Surjection(T, R)
  BY <1>3, <1>5, Fun_IsSurj
<1>8. Cardinality(T) = Cardinality(R)
  BY <1>2, <1>6, <1>7, FS_Surjection
<1>9. Cardinality(R) = IF 1 \in PositionsOf(q, S) THEN Cardinality(PositionsOf(q, S)) - 1
                                                  ELSE Cardinality(PositionsOf(q, S))
  BY PositionsAreFinite, FS_RemoveElement
<1>10. 1 \in PositionsOf(q, S) <=> Head(q) \in S
  BY <1>1 DEF PositionsOf
<1> QED
  BY <1>8, <1>9, <1>10, Zenon

\* No step of Accept or of the main loop leaves the gauges of inputChannel wrong.
LEMMA QueueGaugesStep == IInv /\ ChunkInv /\ QueueGauges /\ [Next]_vars => QueueGauges'
<1> SUFFICES ASSUME IInv, ChunkInv, QueueGauges, [Next]_vars, feederPC' \in {"recv", "load", "push"}
             PROVE  /\ queuedTransient' = Cardinality(PositionsOf(inputChannel', InMemory))
                    /\ queuedPersistent' = Cardinality(PositionsOf(inputChannel', OnDisk))
  BY DEF QueueGauges
<1>1. /\ IInv' /\ inputChannel \in Seq(Chunk) /\ queuedTransient \in Int /\ queuedPersistent \in Int
      /\ accepting \in Chunk \cup {NoChunk}
  BY StepInvariant DEF IInv, TypeOK
<1>2. /\ Cardinality(PositionsOf(inputChannel, InMemory)) \in Nat
      /\ Cardinality(PositionsOf(inputChannel, OnDisk)) \in Nat
  BY <1>1, PositionsAreFinite
<1>3. ASSUME NEW c \in Chunk, Unloadable(c)
      PROVE  /\ c.data # "nil" => c \in InMemory /\ c \notin OnDisk
             /\ c.data = "nil" => c \in OnDisk /\ c \notin InMemory
  BY <1>3, NoChunkIsNoChunk DEF Unloadable, InMemory, OnDisk
<1>4. CASE Start
  <2>1. /\ \A i \in 1..Len(inputChannel') : inputChannel'[i].saved
        /\ queuedTransient' = 0 /\ queuedPersistent' = Len(inputChannel')
    BY <1>1, <1>4, StartMoves DEF ChunkInv
  <2>2. /\ inputChannel' \in Seq(Chunk) /\ Len(inputChannel') \in Nat
        /\ \A i \in 1..Len(inputChannel') : inputChannel'[i] \in Chunk
    <3>1. inputChannel' \in Seq(Chunk)
      BY <1>1 DEF IInv, TypeOK
    <3> QED
      BY <3>1
  <2>3. PositionsOf(inputChannel', InMemory) = {} /\ PositionsOf(inputChannel', OnDisk) = 1..Len(inputChannel')
    BY <2>1, <2>2 DEF PositionsOf, InMemory, OnDisk
  <2>4. Cardinality(1..Len(inputChannel')) = Len(inputChannel')
    <3>1. Cardinality(1..Len(inputChannel')) =
             IF 1 > Len(inputChannel') THEN 0 ELSE Len(inputChannel') - 1 + 1
      BY <2>2, FS_Interval
    <3> QED
      BY <2>2, <3>1
  <2>5. Cardinality({}) = 0
    BY FS_EmptySet
  <2> QED
    BY <2>1, <2>3, <2>4, <2>5, Zenon
<1>5. CASE Exit \/ Crash
  <2>1. inputChannel' = <<>> /\ queuedTransient' = 0 /\ queuedPersistent' = 0
    BY <1>5 DEF Exit, Crash, MemoryGone
  <2>2. PositionsOf(inputChannel', InMemory) = {} /\ PositionsOf(inputChannel', OnDisk) = {}
    BY <2>1 DEF PositionsOf
  <2>3. Cardinality({}) = 0
    BY FS_EmptySet
  <2> QED
    BY <2>1, <2>2, <2>3, Zenon
<1>6. feederPC \in {"recv", "load", "push"} \/ Start \/ Exit \/ Crash
  BY DEF Next, Pipeline, Destroy, Feeder, Consumer, Terminated, vars, acceptVars, feederVars,
         consumerVars, destroyUnchanged, feederStepUnchanged, AcceptBegin, AcceptWrite, AcceptSend,
         DestroyBegin, WaitPendingChunks, DestroyClose, DestroySignal, DestroyEnd,
         FeederReceive, FeederInputEnded, FeederLoad, AfterLoad, FeederPush, FeederAbort,
         FeederCloseOutput, FeederSignalOutput, FeederSave, BeginUnload, FeederSaveWrite, FeederStop,
         ConsumerReceive, ConsumerLeave, LeftoverWrite, ConsumerFinish, OnChunkConsumed, OnChunkLeftover
<1> SUFFICES ASSUME feederPC \in {"recv", "load", "push"} PROVE
        /\ queuedTransient' = Cardinality(PositionsOf(inputChannel', InMemory))
        /\ queuedPersistent' = Cardinality(PositionsOf(inputChannel', OnDisk))
  BY <1>4, <1>5, <1>6
<1>7. /\ queuedTransient = Cardinality(PositionsOf(inputChannel, InMemory))
      /\ queuedPersistent = Cardinality(PositionsOf(inputChannel, OnDisk))
  BY DEF QueueGauges
<1>8. CASE AcceptSend
  <2>1. accepting \in Chunk /\ Unloadable(accepting)
    BY <1>1, <1>8 DEF AcceptSend, IInv, ChunkVariables, FirstHalf
  <2>2. PICK c \in Chunk : c = accepting
    BY <2>1
  <2>3. \/ UNCHANGED <<inputChannel, queuedTransient, queuedPersistent>>
        \/ /\ inputChannel' = Append(inputChannel, c)
           /\ \/ c.data # "nil" /\ queuedTransient' = queuedTransient + 1 /\ queuedPersistent' = queuedPersistent
              \/ c.data = "nil" /\ queuedPersistent' = queuedPersistent + 1 /\ queuedTransient' = queuedTransient
    BY <1>8, <2>2 DEF AcceptSend, queueGauges
  <2>4. /\ c.data # "nil" => c \in InMemory /\ c \notin OnDisk
        /\ c.data = "nil" => c \in OnDisk /\ c \notin InMemory
    BY <1>3, <2>1, <2>2
  <2>5. CASE inputChannel' = Append(inputChannel, c)
    <3>1. /\ Cardinality(PositionsOf(inputChannel', InMemory)) =
               IF c \in InMemory THEN queuedTransient + 1 ELSE queuedTransient
          /\ Cardinality(PositionsOf(inputChannel', OnDisk)) =
               IF c \in OnDisk THEN queuedPersistent + 1 ELSE queuedPersistent
      <4>1. /\ Cardinality(PositionsOf(Append(inputChannel, c), InMemory)) =
                 IF c \in InMemory THEN queuedTransient + 1 ELSE queuedTransient
            /\ Cardinality(PositionsOf(Append(inputChannel, c), OnDisk)) =
                 IF c \in OnDisk THEN queuedPersistent + 1 ELSE queuedPersistent
        BY <1>1, <1>7, PushCounts, Zenon
      <4> QED
        BY <2>5, <4>1, Zenon
    <3>2. Len(inputChannel') # Len(inputChannel)
      BY <1>1, <2>5, QueueSteps
    <3> QED
      BY <2>3, <2>4, <3>1, <3>2, Zenon
  <2>6. CASE UNCHANGED <<inputChannel, queuedTransient, queuedPersistent>>
    BY <1>7, <2>6
  <2> QED
    BY <2>3, <2>5, <2>6
<1>9. CASE FeederReceive
  <2>1. /\ inputChannel # <<>> /\ inputChannel' = Tail(inputChannel)
        /\ \/ /\ Head(inputChannel).data # "nil"
              /\ queuedTransient' = queuedTransient - 1 /\ queuedPersistent' = queuedPersistent
           \/ /\ Head(inputChannel).data = "nil"
              /\ queuedPersistent' = queuedPersistent - 1 /\ queuedTransient' = queuedTransient
    BY <1>9 DEF FeederReceive
  <2>2. PICK c \in Chunk : c = Head(inputChannel)
    BY <1>1, <2>1, QueueSteps
  <2>3. Unloadable(c)
    BY <1>1, <2>1, <2>2, QueueSteps DEF IInv, FirstHalf
  <2>4. /\ c.data # "nil" => c \in InMemory /\ c \notin OnDisk
        /\ c.data = "nil" => c \in OnDisk /\ c \notin InMemory
    BY <1>3, <2>3
  <2>5. /\ Cardinality(PositionsOf(Tail(inputChannel), InMemory)) =
             IF c \in InMemory THEN queuedTransient - 1 ELSE queuedTransient
        /\ Cardinality(PositionsOf(Tail(inputChannel), OnDisk)) =
             IF c \in OnDisk THEN queuedPersistent - 1 ELSE queuedPersistent
    BY <1>1, <1>7, <2>1, <2>2, PopCounts, Zenon
  <2> QED
    BY <2>1, <2>2, <2>4, <2>5, Zenon
<1>10. CASE ~(AcceptSend \/ FeederReceive \/ Start \/ Exit \/ Crash)
  <2>1. UNCHANGED <<inputChannel, queuedTransient, queuedPersistent>>
    BY <1>10 DEF Next, Pipeline, Destroy, Feeder, Consumer, Terminated, vars, acceptVars, feederVars,
         consumerVars, queueGauges, destroyUnchanged, feederStepUnchanged, AcceptBegin, AcceptWrite,
         DestroyBegin, WaitPendingChunks, DestroyClose, DestroySignal, DestroyEnd,
         FeederInputEnded, FeederLoad, FeederPush, FeederAbort,
         FeederCloseOutput, FeederSignalOutput, FeederSave, FeederSaveWrite, FeederStop,
         ConsumerReceive, ConsumerLeave, LeftoverWrite, ConsumerFinish, OnChunkConsumed, OnChunkLeftover
  <2> QED
    BY <1>7, <2>1
<1> QED
  BY <1>4, <1>5, <1>8, <1>9, <1>10

\* A process that has never run has nothing to count.
LEMMA GaugesInit == Init => ChunkGauges /\ QueueGauges
<1>1. SUFFICES ASSUME Init PROVE ChunkGauges /\ QueueGauges
  OBVIOUS
<1>2. InAgent = {} /\ leftover = {} /\ shelved = {} /\ undeleted = {} /\ inputChannel = <<>>
  BY <1>1, EmptyFacts DEF Init, InAgent
<1>3. /\ pendingChunks = 0 /\ persistentChunks = 0 /\ queuedTransient = 0 /\ queuedPersistent = 0
  BY <1>1 DEF Init
<1>4. SavedIn({}) = {} /\ PositionsOf(inputChannel, InMemory) = {} /\ PositionsOf(inputChannel, OnDisk) = {}
  BY <1>2 DEF SavedIn, PositionsOf
<1>5. Cardinality({}) = 0 /\ IsFiniteSet({})
  BY FS_EmptySet
<1>6. /\ Cardinality(InAgent) = 0 /\ Cardinality(SavedIn(InAgent)) = 0 /\ Cardinality(shelved) = 0
      /\ Cardinality(SavedIn(leftover)) = 0 /\ Cardinality(undeleted) = 0 /\ IsFiniteSet(leftover)
  BY <1>2, <1>4, <1>5, Zenon
<1>7. QueueGauges
  BY <1>3, <1>4, <1>5, Zenon DEF QueueGauges
<1> QED
  BY <1>3, <1>6, <1>7 DEF ChunkGauges

\* The gauges say what the agent has: pending_chunks, which a shutdown with sendAllAtEnd waits on,
\* persistent_chunks, and, as long as the main loop of the feeder runs, queued_chunks.
THEOREM GaugesAreExact == Spec => []GaugesExact
<1>1. Init => ChunkGauges /\ QueueGauges
  BY GaugesInit
<1>2. IInv /\ ChunkInv /\ (ChunkGauges /\ QueueGauges) /\ [Next]_vars => (ChunkGauges /\ QueueGauges)'
  BY ChunkGaugesStep, QueueGaugesStep
<1>3. IInv /\ ChunkGauges /\ QueueGauges => GaugesExact
  <2>1. SUFFICES ASSUME IInv, ChunkGauges, QueueGauges PROVE GaugesExact
    OBVIOUS
  <2>2. /\ SavedIn(InAgent) = {c \in InAgent : c.saved}
        /\ SavedIn(leftover) = {c \in leftover : c.saved}
    BY DEF SavedIn
  <2>3. \A i \in 1..Len(inputChannel) : inputChannel[i] \in Chunk
    BY <2>1 DEF IInv, TypeOK
  <2>4. /\ PositionsOf(inputChannel, InMemory) = {i \in 1..Len(inputChannel) : ~inputChannel[i].saved}
        /\ PositionsOf(inputChannel, OnDisk) = {i \in 1..Len(inputChannel) : inputChannel[i].saved}
    BY <2>3 DEF PositionsOf, InMemory, OnDisk
  <2> QED
    BY <2>1, <2>2, <2>4, Zenon DEF ChunkGauges, QueueGauges, GaugesExact
<1> QED
  BY <1>1, <1>2, <1>3, ChunkInvariance, PTL DEF Spec

-----------------------------------------------------------------------------
(* The shutdown that sends all chunks *)

\* A gauge at zero means that the agent is empty.
LEMMA NothingPending ==
    ASSUME IInv, ChunkInv, ChunkGauges, pendingChunks = 0
    PROVE  InAgent = {} /\ shelved = {}
<1>1. /\ IsFiniteSet(InAgent) /\ Cardinality(InAgent) \in Nat
  BY AgentIsFinite DEF ChunkInv
<1>2. IsFiniteSet(shelved) /\ Cardinality(shelved) \in Nat
  BY ChunkIDsAreFinite DEF IInv, TypeOK
<1>3. Cardinality(InAgent) = 0 /\ Cardinality(shelved) = 0
  BY <1>1, <1>2 DEF ChunkGauges
<1> QED
  BY <1>1, <1>2, <1>3, FS_EmptySet

\* Once Destroy has waited for all chunks, none is in the agent again before the next start.
LEMMA SentAllStep == IInv /\ ChunkInv /\ ChunkGauges /\ SentAll /\ [Next]_vars => SentAll'
<1> SUFFICES ASSUME IInv, ChunkInv, ChunkGauges, SentAll, [Next]_vars,
                    destroyPC' \in {"close", "signal", "waiting", "done"},
                    ShouldWaitPendingChunks', "timeout" \notin Faults
             PROVE  InAgent' = {} /\ leftover' = {} /\ shelved' = {}
  BY DEF SentAll
<1>1. IInv' /\ OneEach
  BY StepInvariant DEF ChunkInv
<1>2. /\ ~Start /\ ~Exit /\ ~Crash
  BY DEF Start, Exit, Crash, MemoryGone
<1>3. CASE WaitPendingChunks
  <2>1. InAgent = {} /\ shelved = {}
    BY <1>3, NothingPending DEF WaitPendingChunks
  <2>2. leftover = {}
    BY <1>3 DEF WaitPendingChunks, ChunkInv, EndOfRun
  <2>3. InAgent' = InAgent /\ UNCHANGED <<leftover, shelved>>
    BY <1>1, <1>3, QuietSteps DEF QuietStep, SameBooks, runHistory, kept
  <2> QED
    BY <2>1, <2>2, <2>3
<1>4. CASE ~WaitPendingChunks
  <2>0. hasDir' = hasDir
    BY <1>2 DEF Next, Pipeline, Destroy, Feeder, Consumer, Terminated, vars, acceptVars, feederVars,
       consumerVars, destroyUnchanged, feederStepUnchanged, AcceptBegin, AcceptWrite, AcceptSend,
       DestroyBegin, WaitPendingChunks, DestroyClose, DestroySignal, DestroyEnd,
       FeederReceive, FeederInputEnded, FeederLoad, FeederPush, FeederAbort,
       FeederCloseOutput, FeederSignalOutput, FeederSave, FeederSaveWrite, FeederStop,
       ConsumerReceive, ConsumerLeave, LeftoverWrite, ConsumerFinish, OnChunkConsumed, OnChunkLeftover
  <2>01. ShouldWaitPendingChunks
    BY <2>0 DEF ShouldWaitPendingChunks
  <2>1. destroyPC \in {"close", "signal", "waiting", "done"}
    <3>1. \/ UNCHANGED destroyPC
          \/ destroyPC = "up" /\ destroyPC' = "wait"
          \/ destroyPC \in {"close", "signal", "waiting"}
      BY <1>2, <1>4, <2>01
      DEF Next, Pipeline, Destroy, Feeder, Consumer, Terminated, vars,
          destroyUnchanged, feederStepUnchanged, AcceptBegin, AcceptWrite, AcceptSend,
          DestroyBegin, DestroyClose, DestroySignal, DestroyEnd,
          FeederReceive, FeederInputEnded, FeederLoad, FeederPush, FeederAbort,
          FeederCloseOutput, FeederSignalOutput, FeederSave, FeederSaveWrite, FeederStop,
          ConsumerReceive, ConsumerLeave, LeftoverWrite, ConsumerFinish, OnChunkConsumed, OnChunkLeftover
    <3> QED
      BY <3>1
  <2>2. InAgent = {} /\ leftover = {} /\ shelved = {}
    BY <2>01, <2>1 DEF SentAll
  <2>3. ~AcceptBegin
    BY <2>1 DEF AcceptBegin
  <2>4. ~AcceptWrite /\ ~AcceptSend
    BY <1>1, <2>2, AcceptWriteMoves, AcceptSendMoves
  <2>5. ~FeederLoad /\ ~FeederPush /\ ~FeederSave /\ ~FeederSaveWrite
    BY <1>1, <2>2, FeederLoadMoves, FeederPushMoves, FeederSaveMoves, FeederSaveWriteMoves
  <2>6. ~LeftoverWrite /\ \A c \in held : ~OnChunkConsumed(c) /\ ~OnChunkLeftover(c)
    BY <1>1, <2>2, LeftoverWriteMoves, OnChunkConsumedMoves, OnChunkLeftoverMoves
  <2>7. QuietStep
    BY <1>2, <2>3, <2>4, <2>5, <2>6, StepKinds
  <2> QED
    BY <1>1, <2>2, <2>7, QuietSteps DEF SameBooks, runHistory, kept
<1> QED
  BY <1>3, <1>4

\* With sendAllAtEnd, or without a directory, Destroy has left nothing behind when it returns,
\* unless its wait timed out.
THEOREM AllSent == Spec => []AllSentAtEnd
<1>1. Init => ChunkGauges /\ SentAll
  BY GaugesInit DEF Init, SentAll
<1>2. IInv /\ ChunkInv /\ (ChunkGauges /\ SentAll) /\ [Next]_vars => (ChunkGauges /\ SentAll)'
  BY ChunkGaugesStep, SentAllStep
<1>3. SentAll => AllSentAtEnd
  BY DEF SentAll, AllSentAtEnd
<1> QED
  BY <1>1, <1>2, <1>3, ChunkInvariance, PTL DEF Spec

=============================================================================
