-------------------------- MODULE ForwardClientProofs --------------------------
(***************************************************************************)
(* Proofs about ForwardClient, for any number of chunks and failures, any   *)
(* capacities of its channels and all kinds of connections.                 *)
(***************************************************************************)
EXTENDS ForwardClient, FiniteSetTheorems, FunctionTheorems, SequenceTheorems, TLAPS

-----------------------------------------------------------------------------
(* The inductive invariant *)

\* There is no session: before the first, between two, and after the last.
NoSession == clientPC \in {"open", "opened", "retryWait", "exit", "finished"}

\* A goroutine has a chunk in hand exactly where it needs one.
ChunksInHand ==
    /\ clientPC \in {"send", "queue"} => lastChunk # 0
    /\ clientPC \in {"resend", "input"} => lastChunk = 0
    /\ NoSession => lastChunk = 0 /\ ackerPC = "none" /\ pending = {} /\ ackerChan = <<>>
    /\ clientPC = "finished" => leftovers = <<>>
    /\ ackerPC = "read" => ackedChunk \in pending
    /\ ackerPC = "report" => ackedChunk # 0

\* The client only ends for good when its input was closed.
EndsAfterInput ==
    /\ clientPC \in {"exit", "finished"} => inputState # "open"
    /\ retry = "noReconnect" /\ clientPC \in {"collect", "collectSoft", "softWait", "abort", "gather"}
          => inputState # "open"

\* What was acknowledged, or needs no acknowledgement, has been stored.
StoredFirst ==
    /\ consumed \cup stuck \cup BeingReported \subseteq stored \cup unnamed
    /\ unanswered \subseteq stored /\ ToSet(acks) \ {UnknownID, NoID} \subseteq stored
    /\ connKind = "blank" => /\ ToSet(ackerChan) \cup pending \subseteq stored
                             /\ clientPC = "queue" => lastChunk \in stored

\* A chunk sent by the buffer is in one place, and chunks still to be sent are in none.
NoRepeats(s) == \A i, j \in DOMAIN s : s[i] = s[j] => i = j

Reported == consumed \cup left \cup abandoned

NoneTwice ==
    /\ NoRepeats(inputChannel) /\ NoRepeats(leftovers) /\ NoRepeats(ackerChan)
    /\ \A c \in ToSet(inputChannel) \cup Held \cup Reported : c < nextSent
    /\ ToSet(inputChannel) \cap (Held \cup Reported) = {}
    /\ ToSet(leftovers) \cap (BeingSent \cup ToSet(ackerChan) \cup pending \cup BeingReported \cup Reported) = {}
    /\ BeingSent \cap (ToSet(ackerChan) \cup pending \cup BeingReported \cup Reported) = {}
    /\ ToSet(ackerChan) \cap (pending \cup BeingReported \cup Reported) = {}
    /\ pending \cap (BeingReported \cup Reported) = {}
    /\ BeingReported \cap Reported = {}
    /\ consumed \cap left = {} /\ consumed \cap abandoned = {} /\ left \cap abandoned = {}

IInv == TypeOK /\ ChunksInHand /\ EndsAfterInput /\ StoredFirst /\ NoneTwice

-----------------------------------------------------------------------------
(* Facts about sequences of chunks *)

\* Taking the first element of a sequence.
LEMMA TailFacts ==
    ASSUME NEW S, NEW s \in Seq(S), s # <<>>
    PROVE  /\ Head(s) \in S /\ Tail(s) \in Seq(S) /\ Len(Tail(s)) = Len(s) - 1
           /\ Head(s) \in ToSet(s)
           /\ ToSet(Tail(s)) \subseteq ToSet(s)
           /\ ToSet(s) = {Head(s)} \cup ToSet(Tail(s))
           /\ NoRepeats(s) => NoRepeats(Tail(s)) /\ Head(s) \notin ToSet(Tail(s))
<1>1. /\ Len(s) \in Nat \ {0} /\ DOMAIN s = 1..Len(s)
      /\ Head(s) = s[1] /\ Head(s) \in S
      /\ Tail(s) \in Seq(S) /\ Len(Tail(s)) = Len(s) - 1
      /\ DOMAIN Tail(s) = 1..(Len(s) - 1)
      /\ \A i \in 1..(Len(s) - 1) : Tail(s)[i] = s[i + 1]
  BY EmptySeq, LenProperties, HeadTailProperties
<1>2. ToSet(s) = {s[1]} \cup {s[i + 1] : i \in 1..(Len(s) - 1)}
  <2>1. ToSet(s) = {s[i] : i \in 1..Len(s)}
    BY <1>1 DEF ToSet
  <2>2. ASSUME NEW i \in 1..Len(s) PROVE i = 1 \/ \E j \in 1..(Len(s) - 1) : s[i] = s[j + 1]
    <3>1. CASE i # 1
      <4>1. i - 1 \in 1..(Len(s) - 1) /\ s[i] = s[(i - 1) + 1]
        BY <1>1, <3>1
      <4> QED BY <4>1
    <3> QED BY <3>1
  <2>3. \A j \in 1..(Len(s) - 1) : j + 1 \in 1..Len(s)
    BY <1>1
  <2>4. 1 \in 1..Len(s)
    BY <1>1
  <2> QED BY <2>1, <2>2, <2>3, <2>4
<1>3. ToSet(Tail(s)) = {s[i + 1] : i \in 1..(Len(s) - 1)}
  BY <1>1 DEF ToSet
<1>4. NoRepeats(s) => NoRepeats(Tail(s)) /\ Head(s) \notin ToSet(Tail(s))
  BY <1>1, <1>3 DEF NoRepeats
<1> QED BY <1>1, <1>2, <1>3, <1>4

\* Putting an element at the end of one.
LEMMA AppendFacts ==
    ASSUME NEW S, NEW s \in Seq(S), NEW e \in S
    PROVE  /\ Append(s, e) \in Seq(S) /\ Len(Append(s, e)) = Len(s) + 1
           /\ ToSet(Append(s, e)) = ToSet(s) \cup {e}
           /\ NoRepeats(s) /\ e \notin ToSet(s) => NoRepeats(Append(s, e))
<1>1. /\ Len(s) \in Nat /\ DOMAIN s = 1..Len(s)
      /\ Append(s, e) \in Seq(S) /\ Len(Append(s, e)) = Len(s) + 1
      /\ DOMAIN Append(s, e) = 1..(Len(s) + 1)
      /\ \A i \in 1..Len(s) : Append(s, e)[i] = s[i]
      /\ Append(s, e)[Len(s) + 1] = e
  BY LenProperties
<1>2. ToSet(Append(s, e)) = ToSet(s) \cup {e}
  BY <1>1 DEF ToSet
<1>3. NoRepeats(s) /\ e \notin ToSet(s) => NoRepeats(Append(s, e))
  BY <1>1 DEF NoRepeats, ToSet
<1> QED BY <1>1, <1>2, <1>3

\* Nothing is in an empty sequence.
LEMMA EmptyFacts == ToSet(<<>>) = {} /\ NoRepeats(<<>>) /\ \A S : <<>> \in Seq(S)
  BY DEF ToSet, NoRepeats

\* The elements of a sequence.
LEMMA ToSetType ==
    ASSUME NEW S, NEW s \in Seq(S)
    PROVE  ToSet(s) \subseteq S
  BY LenProperties DEF ToSet

\* newLeftoverChannel: the sorted sequence has exactly the chunks it was made of, none twice.
LEMMA NewLeftoversFacts ==
    ASSUME NEW chunks \in SUBSET ChunkID, NEW s \in NewLeftovers(chunks)
    PROVE  s \in Seq(ChunkID) /\ NoRepeats(s) /\ ToSet(s) = chunks
<1>1. IsFiniteSet(chunks)
  <2>1. 0 \in Int /\ 1 \in Int /\ MaxChunks \in Int
    BY ClientAssumption
  <2>2. IsFiniteSet(1..MaxChunks)
    BY <2>1, FS_Interval
  <2> QED BY <2>2, FS_Subset DEF ChunkID
<1> DEFINE n == Cardinality(chunks)
<1>2. n \in Nat
  BY <1>1, FS_CardinalityType
<1>3. IsFiniteSet(1..n) /\ Cardinality(1..n) = n
  BY <1>2, FS_Interval
<1>4. s \in [1..n -> chunks] /\ \A i, j \in 1..n : i < j => s[i] < s[j]
  BY DEF NewLeftovers
<1>5. chunks \subseteq Nat
  BY ClientAssumption DEF ChunkID
<1> HIDE DEF n
<1>6. \A i, j \in 1..n : s[i] = s[j] => i = j
  <2> SUFFICES ASSUME NEW i \in 1..n, NEW j \in 1..n, i # j PROVE s[i] # s[j]
    OBVIOUS
  <2>1. s[i] \in Nat /\ s[j] \in Nat
    BY <1>4, <1>5
  <2>2. CASE i < j
    BY <1>4, <2>1, <2>2
  <2>3. CASE j < i
    BY <1>4, <2>1, <2>3
  <2> QED BY <1>2, <2>2, <2>3
<1>7. s \in Injection(1..n, chunks)
  <2> HIDE DEF n
  <2> QED BY <1>4, <1>6, Fun_IsInj
<1>8. s \in Surjection(1..n, chunks)
  BY <1>1, <1>3, <1>7, FS_Injection DEF n
<1>9. ToSet(s) = chunks
  BY <1>4, <1>8 DEF Surjection, ToSet
<1>10. s \in Seq(ChunkID)
  BY <1>2, <1>4
<1> QED BY <1>4, <1>6, <1>9, <1>10 DEF NoRepeats

-----------------------------------------------------------------------------
(* Types *)

\* What collectLeftovers gathers are chunks.
LEMMA CollectedType ==
    ASSUME TypeOK, NEW unacked \in SUBSET ChunkID
    PROVE  Collected(unacked) \in SUBSET ChunkID
  BY ToSetType DEF TypeOK, Collected

\* What a failure leaves of a connection.
UpstreamTypes ==
    /\ connOpen \in BOOLEAN
    /\ wire \in Seq(ChunkID) /\ unanswered \subseteq ChunkID /\ acks \in Seq(ChunkID \cup {UnknownID, NoID})

\* Closing a connection, or finding it closed, keeps the types.
LEMMA AbortTypes ==
    ASSUME TypeOK
    PROVE  /\ AbortConn => UpstreamTypes'
           /\ ConnError => UpstreamTypes' /\ events' \in 0..MaxEvents
<1>1. ASSUME AbortConn PROVE UpstreamTypes'
  <2>1. CASE connKind = "blank"
    BY <1>1, <2>1 DEF AbortConn, TypeOK, UpstreamTypes, upstreamVars
  <2>2. CASE connKind # "blank"
    <3>1. connOpen' = FALSE /\ wire' = <<>> /\ unanswered' = {} /\ acks' = <<>>
      BY <1>1, <2>2 DEF AbortConn
    <3>2. wire' \in Seq(ChunkID) /\ acks' \in Seq(ChunkID \cup {UnknownID, NoID})
      BY <3>1
    <3> QED BY <3>1, <3>2 DEF UpstreamTypes
  <2> QED BY <2>1, <2>2
<1>2. ASSUME ConnError PROVE events' \in 0..MaxEvents
  BY <1>2, ClientAssumption DEF ConnError, Event, TypeOK
<1> QED BY <1>1, <1>2 DEF ConnError

\* Every step keeps the type invariant, sequences and capacities included.
LEMMA TypeOKStep ==
    ASSUME TypeOK, ChunksInHand, [Next]_vars
    PROVE  TypeOK'
<1> USE ClientAssumption DEF TypeOK, othersIdle, sessionUnchanged, ackerUnchanged,
    upstreamUnchanged, bufferVars, clientVars, ackerVars, upstreamVars, reports
<1>1. CASE BufferSend
  BY <1>1, AppendFacts DEF BufferSend, ChunkID
<1>2. CASE BufferClose
  BY <1>2 DEF BufferClose
<1>3. CASE BufferSignal
  BY <1>3 DEF BufferSignal
<1>4. CASE BufferTakeBack
  BY <1>4, TailFacts DEF BufferTakeBack
<1>5. CASE OpenConn
  BY <1>5 DEF OpenConn
<1>6. CASE OpenConnStopped
  BY <1>6 DEF OpenConnStopped
<1>7. CASE StartSession
  BY <1>7, EmptyFacts DEF StartSession
<1>8. CASE ResendStopped
  BY <1>8 DEF ResendStopped, EndSession
<1>9. CASE ResendNext
  BY <1>9, TailFacts DEF ResendNext
<1>10. CASE ResendDone
  BY <1>10 DEF ResendDone
<1>11. CASE InputReceive
  BY <1>11, TailFacts DEF InputReceive
<1>12. CASE InputEnded
  BY <1>12 DEF InputEnded, EndSession
<1>13. CASE SendChunk
  <2>1. lastChunk \in ChunkID
    BY <1>13 DEF SendChunk, ChunksInHand
  <2>2. sent' \in Seq(ChunkID)
    BY <1>13, <2>1, AppendFacts DEF SendChunk
  <2>3. wire' \in Seq(ChunkID)
    <3>1. CASE wire' = wire
      BY <3>1
    <3>2. CASE wire' = Append(wire, lastChunk)
      BY <2>1, <3>2, AppendFacts
    <3> QED BY <1>13, <3>1, <3>2 DEF SendChunk
  <2> QED BY <1>13, <2>1, <2>2, <2>3 DEF SendChunk
<1>14. CASE QueueForAck
  <2>1. lastChunk \in ChunkID /\ Len(ackerChan) < AckerCap /\ AckerCap \in Nat
    BY <1>14 DEF QueueForAck, ChunksInHand
  <2>2. ackerChan' \in Seq(ChunkID) /\ Len(ackerChan') <= AckerCap
    BY <1>14, <2>1, AppendFacts, LenProperties DEF QueueForAck
  <2> QED BY <1>14, <2>2 DEF QueueForAck
<1>15. CASE QueueStopped
  BY <1>15 DEF QueueStopped, EndSession
<1>16. CASE CloseAckerChan
  BY <1>16 DEF CloseAckerChan
<1>17. CASE SoftWaitOver
  BY <1>17 DEF SoftWaitOver
<1>18. CASE AbortAcker
  BY <1>18, AbortTypes DEF AbortAcker, UpstreamTypes
<1>19. CASE GatherLeftovers
  <2>1. leftovers' \in Seq(ChunkID)
    BY <1>19, CollectedType, NewLeftoversFacts DEF GatherLeftovers, FinishSession
  <2>2. ackerChan' = <<>>
    BY <1>19 DEF GatherLeftovers, FinishSession
  <2>3. ackerChan' \in Seq(ChunkID) /\ Len(ackerChan') <= AckerCap
    BY <2>2
  <2> HIDE ClientAssumption
  <2> QED BY <1>19, <2>1, <2>3 DEF GatherLeftovers, FinishSession
<1>20. CASE GatherWithoutAcker
  <2>1. leftovers' \in Seq(ChunkID)
    BY <1>20, CollectedType, NewLeftoversFacts DEF GatherWithoutAcker, FinishSession
  <2>2. ackerChan' = <<>>
    BY <1>20 DEF GatherWithoutAcker, FinishSession
  <2>3. ackerChan' \in Seq(ChunkID) /\ Len(ackerChan') <= AckerCap
    BY <2>2
  <2> HIDE ClientAssumption
  <2> QED BY <1>20, <2>1, <2>3 DEF GatherWithoutAcker, FinishSession, ChunksInHand
<1>21. CASE RetryWaitOver
  BY <1>21 DEF RetryWaitOver
<1>22. CASE ReportLeftover
  BY <1>22, TailFacts DEF ReportLeftover
<1>23. CASE FinishClient
  BY <1>23 DEF FinishClient
<1>24. CASE OpenConnFails
  BY <1>24 DEF OpenConnFails, Event
<1>25. CASE InputReconnect
  BY <1>25 DEF InputReconnect, EndSession, Event
<1>26. CASE PingFails
  BY <1>26, AbortTypes DEF PingFails, EndSession, UpstreamTypes
<1>27. CASE SendChunkFails
  <2>1. lastChunk \in ChunkID
    BY <1>27 DEF SendChunkFails, ChunksInHand
  <2>2. UpstreamTypes' /\ events' \in 0..MaxEvents
    BY <1>27, AbortTypes DEF SendChunkFails, Event
  <2> QED BY <1>27, <2>1, <2>2 DEF SendChunkFails, EndSession, UpstreamTypes
<1>28. CASE StopCallback
  BY <1>28, AbortTypes DEF StopCallback, UpstreamTypes
<1>29. CASE AckerReceive
  BY <1>29, TailFacts DEF AckerReceive
<1>30. CASE AckerStops
  BY <1>30 DEF AckerStops
<1>31. CASE ReadAck
  <2>1. acks' \in Seq(ChunkID \cup {UnknownID, NoID})
    <3>1. CASE acks' = acks
      BY <3>1
    <3>2. CASE acks # <<>> /\ acks' = Tail(acks)
      BY <3>2, TailFacts
    <3> QED BY <1>31, <3>1, <3>2 DEF ReadAck
  <2>2. ackedChunk' \in ChunkID
    BY <1>31 DEF ReadAck, ChunksInHand
  <2> QED BY <1>31, <2>1, <2>2 DEF ReadAck
<1>32. CASE ReadUnknownAck
  BY <1>32, TailFacts DEF ReadUnknownAck
<1>33. CASE ReadAckFails
  BY <1>33, AbortTypes DEF ReadAckFails, UpstreamTypes
<1>34. CASE ReportAcked
  BY <1>34 DEF ReportAcked, ChunksInHand, ChunkID
<1>35. CASE ReportAckedLate
  BY <1>35 DEF ReportAckedLate
<1>36. CASE UpstreamStore
  BY <1>36, TailFacts DEF UpstreamStore
<1>37. CASE UpstreamAck
  BY <1>37, AppendFacts DEF UpstreamAck
<1>38. CASE UpstreamWrongAck
  BY <1>38, AppendFacts DEF UpstreamWrongAck, Event
<1>39. CASE UNCHANGED vars
  BY <1>39 DEF vars
<1> QED
  BY <1>1, <1>2, <1>3, <1>4, <1>5, <1>6, <1>7, <1>8, <1>9, <1>10, <1>11, <1>12, <1>13, <1>14, <1>15,
     <1>16, <1>17, <1>18, <1>19, <1>20, <1>21, <1>22, <1>23, <1>24, <1>25, <1>26, <1>27, <1>28,
     <1>29, <1>30, <1>31, <1>32, <1>33, <1>34, <1>35, <1>36, <1>37, <1>38, <1>39
     DEF Next, Buffer, Client, ClientInterrupted, Acker, Upstream, Terminated

-----------------------------------------------------------------------------
(* Where goroutines are, and what is stored *)

\* Chunks in hand, and the end after the end of the input.
LEMMA ControlStep ==
    ASSUME TypeOK, ChunksInHand, EndsAfterInput, [Next]_vars
    PROVE  ChunksInHand' /\ EndsAfterInput'
<1> USE DEF TypeOK, NoSession, ChunksInHand, EndsAfterInput, InputSignaled, ChunkID, othersIdle,
    sessionUnchanged, ackerUnchanged, upstreamUnchanged, bufferVars, clientVars, ackerVars,
    upstreamVars, reports
<1>1. CASE BufferSend
  BY <1>1 DEF BufferSend
<1>2. CASE BufferClose
  BY <1>2 DEF BufferClose
<1>3. CASE BufferSignal
  BY <1>3 DEF BufferSignal
<1>4. CASE BufferTakeBack
  BY <1>4 DEF BufferTakeBack
<1>5. CASE OpenConn
  BY <1>5 DEF OpenConn
<1>6. CASE OpenConnStopped
  BY <1>6 DEF OpenConnStopped
<1>7. CASE StartSession
  BY <1>7 DEF StartSession
<1>8. CASE ResendStopped
  BY <1>8 DEF ResendStopped, EndSession
<1>9. CASE ResendNext
  <2>1. lastChunk' \in ChunkID
    BY <1>9, TailFacts DEF ResendNext
  <2>2. lastChunk' # 0
    BY <2>1, ClientAssumption
  <2> QED BY <1>9, <2>2 DEF ResendNext
<1>10. CASE ResendDone
  BY <1>10 DEF ResendDone
<1>11. CASE InputReceive
  <2>1. lastChunk' \in ChunkID
    BY <1>11, TailFacts DEF InputReceive
  <2>2. lastChunk' # 0
    BY <2>1, ClientAssumption
  <2> QED BY <1>11, <2>2 DEF InputReceive
<1>12. CASE InputEnded
  BY <1>12 DEF InputEnded, EndSession
<1>13. CASE SendChunk
  BY <1>13 DEF SendChunk
<1>14. CASE QueueForAck
  BY <1>14 DEF QueueForAck
<1>15. CASE QueueStopped
  BY <1>15 DEF QueueStopped, EndSession
<1>16. CASE CloseAckerChan
  BY <1>16 DEF CloseAckerChan
<1>17. CASE SoftWaitOver
  BY <1>17 DEF SoftWaitOver
<1>18. CASE AbortAcker
  BY <1>18 DEF AbortAcker, AbortConn
<1>19. CASE GatherLeftovers
  BY <1>19 DEF GatherLeftovers, FinishSession
<1>20. CASE GatherWithoutAcker
  BY <1>20 DEF GatherWithoutAcker, FinishSession
<1>21. CASE RetryWaitOver
  BY <1>21 DEF RetryWaitOver
<1>22. CASE ReportLeftover
  BY <1>22 DEF ReportLeftover
<1>23. CASE FinishClient
  BY <1>23 DEF FinishClient
<1>24. CASE OpenConnFails
  BY <1>24 DEF OpenConnFails, Event
<1>25. CASE InputReconnect
  BY <1>25 DEF InputReconnect, EndSession, Event
<1>26. CASE PingFails
  BY <1>26 DEF PingFails, EndSession, ConnError, AbortConn, Event
<1>27. CASE SendChunkFails
  BY <1>27 DEF SendChunkFails, EndSession, ConnError, AbortConn, Event
<1>28. CASE StopCallback
  BY <1>28 DEF StopCallback, AbortConn
<1>29. CASE AckerReceive
  BY <1>29, TailFacts DEF AckerReceive
<1>30. CASE AckerStops
  BY <1>30 DEF AckerStops
<1>31. CASE ReadAck
  BY <1>31 DEF ReadAck
<1>32. CASE ReadUnknownAck
  BY <1>32 DEF ReadUnknownAck
<1>33. CASE ReadAckFails
  BY <1>33 DEF ReadAckFails, ConnError, AbortConn, Event
<1>34. CASE ReportAcked
  BY <1>34 DEF ReportAcked
<1>35. CASE ReportAckedLate
  BY <1>35 DEF ReportAckedLate
<1>36. CASE UpstreamStore
  BY <1>36 DEF UpstreamStore
<1>37. CASE UpstreamAck
  BY <1>37 DEF UpstreamAck
<1>38. CASE UpstreamWrongAck
  BY <1>38 DEF UpstreamWrongAck, Event
<1>39. CASE UNCHANGED vars
  BY <1>39 DEF vars
<1> QED
  BY <1>1, <1>2, <1>3, <1>4, <1>5, <1>6, <1>7, <1>8, <1>9, <1>10, <1>11, <1>12, <1>13, <1>14, <1>15,
     <1>16, <1>17, <1>18, <1>19, <1>20, <1>21, <1>22, <1>23, <1>24, <1>25, <1>26, <1>27, <1>28,
     <1>29, <1>30, <1>31, <1>32, <1>33, <1>34, <1>35, <1>36, <1>37, <1>38, <1>39
     DEF Next, Buffer, Client, ClientInterrupted, Acker, Upstream, Terminated

\* One more acknowledgement on its way.
LEMMA AcksAppend ==
    ASSUME TypeOK, NEW a \in ChunkID \cup {UnknownID, NoID}
    PROVE  ToSet(Append(acks, a)) = ToSet(acks) \cup {a}
<1> DEFINE S == ChunkID \cup {UnknownID, NoID}
<1>1. acks \in Seq(S) /\ a \in S
  BY DEF TypeOK
<1> HIDE DEF S
<1> QED BY <1>1, AppendFacts

\* What is acknowledged has been stored, in every step.
LEMMA StoredStep ==
    ASSUME TypeOK, ChunksInHand, StoredFirst, [Next]_vars
    PROVE  StoredFirst'
<1> USE DEF TypeOK, ChunksInHand, NoSession, StoredFirst, BeingReported, othersIdle,
    sessionUnchanged, ackerUnchanged, upstreamUnchanged, bufferVars, clientVars, ackerVars,
    upstreamVars, reports
<1>1. CASE BufferSend
  BY <1>1 DEF BufferSend
<1>2. CASE BufferClose
  BY <1>2 DEF BufferClose
<1>3. CASE BufferSignal
  BY <1>3 DEF BufferSignal
<1>4. CASE BufferTakeBack
  BY <1>4 DEF BufferTakeBack
<1>5. CASE OpenConn
  BY <1>5 DEF OpenConn
<1>6. CASE OpenConnStopped
  BY <1>6 DEF OpenConnStopped
<1>7. CASE StartSession
  BY <1>7, EmptyFacts DEF StartSession
<1>8. CASE ResendStopped
  BY <1>8 DEF ResendStopped, EndSession
<1>9. CASE ResendNext
  BY <1>9 DEF ResendNext
<1>10. CASE ResendDone
  BY <1>10 DEF ResendDone
<1>11. CASE InputReceive
  BY <1>11 DEF InputReceive
<1>12. CASE InputEnded
  BY <1>12 DEF InputEnded, EndSession
<1>13. CASE SendChunk
  BY <1>13 DEF SendChunk
<1>14. CASE QueueForAck
  BY <1>14, AppendFacts DEF QueueForAck
<1>15. CASE QueueStopped
  BY <1>15 DEF QueueStopped, EndSession
<1>16. CASE CloseAckerChan
  BY <1>16 DEF CloseAckerChan
<1>17. CASE SoftWaitOver
  BY <1>17 DEF SoftWaitOver
<1>18. CASE AbortAcker
  BY <1>18, EmptyFacts DEF AbortAcker, AbortConn
<1>19. CASE GatherLeftovers
  BY <1>19, EmptyFacts DEF GatherLeftovers, FinishSession
<1>20. CASE GatherWithoutAcker
  BY <1>20, EmptyFacts DEF GatherWithoutAcker, FinishSession
<1>21. CASE RetryWaitOver
  BY <1>21 DEF RetryWaitOver
<1>22. CASE ReportLeftover
  BY <1>22 DEF ReportLeftover
<1>23. CASE FinishClient
  BY <1>23 DEF FinishClient
<1>24. CASE OpenConnFails
  BY <1>24 DEF OpenConnFails, Event
<1>25. CASE InputReconnect
  BY <1>25 DEF InputReconnect, EndSession, Event
<1>26. CASE PingFails
  BY <1>26, EmptyFacts DEF PingFails, EndSession, ConnError, AbortConn, Event
<1>27. CASE SendChunkFails
  BY <1>27, EmptyFacts DEF SendChunkFails, EndSession, ConnError, AbortConn, Event
<1>28. CASE StopCallback
  BY <1>28, EmptyFacts DEF StopCallback, AbortConn
<1>29. CASE AckerReceive
  BY <1>29, TailFacts DEF AckerReceive
<1>30. CASE AckerStops
  BY <1>30 DEF AckerStops
<1>31. CASE ReadAck
  <2>1. ToSet(acks') \subseteq ToSet(acks)
    <3>1. CASE acks' = acks
      BY <3>1
    <3>2. CASE acks # <<>> /\ acks' = Tail(acks)
      BY <3>2, TailFacts
    <3> QED BY <1>31, <3>1, <3>2 DEF ReadAck
  <2>2. ackedChunk' \in stored \cup unnamed' /\ unnamed \subseteq unnamed'
    <3>1. CASE connKind = "blank"
      BY <1>31, <3>1 DEF ReadAck
    <3>2. CASE connKind # "blank" /\ Head(acks) \in pending
      <4>0. UnknownID \notin ChunkID /\ NoID \notin ChunkID
        BY ClientAssumption DEF ChunkID, UnknownID, NoID
      <4>1. Head(acks) \in ChunkID /\ Head(acks) # NoID
        BY <3>2, <4>0
      <4>2. acks # <<>> /\ ackedChunk' = Head(acks) /\ unnamed' = unnamed
        BY <1>31, <3>2, <4>1 DEF ReadAck
      <4>3. Head(acks) \in ToSet(acks) /\ Head(acks) \notin {UnknownID, NoID}
        BY <4>0, <4>1, <4>2, TailFacts
      <4> QED BY <4>2, <4>3
    <3>3. CASE connKind # "blank" /\ Head(acks) \notin pending
      BY <1>31, <3>3 DEF ReadAck
    <3> QED BY <3>1, <3>2, <3>3
  <2> QED BY <1>31, <2>1, <2>2 DEF ReadAck
<1>32. CASE ReadUnknownAck
  BY <1>32, TailFacts DEF ReadUnknownAck
<1>33. CASE ReadAckFails
  BY <1>33, EmptyFacts DEF ReadAckFails, ConnError, AbortConn, Event
<1>34. CASE ReportAcked
  BY <1>34 DEF ReportAcked
<1>35. CASE ReportAckedLate
  BY <1>35 DEF ReportAckedLate
<1>36. CASE UpstreamStore
  BY <1>36, TailFacts DEF UpstreamStore
<1>37. CASE UpstreamAck
  <2>1. PICK c \in unanswered : acks' = Append(acks, c) /\ unanswered' = unanswered \ {c}
    BY <1>37 DEF UpstreamAck
  <2>2. ToSet(acks') = ToSet(acks) \cup {c}
    BY <2>1, AcksAppend
  <2> QED BY <1>37, <2>1, <2>2 DEF UpstreamAck
<1>38. CASE UpstreamWrongAck
  <2>1. PICK answer \in {UnknownID, NoID} : acks' = Append(acks, answer)
    BY <1>38 DEF UpstreamWrongAck
  <2>2. ToSet(acks') = ToSet(acks) \cup {answer}
    BY <2>1, AcksAppend
  <2> QED BY <1>38, <2>1, <2>2 DEF UpstreamWrongAck
<1>39. CASE UNCHANGED vars
  BY <1>39 DEF vars
<1> QED
  BY <1>1, <1>2, <1>3, <1>4, <1>5, <1>6, <1>7, <1>8, <1>9, <1>10, <1>11, <1>12, <1>13, <1>14, <1>15,
     <1>16, <1>17, <1>18, <1>19, <1>20, <1>21, <1>22, <1>23, <1>24, <1>25, <1>26, <1>27, <1>28,
     <1>29, <1>30, <1>31, <1>32, <1>33, <1>34, <1>35, <1>36, <1>37, <1>38, <1>39
     DEF Next, Buffer, Client, ClientInterrupted, Acker, Upstream, Terminated

-----------------------------------------------------------------------------
(* Where chunks are: each step moves at most one of them, or gathers all *)

\* A step that leaves every chunk where it is.
Quiet == UNCHANGED <<inputChannel, nextSent, leftovers, lastChunk, ackerChan, pending, BeingReported,
                     reports>>

\* The steps of connections and of upstream, and of goroutines going from one wait to another.
QuietActions ==
    \/ BufferClose \/ BufferSignal \/ OpenConn \/ OpenConnStopped \/ StartSession
    \/ ResendStopped \/ ResendDone \/ InputEnded \/ SendChunk \/ QueueStopped
    \/ CloseAckerChan \/ SoftWaitOver \/ AbortAcker \/ RetryWaitOver \/ FinishClient
    \/ OpenConnFails \/ InputReconnect \/ PingFails \/ SendChunkFails \/ StopCallback
    \/ AckerStops \/ ReadUnknownAck \/ ReadAckFails \/ UpstreamStore \/ UpstreamAck
    \/ UpstreamWrongAck

\* They move no chunk.
LEMMA QuietStep ==
    ASSUME TypeOK, ChunksInHand, QuietActions
    PROVE  Quiet
<1> USE DEF Quiet, ChunksInHand, NoSession, BeingReported, othersIdle, sessionUnchanged,
    ackerUnchanged, upstreamUnchanged, bufferVars, clientVars, ackerVars, upstreamVars, reports
<1>1. CASE BufferClose
  BY <1>1 DEF BufferClose
<1>2. CASE BufferSignal
  BY <1>2 DEF BufferSignal
<1>3. CASE OpenConn
  BY <1>3 DEF OpenConn
<1>4. CASE OpenConnStopped
  BY <1>4 DEF OpenConnStopped
<1>5. CASE StartSession
  BY <1>5 DEF StartSession
<1>6. CASE ResendStopped
  BY <1>6 DEF ResendStopped, EndSession
<1>7. CASE ResendDone
  BY <1>7 DEF ResendDone
<1>8. CASE InputEnded
  BY <1>8 DEF InputEnded, EndSession
<1>9. CASE SendChunk
  BY <1>9 DEF SendChunk
<1>10. CASE QueueStopped
  BY <1>10 DEF QueueStopped, EndSession
<1>11. CASE CloseAckerChan
  BY <1>11 DEF CloseAckerChan
<1>12. CASE SoftWaitOver
  BY <1>12 DEF SoftWaitOver
<1>13. CASE AbortAcker
  BY <1>13 DEF AbortAcker, AbortConn
<1>14. CASE RetryWaitOver
  BY <1>14 DEF RetryWaitOver
<1>15. CASE FinishClient
  BY <1>15 DEF FinishClient
<1>16. CASE OpenConnFails
  BY <1>16 DEF OpenConnFails, Event
<1>17. CASE InputReconnect
  BY <1>17 DEF InputReconnect, EndSession, Event
<1>18. CASE PingFails
  BY <1>18 DEF PingFails, EndSession, ConnError, AbortConn, Event
<1>19. CASE SendChunkFails
  BY <1>19 DEF SendChunkFails, EndSession, ConnError, AbortConn, Event
<1>20. CASE StopCallback
  BY <1>20 DEF StopCallback, AbortConn
<1>21. CASE AckerStops
  BY <1>21 DEF AckerStops
<1>22. CASE ReadUnknownAck
  BY <1>22 DEF ReadUnknownAck
<1>23. CASE ReadAckFails
  BY <1>23 DEF ReadAckFails, ConnError, AbortConn, Event
<1>24. CASE UpstreamStore
  BY <1>24 DEF UpstreamStore
<1>25. CASE UpstreamAck
  BY <1>25 DEF UpstreamAck
<1>26. CASE UpstreamWrongAck
  BY <1>26 DEF UpstreamWrongAck, Event
<1> QED
  BY <1>1, <1>2, <1>3, <1>4, <1>5, <1>6, <1>7, <1>8, <1>9, <1>10, <1>11, <1>12, <1>13, <1>14, <1>15,
     <1>16, <1>17, <1>18, <1>19, <1>20, <1>21, <1>22, <1>23, <1>24, <1>25, <1>26 DEF QuietActions

\* A chunk is in one place after every step.
LEMMA NoneTwiceStep ==
    ASSUME TypeOK, ChunksInHand, NoneTwice, [Next]_vars
    PROVE  NoneTwice'
<1> USE DEF TypeOK, ChunksInHand, othersIdle, sessionUnchanged, ackerUnchanged, upstreamUnchanged,
    bufferVars, clientVars, ackerVars, upstreamVars, reports
<1>1. CASE Quiet
  BY <1>1 DEF Quiet, NoneTwice, Held, BeingSent, Reported
<1>2. CASE BufferSend
  <2>1. /\ ToSet(inputChannel') = ToSet(inputChannel) \cup {nextSent}
        /\ nextSent' = nextSent + 1 /\ nextSent \in Nat
        /\ NoRepeats(inputChannel) /\ nextSent \notin ToSet(inputChannel) => NoRepeats(inputChannel')
    BY <1>2, AppendFacts DEF BufferSend
  <2>2. UNCHANGED <<Held, leftovers, BeingSent, ackerChan, pending, BeingReported, consumed, left, abandoned>>
    BY <1>2 DEF BufferSend, Held, BeingSent, BeingReported
  <2>3. ToSet(inputChannel) \cup Held \cup Reported \subseteq Nat
    <3>1. ToSet(inputChannel) \cup ToSet(leftovers) \cup ToSet(ackerChan) \subseteq ChunkID
      BY ToSetType
    <3>2. BeingSent \cup BeingReported \subseteq ChunkID
      BY DEF BeingSent, BeingReported
    <3>3. Reported \cup pending \subseteq ChunkID
      BY DEF Reported
    <3>4. ChunkID \subseteq Nat
      BY ClientAssumption DEF ChunkID
    <3> QED BY <3>1, <3>2, <3>3, <3>4 DEF Held
  <2>4. /\ \A c \in ToSet(inputChannel') \cup Held' \cup Reported' : c < nextSent'
        /\ nextSent \notin ToSet(inputChannel) \cup Held \cup Reported
    BY <2>1, <2>2, <2>3 DEF NoneTwice, Reported
  <2> QED BY <2>1, <2>2, <2>4 DEF NoneTwice, Held, Reported
<1>3. CASE BufferTakeBack
  <2>1. /\ ToSet(inputChannel') \subseteq ToSet(inputChannel)
        /\ NoRepeats(inputChannel) => NoRepeats(inputChannel')
    BY <1>3, TailFacts DEF BufferTakeBack
  <2>2. UNCHANGED <<Held, nextSent, leftovers, BeingSent, ackerChan, pending, BeingReported, consumed, left, abandoned>>
    BY <1>3 DEF BufferTakeBack, Held, BeingSent, BeingReported
  <2> QED BY <2>1, <2>2 DEF NoneTwice, Held, Reported
<1>4. CASE ResendNext
  <2>1. /\ ToSet(leftovers) = BeingSent' \cup ToSet(leftovers') /\ BeingSent' \cap ToSet(leftovers') = {}
        /\ NoRepeats(leftovers')
    <3>1. leftovers # <<>> /\ lastChunk' = Head(leftovers) /\ leftovers' = Tail(leftovers)
      BY <1>4 DEF ResendNext
    <3>2. lastChunk' \in ChunkID
      BY <3>1, TailFacts
    <3>3. lastChunk' # 0
      BY <3>2, ClientAssumption DEF ChunkID
    <3> QED BY <3>1, <3>2, <3>3, TailFacts DEF BeingSent, NoneTwice
  <2>2. BeingSent = {}
    BY <1>4 DEF ResendNext, BeingSent
  <2>3. UNCHANGED <<inputChannel, nextSent, ackerChan, pending, BeingReported, consumed, left, abandoned>>
    BY <1>4 DEF ResendNext, BeingReported
  <2> QED BY <2>1, <2>2, <2>3 DEF NoneTwice, Held, Reported
<1>5. CASE InputReceive
  <2>1. /\ ToSet(inputChannel) = BeingSent' \cup ToSet(inputChannel') /\ BeingSent' \cap ToSet(inputChannel') = {}
        /\ NoRepeats(inputChannel')
    <3>1. inputChannel # <<>> /\ lastChunk' = Head(inputChannel) /\ inputChannel' = Tail(inputChannel)
      BY <1>5 DEF InputReceive
    <3>2. lastChunk' \in ChunkID
      BY <3>1, TailFacts
    <3>3. lastChunk' # 0
      BY <3>2, ClientAssumption DEF ChunkID
    <3> QED BY <3>1, <3>2, <3>3, TailFacts DEF BeingSent, NoneTwice
  <2>2. BeingSent = {}
    BY <1>5 DEF InputReceive, BeingSent
  <2>3. UNCHANGED <<nextSent, leftovers, ackerChan, pending, BeingReported, consumed, left, abandoned>>
    BY <1>5 DEF InputReceive, BeingReported
  <2> QED BY <2>1, <2>2, <2>3 DEF NoneTwice, Held, Reported
<1>6. CASE QueueForAck
  <2>1. BeingSent = {lastChunk} /\ BeingSent' = {} /\ lastChunk \in ChunkID
    BY <1>6 DEF QueueForAck, BeingSent
  <2>2. /\ ToSet(ackerChan') = ToSet(ackerChan) \cup {lastChunk}
        /\ lastChunk \notin ToSet(ackerChan) => NoRepeats(ackerChan')
    BY <1>6, <2>1, AppendFacts DEF QueueForAck, NoneTwice
  <2>3. UNCHANGED <<inputChannel, nextSent, leftovers, pending, BeingReported, consumed, left, abandoned>>
    BY <1>6 DEF QueueForAck, BeingReported
  <2> QED BY <2>1, <2>2, <2>3 DEF NoneTwice, Held, Reported
<1>7. CASE GatherLeftovers
  <2>1. NoRepeats(leftovers') /\ ToSet(leftovers') = Collected(pending)
    BY <1>7, CollectedType, NewLeftoversFacts DEF GatherLeftovers, FinishSession
  <2>2. /\ BeingSent' = {} /\ ackerChan' = <<>> /\ pending' = {} /\ BeingReported' = {} /\ BeingReported = {}
        /\ UNCHANGED <<inputChannel, nextSent, consumed, left, abandoned>>
    BY <1>7 DEF GatherLeftovers, FinishSession, BeingSent, BeingReported
  <2>3. Collected(pending) = Held
    BY <2>2 DEF Collected, Held, BeingSent
  <2> QED BY <2>1, <2>2, <2>3, EmptyFacts DEF NoneTwice, Held, Reported
<1>8. CASE GatherWithoutAcker
  <2>1. NoRepeats(leftovers') /\ ToSet(leftovers') = Collected({})
    BY <1>8, CollectedType, NewLeftoversFacts DEF GatherWithoutAcker, FinishSession
  <2>2. /\ BeingSent' = {} /\ ackerChan' = <<>> /\ pending' = {} /\ BeingReported' = {}
        /\ UNCHANGED <<inputChannel, nextSent, consumed, left>>
    BY <1>8 DEF GatherWithoutAcker, FinishSession, BeingSent, BeingReported
  <2>3. BeingReported = {ackedChunk} /\ abandoned' = abandoned \cup pending \cup BeingReported
    BY <1>8 DEF GatherWithoutAcker, FinishSession, BeingReported
  <2>4. Collected({}) = ToSet(leftovers) \cup ToSet(ackerChan) \cup BeingSent
    BY DEF Collected, BeingSent
  <2> QED BY <2>1, <2>2, <2>3, <2>4, EmptyFacts DEF NoneTwice, Held, Reported
<1>9. CASE ReportLeftover
  <2>1. /\ ToSet(leftovers) = {Head(leftovers)} \cup ToSet(leftovers') /\ Head(leftovers) \notin ToSet(leftovers')
        /\ NoRepeats(leftovers') /\ left' = left \cup {Head(leftovers)}
    BY <1>9, TailFacts DEF ReportLeftover, NoneTwice
  <2>2. UNCHANGED <<inputChannel, nextSent, BeingSent, ackerChan, pending, BeingReported, consumed, abandoned>>
    BY <1>9 DEF ReportLeftover, BeingSent, BeingReported
  <2> QED BY <2>1, <2>2 DEF NoneTwice, Held, Reported
<1>10. CASE AckerReceive
  <2>1. /\ ToSet(ackerChan) = {Head(ackerChan)} \cup ToSet(ackerChan') /\ Head(ackerChan) \notin ToSet(ackerChan')
        /\ NoRepeats(ackerChan') /\ pending' = pending \cup {Head(ackerChan)}
    BY <1>10, TailFacts DEF AckerReceive, NoneTwice
  <2>2. UNCHANGED <<inputChannel, nextSent, leftovers, BeingSent, BeingReported, consumed, left, abandoned>>
    BY <1>10 DEF AckerReceive, BeingSent, BeingReported
  <2> QED BY <2>1, <2>2 DEF NoneTwice, Held, Reported
<1>11. CASE ReadAck
  <2>1. ackedChunk' \in pending /\ pending' = pending \ {ackedChunk'}
    BY <1>11 DEF ReadAck
  <2>2. BeingReported = {} /\ BeingReported' = {ackedChunk'}
    BY <1>11 DEF ReadAck, BeingReported
  <2>3. UNCHANGED <<inputChannel, nextSent, leftovers, BeingSent, ackerChan, consumed, left, abandoned>>
    BY <1>11 DEF ReadAck, BeingSent
  <2> QED BY <2>1, <2>2, <2>3 DEF NoneTwice, Held, Reported
<1>12. CASE ReportAcked
  <2>1. BeingReported = {ackedChunk} /\ BeingReported' = {} /\ consumed' = consumed \cup {ackedChunk}
    BY <1>12 DEF ReportAcked, BeingReported
  <2>2. UNCHANGED <<inputChannel, nextSent, leftovers, BeingSent, ackerChan, pending, left, abandoned>>
    BY <1>12 DEF ReportAcked, BeingSent
  <2> QED BY <2>1, <2>2 DEF NoneTwice, Held, Reported
<1>13. CASE ReportAckedLate
  <2>1. PICK c \in stuck : consumed' = consumed \cup {c} /\ abandoned' = abandoned \ {c}
    BY <1>13 DEF ReportAckedLate
  <2>2. UNCHANGED <<inputChannel, nextSent, leftovers, BeingSent, ackerChan, pending, BeingReported, left>>
    BY <1>13 DEF ReportAckedLate, BeingSent, BeingReported
  <2> QED BY <2>1, <2>2 DEF NoneTwice, Held, Reported
<1>14. CASE QuietActions
  BY <1>14, <1>1, QuietStep
<1>15. CASE UNCHANGED vars
  BY <1>15, <1>1 DEF vars, Quiet, BeingReported
<1> QED
  BY <1>2, <1>3, <1>4, <1>5, <1>6, <1>7, <1>8, <1>9, <1>10, <1>11, <1>12, <1>13, <1>14, <1>15
     DEF Next, Buffer, Client, ClientInterrupted, Acker, Upstream, Terminated, QuietActions

-----------------------------------------------------------------------------
(* The invariant, and what follows from it *)

\* The inductive invariant holds in every reachable state.
THEOREM InvariantHolds == Spec => []IInv
<1>1. Init => IInv
  <2> SUFFICES ASSUME Init PROVE IInv
    OBVIOUS
  <2>1. TypeOK
    <3>1. /\ <<>> \in Seq(ChunkID) /\ Len(<<>>) = 0
          /\ <<>> \in Seq(ChunkID \cup {UnknownID, NoID})
      OBVIOUS
    <3>2. 1 \in 1..(MaxChunks + 1) /\ 0 \in 0..MaxEvents /\ InputCap >= 0 /\ AckerCap >= 0
      BY ClientAssumption
    <3> QED BY <3>1, <3>2 DEF Init, TypeOK
  <2> USE ClientAssumption, EmptyFacts DEF Init
  <2>2. ChunksInHand /\ EndsAfterInput
    BY DEF ChunksInHand, EndsAfterInput, NoSession
  <2>3. StoredFirst
    BY DEF StoredFirst, BeingReported
  <2>4. NoneTwice
    BY DEF NoneTwice, Held, BeingSent, BeingReported, Reported
  <2> QED BY <2>1, <2>2, <2>3, <2>4 DEF IInv
<1>2. IInv /\ [Next]_vars => IInv'
  BY TypeOKStep, ControlStep, StoredStep, NoneTwiceStep DEF IInv
<1> QED BY <1>1, <1>2, PTL DEF Spec

\* Upstream has stored every chunk that is reported as consumed, whatever acknowledgements come in,
\* but for those that an acknowledgement without ID was taken for.
THEOREM ConsumedChunksAreStored == Spec => []ConsumedIsStored
<1>1. IInv => ConsumedIsStored
  BY DEF IInv, StoredFirst, ConsumedIsStored
<1> QED BY <1>1, InvariantHolds, PTL

\* The number of chunks in a sequence without repetition.
LEMMA SizeOfSequence ==
    ASSUME NEW s \in Seq(ChunkID), NoRepeats(s)
    PROVE  IsFiniteSet(ToSet(s)) /\ Cardinality(ToSet(s)) = Len(s)
<1>1. Len(s) \in Nat /\ DOMAIN s = 1..Len(s) /\ s \in [1..Len(s) -> ChunkID]
  BY LenProperties
<1>2. s \in [1..Len(s) -> ToSet(s)] /\ \A t \in ToSet(s) : \E i \in 1..Len(s) : s[i] = t
  BY <1>1 DEF ToSet
<1>3. s \in Surjection(1..Len(s), ToSet(s))
  BY <1>2, Fun_IsSurj
<1>4. s \in Injection(1..Len(s), ToSet(s))
  BY <1>1, <1>2, Fun_IsInj DEF NoRepeats
<1>5. IsFiniteSet(1..Len(s)) /\ Cardinality(1..Len(s)) = Len(s)
  BY <1>1, FS_Interval
<1> QED BY <1>3, <1>4, <1>5, FS_Surjection

\* The size of two sets with nothing in common.
LEMMA SizeOfTwo ==
    ASSUME NEW S, NEW T, IsFiniteSet(S), IsFiniteSet(T), S \cap T = {}
    PROVE  /\ IsFiniteSet(S \cup T)
           /\ Cardinality(S \cup T) = Cardinality(S) + Cardinality(T)
           /\ Cardinality(S) \in Nat /\ Cardinality(T) \in Nat
<1>1. Cardinality(S \cap T) = 0
  BY FS_EmptySet
<1>2. Cardinality(S \cup T) = Cardinality(S) + Cardinality(T) - Cardinality(S \cap T) /\ IsFiniteSet(S \cup T)
  BY FS_Union
<1>3. Cardinality(S) \in Nat /\ Cardinality(T) \in Nat
  BY FS_CardinalityType
<1> QED BY <1>1, <1>2, <1>3

\* Each chunk the client has is in one place, and none of them was reported before.
THEOREM ChunksAreInOnePlace == Spec => []OnePlaceAtATime
<1>1. ASSUME IInv PROVE OnePlaceAtATime
  <2> USE <1>1 DEF IInv
  <2>1. Contract!EachReportedOnce
    <3>1. clientPC = "finished" => Held = {}
      BY EmptyFacts DEF Held, BeingSent, BeingReported, ChunksInHand, NoSession
    <3> QED BY <3>1 DEF Contract!EachReportedOnce, NoneTwice, Held, Reported
  <2> DEFINE L == ToSet(leftovers)
             A == ToSet(ackerChan)
  <2>2. IsFiniteSet(L) /\ Cardinality(L) = Len(leftovers)
    BY SizeOfSequence DEF TypeOK, NoneTwice
  <2>3. IsFiniteSet(A) /\ Cardinality(A) = Len(ackerChan)
    BY SizeOfSequence DEF TypeOK, NoneTwice
  <2>4. IsFiniteSet(BeingSent) /\ IsFiniteSet(BeingReported)
    BY FS_EmptySet, FS_Singleton, FS_Subset DEF BeingSent, BeingReported
  <2>5. IsFiniteSet(pending)
    <3>1. 1 \in Int /\ MaxChunks \in Int
      BY ClientAssumption
    <3>2. IsFiniteSet(ChunkID)
      BY <3>1, FS_Interval DEF ChunkID
    <3> QED BY <3>2, FS_Subset DEF TypeOK
  <2>6. /\ L \cap BeingSent = {} /\ (L \cup BeingSent) \cap A = {}
        /\ (L \cup BeingSent \cup A) \cap pending = {}
        /\ (L \cup BeingSent \cup A \cup pending) \cap BeingReported = {}
    BY DEF NoneTwice
  <2>7. Held = L \cup BeingSent \cup A \cup pending \cup BeingReported
    BY DEF Held
  <2> HIDE DEF L, A, IInv
  <2>8. IsFiniteSet(L \cup BeingSent) /\ Cardinality(L \cup BeingSent) = Cardinality(L) + Cardinality(BeingSent)
    BY <2>2, <2>4, <2>6, SizeOfTwo
  <2>9. /\ IsFiniteSet(L \cup BeingSent \cup A)
        /\ Cardinality(L \cup BeingSent \cup A) = Cardinality(L \cup BeingSent) + Cardinality(A)
    BY <2>3, <2>6, <2>8, SizeOfTwo
  <2>10. /\ IsFiniteSet(L \cup BeingSent \cup A \cup pending)
         /\ Cardinality(L \cup BeingSent \cup A \cup pending)
              = Cardinality(L \cup BeingSent \cup A) + Cardinality(pending)
    BY <2>5, <2>6, <2>9, SizeOfTwo
  <2>11. Cardinality(Held) = Cardinality(L \cup BeingSent \cup A \cup pending) + Cardinality(BeingReported)
    BY <2>4, <2>6, <2>7, <2>10, SizeOfTwo
  <2>12. Cardinality(Held) = Len(leftovers) + Cardinality(BeingSent) + Len(ackerChan)
                              + Cardinality(pending) + Cardinality(BeingReported)
    BY <2>2, <2>3, <2>8, <2>9, <2>10, <2>11
  <2> QED BY <2>1, <2>12, <1>1 DEF OnePlaceAtATime, IInv
<1> QED BY <1>1, InvariantHolds, PTL

-----------------------------------------------------------------------------
(* The client implements the contract of chunk consumers *)

\* What the contract sees of the client's chunks.
Visible == <<inputChannel, Held, consumed, left, abandoned>>

\* A goroutine that goes on to its next wait, or the input that ends, is a step of the contract that
\* moves no chunk.
LEMMA QuietRefines ==
    ASSUME TypeOK, ChunksInHand, EndsAfterInput, QuietActions
    PROVE  [Contract!Next]_(Contract!vars)
<1>1. UNCHANGED Visible
  BY QuietStep DEF Quiet, Visible, Held, BeingSent, reports
<1> USE DEF Visible, othersIdle, sessionUnchanged, ackerUnchanged, upstreamUnchanged, bufferVars,
    clientVars, ackerVars, upstreamVars, reports
<1>2. CASE BufferClose
  BY <1>1, <1>2 DEF BufferClose, Contract!Next, Contract!Close
<1>3. CASE BufferSignal
  BY <1>1, <1>3 DEF BufferSignal, Contract!Next, Contract!Signal
<1>4. CASE FinishClient
  <2>1. Held = {}
    BY <1>4, EmptyFacts DEF FinishClient, Held, BeingSent, BeingReported, ChunksInHand, NoSession
  <2> QED BY <1>1, <1>4, <2>1 DEF FinishClient, EndsAfterInput, Contract!Next, Contract!Finish
<1>5. CASE OpenConn
  BY <1>1, <1>5 DEF OpenConn, Contract!vars
<1>6. CASE OpenConnStopped
  BY <1>1, <1>6 DEF OpenConnStopped, Contract!vars
<1>7. CASE StartSession
  BY <1>1, <1>7 DEF StartSession, Contract!vars
<1>8. CASE ResendStopped
  BY <1>1, <1>8 DEF ResendStopped, EndSession, Contract!vars
<1>9. CASE ResendDone
  BY <1>1, <1>9 DEF ResendDone, Contract!vars
<1>10. CASE InputEnded
  BY <1>1, <1>10 DEF InputEnded, EndSession, Contract!vars
<1>11. CASE SendChunk
  BY <1>1, <1>11 DEF SendChunk, Contract!vars
<1>12. CASE QueueStopped
  BY <1>1, <1>12 DEF QueueStopped, EndSession, Contract!vars
<1>13. CASE CloseAckerChan
  BY <1>1, <1>13 DEF CloseAckerChan, Contract!vars
<1>14. CASE SoftWaitOver
  BY <1>1, <1>14 DEF SoftWaitOver, Contract!vars
<1>15. CASE AbortAcker
  BY <1>1, <1>15 DEF AbortAcker, AbortConn, Contract!vars
<1>16. CASE RetryWaitOver
  BY <1>1, <1>16 DEF RetryWaitOver, Contract!vars
<1>17. CASE OpenConnFails
  BY <1>1, <1>17 DEF OpenConnFails, Event, Contract!vars
<1>18. CASE InputReconnect
  BY <1>1, <1>18 DEF InputReconnect, EndSession, Event, Contract!vars
<1>19. CASE PingFails
  BY <1>1, <1>19 DEF PingFails, EndSession, ConnError, AbortConn, Event, Contract!vars
<1>20. CASE SendChunkFails
  BY <1>1, <1>20 DEF SendChunkFails, EndSession, ConnError, AbortConn, Event, Contract!vars
<1>21. CASE StopCallback
  BY <1>1, <1>21 DEF StopCallback, AbortConn, Contract!vars
<1>22. CASE AckerStops
  BY <1>1, <1>22 DEF AckerStops, Contract!vars
<1>23. CASE ReadUnknownAck
  BY <1>1, <1>23 DEF ReadUnknownAck, Contract!vars
<1>24. CASE ReadAckFails
  BY <1>1, <1>24 DEF ReadAckFails, ConnError, AbortConn, Event, Contract!vars
<1>25. CASE UpstreamStore
  BY <1>1, <1>25 DEF UpstreamStore, Contract!vars
<1>26. CASE UpstreamAck
  BY <1>1, <1>26 DEF UpstreamAck, Contract!vars
<1>27. CASE UpstreamWrongAck
  BY <1>1, <1>27 DEF UpstreamWrongAck, Event, Contract!vars
<1> QED
  BY <1>2, <1>3, <1>4, <1>5, <1>6, <1>7, <1>8, <1>9, <1>10, <1>11, <1>12, <1>13, <1>14, <1>15,
     <1>16, <1>17, <1>18, <1>19, <1>20, <1>21, <1>22, <1>23, <1>24, <1>25, <1>26, <1>27 DEF
     QuietActions

\* Every step of the client is a step of the contract, or changes nothing of what it sees.
LEMMA StepRefines ==
    ASSUME IInv, [Next]_vars
    PROVE  [Contract!Next]_(Contract!vars)
<1> USE DEF IInv, TypeOK, ChunksInHand, othersIdle, sessionUnchanged, ackerUnchanged,
    upstreamUnchanged, bufferVars, clientVars, ackerVars, upstreamVars, reports
<1>1. CASE BufferSend
  <2>2. UNCHANGED <<Held, leftovers, BeingSent, ackerChan, pending, BeingReported, consumed, left, abandoned>>
    BY <1>1 DEF BufferSend, Held, BeingSent, BeingReported
  <2>3. \A d \in ToSet(inputChannel) \cup Held : d < nextSent
    BY DEF NoneTwice
  <2>4. Contract!Send(nextSent)
    <3>1. /\ inputState = "open" /\ Len(inputChannel) < InputCap
          /\ inputChannel' = Append(inputChannel, nextSent) /\ UNCHANGED <<inputState, clientPC>>
      BY <1>1 DEF BufferSend
    <3> HIDE DEF IInv, TypeOK, ChunksInHand
    <3> QED BY <2>2, <2>3, <3>1 DEF Contract!Send, Contract!ToSet, ToSet
  <2>5. nextSent \in 1..MaxChunks
    BY <1>1 DEF BufferSend, ChunkID
  <2> QED BY <2>4, <2>5 DEF Contract!Next
<1>2. CASE BufferTakeBack
  <2>2. UNCHANGED <<Held, nextSent, leftovers, BeingSent, ackerChan, pending, BeingReported, consumed, left, abandoned>>
    BY <1>2 DEF BufferTakeBack, Held, BeingSent, BeingReported
  <2> QED BY <1>2, <2>2 DEF BufferTakeBack, Contract!Next, Contract!TakeBack
<1>3. CASE ResendNext
  <2>1. /\ ToSet(leftovers) = BeingSent' \cup ToSet(leftovers') /\ BeingSent' \cap ToSet(leftovers') = {}
        /\ NoRepeats(leftovers')
    <3>1. leftovers # <<>> /\ lastChunk' = Head(leftovers) /\ leftovers' = Tail(leftovers)
      BY <1>3 DEF ResendNext
    <3>2. lastChunk' \in ChunkID
      BY <3>1, TailFacts
    <3>3. lastChunk' # 0
      BY <3>2, ClientAssumption DEF ChunkID
    <3> QED BY <3>1, <3>2, <3>3, TailFacts DEF BeingSent, NoneTwice
  <2>2. BeingSent = {}
    BY <1>3 DEF ResendNext, BeingSent
  <2>3. UNCHANGED <<inputChannel, nextSent, ackerChan, pending, BeingReported, consumed, left, abandoned>>
    BY <1>3 DEF ResendNext, BeingReported
  <2>4. UNCHANGED Held
    BY <2>1, <2>2, <2>3 DEF Held
  <2> QED BY <1>3, <2>3, <2>4 DEF ResendNext, Contract!vars
<1>4. CASE InputReceive
  <2>1. /\ ToSet(inputChannel) = BeingSent' \cup ToSet(inputChannel') /\ BeingSent' \cap ToSet(inputChannel') = {}
        /\ NoRepeats(inputChannel')
    <3>1. inputChannel # <<>> /\ lastChunk' = Head(inputChannel) /\ inputChannel' = Tail(inputChannel)
      BY <1>4 DEF InputReceive
    <3>2. lastChunk' \in ChunkID
      BY <3>1, TailFacts
    <3>3. lastChunk' # 0
      BY <3>2, ClientAssumption DEF ChunkID
    <3> QED BY <3>1, <3>2, <3>3, TailFacts DEF BeingSent, NoneTwice
  <2>2. BeingSent = {}
    BY <1>4 DEF InputReceive, BeingSent
  <2>3. UNCHANGED <<nextSent, leftovers, ackerChan, pending, BeingReported, consumed, left, abandoned>>
    BY <1>4 DEF InputReceive, BeingReported
  <2>4. BeingSent' = {Head(inputChannel)}
    <3>1. inputChannel # <<>> /\ lastChunk' = Head(inputChannel)
      BY <1>4 DEF InputReceive
    <3>2. lastChunk' \in ChunkID
      BY <3>1, TailFacts
    <3>3. lastChunk' # 0
      BY <3>2, ClientAssumption DEF ChunkID
    <3> QED BY <3>1, <3>3 DEF BeingSent
  <2>5. Held' = Held \cup {Head(inputChannel)}
    BY <2>2, <2>3, <2>4 DEF Held
  <2> QED BY <1>4, <2>3, <2>5 DEF InputReceive, Contract!Next, Contract!Receive
<1>5. CASE QueueForAck
  <2>1. BeingSent = {lastChunk} /\ BeingSent' = {} /\ lastChunk \in ChunkID
    BY <1>5 DEF QueueForAck, BeingSent
  <2>2. /\ ToSet(ackerChan') = ToSet(ackerChan) \cup {lastChunk}
        /\ lastChunk \notin ToSet(ackerChan) => NoRepeats(ackerChan')
    BY <1>5, <2>1, AppendFacts DEF QueueForAck, NoneTwice
  <2>3. UNCHANGED <<inputChannel, nextSent, leftovers, pending, BeingReported, consumed, left, abandoned>>
    BY <1>5 DEF QueueForAck, BeingReported
  <2>4. UNCHANGED Held
    BY <2>1, <2>2, <2>3 DEF Held
  <2> QED BY <1>5, <2>3, <2>4 DEF QueueForAck, Contract!vars
<1>6. CASE GatherLeftovers
  <2>1. NoRepeats(leftovers') /\ ToSet(leftovers') = Collected(pending)
    BY <1>6, CollectedType, NewLeftoversFacts DEF GatherLeftovers, FinishSession
  <2>2. /\ BeingSent' = {} /\ ackerChan' = <<>> /\ pending' = {} /\ BeingReported' = {} /\ BeingReported = {}
        /\ UNCHANGED <<inputChannel, nextSent, consumed, left, abandoned>>
    BY <1>6 DEF GatherLeftovers, FinishSession, BeingSent, BeingReported
  <2>3. Collected(pending) = Held
    BY <2>2 DEF Collected, Held, BeingSent
  <2>4. UNCHANGED Held
    BY <2>1, <2>2, <2>3, EmptyFacts DEF Held
  <2>5. clientPC' # "finished" /\ UNCHANGED inputState
    BY <1>6 DEF GatherLeftovers, FinishSession
  <2> QED BY <1>6, <2>2, <2>4, <2>5 DEF GatherLeftovers, Contract!vars
<1>7. CASE GatherWithoutAcker
  <2>1. NoRepeats(leftovers') /\ ToSet(leftovers') = Collected({})
    BY <1>7, CollectedType, NewLeftoversFacts DEF GatherWithoutAcker, FinishSession
  <2>2. /\ BeingSent' = {} /\ ackerChan' = <<>> /\ pending' = {} /\ BeingReported' = {}
        /\ UNCHANGED <<inputChannel, nextSent, consumed, left>>
    BY <1>7 DEF GatherWithoutAcker, FinishSession, BeingSent, BeingReported
  <2>3. BeingReported = {ackedChunk} /\ abandoned' = abandoned \cup pending \cup BeingReported
    BY <1>7 DEF GatherWithoutAcker, FinishSession, BeingReported
  <2>4. Collected({}) = ToSet(leftovers) \cup ToSet(ackerChan) \cup BeingSent
    BY DEF Collected, BeingSent
  <2> DEFINE S == pending \cup BeingReported
  <2>5. S \in SUBSET Held /\ Held' = Held \ S
    BY <2>1, <2>2, <2>4, EmptyFacts DEF Held, NoneTwice
  <2>6. clientPC' # "finished" /\ clientPC # "finished" /\ UNCHANGED inputState /\ MayHang
    BY <1>7 DEF GatherWithoutAcker, FinishSession
  <2>7. Contract!Abandon(S)
    BY <2>2, <2>3, <2>5, <2>6 DEF Contract!Abandon
  <2> QED BY <2>5, <2>7 DEF Contract!Next
<1>8. CASE ReportLeftover
  <2>1. /\ ToSet(leftovers) = {Head(leftovers)} \cup ToSet(leftovers') /\ Head(leftovers) \notin ToSet(leftovers')
        /\ NoRepeats(leftovers') /\ left' = left \cup {Head(leftovers)}
    BY <1>8, TailFacts DEF ReportLeftover, NoneTwice
  <2>2. UNCHANGED <<inputChannel, nextSent, BeingSent, ackerChan, pending, BeingReported, consumed, abandoned>>
    BY <1>8 DEF ReportLeftover, BeingSent, BeingReported
  <2>3. Head(leftovers) \in Held /\ Held' = Held \ {Head(leftovers)}
    BY <2>1, <2>2 DEF Held, NoneTwice
  <2>4. inputState # "open" /\ UNCHANGED <<inputState, clientPC>>
    BY <1>8 DEF ReportLeftover, EndsAfterInput
  <2>5. Contract!Leave(Head(leftovers))
    BY <2>1, <2>2, <2>3, <2>4 DEF Contract!Leave
  <2> QED BY <2>3, <2>5 DEF Contract!Next
<1>9. CASE AckerReceive
  <2>1. /\ ToSet(ackerChan) = {Head(ackerChan)} \cup ToSet(ackerChan') /\ Head(ackerChan) \notin ToSet(ackerChan')
        /\ NoRepeats(ackerChan') /\ pending' = pending \cup {Head(ackerChan)}
    BY <1>9, TailFacts DEF AckerReceive, NoneTwice
  <2>2. UNCHANGED <<inputChannel, nextSent, leftovers, BeingSent, BeingReported, consumed, left, abandoned>>
    BY <1>9 DEF AckerReceive, BeingSent, BeingReported
  <2>3. UNCHANGED Held
    BY <2>1, <2>2 DEF Held
  <2> QED BY <1>9, <2>2, <2>3 DEF AckerReceive, Contract!vars
<1>10. CASE ReadAck
  <2>1. ackedChunk' \in pending /\ pending' = pending \ {ackedChunk'}
    BY <1>10 DEF ReadAck
  <2>2. BeingReported = {} /\ BeingReported' = {ackedChunk'}
    BY <1>10 DEF ReadAck, BeingReported
  <2>3. UNCHANGED <<inputChannel, nextSent, leftovers, BeingSent, ackerChan, consumed, left, abandoned>>
    BY <1>10 DEF ReadAck, BeingSent
  <2>4. UNCHANGED Held
    BY <2>1, <2>2, <2>3 DEF Held
  <2> QED BY <1>10, <2>3, <2>4 DEF ReadAck, Contract!vars
<1>11. CASE ReportAcked
  <2>1. BeingReported = {ackedChunk} /\ BeingReported' = {} /\ consumed' = consumed \cup {ackedChunk}
    BY <1>11 DEF ReportAcked, BeingReported
  <2>2. UNCHANGED <<inputChannel, nextSent, leftovers, BeingSent, ackerChan, pending, left, abandoned>>
    BY <1>11 DEF ReportAcked, BeingSent
  <2>3. ackedChunk \in Held /\ Held' = Held \ {ackedChunk}
    BY <2>1, <2>2 DEF Held, NoneTwice
  <2>4. clientPC # "finished" /\ UNCHANGED <<inputState, clientPC>>
    BY <1>11 DEF ReportAcked, NoSession
  <2>5. Contract!Consume(ackedChunk)
    BY <2>1, <2>2, <2>3, <2>4 DEF Contract!Consume
  <2> QED BY <2>3, <2>5 DEF Contract!Next
<1>12. CASE ReportAckedLate
  <2>1. PICK c \in stuck : consumed' = consumed \cup {c} /\ abandoned' = abandoned \ {c}
    BY <1>12 DEF ReportAckedLate
  <2>2. UNCHANGED <<inputChannel, nextSent, leftovers, BeingSent, ackerChan, pending, BeingReported, left>>
    BY <1>12 DEF ReportAckedLate, BeingSent, BeingReported
  <2>3. UNCHANGED <<Held, inputState, clientPC>> /\ c \in abandoned
    BY <1>12, <2>2 DEF ReportAckedLate, Held
  <2>4. Contract!LateConsume(c)
    BY <2>1, <2>2, <2>3 DEF Contract!LateConsume
  <2> QED BY <2>3, <2>4 DEF Contract!Next
<1>13. CASE QuietActions
  BY <1>13, QuietRefines
<1>14. CASE UNCHANGED vars
  BY <1>14 DEF vars, Contract!vars, Held, BeingSent, BeingReported
<1> QED
  BY <1>1, <1>2, <1>3, <1>4, <1>5, <1>6, <1>7, <1>8, <1>9, <1>10, <1>11, <1>12, <1>13, <1>14
     DEF Next, Buffer, Client, ClientInterrupted, Acker, Upstream, Terminated, QuietActions

\* The client keeps what a chunk consumer promises to the buffer: each chunk received is reported once,
\* as leftover only after the input was closed, and the client finishes with none left.  The contract
\* is relaxed in two points: MayReadLate, chunks may be received after InputClosed, and where
\* acknowledgers may hang, MayAbandon, chunks may be given up and reported late or never.
THEOREM KeepsContract == Spec => ImplementsChunkConsumer
<1>1. Init => Contract!Init
  BY EmptyFacts DEF Init, Contract!Init, Held, BeingSent, BeingReported
<1>2. IInv /\ [Next]_vars => [Contract!Next]_(Contract!vars)
  BY StepRefines
<1> QED BY <1>1, <1>2, InvariantHolds, PTL DEF Spec, ImplementsChunkConsumer, Contract!Spec

-----------------------------------------------------------------------------
(* The order of sending *)

Ascending(s) == \A i, j \in DOMAIN s : i < j => s[i] < s[j]

Sending == clientPC \in {"resend", "send", "queue", "input"}

\* Chunks come in order: those sent in this session, then the one in hand, then the leftovers, and
\* then the input, which is only read when there is no leftover.
ChunksInOrder ==
    /\ Ascending(inputChannel) /\ Ascending(leftovers) /\ Ascending(sent)
    /\ \A c \in ToSet(sent) : c < nextSent
    /\ \A c \in ToSet(sent) \cup Held, d \in ToSet(inputChannel) : c < d
    /\ Sending => \A c \in ToSet(sent), d \in ToSet(leftovers) : c < d
    /\ clientPC = "send" => /\ \A c \in ToSet(sent) : c < lastChunk
                            /\ \A d \in ToSet(leftovers) : lastChunk < d
    /\ clientPC = "resend" => stage = "recovery"
    /\ clientPC = "input" => stage = "normal" /\ leftovers = <<>>
    /\ clientPC \in {"send", "queue"} /\ stage = "normal" => leftovers = <<>>
    /\ NoSession => stage = "recovery" /\ sent = <<>>

\* Taking the first element of an ascending sequence.
LEMMA AscendingTail ==
    ASSUME NEW s \in Seq(ChunkID), s # <<>>, Ascending(s)
    PROVE  Ascending(Tail(s)) /\ \A d \in ToSet(Tail(s)) : Head(s) < d
<1>1. /\ Len(s) \in Nat \ {0} /\ DOMAIN s = 1..Len(s) /\ Head(s) = s[1]
      /\ DOMAIN Tail(s) = 1..(Len(s) - 1)
      /\ \A i \in 1..(Len(s) - 1) : Tail(s)[i] = s[i + 1]
  BY EmptySeq, LenProperties, HeadTailProperties
<1> QED BY <1>1 DEF Ascending, ToSet

\* Putting a larger element at the end of one.
LEMMA AscendingAppend ==
    ASSUME NEW s \in Seq(ChunkID), NEW e \in ChunkID, Ascending(s), \A c \in ToSet(s) : c < e
    PROVE  Ascending(Append(s, e))
<1>1. /\ Len(s) \in Nat /\ DOMAIN s = 1..Len(s)
      /\ DOMAIN Append(s, e) = 1..(Len(s) + 1)
      /\ \A i \in 1..Len(s) : Append(s, e)[i] = s[i]
      /\ Append(s, e)[Len(s) + 1] = e
  BY LenProperties
<1> QED BY <1>1 DEF Ascending, ToSet

\* The leftovers of a session are sorted.
LEMMA NewLeftoversAscending ==
    ASSUME NEW chunks \in SUBSET ChunkID, NEW s \in NewLeftovers(chunks)
    PROVE  Ascending(s)
<1>1. s \in [1..Cardinality(chunks) -> chunks]
  BY DEF NewLeftovers
<1> QED BY <1>1 DEF NewLeftovers, Ascending

\* Every step keeps the order.
LEMMA OrderStep ==
    ASSUME IInv, ChunksInOrder, [Next]_vars
    PROVE  ChunksInOrder'
<1> USE DEF Sending, NoSession, othersIdle, sessionUnchanged, ackerUnchanged, upstreamUnchanged, bufferVars,
    clientVars, ackerVars, upstreamVars, reports
<1>0. TypeOK /\ ChunksInHand /\ NoneTwice /\ ChunkID \subseteq Nat
  BY ClientAssumption DEF IInv, ChunkID
<1>1. ASSUME Quiet, UNCHANGED <<sent, stage>>, ~Sending' \/ UNCHANGED clientPC, NoSession' => NoSession
      PROVE  ChunksInOrder'
  BY <1>1 DEF Quiet, ChunksInOrder, Held, BeingSent
<1>2. CASE StartSession
  <2>1. UNCHANGED Held
    BY <1>2, <1>0, QuietStep DEF QuietActions, Quiet, Held, BeingSent
  <2> QED BY <1>2, <2>1, EmptyFacts DEF StartSession, ChunksInOrder, Ascending
<1>3. CASE ResendDone
  <2>1. UNCHANGED <<Held, leftovers, inputChannel, nextSent, sent>> /\ leftovers = <<>> /\ clientPC = "resend"
    BY <1>3 DEF ResendDone, Held, BeingSent, BeingReported
  <2> QED BY <1>3, <2>1, EmptyFacts DEF ResendDone, ChunksInOrder
<1>4. CASE SendChunk
  <2>1. lastChunk \in ChunkID /\ lastChunk \in Held /\ lastChunk < nextSent
    BY <1>4, <1>0 DEF SendChunk, ChunksInHand, TypeOK, Held, BeingSent, NoneTwice
  <2>2. ToSet(sent') = ToSet(sent) \cup {lastChunk} /\ Ascending(sent')
    BY <1>4, <1>0, <2>1, AppendFacts, AscendingAppend DEF SendChunk, ChunksInOrder, TypeOK
  <2>3. UNCHANGED <<Held, leftovers, inputChannel, nextSent, stage>> /\ clientPC = "send" /\ clientPC' = "queue"
    BY <1>4 DEF SendChunk, Held, BeingSent, BeingReported
  <2> QED BY <2>1, <2>2, <2>3 DEF ChunksInOrder
<1>5. CASE BufferSend
  <2>1. nextSent \in ChunkID /\ nextSent' = nextSent + 1 /\ inputChannel' = Append(inputChannel, nextSent)
    BY <1>5 DEF BufferSend
  <2>2. UNCHANGED <<Held, leftovers, sent, clientPC, stage, lastChunk>>
    BY <1>5 DEF BufferSend, Held, BeingSent, BeingReported
  <2>3. \A c \in ToSet(inputChannel) \cup Held \cup ToSet(sent) : c < nextSent
    BY <1>0 DEF NoneTwice, ChunksInOrder
  <2>4. Ascending(inputChannel') /\ ToSet(inputChannel') = ToSet(inputChannel) \cup {nextSent}
    BY <1>0, <2>1, <2>3, AppendFacts, AscendingAppend DEF ChunksInOrder, TypeOK
  <2>5. ToSet(sent) \subseteq Nat
    BY <1>0, ToSetType DEF TypeOK
  <2>6. \A c \in ToSet(sent) : c < nextSent'
    BY <1>0, <2>1, <2>3, <2>5
  <2> QED BY <2>2, <2>3, <2>4, <2>6 DEF ChunksInOrder
<1>6. CASE BufferTakeBack
  <2>1. UNCHANGED <<Held, leftovers, sent, clientPC, stage, lastChunk, nextSent>>
    BY <1>6 DEF BufferTakeBack, Held, BeingSent, BeingReported
  <2>2. Ascending(inputChannel') /\ ToSet(inputChannel') \subseteq ToSet(inputChannel)
    BY <1>6, <1>0, TailFacts, AscendingTail DEF BufferTakeBack, ChunksInOrder, TypeOK
  <2> QED BY <2>1, <2>2 DEF ChunksInOrder
<1>7. CASE ResendNext
  <2>1. leftovers # <<>> /\ lastChunk' = Head(leftovers) /\ leftovers' = Tail(leftovers)
    BY <1>7 DEF ResendNext
  <2>2. /\ lastChunk' \in ToSet(leftovers) /\ ToSet(leftovers') \subseteq ToSet(leftovers)
        /\ Ascending(leftovers') /\ \A d \in ToSet(leftovers') : lastChunk' < d
    BY <1>0, <2>1, TailFacts, AscendingTail DEF ChunksInOrder, TypeOK
  <2>3. UNCHANGED <<inputChannel, sent, stage, nextSent>> /\ clientPC = "resend" /\ clientPC' = "send"
    BY <1>7 DEF ResendNext
  <2>4. Held' \subseteq Held
    BY <1>7, <2>2 DEF ResendNext, Held, BeingSent, BeingReported
  <2>5. stage = "normal" => leftovers' = <<>>
    BY <2>3 DEF ChunksInOrder
  <2> QED BY <2>2, <2>3, <2>4, <2>5 DEF ChunksInOrder
<1>8. CASE InputReceive
  <2>1. inputChannel # <<>> /\ lastChunk' = Head(inputChannel) /\ inputChannel' = Tail(inputChannel)
    BY <1>8 DEF InputReceive
  <2>2. /\ lastChunk' \in ToSet(inputChannel) /\ ToSet(inputChannel') \subseteq ToSet(inputChannel)
        /\ Ascending(inputChannel') /\ \A d \in ToSet(inputChannel') : lastChunk' < d
    BY <1>0, <2>1, TailFacts, AscendingTail DEF ChunksInOrder, TypeOK
  <2>3. UNCHANGED <<leftovers, sent, stage, nextSent>> /\ clientPC = "input" /\ clientPC' = "send"
    BY <1>8 DEF InputReceive
  <2>4. Held' \subseteq Held \cup {lastChunk'}
    BY <1>8 DEF InputReceive, Held, BeingSent, BeingReported
  <2>5. leftovers = <<>>
    BY <2>3 DEF ChunksInOrder
  <2> QED BY <2>2, <2>3, <2>4, <2>5, EmptyFacts DEF ChunksInOrder
<1>9. CASE QueueForAck
  <2>1. ToSet(ackerChan') = ToSet(ackerChan) \cup BeingSent /\ BeingSent' = {}
    BY <1>9, <1>0, AppendFacts DEF QueueForAck, BeingSent, ChunksInHand, TypeOK
  <2>2. UNCHANGED <<leftovers, inputChannel, sent, nextSent, stage, pending, BeingReported>>
    BY <1>9 DEF QueueForAck, BeingReported
  <2>3. Held' = Held
    BY <2>1, <2>2 DEF Held
  <2>4. /\ clientPC = "queue" /\ clientPC' = IF stage = "recovery" THEN "resend" ELSE "input"
        /\ stage \in {"recovery", "normal"}
    BY <1>9, <1>0 DEF QueueForAck, TypeOK
  <2> QED BY <2>2, <2>3, <2>4 DEF ChunksInOrder
<1>10. CASE GatherLeftovers
  <2>1. Ascending(leftovers') /\ ToSet(leftovers') = Collected(pending)
    BY <1>10, <1>0, CollectedType, NewLeftoversFacts, NewLeftoversAscending
       DEF GatherLeftovers, FinishSession, TypeOK
  <2>2. /\ BeingSent' = {} /\ ackerChan' = <<>> /\ pending' = {} /\ BeingReported' = {}
        /\ UNCHANGED <<inputChannel, nextSent>> /\ ~Sending'
        /\ sent' = <<>> /\ stage' = "recovery" /\ Ascending(sent') /\ ToSet(sent') = {}
    BY <1>10, <1>0, EmptyFacts DEF GatherLeftovers, FinishSession, BeingSent, BeingReported, TypeOK, Ascending
  <2>3. Held' \subseteq Held
    BY <2>1, <2>2, EmptyFacts DEF Held, Collected, BeingSent
  <2> QED BY <2>1, <2>2, <2>3 DEF ChunksInOrder
<1>11. CASE GatherWithoutAcker
  <2>1. Ascending(leftovers') /\ ToSet(leftovers') = Collected({})
    BY <1>11, <1>0, CollectedType, NewLeftoversFacts, NewLeftoversAscending
       DEF GatherWithoutAcker, FinishSession, TypeOK
  <2>2. /\ BeingSent' = {} /\ ackerChan' = <<>> /\ pending' = {} /\ BeingReported' = {}
        /\ UNCHANGED <<inputChannel, nextSent>> /\ ~Sending'
        /\ sent' = <<>> /\ stage' = "recovery" /\ Ascending(sent') /\ ToSet(sent') = {}
    BY <1>11, <1>0, EmptyFacts DEF GatherWithoutAcker, FinishSession, BeingSent, BeingReported, TypeOK, Ascending
  <2>3. Held' \subseteq Held
    BY <2>1, <2>2, EmptyFacts DEF Held, Collected, BeingSent
  <2> QED BY <2>1, <2>2, <2>3 DEF ChunksInOrder
<1>12. CASE ReportLeftover
  <2>1. ToSet(leftovers') \subseteq ToSet(leftovers) /\ Ascending(leftovers')
    BY <1>12, <1>0, TailFacts, AscendingTail DEF ReportLeftover, ChunksInOrder, TypeOK
  <2>2. UNCHANGED <<inputChannel, nextSent, sent, stage, clientPC>> /\ clientPC = "exit"
    BY <1>12 DEF ReportLeftover
  <2>3. Held' \subseteq Held
    BY <1>12, <2>1 DEF ReportLeftover, Held, BeingSent, BeingReported
  <2> QED BY <2>1, <2>2, <2>3 DEF ChunksInOrder
<1>13. CASE AckerReceive
  <2>1. UNCHANGED <<leftovers, inputChannel, nextSent, sent, clientPC, stage, lastChunk>>
    BY <1>13 DEF AckerReceive
  <2>2. Held' \subseteq Held
    <3>1. /\ Head(ackerChan) \in ToSet(ackerChan) /\ ToSet(ackerChan') \subseteq ToSet(ackerChan)
          /\ pending' = pending \cup {Head(ackerChan)}
      BY <1>13, <1>0, TailFacts DEF AckerReceive, TypeOK
    <3>2. BeingReported' = {} /\ BeingSent' = BeingSent /\ leftovers' = leftovers
      BY <1>13 DEF AckerReceive, BeingReported, BeingSent
    <3> QED BY <3>1, <3>2 DEF Held
  <2> QED BY <2>1, <2>2 DEF ChunksInOrder
<1>14. CASE ReadAck
  <2>1. UNCHANGED <<leftovers, inputChannel, nextSent, sent, clientPC, stage, lastChunk>>
    BY <1>14 DEF ReadAck
  <2>2. Held' \subseteq Held
    <3>1. ackedChunk' \in pending /\ pending' \subseteq pending
      BY <1>14, <1>0 DEF ReadAck, ChunksInHand
    <3>2. BeingReported' = {ackedChunk'} /\ BeingSent' = BeingSent /\ ackerChan' = ackerChan
      BY <1>14 DEF ReadAck, BeingReported, BeingSent
    <3> QED BY <2>1, <3>1, <3>2 DEF Held
  <2> QED BY <2>1, <2>2 DEF ChunksInOrder
<1>15. CASE ReportAcked
  <2>1. UNCHANGED <<leftovers, inputChannel, nextSent, sent, clientPC, stage, lastChunk>>
    BY <1>15 DEF ReportAcked
  <2>2. Held' \subseteq Held
    BY <1>15, <1>0 DEF ReportAcked, Held, BeingSent, BeingReported, TypeOK
  <2> QED BY <2>1, <2>2 DEF ChunksInOrder
<1>16. CASE ReportAckedLate
  <2>1. UNCHANGED <<leftovers, inputChannel, nextSent, sent, clientPC, stage, lastChunk>>
    BY <1>16 DEF ReportAckedLate
  <2>2. Held' \subseteq Held
    BY <1>16, <1>0 DEF ReportAckedLate, Held, BeingSent, BeingReported, TypeOK
  <2> QED BY <2>1, <2>2 DEF ChunksInOrder
<1>17. ASSUME QuietActions, ~StartSession, ~ResendDone, ~SendChunk PROVE ChunksInOrder'
  <2>1. Quiet
    BY <1>17, <1>0, QuietStep
  <2>2. UNCHANGED <<sent, stage>> /\ (~Sending' \/ UNCHANGED clientPC) /\ (NoSession' => NoSession)
    <3>1. CASE BufferClose
      BY <3>1 DEF BufferClose
    <3>2. CASE BufferSignal
      BY <3>2 DEF BufferSignal
    <3>3. CASE OpenConn
      BY <3>3 DEF OpenConn
    <3>4. CASE OpenConnStopped
      BY <3>4 DEF OpenConnStopped
    <3>5. CASE ResendStopped
      BY <3>5 DEF ResendStopped, EndSession
    <3>6. CASE InputEnded
      BY <3>6 DEF InputEnded, EndSession
    <3>7. CASE QueueStopped
      BY <3>7 DEF QueueStopped, EndSession
    <3>8. CASE CloseAckerChan
      BY <3>8 DEF CloseAckerChan
    <3>9. CASE SoftWaitOver
      BY <3>9 DEF SoftWaitOver
    <3>10. CASE AbortAcker
      BY <3>10 DEF AbortAcker, AbortConn
    <3>11. CASE RetryWaitOver
      BY <3>11 DEF RetryWaitOver
    <3>12. CASE FinishClient
      BY <3>12 DEF FinishClient
    <3>13. CASE OpenConnFails
      BY <3>13 DEF OpenConnFails, Event
    <3>14. CASE InputReconnect
      BY <3>14 DEF InputReconnect, EndSession, Event
    <3>15. CASE PingFails
      BY <3>15 DEF PingFails, EndSession, ConnError, AbortConn, Event
    <3>16. CASE SendChunkFails
      BY <3>16 DEF SendChunkFails, EndSession, ConnError, AbortConn, Event
    <3>17. CASE StopCallback
      BY <3>17 DEF StopCallback, AbortConn
    <3>18. CASE AckerStops
      BY <3>18 DEF AckerStops
    <3>19. CASE ReadUnknownAck
      BY <3>19 DEF ReadUnknownAck
    <3>20. CASE ReadAckFails
      BY <3>20 DEF ReadAckFails, ConnError, AbortConn, Event
    <3>21. CASE UpstreamStore
      BY <3>21 DEF UpstreamStore
    <3>22. CASE UpstreamAck
      BY <3>22 DEF UpstreamAck
    <3>23. CASE UpstreamWrongAck
      BY <3>23 DEF UpstreamWrongAck, Event
    <3> QED BY <1>17, <3>1, <3>2, <3>3, <3>4, <3>5, <3>6, <3>7, <3>8, <3>9, <3>10, <3>11, <3>12,
        <3>13, <3>14, <3>15, <3>16, <3>17, <3>18, <3>19, <3>20, <3>21, <3>22, <3>23 DEF QuietActions
  <2> QED BY <1>1, <2>1, <2>2
<1>18. CASE UNCHANGED vars
  BY <1>1, <1>18 DEF vars, Quiet, BeingReported
<1> QED
  BY <1>2, <1>3, <1>4, <1>5, <1>6, <1>7, <1>8, <1>9, <1>10, <1>11, <1>12, <1>13, <1>14, <1>15,
     <1>16, <1>17, <1>18
     DEF Next, Buffer, Client, ClientInterrupted, Acker, Upstream, Terminated, QuietActions

\* Within a session chunks are sent in the order they were produced, leftovers of earlier sessions first.
THEOREM ChunksAreSentInOrder == Spec => []SentInOrder
<1>1. Init => ChunksInOrder
  BY EmptyFacts DEF Init, ChunksInOrder, Ascending, Sending, NoSession
<1>2. IInv /\ ChunksInOrder /\ [Next]_vars => ChunksInOrder'
  BY OrderStep
<1>3. IInv /\ ChunksInOrder => SentInOrder
  BY LenProperties DEF IInv, TypeOK, ChunksInOrder, Ascending, SentInOrder
<1> QED BY <1>1, <1>2, <1>3, InvariantHolds, PTL DEF Spec

=============================================================================
