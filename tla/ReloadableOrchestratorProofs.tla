--------------------- MODULE ReloadableOrchestratorProofs ---------------------
(***************************************************************************)
(* Proofs about ReloadableOrchestrator, for every number of connections,    *)
(* records, client numbers and reloads, under the assumptions about the     *)
(* environment's timing that the passing run makes too.                     *)
(***************************************************************************)
EXTENDS ReloadableOrchestrator, FiniteSetTheorems, SequenceFacts

-----------------------------------------------------------------------------
(* The inductive invariant *)

\* runConnection has taken a client number and not given it back.
Busy(c) == connPC[c] \notin {"absent", "done"}

\* The slot of the connection's number is its own.
Attached(c) == connPC[c] \in {"read", "send", "tick", "close"}

\* Client numbers of connections at work are slots, and no two share one.
NumbersAreUnique ==
    /\ \A c \in Conn : Busy(c) => number[c] # MaxClientNumber
    /\ \A c, d \in Conn : Busy(c) /\ Busy(d) /\ c # d => number[c] # number[d]

\* A slot is filled exactly while its connection uses it.
SlotsInUse ==
    /\ \A c \in Conn : Attached(c) => downstreamSinks[number[c]] # NoSink
    /\ \A n \in DOMAIN downstreamSinks :
          downstreamSinks[n] # NoSink => \E c \in Conn : Attached(c) /\ number[c] = n

\* Sinks are of the current generation until reload has replaced it, and so is a sink that is
\* still to be stored.
SinksFollow ==
    /\ writeLocked <=> reloadPC \in {"closeSinks", "shutdown", "drain", "renewSinks"}
    /\ \A c \in Conn : connPC[c] = "store" => ~writeLocked /\ newDownstream[c] = downstream
    /\ reloadPC # "renewSinks" =>
          \A n \in DOMAIN downstreamSinks : downstreamSinks[n].generation \in {0, downstream}

\* The current generation is being shut down.
Draining == reloadPC = "drain" \/ mainPC \in {"shutdown", "exited"}

\* The generations before the current one have stopped, those after it do not exist.
GenerationsInTurn ==
    /\ \A g \in Generation : g < downstream => pipeline[g] \in {"none", "stopped"}
    /\ \A g \in Generation : g > downstream => pipeline[g] = "absent"
    /\ pipeline[downstream] \in IF Draining THEN {"none", "closed", "stopped"} ELSE {"none", "up"}
    /\ mainPC = "exited" => pipeline[downstream] # "closed"

\* Each signal is good for one generation.
SignalsBoundGenerations ==
    downstream + (IF signalQueued THEN 1 ELSE 0)
               + (IF reloadPC \in {"initiate", "closeSinks", "shutdown", "drain"} THEN 1 ELSE 0)
        <= signals + 1

\* The end: no reload, then no connection, then no generation.
StopOrder ==
    /\ mainPC # "running" => reloadPC = "idle" /\ ~signalQueued
    /\ mainPC \in {"shutdown", "exited"} =>
          ~listening /\ closing = downstream /\ \A c \in Conn : ~Busy(c)

\* A full buffer is being sent.
FullBuffersAreSent == \A c \in Conn : connPC[c] # "send" => Len(bufferedLogs[c]) < LogBufferCap

IInv ==
    /\ StateTypes /\ FullBuffersAreSent /\ NumbersAreUnique /\ SlotsInUse /\ SinksFollow /\ GenerationsInTurn
    /\ SignalsBoundGenerations /\ StopOrder /\ NeverPanics

-----------------------------------------------------------------------------
(* Lemmas *)

\* What ReloadAssumption says of the numbers that bound the connections and generations.
LEMMA NumbersOfTheModel ==
    /\ MaxReloads \in Nat /\ MaxClientNumber \in Nat \ {0} /\ LogBufferCap \in Nat \ {0}
    /\ Conn \subseteq Nat /\ \A c \in Conn : NumRecords[c] \in Nat
    /\ Generation \subseteq Nat \ {0} /\ 1 \in Generation
  BY ReloadAssumption DEF Conn, Generation

\* An empty slot is told from a filled one by its generation.
LEMMA SinkOrNoSink ==
    ASSUME StateTypes
    PROVE  /\ \A n \in DOMAIN downstreamSinks :
                 /\ downstreamSinks[n] = NoSink <=> downstreamSinks[n].generation = 0
                 /\ downstreamSinks[n].generation \in Generation \cup {0}
                 /\ downstreamSinks[n].pending \in Seq(Record)
                 /\ downstreamSinks[n].generation = 0 => downstreamSinks[n].pending = <<>>
           /\ \A g \in Generation : NewSinkOf(g) \in Sink /\ NewSinkOf(g) # NoSink
                                    /\ NewSinkOf(g).generation = g
<1>1. <<>> \in Seq(Record)
  OBVIOUS
<1>2. \A s \in Sink : s.generation \in Generation /\ s.pending \in Seq(Record) /\ s # NoSink
  BY NumbersOfTheModel DEF Sink, NoSink
<1>3. \A g \in Generation : NewSinkOf(g) \in Sink /\ NewSinkOf(g).generation = g
  BY <1>1 DEF Sink, NewSinkOf
<1>4. ASSUME NEW n \in DOMAIN downstreamSinks
      PROVE  downstreamSinks[n] \in Sink \cup {NoSink}
  BY DEF StateTypes
<1>5. NoSink.generation = 0 /\ NoSink.pending = <<>>
  BY DEF NoSink
<1>6. 0 \notin Generation
  BY NumbersOfTheModel
<1> HIDE DEF NoSink, NewSinkOf
<1> QED
  BY <1>1, <1>2, <1>3, <1>4, <1>5, <1>6

\* The number of a connection at work is a slot.
LEMMA NumberIsSlot ==
    ASSUME StateTypes, NumbersAreUnique, NEW c \in Conn, Busy(c)
    PROVE  number[c] \in DOMAIN downstreamSinks
<1>1. number[c] \in Number /\ number[c] # MaxClientNumber
  BY DEF StateTypes, NumbersAreUnique
<1>2. DOMAIN downstreamSinks = 0..(MaxClientNumber - 1)
  BY DEF StateTypes
<1> QED
  BY <1>1, <1>2, NumbersOfTheModel DEF Number

\* Connections that change nothing but their own variables cannot disturb the other parts.
LEMMA OthersUntouched ==
    ASSUME IInv, UNCHANGED <<reloadVars, signalVars, pipeline, mainVars, panicked>>
    PROVE  SignalsBoundGenerations' /\ GenerationsInTurn' /\ NeverPanics'
  BY DEF IInv, SignalsBoundGenerations, GenerationsInTurn, NeverPanics, Draining, reloadVars,
         signalVars, mainVars

\* A connection that neither begins nor ends, nor gets its sink, keeps its number and slot.
LEMMA ConnectionGoesOn ==
    ASSUME IInv, NEW c \in Conn, Attached(c),
           UNCHANGED <<number, downstreamSinks, newDownstream, reloadVars, signalVars, mainVars>>,
           NEW to \in {"read", "send", "tick", "close"},
           connPC' = [connPC EXCEPT ![c] = to]
    PROVE  (NumbersAreUnique /\ SlotsInUse /\ SinksFollow /\ StopOrder)'
<1>1. \A d \in Conn : /\ Busy(d)' <=> Busy(d)
                      /\ Attached(d)' <=> Attached(d)
                      /\ connPC'[d] = "store" <=> connPC[d] = "store"
  BY DEF IInv, StateTypes, Busy, Attached
<1> HIDE DEF Busy, Attached
<1>2. NumbersAreUnique'
  BY <1>1 DEF IInv, NumbersAreUnique
<1>3. SlotsInUse'
  BY <1>1 DEF IInv, SlotsInUse
<1>4. SinksFollow'
  BY <1>1 DEF IInv, SinksFollow, reloadVars
<1>5. StopOrder'
  BY <1>1 DEF IInv, StopOrder, reloadVars, signalVars, mainVars
<1> QED
  BY <1>2, <1>3, <1>4, <1>5

\* The agent starts with one generation, up, and without connections.
LEMMA InitInvariant == Init => IInv
<1> SUFFICES ASSUME Init PROVE IInv
  OBVIOUS
<1> USE NumbersOfTheModel
<1>1. StateTypes
  <2>1. <<>> \in Seq(Record) /\ Len(<<>>) = 0
    OBVIOUS
  <2>2. nextRecord \in [Conn -> Nat] /\ bufferedLogs \in [Conn -> Seq(Record)]
    BY <2>1 DEF Init
  <2>3. \A c \in Conn : nextRecord[c] \in 1..(NumRecords[c] + 1) /\ Len(bufferedLogs[c]) <= LogBufferCap
    BY <2>1 DEF Init
  <2>4. downstreamSinks \in [0..(MaxClientNumber - 1) -> Sink \cup {NoSink}]
    BY DEF Init
  <2>5. pipeline \in [Generation -> {"absent", "none", "up", "closed", "stopped"}]
    BY DEF Init
  <2>6. /\ connPC \in [Conn -> {"absent", "new", "store", "read", "send", "tick", "close", "done"}]
        /\ purpose \in [Conn -> {"accept", "flush", "end"}]
        /\ number \in [Conn -> Number] /\ fdOpen \in [Conn -> BOOLEAN]
        /\ newDownstream \in [Conn -> Generation \cup {0}]
    BY DEF Init, Number
  <2>7. /\ downstream \in Generation /\ closing \in Generation
        /\ signals \in 0..MaxReloads
    BY DEF Init
  <2>8. /\ writeLocked = FALSE /\ signalQueued = FALSE /\ listening = TRUE /\ panicked = FALSE
        /\ reloadPC = "idle" /\ mainPC = "running"
    BY DEF Init
  <2> QED
    BY <2>2, <2>3, <2>4, <2>5, <2>6, <2>7, <2>8 DEF StateTypes
<1>2. NumbersAreUnique /\ SlotsInUse /\ SinksFollow /\ StopOrder /\ NeverPanics
  BY DEF Init, NumbersAreUnique, SlotsInUse, SinksFollow, StopOrder, NeverPanics, Busy, Attached,
         NoSink
<1>3. GenerationsInTurn /\ FullBuffersAreSent
  BY DEF Init, GenerationsInTurn, Draining, FullBuffersAreSent
<1>4. SignalsBoundGenerations
  BY DEF Init, SignalsBoundGenerations
<1> QED
  BY <1>1, <1>2, <1>3, <1>4 DEF IInv

-----------------------------------------------------------------------------
(* The steps of a connection *)

\* A new connection has a number no other connection or slot has.
LEMMA AcceptConnKeeps ==
    ASSUME Assumed = Assumptions, IInv, NEW c \in Conn, AcceptConn(c)
    PROVE  IInv'
<1> USE NumbersOfTheModel
<1>1. PICK n \in Number \ NumbersInUse :
          /\ number' = [number EXCEPT ![c] = n]
          /\ connPC' = [connPC EXCEPT ![c] = IF n >= MaxClientNumber THEN "done" ELSE "new"]
          /\ fdOpen' = [fdOpen EXCEPT ![c] = n < MaxClientNumber]
  BY DEF AcceptConn
<1>2. \A d \in Conn : Busy(d) => number[d] # n
  <2>1. "uniqueNumbers" \in Assumed
    BY DEF Assumptions
  <2> QED
    BY <1>1, <2>1 DEF NumbersInUse, Busy
<1>3. /\ connPC[c] = "absent" /\ listening
      /\ UNCHANGED <<purpose, newDownstream, nextRecord, bufferedLogs, reloadVars, signalVars,
                     pipeline, received, mainVars, panicked>>
  BY DEF AcceptConn
<1>4. StateTypes'
  <2>1. n \in Number /\ (n < MaxClientNumber) \in BOOLEAN
    BY <1>1 DEF Number
  <2>2. /\ number' \in [Conn -> Number] /\ fdOpen' \in [Conn -> BOOLEAN]
        /\ connPC' \in [Conn -> {"absent", "new", "store", "read", "send", "tick", "close", "done"}]
    BY <1>1, <2>1 DEF IInv, StateTypes
  <2> QED
    BY <1>3, <2>2 DEF IInv, StateTypes, reloadVars, signalVars, mainVars
<1>5. \A d \in Conn : /\ connPC'[d] = IF d = c THEN (IF n >= MaxClientNumber THEN "done" ELSE "new")
                                               ELSE connPC[d]
                      /\ number'[d] = IF d = c THEN n ELSE number[d]
                      /\ Attached(d)' <=> Attached(d)
  BY <1>1, <1>3 DEF IInv, StateTypes, Attached
<1>6. NumbersAreUnique'
  BY <1>1, <1>2, <1>5 DEF IInv, NumbersAreUnique, Busy, Number
<1>7. SlotsInUse'
  BY <1>3, <1>5 DEF IInv, SlotsInUse, Attached, reloadVars
<1>8. SinksFollow'
  BY <1>3, <1>5 DEF IInv, SinksFollow, reloadVars
<1>9. StopOrder'
  BY <1>3, <1>5 DEF IInv, StopOrder, Busy, reloadVars, signalVars, mainVars
<1> QED
  BY <1>3, <1>4, <1>5, <1>6, <1>7, <1>8, <1>9, OthersUntouched DEF IInv, FullBuffersAreSent

\* NewSink takes its sink from the generation that is up.
LEMMA NewSinkKeeps ==
    ASSUME Assumed = Assumptions, IInv, NEW c \in Conn, NewSink(c)
    PROVE  IInv'
<1> USE NumbersOfTheModel
<1>1. /\ connPC[c] = "new" /\ ~writeLocked
      /\ newDownstream' = [newDownstream EXCEPT ![c] = downstream]
      /\ connPC' = [connPC EXCEPT ![c] = "store"]
      /\ UNCHANGED <<purpose, number, fdOpen, nextRecord, bufferedLogs, reloadVars, signalVars,
                     pipeline, received, mainVars, panicked>>
  BY DEF NewSink, Assumptions
<1>2. StateTypes'
  BY <1>1 DEF IInv, StateTypes, reloadVars, signalVars, mainVars
<1>3. \A d \in Conn : /\ connPC'[d] = IF d = c THEN "store" ELSE connPC[d]
                      /\ newDownstream'[d] = IF d = c THEN downstream ELSE newDownstream[d]
                      /\ Busy(d)' <=> Busy(d)
                      /\ Attached(d)' <=> Attached(d)
  BY <1>1 DEF IInv, StateTypes, Attached, Busy
<1>4. NumbersAreUnique' /\ SlotsInUse' /\ StopOrder'
  BY <1>1, <1>3 DEF IInv, NumbersAreUnique, SlotsInUse, StopOrder, reloadVars, signalVars, mainVars
<1>5. SinksFollow'
  BY <1>1, <1>3 DEF IInv, SinksFollow, reloadVars
<1> QED
  BY <1>1, <1>2, <1>3, <1>4, <1>5, OthersUntouched DEF IInv, FullBuffersAreSent

\* The sink is put into the slot of the connection, which was empty.
LEMMA StoreSinkKeeps ==
    ASSUME Assumed = Assumptions, IInv, NEW c \in Conn, StoreSink(c)
    PROVE  IInv'
<1> USE NumbersOfTheModel
<1> DEFINE n == number[c]
<1>1. /\ connPC[c] = "store" /\ ~writeLocked
      /\ downstreamSinks' = [downstreamSinks EXCEPT ![n] = NewSinkOf(newDownstream[c])]
      /\ newDownstream' = [newDownstream EXCEPT ![c] = 0]
      /\ connPC' = [connPC EXCEPT ![c] = "read"]
      /\ UNCHANGED <<purpose, number, fdOpen, nextRecord, bufferedLogs, downstream, writeLocked,
                     reloadPC, signalVars, pipeline, received, mainVars, panicked>>
  BY DEF StoreSink
<1>2. newDownstream[c] = downstream /\ downstream \in Generation /\ n \in DOMAIN downstreamSinks
  BY <1>1, NumberIsSlot DEF IInv, StateTypes, SinksFollow, Busy
<1>3. /\ NewSinkOf(downstream) \in Sink /\ NewSinkOf(downstream) # NoSink
      /\ NewSinkOf(downstream).generation = downstream
  BY <1>2, SinkOrNoSink DEF IInv
<1>4. StateTypes'
  BY <1>1, <1>2, <1>3 DEF IInv, StateTypes, signalVars, mainVars
<1>5. \A d \in Conn : /\ connPC'[d] = IF d = c THEN "read" ELSE connPC[d]
                      /\ Busy(d)' <=> Busy(d)
                      /\ Attached(d)' <=> Attached(d) \/ d = c
                      /\ number'[d] = number[d]
  BY <1>1 DEF IInv, StateTypes, Attached, Busy
<1>6. \A m \in DOMAIN downstreamSinks :
          downstreamSinks'[m] = IF m = n THEN NewSinkOf(downstream) ELSE downstreamSinks[m]
  BY <1>1, <1>2 DEF IInv, StateTypes
<1>7. DOMAIN downstreamSinks' = DOMAIN downstreamSinks
  BY <1>4 DEF IInv, StateTypes
<1>8. \A d \in Conn : Attached(d) => number[d] \in DOMAIN downstreamSinks
  BY NumberIsSlot DEF IInv, Busy, Attached
<1>9. NumbersAreUnique' /\ StopOrder'
  BY <1>1, <1>5 DEF IInv, NumbersAreUnique, StopOrder, signalVars, mainVars
<1>10. SlotsInUse'
  <2>1. ASSUME NEW d \in Conn, Attached(d)' PROVE downstreamSinks'[number'[d]] # NoSink
    BY <1>2, <1>3, <1>5, <1>6, <1>8, <2>1 DEF IInv, SlotsInUse
  <2>2. ASSUME NEW m \in DOMAIN downstreamSinks', downstreamSinks'[m] # NoSink
        PROVE  \E d \in Conn : Attached(d)' /\ number'[d] = m
    <3>1. CASE m = n
      BY <1>5, <3>1
    <3>2. CASE m # n
      <4>1. PICK d \in Conn : Attached(d) /\ number[d] = m
        BY <1>6, <1>7, <2>2, <3>2 DEF IInv, SlotsInUse
      <4> QED
        BY <1>5, <4>1
    <3> QED
      BY <3>1, <3>2
  <2> QED
    BY <2>1, <2>2 DEF SlotsInUse
<1>11. SinksFollow'
  <2>1. \A d \in Conn : connPC'[d] = "store" => ~writeLocked' /\ newDownstream'[d] = downstream'
    BY <1>1, <1>5 DEF IInv, StateTypes, SinksFollow
  <2>2. \A m \in DOMAIN downstreamSinks : reloadPC # "renewSinks" =>
            downstreamSinks'[m].generation \in {0, downstream}
    BY <1>3, <1>6 DEF IInv, SinksFollow
  <2> QED
    BY <1>1, <1>7, <2>1, <2>2 DEF IInv, SinksFollow
<1>12. GenerationsInTurn' /\ SignalsBoundGenerations' /\ NeverPanics'
  BY <1>1 DEF IInv, GenerationsInTurn, SignalsBoundGenerations, NeverPanics, Draining, signalVars,
              mainVars
<1> QED
  BY <1>1, <1>4, <1>5, <1>9, <1>10, <1>11, <1>12 DEF IInv, FullBuffersAreSent

\* Reading and flushing change the connection's own buffer only.
LEMMA ReadingKeeps ==
    ASSUME IInv, NEW c \in Conn, ReadRecord(c) \/ ReadTimeout(c) \/ ReadFails(c)
    PROVE  IInv'
<1> USE NumbersOfTheModel
<1>1. /\ connPC[c] = "read" /\ Attached(c)
      /\ UNCHANGED <<number, fdOpen, newDownstream, reloadVars, signalVars, pipeline, mainVars, panicked>>
      /\ UNCHANGED downstreamSinks
  BY DEF ReadRecord, ReadTimeout, ReadFails, FlushSink, Attached, reloadVars
<1>2. \E to \in {"read", "send", "tick", "close"} : connPC' = [connPC EXCEPT ![c] = to]
  <2>1. CASE ReadRecord(c)
    <3>1. connPC' = connPC \/ connPC' = [connPC EXCEPT ![c] = "send"]
      BY <2>1 DEF ReadRecord
    <3>2. connPC = [connPC EXCEPT ![c] = "read"]
      BY <1>1 DEF IInv, StateTypes
    <3> QED
      BY <3>1, <3>2
  <2>2. CASE ReadTimeout(c) \/ ReadFails(c)
    BY <2>2 DEF ReadTimeout, ReadFails, FlushSink
  <2> QED
    BY <2>1, <2>2
<1>3. PICK to \in {"read", "send", "tick", "close"} : connPC' = [connPC EXCEPT ![c] = to]
  BY <1>2
<1>4. /\ nextRecord' \in [Conn -> Nat] /\ bufferedLogs' \in [Conn -> Seq(Record)]
      /\ purpose' \in [Conn -> {"accept", "flush", "end"}]
      /\ \A d \in Conn : nextRecord'[d] \in 1..(NumRecords[d] + 1) /\ Len(bufferedLogs'[d]) <= LogBufferCap
  <2>1. CASE ReadRecord(c)
    <3>1. nextRecord[c] <= NumRecords[c] /\ <<c, nextRecord[c]>> \in Record
      BY <2>1 DEF ReadRecord, IInv, StateTypes, Record
    <3>2. /\ Append(bufferedLogs[c], <<c, nextRecord[c]>>) \in Seq(Record)
      BY <3>1 DEF IInv, StateTypes
    <3>3. nextRecord[c] + 1 \in Nat /\ nextRecord[c] + 1 \in 1..(NumRecords[c] + 1)
      BY <3>1 DEF IInv, StateTypes
    <3>4. /\ nextRecord' = [nextRecord EXCEPT ![c] = nextRecord[c] + 1]
          /\ bufferedLogs' = [bufferedLogs EXCEPT ![c] = Append(bufferedLogs[c], <<c, nextRecord[c]>>)]
          /\ UNCHANGED purpose
      BY <2>1 DEF ReadRecord
    <3>5. Len(bufferedLogs'[c]) = Len(bufferedLogs[c]) + 1 /\ Len(bufferedLogs[c]) < LogBufferCap
      BY <1>1, <3>4 DEF IInv, StateTypes, FullBuffersAreSent
    <3>6. /\ nextRecord' \in [Conn -> Nat] /\ bufferedLogs' \in [Conn -> Seq(Record)]
          /\ purpose' \in [Conn -> {"accept", "flush", "end"}]
      BY <3>2, <3>3, <3>4 DEF IInv, StateTypes
    <3>7. ASSUME NEW d \in Conn
          PROVE  nextRecord'[d] \in 1..(NumRecords[d] + 1) /\ Len(bufferedLogs'[d]) <= LogBufferCap
      <4>1. CASE d = c
        <5>1. Len(bufferedLogs[c]) \in Nat
          BY DEF IInv, StateTypes
        <5>2. nextRecord'[c] = nextRecord[c] + 1
          BY <3>4 DEF IInv, StateTypes
        <5> QED
          BY <3>3, <3>5, <4>1, <5>1, <5>2
      <4>2. CASE d # c
        BY <3>4, <4>2 DEF IInv, StateTypes
      <4> QED
        BY <4>1, <4>2
    <3> QED
      BY <3>6, <3>7
  <2>2. CASE ReadTimeout(c) \/ ReadFails(c)
    BY <2>2 DEF ReadTimeout, ReadFails, FlushSink, IInv, StateTypes
  <2> QED
    BY <2>1, <2>2
<1>5. StateTypes'
  BY <1>1, <1>3, <1>4 DEF IInv, StateTypes, reloadVars, signalVars, mainVars
<1>6. (NumbersAreUnique /\ SlotsInUse /\ SinksFollow /\ StopOrder)'
  BY <1>1, <1>3, ConnectionGoesOn
<1>7. FullBuffersAreSent'
  <2>1. connPC'[c] # "send" => Len(bufferedLogs'[c]) < LogBufferCap
    <3>1. CASE ReadRecord(c)
      BY <1>1, <3>1 DEF ReadRecord, IInv, StateTypes, FullBuffersAreSent
    <3>2. CASE ReadTimeout(c) \/ ReadFails(c)
      BY <1>1, <3>2 DEF ReadTimeout, ReadFails, FlushSink, IInv, StateTypes, FullBuffersAreSent
    <3> QED
      BY <3>1, <3>2
  <2>2. \A d \in Conn \ {c} : connPC'[d] = connPC[d] /\ bufferedLogs'[d] = bufferedLogs[d]
    BY <1>3 DEF ReadRecord, ReadTimeout, ReadFails, FlushSink, IInv, StateTypes
  <2> QED
    BY <2>1, <2>2 DEF IInv, FullBuffersAreSent
<1> QED
  BY <1>1, <1>5, <1>6, <1>7, OthersUntouched DEF IInv

\* Closing the socket changes nothing that the invariant is about.
LEMMA CloseConnKeeps ==
    ASSUME IInv, NEW c \in Conn, CloseConn(c)
    PROVE  IInv'
<1>1. /\ fdOpen' = [fdOpen EXCEPT ![c] = FALSE]
      /\ UNCHANGED <<connPC, purpose, number, newDownstream, nextRecord, bufferedLogs, reloadVars,
                     signalVars, pipeline, received, mainVars, panicked>>
  BY DEF CloseConn
<1>2. StateTypes'
  BY <1>1 DEF IInv, StateTypes, reloadVars, signalVars, mainVars
<1>3. (NumbersAreUnique /\ SlotsInUse /\ SinksFollow /\ StopOrder)'
  BY <1>1 DEF IInv, NumbersAreUnique, SlotsInUse, SinksFollow, StopOrder, Busy, Attached, reloadVars,
              signalVars, mainVars
<1> QED
  BY <1>1, <1>2, <1>3, OthersUntouched DEF IInv, FullBuffersAreSent

\* The sink of a connection at work, outside a reload, is of the current generation, whose
\* pipeline takes records.
LEMMA SinkIsUsable ==
    ASSUME IInv, NEW c \in Conn, Attached(c), ~writeLocked
    PROVE  /\ number[c] \in DOMAIN downstreamSinks
           /\ downstreamSinks[number[c]] \in Sink
           /\ downstreamSinks[number[c]].generation = downstream
           /\ downstream \in Generation
           /\ ~Draining
           /\ pipeline[downstream] \in {"none", "up"}
           /\ \A records : ~Panics(downstreamSinks[number[c]], records)
<1>1. number[c] \in DOMAIN downstreamSinks
  BY NumberIsSlot DEF IInv, Busy, Attached
<1>2. downstreamSinks[number[c]] # NoSink
  BY DEF IInv, SlotsInUse
<1>3. downstreamSinks[number[c]] \in Sink
  BY <1>1, <1>2 DEF IInv, StateTypes
<1>4. downstreamSinks[number[c]].generation \in {0, downstream}
  BY <1>1 DEF IInv, SinksFollow
<1>5. downstreamSinks[number[c]].generation = downstream /\ downstream \in Generation
  BY <1>1, <1>2, <1>4, SinkOrNoSink DEF IInv, StateTypes
<1>6. ~Draining
  BY DEF IInv, Draining, SinksFollow, StopOrder, Busy, Attached
<1>7. pipeline[downstream] \in {"none", "up"}
  BY <1>6 DEF IInv, GenerationsInTurn
<1> QED
  BY <1>1, <1>2, <1>3, <1>5, <1>6, <1>7 DEF Panics

\* What a call of a sink may do: change what is pending behind the connection's own slot, and
\* start the pipeline of the current generation.
SinkCall(c) ==
    /\ \E pending \in Seq(Record) :
          downstreamSinks' = [downstreamSinks EXCEPT ![number[c]].pending = pending]
    /\ pipeline' = pipeline
       \/ pipeline' = [h \in Generation |->
                         IF h = downstream /\ pipeline[h] = "none" THEN "up" ELSE pipeline[h]]
    /\ panicked' = FALSE
    /\ UNCHANGED <<number, fdOpen, newDownstream, nextRecord, downstream, writeLocked, reloadPC,
                   signalVars, mainVars>>

\* What Accept, Tick and Close of a sink have in common: records move from the connection and
\* its buffer to the pipeline of the current generation, which takes them.
LEMMA SinkCallKeeps ==
    ASSUME IInv, NEW c \in Conn, Attached(c), ~writeLocked, SinkCall(c),
           NEW to \in {"read", "send", "tick", "close"},
           connPC' = [connPC EXCEPT ![c] = to],
           purpose' \in [Conn -> {"accept", "flush", "end"}],
           bufferedLogs' \in [Conn -> Seq(Record)],
           \A d \in Conn : Len(bufferedLogs'[d]) <= LogBufferCap,
           FullBuffersAreSent'
    PROVE  IInv'
<1> USE NumbersOfTheModel
<1> DEFINE n == number[c]
<1>1. PICK pending \in Seq(Record) : downstreamSinks' = [downstreamSinks EXCEPT ![n].pending = pending]
  BY DEF SinkCall
<1>2. n \in DOMAIN downstreamSinks /\ downstreamSinks[n] \in Sink /\ ~Draining
  BY SinkIsUsable
<1>3. /\ downstreamSinks'[n] \in Sink
      /\ downstreamSinks'[n].generation = downstreamSinks[n].generation
      /\ \A m \in DOMAIN downstreamSinks : m # n => downstreamSinks'[m] = downstreamSinks[m]
      /\ DOMAIN downstreamSinks' = DOMAIN downstreamSinks
      /\ downstreamSinks' \in [0..(MaxClientNumber - 1) -> Sink \cup {NoSink}]
  <2>1. downstreamSinks' = [downstreamSinks EXCEPT ![n] = [downstreamSinks[n] EXCEPT !.pending = pending]]
    BY <1>1
  <2>2. /\ [downstreamSinks[n] EXCEPT !.pending = pending] \in Sink
        /\ [downstreamSinks[n] EXCEPT !.pending = pending].generation = downstreamSinks[n].generation
    BY <1>2 DEF Sink
  <2> QED
    BY <1>2, <2>1, <2>2 DEF IInv, StateTypes
<1>4. downstreamSinks[n] # NoSink /\ downstreamSinks'[n] # NoSink
  BY <1>2, <1>3 DEF Sink, NoSink
<1>5. pipeline' \in [Generation -> {"absent", "none", "up", "closed", "stopped"}]
  BY DEF SinkCall, IInv, StateTypes
<1>6. StateTypes'
  BY <1>3, <1>5 DEF SinkCall, IInv, StateTypes, signalVars, mainVars
<1>7. \A d \in Conn : /\ connPC'[d] = IF d = c THEN to ELSE connPC[d]
                      /\ Busy(d)' <=> Busy(d)
                      /\ Attached(d)' <=> Attached(d)
                      /\ connPC'[d] = "store" <=> connPC[d] = "store"
                      /\ number'[d] = number[d]
  BY DEF IInv, StateTypes, SinkCall, Attached, Busy
<1>8. NumbersAreUnique' /\ StopOrder'
  BY <1>7 DEF SinkCall, IInv, NumbersAreUnique, StopOrder, signalVars, mainVars
<1>9. \A d \in Conn : Attached(d) => number[d] \in DOMAIN downstreamSinks
  BY NumberIsSlot DEF IInv, Busy, Attached
<1>10. SlotsInUse'
  <2>1. \A m \in DOMAIN downstreamSinks : downstreamSinks'[m] # NoSink <=> downstreamSinks[m] # NoSink
    BY <1>3, <1>4
  <2>2. \A d \in Conn : Attached(d)' => downstreamSinks'[number'[d]] # NoSink
    BY <1>7, <1>9, <2>1 DEF IInv, SlotsInUse
  <2>3. ASSUME NEW m \in DOMAIN downstreamSinks', downstreamSinks'[m] # NoSink
        PROVE  \E d \in Conn : Attached(d)' /\ number'[d] = m
    <3>1. PICK d \in Conn : Attached(d) /\ number[d] = m
      BY <1>3, <2>1, <2>3 DEF IInv, SlotsInUse
    <3> QED
      BY <1>7, <3>1
  <2> QED
    BY <2>2, <2>3 DEF SlotsInUse
<1>11. SinksFollow'
  <2>1. \A m \in DOMAIN downstreamSinks : downstreamSinks'[m].generation = downstreamSinks[m].generation
    BY <1>3
  <2> QED
    BY <1>3, <1>7, <2>1 DEF SinkCall, IInv, SinksFollow
<1>12. GenerationsInTurn'
  <2>1. Draining' <=> Draining
    BY DEF Draining, SinkCall, mainVars
  <2>2. downstream \in Generation /\ pipeline[downstream] \in {"none", "up"}
    BY SinkIsUsable
  <2>3. \A g \in Generation : /\ g # downstream => pipeline'[g] = pipeline[g]
                              /\ pipeline'[downstream] \in {"none", "up"}
    BY <2>2 DEF SinkCall
  <2> QED
    BY <1>2, <2>1, <2>2, <2>3 DEF SinkCall, IInv, GenerationsInTurn
<1>13. SignalsBoundGenerations' /\ NeverPanics'
  BY DEF SinkCall, IInv, SignalsBoundGenerations, NeverPanics, signalVars
<1> QED
  BY <1>6, <1>8, <1>10, <1>11, <1>12, <1>13 DEF IInv

\* What is left of two sequences behind a position is a sequence of records.
LEMMA RestIsSequence ==
    ASSUME NEW p \in Seq(Record), NEW q \in Seq(Record), NEW k \in 0..Len(p \o q)
    PROVE  SubSeq(p \o q, k + 1, Len(p \o q)) \in Seq(Record)
<1>1. p \o q \in Seq(Record) /\ Len(p \o q) \in Nat
  BY LenProperties, ConcatProperties
<1>2. \A i \in (k + 1)..Len(p \o q) : (p \o q)[i] \in Record
  BY <1>1, ElementOfSeq
<1> QED
  BY <1>1, <1>2, SubSeqProperties

\* A full buffer is handed to the sink.
LEMMA SendBufferKeeps ==
    ASSUME IInv, NEW c \in Conn, SendBuffer(c)
    PROVE  IInv'
<1> DEFINE n == number[c]
           sink == downstreamSinks[n]
           all == sink.pending \o bufferedLogs[c]
<1>1. connPC[c] = "send" /\ ~writeLocked /\ Attached(c)
  BY DEF SendBuffer, Attached
<1>2. PICK k \in 0..Len(all) :
          /\ panicked' = Panics(sink, SubSeq(all, 1, k))
          /\ pipeline' = [h \in Generation |->
                            IF h = sink.generation /\ pipeline[h] = "none" THEN "up" ELSE pipeline[h]]
          /\ downstreamSinks' = [downstreamSinks EXCEPT ![n].pending = SubSeq(all, k + 1, Len(all))]
  BY DEF SendBuffer, SinkAccept
<1>3. sink.generation = downstream /\ sink \in Sink /\ \A records : ~Panics(sink, records)
  BY <1>1, SinkIsUsable
<1>4. SubSeq(all, k + 1, Len(all)) \in Seq(Record)
  <2>1. sink.pending \in Seq(Record) /\ bufferedLogs[c] \in Seq(Record)
    BY <1>3 DEF Sink, IInv, StateTypes
  <2> QED
    BY <2>1, RestIsSequence
<1>5. /\ bufferedLogs' = [bufferedLogs EXCEPT ![c] = <<>>]
      /\ connPC' = [connPC EXCEPT ![c] = IF purpose[c] = "accept" THEN "read" ELSE "tick"]
      /\ UNCHANGED <<purpose, number, fdOpen, newDownstream, nextRecord, downstream, writeLocked,
                     reloadPC, signalVars, mainVars>>
  BY DEF SendBuffer
<1>6. SinkCall(c)
  <2>1. \E pending \in Seq(Record) : downstreamSinks' = [downstreamSinks EXCEPT ![n].pending = pending]
    BY <1>2, <1>4
  <2>2. panicked' = FALSE
    BY <1>2, <1>3
  <2> QED
    BY <1>2, <1>3, <1>5, <2>1, <2>2 DEF SinkCall
<1>7. /\ bufferedLogs' \in [Conn -> Seq(Record)]
      /\ \A d \in Conn : Len(bufferedLogs'[d]) <= LogBufferCap
      /\ purpose' \in [Conn -> {"accept", "flush", "end"}]
      /\ FullBuffersAreSent'
  <2>1. <<>> \in Seq(Record) /\ Len(<<>>) = 0
    OBVIOUS
  <2> QED
    BY <1>5, <2>1, NumbersOfTheModel DEF IInv, StateTypes, FullBuffersAreSent
<1> QED
  BY <1>1, <1>5, <1>6, <1>7, SinkCallKeeps

\* A tick flushes what the sink has.
LEMMA TickSinkKeeps ==
    ASSUME IInv, NEW c \in Conn, TickSink(c)
    PROVE  IInv'
<1> DEFINE n == number[c]
           sink == downstreamSinks[n]
<1>1. connPC[c] = "tick" /\ ~writeLocked /\ Attached(c)
  BY DEF TickSink, Attached
<1>2. PICK due \in {sink.pending, <<>>} :
          /\ panicked' = Panics(sink, due)
          /\ downstreamSinks' = [downstreamSinks EXCEPT ![n].pending = IF due = <<>> THEN sink.pending ELSE <<>>]
  BY DEF TickSink, SinkTick
<1>3. sink \in Sink /\ \A records : ~Panics(sink, records)
  BY <1>1, SinkIsUsable
<1>4. sink.pending \in Seq(Record) /\ <<>> \in Seq(Record)
  BY <1>3 DEF Sink
<1>5. /\ connPC' = [connPC EXCEPT ![c] = IF purpose[c] = "end" THEN "close" ELSE "read"]
      /\ purpose' = [purpose EXCEPT ![c] = IF purpose[c] = "end" THEN purpose[c] ELSE "accept"]
      /\ UNCHANGED <<number, fdOpen, newDownstream, nextRecord, bufferedLogs, downstream, writeLocked,
                     reloadPC, signalVars, pipeline, mainVars>>
  BY DEF TickSink
<1>6. SinkCall(c)
  <2>1. \E pending \in Seq(Record) : downstreamSinks' = [downstreamSinks EXCEPT ![n].pending = pending]
    BY <1>2, <1>4
  <2>2. panicked' = FALSE
    BY <1>2, <1>3
  <2> QED
    BY <1>2, <1>3, <1>5, <2>1, <2>2 DEF SinkCall
<1>7. /\ bufferedLogs' \in [Conn -> Seq(Record)]
      /\ \A d \in Conn : Len(bufferedLogs'[d]) <= LogBufferCap
      /\ purpose' \in [Conn -> {"accept", "flush", "end"}]
      /\ FullBuffersAreSent'
  BY <1>1, <1>5 DEF IInv, StateTypes, FullBuffersAreSent
<1> QED
  BY <1>1, <1>5, <1>6, <1>7, SinkCallKeeps

\* The end of a connection flushes its sink and empties its slot.
LEMMA CloseSinkKeeps ==
    ASSUME IInv, NEW c \in Conn, CloseSink(c)
    PROVE  IInv'
<1> DEFINE n == number[c]
           sink == downstreamSinks[n]
<1>1. connPC[c] = "close" /\ ~writeLocked /\ Attached(c)
  BY DEF CloseSink, Attached
<1>2. /\ panicked' = Panics(sink, sink.pending)
      /\ downstreamSinks' = [downstreamSinks EXCEPT ![n] = NoSink]
      /\ connPC' = [connPC EXCEPT ![c] = "done"]
      /\ UNCHANGED <<purpose, number, fdOpen, newDownstream, nextRecord, bufferedLogs, downstream,
                     writeLocked, reloadPC, signalVars, pipeline, mainVars>>
  BY DEF CloseSink, SinkClose
<1>3. ~Panics(sink, sink.pending) /\ n \in DOMAIN downstreamSinks
  BY <1>1, SinkIsUsable
<1>4. StateTypes'
  <2>1. panicked' = FALSE
    BY <1>2, <1>3
  <2>2. /\ connPC' \in [Conn -> {"absent", "new", "store", "read", "send", "tick", "close", "done"}]
        /\ downstreamSinks' \in [0..(MaxClientNumber - 1) -> Sink \cup {NoSink}]
    BY <1>2 DEF IInv, StateTypes
  <2> QED
    BY <1>2, <2>1, <2>2 DEF IInv, StateTypes, signalVars, mainVars
<1>5. \A d \in Conn : /\ connPC'[d] = IF d = c THEN "done" ELSE connPC[d]
                      /\ Busy(d)' <=> Busy(d) /\ d # c
                      /\ Attached(d)' <=> Attached(d) /\ d # c
                      /\ number'[d] = number[d]
  BY <1>2 DEF IInv, StateTypes, Attached, Busy
<1>6. /\ DOMAIN downstreamSinks' = DOMAIN downstreamSinks
      /\ \A m \in DOMAIN downstreamSinks :
            downstreamSinks'[m] = IF m = n THEN NoSink ELSE downstreamSinks[m]
  BY <1>2, <1>3 DEF IInv, StateTypes
<1>7. NumbersAreUnique' /\ StopOrder' /\ FullBuffersAreSent'
  BY <1>1, <1>2, <1>5 DEF IInv, StateTypes, NumbersAreUnique, StopOrder, FullBuffersAreSent, signalVars,
                          mainVars
<1>8. SlotsInUse'
  <2>1. ASSUME NEW d \in Conn, Attached(d)' PROVE downstreamSinks'[number'[d]] # NoSink
    <3>1. Attached(d) /\ d # c /\ Busy(d) /\ Busy(c)
      BY <1>1, <1>5, <2>1 DEF Attached, Busy
    <3>2. number[d] # n /\ number[d] \in DOMAIN downstreamSinks
      BY <3>1, NumberIsSlot DEF IInv, NumbersAreUnique
    <3> QED
      BY <1>5, <1>6, <3>1, <3>2 DEF IInv, SlotsInUse
  <2>2. ASSUME NEW m \in DOMAIN downstreamSinks', downstreamSinks'[m] # NoSink
        PROVE  \E d \in Conn : Attached(d)' /\ number'[d] = m
    <3>1. m # n /\ downstreamSinks[m] # NoSink /\ m \in DOMAIN downstreamSinks
      BY <1>6, <2>2
    <3>2. PICK d \in Conn : Attached(d) /\ number[d] = m
      BY <3>1 DEF IInv, SlotsInUse
    <3> QED
      BY <1>5, <3>1, <3>2
  <2> QED
    BY <2>1, <2>2 DEF SlotsInUse
<1>9. SinksFollow'
  <2>1. NoSink.generation = 0
    BY DEF NoSink
  <2> QED
    BY <1>2, <1>5, <1>6, <2>1 DEF IInv, SinksFollow
<1>10. GenerationsInTurn' /\ SignalsBoundGenerations' /\ NeverPanics'
  BY <1>2, <1>3 DEF IInv, GenerationsInTurn, SignalsBoundGenerations, NeverPanics, Draining, signalVars,
                    mainVars
<1> QED
  BY <1>4, <1>7, <1>8, <1>9, <1>10 DEF IInv

-----------------------------------------------------------------------------
(* The steps of reload *)

\* Steps that leave the connections alone.
LEMMA ConnectionsUntouched ==
    ASSUME IInv, UNCHANGED <<connVars, downstreamSinks>>
    PROVE  NumbersAreUnique' /\ SlotsInUse' /\ FullBuffersAreSent'
  BY DEF IInv, NumbersAreUnique, SlotsInUse, FullBuffersAreSent, Busy, Attached, connVars

\* A reload up to its lock: the next generation is prepared, or the signal refused.
LEMMA ReloadBeginKeeps ==
    ASSUME Assumed = Assumptions, IInv, SigHup \/ ReloadBegin \/ ReloadFails \/ ReloadLock
    PROVE  IInv'
<1> USE NumbersOfTheModel
<1>1. UNCHANGED <<connVars, downstream, downstreamSinks, pipeline, received, mainVars, panicked>>
  BY DEF SigHup, ReloadBegin, ReloadFails, ReloadLock, reloadVars
<1>2. /\ "noReloadAtStop" \in Assumed /\ "noConnectInReload" \in Assumed
  BY DEF Assumptions
<1>3. StateTypes'
  <2>1. reloadPC' \in {"idle", "initiate", "closeSinks", "shutdown", "drain", "renewSinks"}
    BY DEF SigHup, ReloadBegin, ReloadFails, ReloadLock, IInv, StateTypes, reloadVars
  <2>2. signals' \in 0..MaxReloads
    BY DEF SigHup, ReloadBegin, ReloadFails, ReloadLock, IInv, StateTypes, signalVars
  <2>3. writeLocked' = writeLocked \/ writeLocked' = TRUE
    BY DEF SigHup, ReloadBegin, ReloadFails, ReloadLock, reloadVars
  <2>4. signalQueued' = signalQueued \/ signalQueued' = TRUE \/ signalQueued' = FALSE
    BY DEF SigHup, ReloadBegin, ReloadFails, ReloadLock, signalVars
  <2> QED
    BY <1>1, <2>1, <2>2, <2>3, <2>4 DEF IInv, StateTypes, connVars, mainVars
<1>4. SinksFollow'
  BY <1>1, <1>2 DEF SigHup, ReloadBegin, ReloadFails, ReloadLock, IInv, StateTypes, SinksFollow, connVars,
                    reloadVars
<1>5. GenerationsInTurn'
  <2>1. Draining' <=> Draining
    BY <1>1 DEF SigHup, ReloadBegin, ReloadFails, ReloadLock, Draining, mainVars, reloadVars
  <2> QED
    BY <1>1, <2>1 DEF IInv, GenerationsInTurn, mainVars
<1>6. SignalsBoundGenerations'
  BY <1>1 DEF SigHup, ReloadBegin, ReloadFails, ReloadLock, IInv, StateTypes, SignalsBoundGenerations,
              reloadVars, signalVars
<1>7. StopOrder'
  <2>1. mainPC' # "running" => reloadPC' = "idle" /\ ~signalQueued'
    BY <1>1, <1>2 DEF SigHup, ReloadBegin, ReloadFails, ReloadLock, IInv, StopOrder, reloadVars, signalVars,
                      mainVars
  <2>2. \A c \in Conn : Busy(c)' <=> Busy(c)
    BY <1>1 DEF Busy, connVars
  <2> QED
    BY <1>1, <2>1, <2>2 DEF IInv, StopOrder, mainVars
<1>8. NeverPanics'
  BY <1>1 DEF IInv, NeverPanics
<1> QED
  BY <1>1, <1>3, <1>4, <1>5, <1>6, <1>7, <1>8, ConnectionsUntouched DEF IInv

\* The sinks of all connections are flushed into the old pipelines, still up.
LEMMA ReloadCloseSinksKeeps ==
    ASSUME IInv, ReloadCloseSinks
    PROVE  IInv'
<1> USE NumbersOfTheModel
<1>1. /\ reloadPC = "closeSinks" /\ reloadPC' = "shutdown"
      /\ downstreamSinks' = [n \in DOMAIN downstreamSinks |-> [downstreamSinks[n] EXCEPT !.pending = <<>>]]
      /\ UNCHANGED <<connVars, signalVars, downstream, writeLocked, pipeline, mainVars>>
  BY DEF ReloadCloseSinks
<1>2. ~Draining /\ pipeline[downstream] \in {"none", "up"}
  BY <1>1 DEF IInv, StateTypes, Draining, StopOrder, GenerationsInTurn
<1>3. panicked' = FALSE
  <2>1. ASSUME NEW n \in DOMAIN downstreamSinks, downstreamSinks[n].pending # <<>>
        PROVE  pipeline[downstreamSinks[n].generation] \notin {"closed", "stopped"}
    <3>1. downstreamSinks[n].generation # 0 /\ downstreamSinks[n].generation \in {0, downstream}
      BY <1>1, <2>1, SinkOrNoSink DEF IInv, SinksFollow
    <3> QED
      BY <1>2, <3>1
  <2> QED
    BY <2>1 DEF ReloadCloseSinks
<1>4. \A n \in DOMAIN downstreamSinks :
         /\ downstreamSinks'[n] \in Sink \cup {NoSink}
         /\ downstreamSinks'[n].generation = downstreamSinks[n].generation
         /\ downstreamSinks'[n] # NoSink <=> downstreamSinks[n] # NoSink
  <2> SUFFICES ASSUME NEW n \in DOMAIN downstreamSinks
               PROVE  /\ downstreamSinks'[n] \in Sink \cup {NoSink}
                      /\ downstreamSinks'[n].generation = downstreamSinks[n].generation
                      /\ downstreamSinks'[n] # NoSink <=> downstreamSinks[n] # NoSink
    OBVIOUS
  <2>1. downstreamSinks'[n] = [downstreamSinks[n] EXCEPT !.pending = <<>>]
    BY <1>1
  <2>2. CASE downstreamSinks[n] \in Sink
    <3>1. /\ [downstreamSinks[n] EXCEPT !.pending = <<>>] \in Sink
          /\ [downstreamSinks[n] EXCEPT !.pending = <<>>].generation = downstreamSinks[n].generation
      <4>1. <<>> \in Seq(Record)
        OBVIOUS
      <4> QED
        BY <2>2, <4>1 DEF Sink
    <3>2. \A s \in Sink : s # NoSink
      BY DEF Sink, NoSink
    <3> QED
      BY <2>1, <2>2, <3>1, <3>2
  <2>3. CASE downstreamSinks[n] = NoSink
    <3>1. [NoSink EXCEPT !.pending = <<>>] = NoSink
      BY DEF NoSink
    <3> QED
      BY <2>1, <2>3, <3>1
  <2> QED
    BY <2>2, <2>3 DEF IInv, StateTypes
<1>5. DOMAIN downstreamSinks' = DOMAIN downstreamSinks
      /\ downstreamSinks' \in [0..(MaxClientNumber - 1) -> Sink \cup {NoSink}]
  BY <1>1, <1>4 DEF IInv, StateTypes
<1>6. StateTypes'
  BY <1>1, <1>3, <1>5 DEF IInv, StateTypes, connVars, signalVars, mainVars
<1>7. \A c \in Conn : /\ Busy(c)' <=> Busy(c)
                      /\ Attached(c)' <=> Attached(c)
                      /\ UNCHANGED <<number[c], connPC[c], newDownstream[c], bufferedLogs[c]>>
  BY <1>1 DEF Busy, Attached, connVars
<1>8. \A c \in Conn : Attached(c) => number[c] \in DOMAIN downstreamSinks
  BY NumberIsSlot DEF IInv, Busy, Attached
<1>9. NumbersAreUnique' /\ StopOrder' /\ FullBuffersAreSent'
  BY <1>1, <1>7 DEF IInv, NumbersAreUnique, StopOrder, FullBuffersAreSent, signalVars, mainVars
<1>10. SlotsInUse'
  BY <1>4, <1>5, <1>7, <1>8 DEF IInv, SlotsInUse
<1>11. SinksFollow'
  BY <1>1, <1>4, <1>5, <1>7 DEF IInv, SinksFollow
<1>12. GenerationsInTurn' /\ SignalsBoundGenerations' /\ NeverPanics'
  BY <1>1, <1>3 DEF IInv, GenerationsInTurn, SignalsBoundGenerations, NeverPanics, Draining, signalVars,
                    mainVars
<1> QED
  BY <1>6, <1>9, <1>10, <1>11, <1>12 DEF IInv

\* The old pipelines are closed once no sink is left to send to them.
LEMMA ReloadShutdownKeeps ==
    ASSUME IInv, ReloadShutdown
    PROVE  IInv'
<1> USE NumbersOfTheModel
<1>1. /\ reloadPC = "shutdown" /\ reloadPC' = "drain"
      /\ pipeline' = [pipeline EXCEPT ![downstream] = IF pipeline[downstream] = "up" THEN "closed"
                                                      ELSE pipeline[downstream]]
      /\ UNCHANGED <<connVars, signalVars, downstream, downstreamSinks, writeLocked, mainVars>>
  BY DEF ReloadShutdown, BeginShutdown
<1>2. ~Draining /\ pipeline[downstream] \in {"none", "up"} /\ downstream \in Generation
  BY <1>1 DEF IInv, StateTypes, Draining, StopOrder, GenerationsInTurn
<1>3. panicked' = FALSE
  <2>1. panicked' = (pipeline[downstream] \in {"closed", "stopped"})
    BY DEF ReloadShutdown, BeginShutdown
  <2>2. (pipeline[downstream] \in {"closed", "stopped"}) = FALSE
    BY <1>2
  <2> QED
    BY <2>1, <2>2, Zenon
<1>4. StateTypes'
  BY <1>1, <1>2, <1>3 DEF IInv, StateTypes, connVars, signalVars, mainVars
<1>5. SinksFollow' /\ StopOrder'
  BY <1>1 DEF IInv, SinksFollow, StopOrder, Busy, connVars, signalVars, mainVars
<1>6. GenerationsInTurn'
  BY <1>1, <1>2 DEF IInv, StateTypes, GenerationsInTurn, Draining, mainVars
<1>7. SignalsBoundGenerations' /\ NeverPanics'
  BY <1>1, <1>3 DEF IInv, SignalsBoundGenerations, NeverPanics, signalVars
<1> QED
  BY <1>1, <1>4, <1>5, <1>6, <1>7, ConnectionsUntouched DEF IInv

\* The next generation starts when the old one has stopped.
LEMMA ReloadCompleteKeeps ==
    ASSUME IInv, ReloadComplete
    PROVE  IInv'
<1> USE NumbersOfTheModel
<1>1. PICK initial \in {"none", "up"} : pipeline' = [pipeline EXCEPT ![downstream + 1] = initial]
  BY DEF ReloadComplete
<1>2. /\ reloadPC = "drain" /\ pipeline[downstream] \in {"none", "stopped"}
      /\ downstream' = downstream + 1 /\ reloadPC' = "renewSinks"
      /\ UNCHANGED <<connVars, signalVars, downstreamSinks, writeLocked, mainVars, panicked>>
  BY DEF ReloadComplete, ShutdownOver
<1>3. downstream \in Generation /\ downstream + 1 \in Generation
  <2>1. downstream \in Generation /\ signals \in 0..MaxReloads
    BY DEF IInv, StateTypes
  <2>2. downstream + 1 <= signals + 1
    BY <1>2, <2>1 DEF IInv, SignalsBoundGenerations, Generation
  <2> QED
    BY <2>1, <2>2 DEF Generation
<1>4. mainPC = "running" /\ ~Draining'
  BY <1>2 DEF IInv, StateTypes, StopOrder, Draining, mainVars
<1>5. StateTypes'
  BY <1>1, <1>2, <1>3 DEF IInv, StateTypes, connVars, signalVars, mainVars
<1>6. SinksFollow'
  BY <1>2 DEF IInv, SinksFollow, connVars
<1>7. StopOrder'
  BY <1>2, <1>4 DEF StopOrder, mainVars
<1>8. GenerationsInTurn'
  <2>1. \A g \in Generation : pipeline'[g] = IF g = downstream + 1 THEN initial ELSE pipeline[g]
    BY <1>1 DEF IInv, StateTypes
  <2>2. \A g \in Generation : /\ g < downstream + 1 <=> g < downstream \/ g = downstream
                              /\ g > downstream + 1 => g > downstream
                              /\ g < downstream + 1 => g # downstream + 1
                              /\ g > downstream + 1 => g # downstream + 1
    BY <1>3
  <2>3. ~(mainPC' = "exited")
    BY <1>2, <1>4 DEF mainVars
  <2> QED
    BY <1>2, <1>3, <1>4, <2>1, <2>2, <2>3 DEF IInv, GenerationsInTurn
<1>9. SignalsBoundGenerations'
  BY <1>2, <1>3 DEF IInv, StateTypes, SignalsBoundGenerations, signalVars
<1>10. NeverPanics'
  BY <1>2 DEF IInv, NeverPanics
<1> QED
  BY <1>2, <1>5, <1>6, <1>7, <1>8, <1>9, <1>10, ConnectionsUntouched DEF IInv

\* Each slot in use gets a sink of the new generation before the lock is released.
LEMMA ReloadRenewSinksKeeps ==
    ASSUME IInv, ReloadRenewSinks
    PROVE  IInv'
<1> USE NumbersOfTheModel
<1>1. /\ reloadPC = "renewSinks" /\ reloadPC' = "idle" /\ writeLocked' = FALSE
      /\ downstreamSinks' = [n \in DOMAIN downstreamSinks |->
                               IF downstreamSinks[n] = NoSink THEN NoSink ELSE NewSinkOf(downstream)]
      /\ UNCHANGED <<connVars, signalVars, downstream, pipeline, mainVars, panicked>>
  BY DEF ReloadRenewSinks
<1>2. /\ downstream \in Generation
      /\ NewSinkOf(downstream) \in Sink /\ NewSinkOf(downstream) # NoSink
      /\ NewSinkOf(downstream).generation = downstream /\ NoSink.generation = 0
  BY SinkOrNoSink DEF IInv, StateTypes, NoSink
<1>3. \A n \in DOMAIN downstreamSinks :
         /\ downstreamSinks'[n] \in Sink \cup {NoSink}
         /\ downstreamSinks'[n].generation \in {0, downstream}
         /\ downstreamSinks'[n] # NoSink <=> downstreamSinks[n] # NoSink
  BY <1>1, <1>2
<1>4. DOMAIN downstreamSinks' = DOMAIN downstreamSinks
      /\ downstreamSinks' \in [0..(MaxClientNumber - 1) -> Sink \cup {NoSink}]
  BY <1>1, <1>3 DEF IInv, StateTypes
<1>5. StateTypes'
  BY <1>1, <1>4 DEF IInv, StateTypes, connVars, signalVars, mainVars
<1>6. \A c \in Conn : /\ Busy(c)' <=> Busy(c)
                      /\ Attached(c)' <=> Attached(c)
                      /\ UNCHANGED <<number[c], connPC[c], newDownstream[c], bufferedLogs[c]>>
  BY <1>1 DEF Busy, Attached, connVars
<1>7. \A c \in Conn : Attached(c) => number[c] \in DOMAIN downstreamSinks
  BY NumberIsSlot DEF IInv, Busy, Attached
<1>8. NumbersAreUnique' /\ FullBuffersAreSent'
  BY <1>6 DEF IInv, NumbersAreUnique, FullBuffersAreSent
<1>9. SlotsInUse'
  BY <1>3, <1>4, <1>6, <1>7 DEF IInv, SlotsInUse
<1>10. SinksFollow'
  BY <1>1, <1>3, <1>4, <1>6 DEF IInv, SinksFollow
<1>11. StopOrder'
  BY <1>1, <1>6 DEF IInv, StopOrder, signalVars, mainVars
<1>12. GenerationsInTurn' /\ SignalsBoundGenerations' /\ NeverPanics'
  BY <1>1 DEF IInv, GenerationsInTurn, SignalsBoundGenerations, NeverPanics, Draining, signalVars, mainVars
<1> QED
  BY <1>5, <1>8, <1>9, <1>10, <1>11, <1>12 DEF IInv

-----------------------------------------------------------------------------
(* The steps of the pipelines and of the end *)

\* A closed pipeline stops when it is empty.
LEMMA PipelineStopsKeeps ==
    ASSUME IInv, NEW g \in Generation, PipelineStops(g)
    PROVE  IInv'
<1> USE NumbersOfTheModel
<1>1. /\ pipeline[g] = "closed" /\ pipeline' = [pipeline EXCEPT ![g] = "stopped"]
      /\ UNCHANGED <<connVars, reloadVars, signalVars, received, mainVars, panicked>>
  BY DEF PipelineStops
<1>2. g = downstream /\ Draining
  <2>1. downstream \in Nat /\ g \in Nat
    BY DEF IInv, StateTypes
  <2> QED
    BY <1>1, <2>1 DEF IInv, GenerationsInTurn
<1>3. StateTypes'
  BY <1>1 DEF IInv, StateTypes, connVars, reloadVars, signalVars, mainVars
<1>4. GenerationsInTurn'
  BY <1>1, <1>2 DEF IInv, StateTypes, GenerationsInTurn, Draining, reloadVars, mainVars
<1>5. SinksFollow' /\ StopOrder' /\ SignalsBoundGenerations' /\ NeverPanics'
  BY <1>1 DEF IInv, SinksFollow, StopOrder, SignalsBoundGenerations, NeverPanics, Busy, connVars,
              reloadVars, signalVars, mainVars
<1> QED
  BY <1>1, <1>3, <1>4, <1>5, ConnectionsUntouched DEF IInv, reloadVars

\* The end of the agent: the listener waits for its connections, and Shutdown comes after.
LEMMA StoppingKeeps ==
    ASSUME Assumed = Assumptions, IInv, StopRequest \/ ListenerEnds \/ MainShutdown \/ MainExit
    PROVE  IInv'
<1> USE NumbersOfTheModel
<1>1. UNCHANGED <<connVars, reloadVars, signalVars>>
  BY DEF StopRequest, ListenerEnds, MainShutdown, MainExit
<1>2. SinksFollow' /\ SignalsBoundGenerations'
  BY <1>1 DEF IInv, SinksFollow, SignalsBoundGenerations, connVars, reloadVars, signalVars
<1>3. \A c \in Conn : Busy(c)' <=> Busy(c)
  BY <1>1 DEF Busy, connVars
<1>4. CASE StopRequest \/ ListenerEnds
  <2>1. /\ UNCHANGED <<pipeline, closing, panicked>>
        /\ listening' = listening \/ listening' = FALSE
        /\ mainPC' = mainPC \/ (mainPC = "running" /\ mainPC' = "stopInputs")
    BY <1>4 DEF StopRequest, ListenerEnds
  <2>2. StateTypes' /\ NeverPanics'
    BY <1>1, <2>1 DEF IInv, StateTypes, NeverPanics, connVars, reloadVars, signalVars
  <2>3. StopOrder'
    BY <1>1, <1>3, <1>4 DEF StopRequest, ListenerEnds, Assumptions, IInv, StopOrder, reloadVars, signalVars
  <2>4. GenerationsInTurn'
    <3>1. Draining' <=> Draining
      BY <1>1, <2>1 DEF Draining, reloadVars
    <3> QED
      BY <1>1, <2>1, <3>1 DEF IInv, GenerationsInTurn, reloadVars
  <2> QED
    BY <1>1, <1>2, <2>2, <2>3, <2>4, ConnectionsUntouched DEF IInv, reloadVars
<1>5. CASE MainShutdown
  <2>1. /\ mainPC = "stopInputs" /\ mainPC' = "shutdown" /\ closing' = downstream
        /\ ~listening /\ listening' = listening
        /\ \A c \in Conn : ~Busy(c)
        /\ pipeline' = [pipeline EXCEPT ![downstream] = IF pipeline[downstream] = "up" THEN "closed"
                                                        ELSE pipeline[downstream]]
    BY <1>5 DEF MainShutdown, BeginShutdown, Busy
  <2>2. /\ downstream \in Generation /\ ~Draining /\ pipeline[downstream] \in {"none", "up"}
        /\ reloadPC = "idle" /\ ~signalQueued
    BY <2>1 DEF IInv, StateTypes, Draining, StopOrder, GenerationsInTurn
  <2>3. panicked' = FALSE
    <3>1. panicked' = (pipeline[downstream] \in {"closed", "stopped"})
      BY <1>5 DEF MainShutdown, BeginShutdown
    <3>2. (pipeline[downstream] \in {"closed", "stopped"}) = FALSE
      BY <2>2
    <3> QED
      BY <3>1, <3>2, Zenon
  <2>4. StateTypes' /\ NeverPanics'
    BY <1>1, <2>1, <2>2, <2>3 DEF IInv, StateTypes, NeverPanics, connVars, reloadVars, signalVars
  <2>5. StopOrder'
    BY <1>1, <1>3, <2>1, <2>2 DEF StopOrder, reloadVars, signalVars
  <2>6. GenerationsInTurn'
    BY <1>1, <2>1, <2>2 DEF IInv, StateTypes, GenerationsInTurn, Draining, reloadVars
  <2> QED
    BY <1>1, <1>2, <2>4, <2>5, <2>6, ConnectionsUntouched DEF IInv, reloadVars
<1>6. CASE MainExit
  <2>1. /\ mainPC = "shutdown" /\ mainPC' = "exited" /\ pipeline[closing] \in {"none", "stopped"}
        /\ UNCHANGED <<pipeline, listening, closing, panicked>>
    BY <1>6 DEF MainExit, ShutdownOver
  <2>2. closing = downstream
    BY <2>1 DEF IInv, StopOrder
  <2>3. StateTypes' /\ NeverPanics'
    BY <1>1, <2>1 DEF IInv, StateTypes, NeverPanics, connVars, reloadVars, signalVars
  <2>4. StopOrder'
    BY <1>1, <1>3, <2>1 DEF IInv, StopOrder, reloadVars, signalVars
  <2>5. GenerationsInTurn'
    BY <1>1, <2>1, <2>2 DEF IInv, GenerationsInTurn, Draining, reloadVars
  <2> QED
    BY <1>1, <1>2, <2>3, <2>4, <2>5, ConnectionsUntouched DEF IInv, reloadVars
<1> QED
  BY <1>4, <1>5, <1>6

-----------------------------------------------------------------------------
(* Theorems *)

\* Every step keeps the invariant, if the environment is as careful as Assumptions says.
LEMMA StepInvariant ==
    ASSUME Assumed = Assumptions, IInv, [Next]_vars
    PROVE  IInv'
<1>1. ASSUME NEW c \in Conn, Connection(c) \/ Client(c) \/ CloseConn(c) PROVE IInv'
  BY <1>1, AcceptConnKeeps, NewSinkKeeps, StoreSinkKeeps, ReadingKeeps, SendBufferKeeps, TickSinkKeeps,
     CloseSinkKeeps, CloseConnKeeps DEF Connection, Client
<1>2. CASE SigHup \/ Reload
  BY <1>2, ReloadBeginKeeps, ReloadCloseSinksKeeps, ReloadShutdownKeeps, ReloadCompleteKeeps,
     ReloadRenewSinksKeeps DEF Reload
<1>3. CASE \E g \in Generation : PipelineStops(g)
  BY <1>3, PipelineStopsKeeps
<1>4. CASE StopRequest \/ ListenerEnds \/ MainShutdown \/ MainExit
  BY <1>4, StoppingKeeps
<1>5. CASE Terminated \/ UNCHANGED vars
  <2>1. UNCHANGED <<connVars, reloadVars, signalVars, pipeline, received, mainVars, panicked>>
    BY <1>5 DEF Terminated, vars
  <2>2. StateTypes'
    BY <2>1 DEF connVars, reloadVars, signalVars, mainVars, IInv, StateTypes
  <2>3. SinksFollow' /\ StopOrder'
    BY <2>1 DEF connVars, reloadVars, signalVars, mainVars, IInv, SinksFollow, StopOrder, Busy
  <2> QED
    BY <2>1, <2>2, <2>3, ConnectionsUntouched, OthersUntouched DEF IInv, reloadVars
<1> QED
  BY <1>1, <1>2, <1>3, <1>4, <1>5 DEF Next

\* The invariant holds in every reachable state.
LEMMA Invariance == ASSUME Assumed = Assumptions PROVE Spec => []IInv
<1>1. IInv /\ [Next]_vars => IInv'
  BY StepInvariant
<1> QED
  BY <1>1, InitInvariant, PTL DEF Spec

\* No connection finds its slot empty, and no record is sent to a pipeline that was shut down
\* (reloadable.go:113-131, 145-166), with any number of connections, numbers and reloads.
THEOREM NothingPanics == ASSUME Assumed = Assumptions PROVE Spec => []NeverPanics
<1>1. IInv => NeverPanics
  BY DEF IInv
<1> QED
  BY <1>1, Invariance, PTL

\* After a reload every connection goes on with a sink of the new generation
\* (reloadable.go:124-131).
THEOREM SinksFollowReloads == ASSUME Assumed = Assumptions PROVE Spec => []SinksAreCurrent
<1>1. IInv => SinksAreCurrent
  <2> SUFFICES ASSUME IInv, ~writeLocked, NEW n \in DOMAIN downstreamSinks
               PROVE  downstreamSinks[n] = NoSink \/ downstreamSinks[n].generation = downstream
    BY DEF SinksAreCurrent
  <2> QED
    BY SinkOrNoSink DEF IInv, SinksFollow
<1> QED
  BY <1>1, Invariance, PTL

\* No two generations run, and so use the queue directories, at once (reloadable.go:120-123).
THEOREM GenerationsTakeTurns == ASSUME Assumed = Assumptions PROVE Spec => []OneGenerationRuns
<1>1. IInv => OneGenerationRuns
  <2> SUFFICES ASSUME IInv PROVE OneGenerationRuns
    OBVIOUS
  <2> DEFINE R == {g \in Generation : pipeline[g] \in {"up", "closed"}}
  <2>1. downstream \in Generation /\ Generation \subseteq Nat
    BY NumbersOfTheModel DEF IInv, StateTypes
  <2>2. \A g \in R : g = downstream
    BY <2>1 DEF IInv, GenerationsInTurn
  <2>3. IsFiniteSet({downstream}) /\ Cardinality({downstream}) = 1
    BY FS_Singleton
  <2>4. Cardinality(R) <= 1
    <3>1. R \subseteq {downstream}
      BY <2>2
    <3> HIDE DEF R
    <3> QED
      BY <2>3, <3>1, FS_Subset
  <2> QED
    BY <2>4 DEF OneGenerationRuns
<1> QED
  BY <1>1, Invariance, PTL

-----------------------------------------------------------------------------
(* Where the records are *)

\* Records of one connection in the order of the connection.
InOrder == {p \in Record \X Record : p[1][1] = p[2][1] => p[1][2] < p[2][2]}

PendingAt(n) == downstreamSinks[n].pending

\* The records of a connection go from its parsing sink to the slot of its number, and from there
\* to the pipeline of the current generation: what is further on comes first.
PiecesInOrder ==
    /\ \A g \in Generation : Ordered(received[g], InOrder)
    /\ \A n \in DOMAIN downstreamSinks : Ordered(PendingAt(n), InOrder)
    /\ \A c \in Conn : Ordered(bufferedLogs[c], InOrder)
    /\ \A g, h \in Generation : g < h => Precedes(received[g], received[h], InOrder)
    /\ \A g \in Generation, n \in DOMAIN downstreamSinks : Precedes(received[g], PendingAt(n), InOrder)
    /\ \A g \in Generation, c \in Conn : Precedes(received[g], bufferedLogs[c], InOrder)
    /\ \A n \in DOMAIN downstreamSinks, c \in Conn : Precedes(PendingAt(n), bufferedLogs[c], InOrder)

\* What is pending behind a slot is of the connection that uses it, so that slots may be flushed
\* in any order; a parsing sink holds records of its own connection, and none once that ends.
PiecesHaveOwners ==
    /\ \A n \in DOMAIN downstreamSinks : \A r \in Range(PendingAt(n)) : Attached(r[1]) /\ number[r[1]] = n
    /\ \A c \in Conn : \A r \in Range(bufferedLogs[c]) : r[1] = c
    /\ \A c \in Conn : connPC[c] \notin {"read", "send"} => bufferedLogs[c] = <<>>

\* A record that has been read is somewhere, and no other is.
NothingMissing ==
    \A r \in Record :
        r[2] < nextRecord[r[1]] <=> \/ \E g \in Generation : r \in Range(received[g])
                                    \/ \E n \in DOMAIN downstreamSinks : r \in Range(PendingAt(n))
                                    \/ r \in Range(bufferedLogs[r[1]])

\* Later generations have got nothing, and nothing is pending from the flush of a reload until
\* its end.
PiecesInTurn ==
    /\ \A g \in Generation : g > downstream => received[g] = <<>>
    /\ reloadPC \in {"shutdown", "drain", "renewSinks"} =>
          \A n \in DOMAIN downstreamSinks : PendingAt(n) = <<>>

WayInv == /\ received \in [Generation -> Seq(Record)]
          /\ PiecesInOrder /\ PiecesHaveOwners /\ NothingMissing /\ PiecesInTurn

\* A record is a connection and a number of it.
LEMMA RecordFacts ==
    /\ \A r \in Record : /\ r = <<r[1], r[2]>> /\ r[1] \in Conn
                         /\ r[2] \in 1..NumRecords[r[1]] /\ r[2] \in Nat /\ r[2] > 0
    /\ \A c \in Conn : \A i \in 1..NumRecords[c] : <<c, i>> \in Record
    /\ \A a, b \in Record : a[1] # b[1] => <<a, b>> \in InOrder
    /\ \A a, b \in Record : <<a, b>> \in InOrder /\ a[1] = b[1] => a[2] < b[2]
<1>1. \A r \in Record : \E c \in Conn : r \in {c} \X (1..NumRecords[c])
  BY DEF Record
<1>2. \A r \in Record : r = <<r[1], r[2]>> /\ r[1] \in Conn /\ r[2] \in 1..NumRecords[r[1]]
  BY <1>1
<1>3. \A r \in Record : r[2] \in Nat /\ r[2] > 0
  BY <1>2, NumbersOfTheModel
<1>4. \A c \in Conn : \A i \in 1..NumRecords[c] : <<c, i>> \in Record
  BY DEF Record
<1>5. \A a, b \in Record : <<a, b>> \in InOrder <=> (a[1] = b[1] => a[2] < b[2])
  BY DEF InOrder
<1> QED
  BY <1>2, <1>3, <1>4, <1>5

\* The pieces are sequences of records.
LEMMA PieceTypes ==
    ASSUME StateTypes, received \in [Generation -> Seq(Record)]
    PROVE  /\ \A g \in Generation : received[g] \in Seq(Record) /\ Range(received[g]) \subseteq Record
           /\ \A n \in DOMAIN downstreamSinks : PendingAt(n) \in Seq(Record) /\ Range(PendingAt(n)) \subseteq Record
           /\ \A c \in Conn : bufferedLogs[c] \in Seq(Record) /\ Range(bufferedLogs[c]) \subseteq Record
<1>1. \A g \in Generation : received[g] \in Seq(Record)
  OBVIOUS
<1>2. \A n \in DOMAIN downstreamSinks : PendingAt(n) \in Seq(Record)
  BY SinkOrNoSink DEF PendingAt
<1>3. \A c \in Conn : bufferedLogs[c] \in Seq(Record)
  BY DEF StateTypes
<1> QED
  BY <1>1, <1>2, <1>3, ElementsOf

\* Nothing is in an empty sequence.
LEMMA EmptyPiece == <<>> \in Seq(Record) /\ Range(<<>>) = {} /\ Ordered(<<>>, InOrder)
  BY DEF Range, Ordered

\* Steps that leave the records where they are.
LEMMA PiecesUntouched ==
    ASSUME IInv, WayInv, UNCHANGED <<received, bufferedLogs, nextRecord>>,
           DOMAIN downstreamSinks' = DOMAIN downstreamSinks,
           \A n \in DOMAIN downstreamSinks : PendingAt(n)' = PendingAt(n),
           \A c \in Conn : Attached(c) => Attached(c)' /\ number'[c] = number[c],
           \A c \in Conn : connPC'[c] \notin {"read", "send"} => bufferedLogs[c] = <<>>,
           downstream \in Nat, downstream' \in Nat, downstream <= downstream',
           reloadPC' \in {"shutdown", "drain", "renewSinks"} =>
              \A n \in DOMAIN downstreamSinks : PendingAt(n) = <<>>
    PROVE  WayInv'
<1>1. PiecesInOrder'
  BY DEF WayInv, PiecesInOrder
<1>2. PiecesHaveOwners'
  <2>1. \A n \in DOMAIN downstreamSinks : \A r \in Range(PendingAt(n)) : r[1] \in Conn
    BY PieceTypes, RecordFacts DEF WayInv, IInv
  <2> QED
    BY <2>1 DEF WayInv, PiecesHaveOwners
<1>3. NothingMissing'
  BY DEF WayInv, NothingMissing
<1>4. PiecesInTurn'
  <2>1. \A g \in Generation : g > downstream' => g > downstream
    BY NumbersOfTheModel
  <2> QED
    BY <2>1 DEF WayInv, PiecesInTurn
<1> QED
  BY <1>1, <1>2, <1>3, <1>4 DEF WayInv

\* Records pass from a parsing sink through the slot of the connection: first goes to the pipeline,
\* rest stays behind the slot, and left in the parsing sink.
LEMMA PassKeeps ==
    ASSUME IInv, WayInv, NEW c \in Conn, Attached(c), ~writeLocked,
           NEW first \in Seq(Record), NEW rest \in Seq(Record), NEW left \in Seq(Record),
           Ordered(first, InOrder), Ordered(rest, InOrder), Precedes(first, rest, InOrder),
           \/ left = <<>> /\ Range(first) \cup Range(rest)
                                = Range(PendingAt(number[c])) \cup Range(bufferedLogs[c])
           \/ left = bufferedLogs[c] /\ Range(first) \cup Range(rest) = Range(PendingAt(number[c])),
           received' = Put(downstream, first),
           DOMAIN downstreamSinks' = DOMAIN downstreamSinks,
           PendingAt(number[c])' = rest,
           \A n \in DOMAIN downstreamSinks : n # number[c] => PendingAt(n)' = PendingAt(n),
           bufferedLogs' = [bufferedLogs EXCEPT ![c] = left],
           NEW to \in {"read", "tick", "close", "done"},
           connPC' = [connPC EXCEPT ![c] = to],
           to # "read" => left = <<>>,
           to = "done" => rest = <<>>,
           UNCHANGED <<number, nextRecord, downstream, reloadPC>>
    PROVE  WayInv'
<1> DEFINE n == number[c]
           F == Range(first)
           S == Range(rest)
           L == Range(left)
           G(g) == Range(received[g])
           P(m) == Range(PendingAt(m))
           B(d) == Range(bufferedLogs[d])
<1>1. n \in DOMAIN downstreamSinks /\ downstream \in Generation
  BY SinkIsUsable
<1>2. /\ \A g \in Generation : G(g) \subseteq Record /\ received[g] \in Seq(Record)
      /\ \A m \in DOMAIN downstreamSinks : P(m) \subseteq Record
      /\ \A d \in Conn : B(d) \subseteq Record
  BY PieceTypes DEF WayInv, IInv
<1>3. /\ F \cup S \subseteq P(n) \cup B(c)
      /\ L = {} \/ (L = B(c) /\ F \cup S = P(n))
      /\ F \cup S \cup L = P(n) \cup B(c)
  <2>1. CASE left = <<>> /\ F \cup S = P(n) \cup B(c)
    <3>1. L = {}
      BY <2>1, EmptyPiece, Zenon
    <3> HIDE DEF F, S, L, P, B
    <3> QED
      BY <2>1, <3>1
  <2>2. CASE left = bufferedLogs[c] /\ F \cup S = P(n)
    <3>1. L = B(c)
      BY <2>2, Zenon
    <3> HIDE DEF F, S, L, P, B
    <3> QED
      BY <2>2, <3>1
  <2> QED
    BY <2>1, <2>2
<1>4. \A g \in Generation : received'[g] = IF g = downstream THEN received[g] \o first ELSE received[g]
  BY DEF Put
<1>5. \A g \in Generation : G(g)' = IF g = downstream THEN G(g) \cup F ELSE G(g)
  <2> SUFFICES ASSUME NEW g \in Generation PROVE G(g)' = IF g = downstream THEN G(g) \cup F ELSE G(g)
    OBVIOUS
  <2>1. CASE g = downstream
    <3>1. received'[g] = received[g] \o first /\ received[g] \in Seq(Record)
      BY <1>2, <1>4, <2>1
    <3>2. Range(received[g] \o first) = Range(received[g]) \cup Range(first)
      BY <3>1, JoinedFacts
    <3> QED
      BY <2>1, <3>1, <3>2, Zenon
  <2>2. CASE g # downstream
    BY <1>4, <2>2, Zenon
  <2> QED
    BY <2>1, <2>2
<1>6. \A m \in DOMAIN downstreamSinks : P(m)' = IF m = n THEN S ELSE P(m)
  OBVIOUS
<1>7. \A d \in Conn : B(d)' = IF d = c THEN L ELSE B(d)
  BY DEF IInv, StateTypes
<1>8. \A r \in P(n) \cup B(c) : r[1] = c /\ r \in Record
  <2>1. ASSUME NEW r \in P(n) PROVE r[1] = c
    <3>1. r[1] \in Conn /\ Attached(r[1]) /\ number[r[1]] = n
      BY <1>1, <1>2, RecordFacts DEF WayInv, PiecesHaveOwners
    <3> QED
      BY <3>1 DEF IInv, NumbersAreUnique, Attached, Busy
  <2> QED
    BY <1>1, <1>2, <2>1 DEF WayInv, PiecesHaveOwners
<1>9. \A m \in DOMAIN downstreamSinks : m # n => \A r \in P(m) : r[1] # c /\ r \in Record
  BY <1>2 DEF WayInv, PiecesHaveOwners
<1>10. \A d \in Conn : d # c => \A r \in B(d) : r[1] # c /\ r \in Record
  BY <1>2 DEF WayInv, PiecesHaveOwners
<1>11. /\ \A g \in Generation : \A a \in G(g), b \in P(n) \cup B(c) : <<a, b>> \in InOrder
       /\ \A a \in P(n), b \in B(c) : <<a, b>> \in InOrder
       /\ \A a \in F, b \in S : <<a, b>> \in InOrder
  BY <1>1 DEF WayInv, PiecesInOrder, Precedes
<1>12. \A a, b \in Record : a[1] # b[1] => <<a, b>> \in InOrder
  BY RecordFacts
<1> HIDE DEF n, F, S, L
<1>13. received' \in [Generation -> Seq(Record)]
  <2>1. received[downstream] \o first \in Seq(Record)
    BY <1>1, <1>2
  <2> QED
    BY <1>2, <2>1 DEF Put
<1>14. PiecesInOrder'
  <2>1. \A g \in Generation : Ordered(received'[g], InOrder)
    <3>1. Precedes(received[downstream], first, InOrder)
      BY <1>1, <1>3, <1>11 DEF Precedes, F
    <3>2. Ordered(received[downstream] \o first, InOrder)
      BY <1>1, <1>2, <3>1, JoinedFacts DEF WayInv, PiecesInOrder
    <3> QED
      BY <1>4, <3>2 DEF WayInv, PiecesInOrder
  <2>2. \A m \in DOMAIN downstreamSinks' : Ordered(PendingAt(m)', InOrder)
    BY DEF WayInv, PiecesInOrder, n
  <2>3. \A d \in Conn : Ordered(bufferedLogs'[d], InOrder)
    BY EmptyPiece DEF IInv, StateTypes, WayInv, PiecesInOrder
  <2>4. ASSUME NEW g \in Generation, NEW h \in Generation, g < h
        PROVE  Precedes(received'[g], received'[h], InOrder)
    <3> SUFFICES ASSUME NEW a \in G(g)', NEW b \in G(h)' PROVE <<a, b>> \in InOrder
      BY DEF Precedes
    <3>1. CASE b \in G(h)
      <4>1. h <= downstream
        <5>1. h > downstream => received[h] = <<>>
          BY DEF WayInv, PiecesInTurn
        <5> QED
          BY <1>1, <3>1, <5>1, EmptyPiece, NumbersOfTheModel
      <4>2. a \in G(g)
        <5>1. g # downstream
          BY <1>1, <2>4, <4>1, NumbersOfTheModel
        <5> QED
          BY <1>5, <5>1
      <4> QED
        BY <2>4, <3>1, <4>2 DEF WayInv, PiecesInOrder, Precedes
    <3>2. CASE b \notin G(h)
      <4>1. h = downstream /\ b \in F
        BY <1>5, <3>2
      <4>2. a \in G(g)
        <5>1. g # downstream
          BY <1>1, <2>4, <4>1, NumbersOfTheModel
        <5> QED
          BY <1>5, <5>1
      <4> QED
        BY <1>3, <1>11, <4>1, <4>2
    <3> QED
      BY <3>1, <3>2
  <2>5. ASSUME NEW g \in Generation, NEW m \in DOMAIN downstreamSinks'
        PROVE  Precedes(received'[g], PendingAt(m)', InOrder)
    <3> SUFFICES ASSUME NEW a \in G(g)', NEW b \in P(m)' PROVE <<a, b>> \in InOrder
      BY DEF Precedes
    <3>1. CASE m = n
      BY <1>3, <1>5, <1>6, <1>11, <3>1
    <3>2. CASE m # n
      <4>1. b \in P(m)
        BY <1>6, <3>2
      <4>2. CASE a \in G(g)
        BY <4>1, <4>2 DEF WayInv, PiecesInOrder, Precedes
      <4>3. CASE a \in F
        BY <1>3, <1>8, <1>9, <1>12, <3>2, <4>1, <4>3
      <4> QED
        BY <1>5, <4>2, <4>3
    <3> QED
      BY <3>1, <3>2
  <2>6. ASSUME NEW g \in Generation, NEW d \in Conn
        PROVE  Precedes(received'[g], bufferedLogs'[d], InOrder)
    <3> SUFFICES ASSUME NEW a \in G(g)', NEW b \in B(d)' PROVE <<a, b>> \in InOrder
      BY DEF Precedes
    <3>1. CASE d = c
      BY <1>3, <1>5, <1>7, <1>11, <3>1
    <3>2. CASE d # c
      <4>1. b \in B(d)
        BY <1>7, <3>2
      <4>2. CASE a \in G(g)
        BY <4>1, <4>2 DEF WayInv, PiecesInOrder, Precedes
      <4>3. CASE a \in F
        BY <1>3, <1>8, <1>10, <1>12, <3>2, <4>1, <4>3
      <4> QED
        BY <1>5, <4>2, <4>3
    <3> QED
      BY <3>1, <3>2
  <2>7. ASSUME NEW m \in DOMAIN downstreamSinks', NEW d \in Conn
        PROVE  Precedes(PendingAt(m)', bufferedLogs'[d], InOrder)
    <3> SUFFICES ASSUME NEW a \in P(m)', NEW b \in B(d)' PROVE <<a, b>> \in InOrder
      BY DEF Precedes
    <3>1. CASE m = n /\ d = c
      BY <1>3, <1>6, <1>7, <1>11, <3>1
    <3>2. CASE m = n /\ d # c
      BY <1>3, <1>6, <1>7, <1>8, <1>10, <1>12, <3>2
    <3>3. CASE m # n
      <4>1. a \in P(m) /\ b \in B(d)
        BY <1>3, <1>6, <1>7, <3>3
      <4> QED
        BY <4>1 DEF WayInv, PiecesInOrder, Precedes
    <3> QED
      BY <3>1, <3>2, <3>3
  <2> QED
    BY <2>1, <2>2, <2>3, <2>4, <2>5, <2>6, <2>7 DEF PiecesInOrder
<1>15. PiecesHaveOwners'
  <2>1. \A d \in Conn : connPC'[d] = IF d = c THEN to ELSE connPC[d]
    BY DEF IInv, StateTypes
  <2>2. ASSUME NEW m \in DOMAIN downstreamSinks', NEW r \in P(m)' PROVE Attached(r[1])' /\ number'[r[1]] = m
    <3>1. CASE m = n
      <4>1. r \in S /\ r[1] = c
        BY <1>3, <1>6, <1>8, <3>1
      <4>2. to # "done"
        BY <4>1, EmptyPiece DEF S
      <4> QED
        BY <2>1, <3>1, <4>1, <4>2 DEF Attached, n
    <3>2. CASE m # n
      <4>1. r \in P(m) /\ r[1] # c /\ r[1] \in Conn
        BY <1>6, <1>9, <3>2, RecordFacts
      <4> QED
        BY <2>1, <4>1 DEF WayInv, PiecesHaveOwners, Attached
    <3> QED
      BY <3>1, <3>2
  <2>3. \A d \in Conn : \A r \in B(d)' : r[1] = d
    BY <1>3, <1>7 DEF WayInv, PiecesHaveOwners
  <2>4. \A d \in Conn : connPC'[d] \notin {"read", "send"} => bufferedLogs'[d] = <<>>
    BY <2>1 DEF IInv, StateTypes, WayInv, PiecesHaveOwners
  <2> QED
    BY <2>2, <2>3, <2>4 DEF PiecesHaveOwners
<1>16. NothingMissing'
  <2> SUFFICES ASSUME NEW r \in Record
               PROVE  r[2] < nextRecord[r[1]] <=> \/ \E g \in Generation : r \in G(g)'
                                                  \/ \E m \in DOMAIN downstreamSinks : r \in P(m)'
                                                  \/ r \in B(r[1])'
    BY DEF NothingMissing
  <2>1. r[1] \in Conn
    BY RecordFacts
  <2>2. r[2] < nextRecord[r[1]] <=> \/ \E g \in Generation : r \in G(g)
                                    \/ \E m \in DOMAIN downstreamSinks : r \in P(m)
                                    \/ r \in B(r[1])
    BY DEF WayInv, NothingMissing
  <2>3. CASE r[1] = c
    <3>1. \A m \in DOMAIN downstreamSinks : m # n => r \notin P(m)
      BY <1>9, <2>3
    <3>2. (\E g \in Generation : r \in G(g)') <=> (\E g \in Generation : r \in G(g)) \/ r \in F
      BY <1>1, <1>5
    <3>3. (\E m \in DOMAIN downstreamSinks : r \in P(m)') <=> r \in S
      BY <1>1, <1>6, <3>1
    <3>4. (\E m \in DOMAIN downstreamSinks : r \in P(m)) <=> r \in P(n)
      BY <1>1, <3>1
    <3>5. r \in B(r[1])' <=> r \in L
      BY <1>7, <2>1, <2>3
    <3> QED
      BY <1>3, <2>2, <2>3, <3>2, <3>3, <3>4, <3>5
  <2>4. CASE r[1] # c
    <3>1. r \notin F /\ r \notin S /\ r \notin P(n)
      BY <1>3, <1>8, <2>4
    <3>2. (\E g \in Generation : r \in G(g)') <=> (\E g \in Generation : r \in G(g))
      BY <1>5, <3>1
    <3>3. (\E m \in DOMAIN downstreamSinks : r \in P(m)') <=> (\E m \in DOMAIN downstreamSinks : r \in P(m))
      BY <1>6, <3>1
    <3>4. r \in B(r[1])' <=> r \in B(r[1])
      BY <1>7, <2>1, <2>4
    <3> QED
      BY <2>2, <3>2, <3>3, <3>4
  <2> QED
    BY <2>3, <2>4
<1>17. PiecesInTurn'
  <2>1. \A g \in Generation : g > downstream => received'[g] = <<>>
    BY <1>1, <1>4, NumbersOfTheModel DEF WayInv, PiecesInTurn
  <2>2. reloadPC \notin {"shutdown", "drain", "renewSinks"}
    BY DEF IInv, SinksFollow
  <2> QED
    BY <2>1, <2>2 DEF PiecesInTurn
<1> QED
  BY <1>13, <1>14, <1>15, <1>16, <1>17 DEF WayInv

\* Nothing has been read at the start.
LEMMA InitWay == Init => WayInv
<1> SUFFICES ASSUME Init PROVE WayInv
  OBVIOUS
<1>1. IInv
  BY InitInvariant
<1>2. \A g \in Generation : received[g] = <<>>
  BY DEF Init
<1>3. \A n \in DOMAIN downstreamSinks : PendingAt(n) = <<>>
  BY DEF Init, PendingAt, NoSink
<1>4. \A c \in Conn : bufferedLogs[c] = <<>> /\ nextRecord[c] = 1
  BY DEF Init
<1>5. received \in [Generation -> Seq(Record)]
  BY EmptyPiece DEF Init
<1>6. PiecesInOrder
  BY <1>2, <1>3, <1>4, EmptyPiece DEF PiecesInOrder, Precedes
<1>7. PiecesHaveOwners
  BY <1>3, <1>4, EmptyPiece DEF PiecesHaveOwners
<1>8. NothingMissing
  <2>1. \A r \in Record : r[1] \in Conn /\ r[2] \in Nat /\ ~(r[2] < 1)
    BY RecordFacts
  <2> QED
    BY <1>2, <1>3, <1>4, <2>1, EmptyPiece DEF NothingMissing
<1>9. PiecesInTurn
  BY <1>2, <1>3 DEF PiecesInTurn
<1> QED
  BY <1>5, <1>6, <1>7, <1>8, <1>9 DEF WayInv

\* The next record comes after all that have been read.
LEMMA ReadRecordPass ==
    ASSUME IInv, WayInv, NEW c \in Conn, ReadRecord(c)
    PROVE  WayInv'
<1> DEFINE k == nextRecord[c]
           next == <<c, k>>
           B(d) == Range(bufferedLogs[d])
<1>1. /\ connPC[c] = "read" /\ k <= NumRecords[c]
      /\ bufferedLogs' = [bufferedLogs EXCEPT ![c] = Append(bufferedLogs[c], next)]
      /\ nextRecord' = [nextRecord EXCEPT ![c] = k + 1]
      /\ UNCHANGED <<number, downstream, downstreamSinks, reloadPC, received>>
  BY DEF ReadRecord, reloadVars
<1>2. connPC' = connPC \/ connPC' = [connPC EXCEPT ![c] = "send"]
  BY DEF ReadRecord
<1>3. k \in Nat /\ k \in 1..NumRecords[c] /\ next \in Record
  <2>1. k \in 1..(NumRecords[c] + 1) /\ NumRecords[c] \in Nat
    BY NumbersOfTheModel DEF IInv, StateTypes
  <2>2. k \in 1..NumRecords[c]
    BY <1>1, <2>1
  <2> QED
    BY <2>2, RecordFacts
<1>4. /\ \A g \in Generation : Range(received[g]) \subseteq Record
      /\ \A m \in DOMAIN downstreamSinks : Range(PendingAt(m)) \subseteq Record
      /\ \A d \in Conn : B(d) \subseteq Record /\ bufferedLogs[d] \in Seq(Record)
  BY PieceTypes DEF WayInv, IInv
<1>5. \A d \in Conn : d # c => bufferedLogs'[d] = bufferedLogs[d] /\ nextRecord'[d] = nextRecord[d]
  BY <1>1 DEF IInv, StateTypes
<1>6. bufferedLogs'[c] = bufferedLogs[c] \o <<next>> /\ nextRecord'[c] = k + 1
  <2>1. Append(bufferedLogs[c], next) = bufferedLogs[c] \o <<next>>
    BY <1>3, <1>4, AppendIsConcat
  <2> QED
    BY <1>1, <2>1 DEF IInv, StateTypes
<1>7. <<next>> \in Seq(Record) /\ Range(<<next>>) = {next} /\ Ordered(<<next>>, InOrder)
  <2>1. <<next>> \in Seq(Record) /\ Len(<<next>>) = 1 /\ <<next>>[1] = next
    BY <1>3
  <2>2. \A i, j \in 1..1 : ~(i < j)
    OBVIOUS
  <2> HIDE DEF next
  <2>3. Range(<<next>>) = {<<next>>[i] : i \in 1..1}
    BY <2>1, ElementsOf
  <2>4. 1..1 = {1}
    OBVIOUS
  <2> QED
    BY <2>1, <2>2, <2>3, <2>4 DEF Ordered
<1>8. B(c)' = B(c) \cup {next}
  <2>1. Range(bufferedLogs[c] \o <<next>>) = Range(bufferedLogs[c]) \cup Range(<<next>>)
    BY <1>4, <1>7, JoinedFacts
  <2> QED
    BY <1>6, <1>7, <2>1, Zenon
\* all that is anywhere comes before it
<1>9. ASSUME NEW a \in Record,
             \/ \E g \in Generation : a \in Range(received[g])
             \/ \E m \in DOMAIN downstreamSinks : a \in Range(PendingAt(m))
             \/ a \in B(c)
      PROVE  <<a, next>> \in InOrder
  <2>1. CASE a[1] = c
    <3>1. a[2] < k
      BY <1>9, <2>1 DEF WayInv, NothingMissing
    <3> QED
      BY <1>3, <2>1, <3>1 DEF InOrder
  <2>2. CASE a[1] # c
    BY <1>3, <2>2, RecordFacts
  <2> QED
    BY <2>1, <2>2
<1>10. next[1] = c /\ next[2] = k
  OBVIOUS
<1> HIDE DEF next
<1>11. PiecesInOrder'
  <2>1. Ordered(bufferedLogs'[c], InOrder)
    <3>1. Precedes(bufferedLogs[c], <<next>>, InOrder)
      BY <1>4, <1>7, <1>9 DEF Precedes
    <3>2. Ordered(bufferedLogs[c], InOrder)
      BY DEF WayInv, PiecesInOrder
    <3> QED
      BY <1>4, <1>6, <1>7, <3>1, <3>2, JoinedFacts
  <2>2. \A g \in Generation : Precedes(received[g], bufferedLogs'[c], InOrder)
    BY <1>4, <1>8, <1>9 DEF Precedes, WayInv, PiecesInOrder
  <2>3. \A m \in DOMAIN downstreamSinks : Precedes(PendingAt(m), bufferedLogs'[c], InOrder)
    BY <1>4, <1>8, <1>9 DEF Precedes, WayInv, PiecesInOrder
  <2>4. \A m \in DOMAIN downstreamSinks : PendingAt(m)' = PendingAt(m)
    BY <1>1 DEF PendingAt
  <2> QED
    BY <1>1, <1>5, <2>1, <2>2, <2>3, <2>4 DEF WayInv, PiecesInOrder
<1>12. PiecesHaveOwners'
  <2>1. \A d \in Conn : /\ Attached(d) => Attached(d)'
                        /\ connPC'[d] \notin {"read", "send"} => connPC[d] \notin {"read", "send"} /\ d # c
    BY <1>1, <1>2 DEF IInv, StateTypes, Attached
  <2>2. \A m \in DOMAIN downstreamSinks : \A r \in Range(PendingAt(m)) : r[1] \in Conn
    BY <1>4, RecordFacts
  <2>3. \A d \in Conn : \A r \in B(d)' : r[1] = d
    BY <1>5, <1>8, <1>10 DEF WayInv, PiecesHaveOwners
  <2> QED
    BY <1>1, <1>5, <2>1, <2>2, <2>3 DEF WayInv, PiecesHaveOwners, PendingAt
<1>13. NothingMissing'
  <2> SUFFICES ASSUME NEW r \in Record
               PROVE  r[2] < nextRecord'[r[1]] <=> \/ \E g \in Generation : r \in Range(received[g])
                                                   \/ \E m \in DOMAIN downstreamSinks : r \in Range(PendingAt(m))
                                                   \/ r \in B(r[1])'
    BY <1>1 DEF NothingMissing, PendingAt
  <2>1. r[1] \in Conn /\ r[2] \in Nat /\ r = <<r[1], r[2]>>
    BY RecordFacts
  <2>2. r[2] < nextRecord[r[1]] <=> \/ \E g \in Generation : r \in Range(received[g])
                                    \/ \E m \in DOMAIN downstreamSinks : r \in Range(PendingAt(m))
                                    \/ r \in B(r[1])
    BY DEF WayInv, NothingMissing
  <2>3. CASE r[1] = c
    <3>1. r[2] < k + 1 <=> r[2] < k \/ r[2] = k
      BY <1>3, <2>1
    <3>2. r = next <=> r[2] = k
      BY <2>1, <2>3 DEF next
    <3>3. r \in B(r[1])' <=> r \in B(r[1]) \/ r = next
      BY <1>8, <2>3
    <3> QED
      BY <1>6, <2>2, <2>3, <3>1, <3>2, <3>3
  <2>4. CASE r[1] # c
    BY <1>5, <2>1, <2>2, <2>4
  <2> QED
    BY <2>3, <2>4
<1>14. PiecesInTurn'
  BY <1>1 DEF WayInv, PiecesInTurn, PendingAt
<1> QED
  BY <1>1, <1>11, <1>12, <1>13, <1>14 DEF WayInv

\* Accept: any number of the records go on, the others stay pending.
LEMMA SendBufferPass ==
    ASSUME IInv, WayInv, NEW c \in Conn, SendBuffer(c)
    PROVE  WayInv'
<1> DEFINE n == number[c]
           sink == downstreamSinks[n]
           all == sink.pending \o bufferedLogs[c]
<1>1. /\ connPC[c] = "send" /\ ~writeLocked /\ Attached(c)
      /\ bufferedLogs' = [bufferedLogs EXCEPT ![c] = <<>>]
      /\ connPC' = [connPC EXCEPT ![c] = IF purpose[c] = "accept" THEN "read" ELSE "tick"]
      /\ UNCHANGED <<number, nextRecord, downstream, reloadPC>>
  BY DEF SendBuffer, Attached
<1>2. PICK k \in 0..Len(all) :
          /\ received' = Put(sink.generation, SubSeq(all, 1, k))
          /\ downstreamSinks' = [downstreamSinks EXCEPT ![n].pending = SubSeq(all, k + 1, Len(all))]
  BY DEF SendBuffer, SinkAccept
<1>3. n \in DOMAIN downstreamSinks /\ sink \in Sink /\ sink.generation = downstream
  BY <1>1, SinkIsUsable
<1> DEFINE first == SubSeq(all, 1, k)
           rest == SubSeq(all, k + 1, Len(all))
<1>4. PendingAt(n) = sink.pending /\ PendingAt(n) \in Seq(Record) /\ bufferedLogs[c] \in Seq(Record)
  BY <1>3, PieceTypes DEF PendingAt, IInv, WayInv
<1>5. /\ all \in Seq(Record) /\ Range(all) = Range(PendingAt(n)) \cup Range(bufferedLogs[c])
      /\ Ordered(all, InOrder)
  <2>1. /\ Ordered(PendingAt(n), InOrder) /\ Ordered(bufferedLogs[c], InOrder)
        /\ Precedes(PendingAt(n), bufferedLogs[c], InOrder)
    BY <1>3 DEF WayInv, PiecesInOrder
  <2> QED
    BY <1>4, <2>1, JoinedFacts
<1> HIDE DEF all
<1>6. /\ first \in Seq(Record) /\ rest \in Seq(Record) /\ Range(all) = Range(first) \cup Range(rest)
      /\ Ordered(first, InOrder) /\ Ordered(rest, InOrder) /\ Precedes(first, rest, InOrder)
  BY <1>5, CutFacts
<1>7. /\ DOMAIN downstreamSinks' = DOMAIN downstreamSinks
      /\ PendingAt(n)' = rest
      /\ \A m \in DOMAIN downstreamSinks : m # n => PendingAt(m)' = PendingAt(m)
  <2>1. downstreamSinks' = [downstreamSinks EXCEPT ![n].pending = rest]
    BY <1>2
  <2>2. number' = number
    BY <1>1
  <2> HIDE DEF rest
  <2> QED
    BY <1>3, <2>1, <2>2 DEF PendingAt, Sink
<1>8. received' = Put(downstream, first)
  BY <1>2, <1>3
<1>9. Range(first) \cup Range(rest) = Range(PendingAt(n)) \cup Range(bufferedLogs[c])
  BY <1>5, <1>6, Zenon
<1> DEFINE to == IF purpose[c] = "accept" THEN "read" ELSE "tick"
<1>10. connPC' = [connPC EXCEPT ![c] = to] /\ to \in {"read", "tick", "close", "done"} /\ to # "done"
  BY <1>1
<1> HIDE DEF first, rest, sink, to
<1> QED
  BY <1>1, <1>6, <1>7, <1>8, <1>9, <1>10, EmptyPiece, PassKeeps

\* Tick: all that is pending goes on, or nothing.
LEMMA TickSinkPass ==
    ASSUME IInv, WayInv, NEW c \in Conn, TickSink(c)
    PROVE  WayInv'
<1> DEFINE n == number[c]
           sink == downstreamSinks[n]
<1>1. /\ connPC[c] = "tick" /\ ~writeLocked /\ Attached(c)
      /\ connPC' = [connPC EXCEPT ![c] = IF purpose[c] = "end" THEN "close" ELSE "read"]
      /\ UNCHANGED <<number, nextRecord, bufferedLogs, downstream, reloadPC>>
  BY DEF TickSink, Attached
<1>2. PICK due \in {sink.pending, <<>>} :
          /\ received' = Put(sink.generation, due)
          /\ downstreamSinks' = [downstreamSinks EXCEPT ![n].pending = IF due = <<>> THEN sink.pending ELSE <<>>]
  BY DEF TickSink, SinkTick
<1>3. n \in DOMAIN downstreamSinks /\ sink \in Sink /\ sink.generation = downstream
  BY <1>1, SinkIsUsable
<1>4. /\ PendingAt(n) = sink.pending /\ PendingAt(n) \in Seq(Record) /\ Ordered(PendingAt(n), InOrder)
      /\ bufferedLogs[c] \in Seq(Record) /\ bufferedLogs[c] = <<>>
  BY <1>1, <1>3, PieceTypes DEF PendingAt, IInv, WayInv, PiecesInOrder, PiecesHaveOwners
<1> DEFINE rest == IF due = <<>> THEN sink.pending ELSE <<>>
<1>5. (due = <<>> /\ rest = PendingAt(n)) \/ (due = PendingAt(n) /\ rest = <<>>)
  BY <1>2, <1>4
<1>6. /\ DOMAIN downstreamSinks' = DOMAIN downstreamSinks
      /\ PendingAt(n)' = rest
      /\ \A m \in DOMAIN downstreamSinks : m # n => PendingAt(m)' = PendingAt(m)
  <2>1. downstreamSinks' = [downstreamSinks EXCEPT ![n].pending = rest]
    BY <1>2
  <2>2. number' = number
    BY <1>1
  <2> HIDE DEF rest
  <2> QED
    BY <1>3, <2>1, <2>2 DEF PendingAt, Sink
<1> HIDE DEF rest
<1>7. /\ due \in Seq(Record) /\ rest \in Seq(Record)
      /\ Ordered(due, InOrder) /\ Ordered(rest, InOrder) /\ Precedes(due, rest, InOrder)
  BY <1>4, <1>5, EmptyPiece DEF Precedes
<1>8. Range(due) \cup Range(rest) = Range(PendingAt(n))
  <2>1. \/ Range(due) = {} /\ Range(rest) = Range(PendingAt(n))
        \/ Range(rest) = {} /\ Range(due) = Range(PendingAt(n))
    BY <1>5, EmptyPiece, Zenon
  <2> QED
    BY <2>1
<1>9. bufferedLogs' = [bufferedLogs EXCEPT ![c] = bufferedLogs[c]]
  BY <1>1 DEF IInv, StateTypes
<1> DEFINE to == IF purpose[c] = "end" THEN "close" ELSE "read"
<1>10. connPC' = [connPC EXCEPT ![c] = to] /\ to \in {"read", "tick", "close", "done"} /\ to # "done"
  BY <1>1
<1>11. received' = Put(downstream, due)
  BY <1>2, <1>3
<1> HIDE DEF sink, to
<1> QED
  BY <1>1, <1>4, <1>6, <1>7, <1>8, <1>9, <1>10, <1>11, PassKeeps

\* Close: all that is pending goes on, and the slot is empty.
LEMMA CloseSinkPass ==
    ASSUME IInv, WayInv, NEW c \in Conn, CloseSink(c)
    PROVE  WayInv'
<1> DEFINE n == number[c]
           sink == downstreamSinks[n]
<1>1. /\ connPC[c] = "close" /\ ~writeLocked /\ Attached(c)
      /\ connPC' = [connPC EXCEPT ![c] = "done"]
      /\ received' = Put(sink.generation, sink.pending)
      /\ downstreamSinks' = [downstreamSinks EXCEPT ![n] = NoSink]
      /\ UNCHANGED <<number, nextRecord, bufferedLogs, downstream, reloadPC>>
  BY DEF CloseSink, SinkClose, Attached
<1>2. n \in DOMAIN downstreamSinks /\ sink.generation = downstream
  BY <1>1, SinkIsUsable
<1>3. /\ PendingAt(n) = sink.pending /\ PendingAt(n) \in Seq(Record) /\ Ordered(PendingAt(n), InOrder)
      /\ bufferedLogs[c] \in Seq(Record) /\ bufferedLogs[c] = <<>>
  BY <1>1, <1>2, PieceTypes DEF PendingAt, IInv, WayInv, PiecesInOrder, PiecesHaveOwners
<1>4. /\ DOMAIN downstreamSinks' = DOMAIN downstreamSinks
      /\ PendingAt(n)' = <<>>
      /\ \A m \in DOMAIN downstreamSinks : m # n => PendingAt(m)' = PendingAt(m)
  BY <1>1, <1>2 DEF PendingAt, NoSink
<1>5. Precedes(PendingAt(n), <<>>, InOrder)
  BY EmptyPiece DEF Precedes
<1>6. Range(PendingAt(n)) \cup Range(<<>>) = Range(PendingAt(n))
  BY EmptyPiece
<1>7. bufferedLogs' = [bufferedLogs EXCEPT ![c] = bufferedLogs[c]]
  BY <1>1 DEF IInv, StateTypes
<1>8. received' = Put(downstream, PendingAt(n))
  BY <1>1, <1>2, <1>3
<1> HIDE DEF sink
<1> QED
  BY <1>1, <1>3, <1>4, <1>5, <1>6, <1>7, <1>8, EmptyPiece, PassKeeps

\* Slots flushed one after the other: connections are told apart by their slots, so the records
\* stay in order.
LEMMA SlotsFlushed ==
    ASSUME IInv, WayInv, NEW s \in Seq(Seq(Record)), Len(s) = MaxClientNumber,
           \A i \in 1..MaxClientNumber : s[i] = PendingAt(i - 1) \/ s[i] = <<>>
    PROVE  /\ FlattenSeq(s) \in Seq(Record)
           /\ Range(FlattenSeq(s)) = UNION {Range(s[i]) : i \in 1..MaxClientNumber}
           /\ Ordered(FlattenSeq(s), InOrder)
<1>1. /\ \A i \in 1..MaxClientNumber : i - 1 \in DOMAIN downstreamSinks
      /\ \A i, j \in 1..MaxClientNumber : i < j => i - 1 # j - 1
  BY NumbersOfTheModel DEF IInv, StateTypes
<1>2. \A i \in 1..MaxClientNumber : Ordered(s[i], InOrder)
  BY <1>1, EmptyPiece DEF WayInv, PiecesInOrder
<1>3. \A i \in 1..MaxClientNumber : \A r \in Range(s[i]) :
         r \in Record /\ Attached(r[1]) /\ number[r[1]] = i - 1
  <2> SUFFICES ASSUME NEW i \in 1..MaxClientNumber, NEW r \in Range(s[i])
               PROVE  r \in Record /\ Attached(r[1]) /\ number[r[1]] = i - 1
    OBVIOUS
  <2>1. s[i] = PendingAt(i - 1)
    BY EmptyPiece
  <2>2. r \in Range(PendingAt(i - 1))
    BY <2>1, Zenon
  <2> QED
    BY <1>1, <2>2, PieceTypes DEF IInv, WayInv, PiecesHaveOwners
<1>4. ASSUME NEW i \in 1..MaxClientNumber, NEW j \in 1..MaxClientNumber, i < j
      PROVE  Precedes(s[i], s[j], InOrder)
  <2> SUFFICES ASSUME NEW a \in Range(s[i]), NEW b \in Range(s[j]) PROVE <<a, b>> \in InOrder
    BY DEF Precedes
  <2>1. i - 1 # j - 1
    BY <1>1, <1>4
  <2>2. a \in Record /\ number[a[1]] = i - 1 /\ b \in Record /\ number[b[1]] = j - 1
    BY <1>3
  <2>3. a[1] # b[1]
    BY <2>1, <2>2, Zenon
  <2> QED
    BY <2>2, <2>3, RecordFacts
<1> QED
  BY <1>2, <1>4, FlattenFacts

\* Close of all sinks by a reload: all that is pending goes to the generation that is up.
LEMMA ReloadCloseSinksPass ==
    ASSUME IInv, WayInv, ReloadCloseSinks
    PROVE  WayInv'
<1> DEFINE slots(g) == [i \in 1..MaxClientNumber |->
                          IF downstreamSinks[i - 1].generation = g THEN downstreamSinks[i - 1].pending ELSE <<>>]
           first == PendingOf(downstream)
           F == Range(first)
           G(g) == Range(received[g])
           P(m) == Range(PendingAt(m))
           B(d) == Range(bufferedLogs[d])
<1>1. /\ reloadPC = "closeSinks" /\ reloadPC' = "shutdown"
      /\ received' = [g \in Generation |-> received[g] \o PendingOf(g)]
      /\ downstreamSinks' = [m \in DOMAIN downstreamSinks |-> [downstreamSinks[m] EXCEPT !.pending = <<>>]]
      /\ UNCHANGED <<connPC, number, nextRecord, bufferedLogs, downstream>>
  BY DEF ReloadCloseSinks, connVars
<1>2. /\ downstream \in Generation
      /\ \A i \in 1..MaxClientNumber : i - 1 \in DOMAIN downstreamSinks
      /\ \A m \in DOMAIN downstreamSinks : m + 1 \in 1..MaxClientNumber /\ (m + 1) - 1 = m
  BY NumbersOfTheModel DEF IInv, StateTypes
<1>3. \A m \in DOMAIN downstreamSinks : \/ downstreamSinks[m].generation = downstream
                                        \/ PendingAt(m) = <<>>
  BY <1>1, SinkOrNoSink DEF PendingAt, IInv, SinksFollow
<1>4. /\ \A g \in Generation : G(g) \subseteq Record /\ received[g] \in Seq(Record)
      /\ \A m \in DOMAIN downstreamSinks : P(m) \subseteq Record /\ PendingAt(m) \in Seq(Record)
      /\ \A d \in Conn : B(d) \subseteq Record
  BY PieceTypes DEF WayInv, IInv
<1>5. ASSUME NEW g \in Generation
      PROVE  /\ slots(g) \in Seq(Seq(Record)) /\ Len(slots(g)) = MaxClientNumber
             /\ \A i \in 1..MaxClientNumber :
                   slots(g)[i] = IF downstreamSinks[i - 1].generation = g THEN PendingAt(i - 1) ELSE <<>>
             /\ PendingOf(g) = FlattenSeq(slots(g))
  <2>1. slots(g) \in [1..MaxClientNumber -> Seq(Record)]
    BY <1>2, <1>4, EmptyPiece DEF PendingAt
  <2>2. MaxClientNumber \in Nat
    BY NumbersOfTheModel
  <2>3. \A i \in 1..MaxClientNumber :
           slots(g)[i] = IF downstreamSinks[i - 1].generation = g THEN PendingAt(i - 1) ELSE <<>>
    BY DEF PendingAt
  <2>4. PendingOf(g) = FlattenSeq(slots(g))
    BY DEF PendingOf
  <2> HIDE DEF slots
  <2>5. slots(g) \in Seq(Seq(Record)) /\ Len(slots(g)) = MaxClientNumber
    BY <2>1, <2>2
  <2> QED
    BY <2>3, <2>4, <2>5
<1> HIDE DEF slots
<1>6. ASSUME NEW g \in Generation
      PROVE  PendingOf(g) \in Seq(Record) /\ Ordered(PendingOf(g), InOrder)
             /\ Range(PendingOf(g)) = UNION {Range(slots(g)[i]) : i \in 1..MaxClientNumber}
  BY <1>5, SlotsFlushed
<1>7. F = UNION {P(m) : m \in DOMAIN downstreamSinks}
  <2>1. \A i \in 1..MaxClientNumber : slots(downstream)[i] = PendingAt(i - 1)
    BY <1>2, <1>3, <1>5
  <2>2. \A i \in 1..MaxClientNumber : Range(slots(downstream)[i]) = P(i - 1)
    BY <2>1, Zenon
  <2>3. F = UNION {Range(slots(downstream)[i]) : i \in 1..MaxClientNumber}
    BY <1>2, <1>6
  <2> HIDE DEF F, P
  <2> QED
    BY <1>2, <2>2, <2>3
<1>8. ASSUME NEW g \in Generation, g # downstream PROVE Range(PendingOf(g)) = {}
  <2>1. \A i \in 1..MaxClientNumber : slots(g)[i] = <<>>
    BY <1>2, <1>3, <1>5, <1>8
  <2>2. \A i \in 1..MaxClientNumber : Range(slots(g)[i]) = {}
    BY <2>1, EmptyPiece, Zenon
  <2>3. UNION {Range(slots(g)[i]) : i \in 1..MaxClientNumber} = {}
    BY <2>2
  <2> QED
    BY <1>6, <2>3, Zenon
<1>9. \A g \in Generation : G(g)' = IF g = downstream THEN G(g) \cup F ELSE G(g)
  <2> SUFFICES ASSUME NEW g \in Generation PROVE G(g)' = IF g = downstream THEN G(g) \cup F ELSE G(g)
    OBVIOUS
  <2>1. received'[g] = received[g] \o PendingOf(g)
    BY <1>1
  <2>2. Range(received[g] \o PendingOf(g)) = G(g) \cup Range(PendingOf(g))
    BY <1>4, <1>6, JoinedFacts
  <2>3. G(g)' = G(g) \cup Range(PendingOf(g))
    BY <2>1, <2>2, Zenon
  <2>4. CASE g = downstream
    BY <2>3, <2>4, Zenon
  <2>5. CASE g # downstream
    <3>1. Range(PendingOf(g)) = {}
      BY <1>8, <2>5
    <3> QED
      BY <2>3, <2>5, <3>1
  <2> QED
    BY <2>4, <2>5
<1>10. DOMAIN downstreamSinks' = DOMAIN downstreamSinks
       /\ \A m \in DOMAIN downstreamSinks : PendingAt(m)' = <<>> /\ P(m)' = {}
  <2>1. ASSUME NEW m \in DOMAIN downstreamSinks PROVE PendingAt(m)' = <<>>
    <3>1. downstreamSinks'[m] = [downstreamSinks[m] EXCEPT !.pending = <<>>]
      BY <1>1
    <3>2. downstreamSinks[m] \in Sink \cup {NoSink}
      BY DEF IInv, StateTypes
    <3> QED
      BY <3>1, <3>2 DEF PendingAt, Sink, NoSink
  <2> QED
    BY <1>1, <2>1, EmptyPiece
<1>11. received' \in [Generation -> Seq(Record)]
  <2>1. \A g \in Generation : received[g] \o PendingOf(g) \in Seq(Record)
    BY <1>4, <1>6
  <2> QED
    BY <1>1, <2>1
<1> HIDE DEF F, P
<1>12. PiecesInOrder'
  <2>1. ASSUME NEW g \in Generation PROVE Ordered(received'[g], InOrder)
    <3>1. Precedes(received[g], PendingOf(g), InOrder)
      <4>1. CASE g = downstream
        BY <1>7, <4>1 DEF WayInv, PiecesInOrder, Precedes, F, P
      <4>2. CASE g # downstream
        BY <1>8, <4>2 DEF Precedes
      <4> QED
        BY <4>1, <4>2
    <3>2. Ordered(received[g] \o PendingOf(g), InOrder)
      BY <1>4, <1>6, <3>1, JoinedFacts DEF WayInv, PiecesInOrder
    <3> QED
      BY <1>1, <3>2
  <2>2. \A m \in DOMAIN downstreamSinks' : Ordered(PendingAt(m)', InOrder)
    BY <1>10, EmptyPiece
  <2>3. \A d \in Conn : Ordered(bufferedLogs'[d], InOrder)
    BY <1>1 DEF WayInv, PiecesInOrder
  <2>4. ASSUME NEW g \in Generation, NEW h \in Generation, g < h
        PROVE  Precedes(received'[g], received'[h], InOrder)
    <3> SUFFICES ASSUME NEW a \in G(g)', NEW b \in G(h)' PROVE <<a, b>> \in InOrder
      BY DEF Precedes
    <3>1. h <= downstream
      <4>1. CASE h > downstream
        <5>1. G(h) = {} /\ h # downstream
          BY <1>2, <4>1, EmptyPiece, NumbersOfTheModel DEF WayInv, PiecesInTurn
        <5> QED
          BY <1>9, <5>1
      <4> QED
        BY <1>2, <4>1, NumbersOfTheModel
    <3>2. a \in G(g)
      <4>1. g # downstream
        BY <1>2, <2>4, <3>1, NumbersOfTheModel
      <4> QED
        BY <1>9, <4>1
    <3>3. CASE b \in G(h)
      BY <2>4, <3>2, <3>3 DEF WayInv, PiecesInOrder, Precedes
    <3>4. CASE b \in F
      <4>1. PICK m \in DOMAIN downstreamSinks : b \in P(m)
        BY <1>7, <3>4
      <4> QED
        BY <3>2, <4>1 DEF WayInv, PiecesInOrder, Precedes, P
    <3> QED
      BY <1>9, <3>3, <3>4
  <2>5. \A g \in Generation, m \in DOMAIN downstreamSinks' : Precedes(received'[g], PendingAt(m)', InOrder)
    BY <1>10, EmptyPiece DEF Precedes, P
  <2>6. ASSUME NEW g \in Generation, NEW d \in Conn
        PROVE  Precedes(received'[g], bufferedLogs'[d], InOrder)
    <3> SUFFICES ASSUME NEW a \in G(g)', NEW b \in B(d) PROVE <<a, b>> \in InOrder
      BY <1>1 DEF Precedes
    <3>1. CASE a \in G(g)
      BY <3>1 DEF WayInv, PiecesInOrder, Precedes
    <3>2. CASE a \in F
      <4>1. PICK m \in DOMAIN downstreamSinks : a \in P(m)
        BY <1>7, <3>2
      <4> QED
        BY <4>1 DEF WayInv, PiecesInOrder, Precedes, P
    <3> QED
      BY <1>9, <3>1, <3>2
  <2>7. \A m \in DOMAIN downstreamSinks', d \in Conn : Precedes(PendingAt(m)', bufferedLogs'[d], InOrder)
    BY <1>10, EmptyPiece DEF Precedes, P
  <2> QED
    BY <2>1, <2>2, <2>3, <2>4, <2>5, <2>6, <2>7 DEF PiecesInOrder
<1>13. PiecesHaveOwners'
  BY <1>1, <1>10 DEF WayInv, PiecesHaveOwners, P
<1>14. NothingMissing'
  <2> SUFFICES ASSUME NEW r \in Record
               PROVE  r[2] < nextRecord[r[1]] <=> \/ \E g \in Generation : r \in G(g)'
                                                  \/ \E m \in DOMAIN downstreamSinks : r \in P(m)'
                                                  \/ r \in B(r[1])
    BY <1>1, <1>10 DEF NothingMissing, P
  <2>1. r[2] < nextRecord[r[1]] <=> \/ \E g \in Generation : r \in G(g)
                                    \/ \E m \in DOMAIN downstreamSinks : r \in P(m)
                                    \/ r \in B(r[1])
    BY DEF WayInv, NothingMissing, P
  <2>2. (\E g \in Generation : r \in G(g)') <=> (\E g \in Generation : r \in G(g)) \/ r \in F
    BY <1>2, <1>9
  <2>3. r \in F <=> \E m \in DOMAIN downstreamSinks : r \in P(m)
    BY <1>7
  <2>4. \A m \in DOMAIN downstreamSinks : r \notin P(m)'
    BY <1>10
  <2> QED
    BY <2>1, <2>2, <2>3, <2>4
<1>15. PiecesInTurn'
  <2>1. ASSUME NEW g \in Generation, g > downstream PROVE received'[g] = <<>>
    <3>1. G(g)' = {}
      <4>1. G(g) = {} /\ g # downstream
        BY <1>2, <2>1, EmptyPiece, NumbersOfTheModel DEF WayInv, PiecesInTurn
      <4> QED
        BY <1>9, <4>1
    <3>2. received'[g] \in Seq(Record)
      BY <1>11
    <3> DEFINE q == received'[g]
    <3> HIDE DEF q
    <3>3. q \in Seq(Record) /\ Range(q) = {}
      BY <3>1, <3>2 DEF q
    <3>4. q # <<>> => q[1] \in Range(q)
      BY <3>3 DEF Range
    <3> QED
      BY <3>3, <3>4 DEF q
  <2> QED
    BY <1>1, <1>10, <2>1 DEF PiecesInTurn
<1> QED
  BY <1>11, <1>12, <1>13, <1>14, <1>15 DEF WayInv

\* All other steps leave the records where they are.
LEMMA OtherStepsPass ==
    ASSUME Assumed = Assumptions, IInv, WayInv, IInv',
           \/ \E c \in Conn : \/ AcceptConn(c) \/ NewSink(c) \/ StoreSink(c)
                              \/ ReadTimeout(c) \/ ReadFails(c) \/ CloseConn(c)
           \/ SigHup \/ ReloadBegin \/ ReloadFails \/ ReloadLock \/ ReloadShutdown
           \/ ReloadComplete \/ ReloadRenewSinks
           \/ \E g \in Generation : PipelineStops(g)
           \/ StopRequest \/ ListenerEnds \/ MainShutdown \/ MainExit \/ UNCHANGED vars
    PROVE  WayInv'
<1>1. /\ downstream \in Nat /\ downstream' \in Nat
      /\ DOMAIN downstreamSinks' = DOMAIN downstreamSinks
  BY NumbersOfTheModel DEF IInv, StateTypes
<1>2. CASE \E c \in Conn : AcceptConn(c) \/ NewSink(c) \/ ReadTimeout(c) \/ ReadFails(c) \/ CloseConn(c)
  <2>1. PICK c \in Conn : AcceptConn(c) \/ NewSink(c) \/ ReadTimeout(c) \/ ReadFails(c) \/ CloseConn(c)
    BY <1>2
  <2>2. UNCHANGED <<received, bufferedLogs, nextRecord, downstreamSinks, downstream, reloadPC>>
    BY <2>1 DEF AcceptConn, NewSink, ReadTimeout, ReadFails, CloseConn, FlushSink, reloadVars
  <2>3. /\ \A d \in Conn : Attached(d) => Attached(d)' /\ number'[d] = number[d]
        /\ \A d \in Conn : connPC'[d] \notin {"read", "send"} => bufferedLogs[d] = <<>>
    <3>1. CASE AcceptConn(c)
      <4>1. PICK n \in Number \ NumbersInUse :
                /\ number' = [number EXCEPT ![c] = n]
                /\ connPC' = [connPC EXCEPT ![c] = IF n >= MaxClientNumber THEN "done" ELSE "new"]
        BY <3>1 DEF AcceptConn
      <4>2. connPC[c] = "absent"
        BY <3>1 DEF AcceptConn
      <4> QED
        BY <4>1, <4>2 DEF IInv, StateTypes, Attached, WayInv, PiecesHaveOwners
    <3>2. CASE NewSink(c)
      BY <3>2 DEF NewSink, IInv, StateTypes, Attached, WayInv, PiecesHaveOwners
    <3>3. CASE ReadTimeout(c) \/ ReadFails(c)
      <4>1. /\ connPC[c] = "read" /\ UNCHANGED <<number, bufferedLogs>>
            /\ connPC' = [connPC EXCEPT ![c] = IF bufferedLogs[c] = <<>> THEN "tick" ELSE "send"]
        BY <3>3 DEF ReadTimeout, ReadFails, FlushSink
      <4>2. \A d \in Conn : connPC'[d] = IF d # c THEN connPC[d]
                                        ELSE IF bufferedLogs[c] = <<>> THEN "tick" ELSE "send"
        BY <4>1 DEF IInv, StateTypes
      <4> QED
        BY <4>1, <4>2 DEF Attached, WayInv, PiecesHaveOwners
    <3>4. CASE CloseConn(c)
      BY <3>4 DEF CloseConn, Attached, WayInv, PiecesHaveOwners
    <3> QED
      BY <2>1, <3>1, <3>2, <3>3, <3>4
  <2>4. reloadPC' \in {"shutdown", "drain", "renewSinks"} => \A n \in DOMAIN downstreamSinks : PendingAt(n) = <<>>
    BY <2>2 DEF WayInv, PiecesInTurn
  <2> QED
    BY <1>1, <2>2, <2>3, <2>4, PiecesUntouched DEF PendingAt
<1>3. CASE \E c \in Conn : StoreSink(c)
  <2>1. PICK c \in Conn : StoreSink(c)
    BY <1>3
  <2>2. /\ connPC[c] = "store" /\ ~writeLocked /\ connPC' = [connPC EXCEPT ![c] = "read"]
        /\ downstreamSinks' = [downstreamSinks EXCEPT ![number[c]] = NewSinkOf(newDownstream[c])]
        /\ UNCHANGED <<received, bufferedLogs, nextRecord, number, downstream, reloadPC>>
    BY <2>1 DEF StoreSink
  <2>3. number[c] \in DOMAIN downstreamSinks
    BY <2>2, NumberIsSlot DEF IInv, Busy
  <2>4. downstreamSinks[number[c]] = NoSink
    BY <2>2, <2>3 DEF IInv, SlotsInUse, NumbersAreUnique, Busy, Attached
  <2>5. \A n \in DOMAIN downstreamSinks : PendingAt(n)' = PendingAt(n)
    BY <2>2, <2>3, <2>4 DEF PendingAt, NoSink, NewSinkOf
  <2>6. /\ \A d \in Conn : Attached(d) => Attached(d)' /\ number'[d] = number[d]
        /\ \A d \in Conn : connPC'[d] \notin {"read", "send"} => bufferedLogs[d] = <<>>
    BY <2>2 DEF IInv, StateTypes, Attached, WayInv, PiecesHaveOwners
  <2>7. reloadPC' \in {"shutdown", "drain", "renewSinks"} => \A n \in DOMAIN downstreamSinks : PendingAt(n) = <<>>
    BY <2>2 DEF WayInv, PiecesInTurn
  <2> QED
    BY <1>1, <2>2, <2>5, <2>6, <2>7, PiecesUntouched
<1>4. CASE \/ SigHup \/ ReloadBegin \/ ReloadFails \/ ReloadLock \/ ReloadShutdown \/ ReloadComplete
           \/ ReloadRenewSinks \/ (\E g \in Generation : PipelineStops(g))
           \/ StopRequest \/ ListenerEnds \/ MainShutdown \/ MainExit \/ UNCHANGED vars
  <2>1. UNCHANGED <<connVars, received>>
    BY <1>4 DEF SigHup, ReloadBegin, ReloadFails, ReloadLock, ReloadShutdown, ReloadComplete,
                ReloadRenewSinks, PipelineStops, StopRequest, ListenerEnds, MainShutdown, MainExit, vars
  <2>2. downstream <= downstream'
    <3>1. CASE ReloadComplete
      BY <1>1, <3>1 DEF ReloadComplete
    <3>2. downstream' = downstream => downstream <= downstream'
      BY <1>1
    <3> QED
      BY <1>4, <3>1, <3>2 DEF SigHup, ReloadBegin, ReloadFails, ReloadLock, ReloadShutdown,
                 ReloadRenewSinks, PipelineStops, StopRequest, ListenerEnds, MainShutdown, MainExit, vars, reloadVars
  <2>3. \A n \in DOMAIN downstreamSinks : PendingAt(n)' = PendingAt(n)
    <3>1. CASE ReloadRenewSinks
      <4>1. reloadPC = "renewSinks"
        BY <3>1 DEF ReloadRenewSinks
      <4>2. \A n \in DOMAIN downstreamSinks :
               downstreamSinks'[n] = IF downstreamSinks[n] = NoSink THEN NoSink ELSE NewSinkOf(downstream)
        BY <3>1 DEF ReloadRenewSinks
      <4>3. NoSink.pending = <<>> /\ NewSinkOf(downstream).pending = <<>>
        BY DEF NoSink, NewSinkOf
      <4> QED
        BY <4>1, <4>2, <4>3 DEF PendingAt, WayInv, PiecesInTurn
    <3>2. CASE UNCHANGED downstreamSinks
      BY <3>2 DEF PendingAt
    <3> QED
      BY <1>4, <3>1, <3>2 DEF SigHup, ReloadBegin, ReloadFails, ReloadLock, ReloadShutdown, ReloadComplete,
                 PipelineStops, StopRequest, ListenerEnds, MainShutdown, MainExit, vars, reloadVars
  <2>4. reloadPC' \in {"shutdown", "drain", "renewSinks"} => reloadPC \in {"shutdown", "drain", "renewSinks"}
    BY <1>4 DEF SigHup, ReloadBegin, ReloadFails, ReloadLock, ReloadShutdown, ReloadComplete,
                ReloadRenewSinks, PipelineStops, StopRequest, ListenerEnds, MainShutdown, MainExit, vars, reloadVars
  <2>5. /\ \A d \in Conn : Attached(d) => Attached(d)' /\ number'[d] = number[d]
        /\ \A d \in Conn : connPC'[d] \notin {"read", "send"} => bufferedLogs[d] = <<>>
    BY <2>1 DEF connVars, Attached, WayInv, PiecesHaveOwners
  <2>6. reloadPC' \in {"shutdown", "drain", "renewSinks"} => \A n \in DOMAIN downstreamSinks : PendingAt(n) = <<>>
    BY <2>4 DEF WayInv, PiecesInTurn
  <2>7. UNCHANGED <<received, bufferedLogs, nextRecord>>
    BY <2>1 DEF connVars
  <2> QED
    BY <1>1, <2>2, <2>3, <2>5, <2>6, <2>7, PiecesUntouched
<1> QED
  BY <1>2, <1>3, <1>4

\* The records stay in order in every step, and so in every reachable state.
LEMMA WayInvariance == ASSUME Assumed = Assumptions PROVE Spec => [](IInv /\ WayInv)
<1>1. ASSUME IInv, WayInv, [Next]_vars PROVE IInv' /\ WayInv'
  <2>1. IInv'
    BY <1>1, StepInvariant
  <2>2. ASSUME NEW c \in Conn, ReadRecord(c) \/ SendBuffer(c) \/ TickSink(c) \/ CloseSink(c) PROVE WayInv'
    BY <1>1, <2>2, ReadRecordPass, SendBufferPass, TickSinkPass, CloseSinkPass
  <2>3. CASE ReloadCloseSinks
    BY <1>1, <2>1, <2>3, ReloadCloseSinksPass
  <2>4. ASSUME NEW c \in Conn, \/ AcceptConn(c) \/ NewSink(c) \/ StoreSink(c)
                               \/ ReadTimeout(c) \/ ReadFails(c) \/ CloseConn(c)
        PROVE  WayInv'
    BY <1>1, <2>1, <2>4, OtherStepsPass
  <2>5. CASE \/ SigHup \/ ReloadBegin \/ ReloadFails \/ ReloadLock \/ ReloadShutdown
             \/ ReloadComplete \/ ReloadRenewSinks
             \/ (\E g \in Generation : PipelineStops(g))
             \/ StopRequest \/ ListenerEnds \/ MainShutdown \/ MainExit \/ UNCHANGED vars
    BY <1>1, <2>1, <2>5, OtherStepsPass
  <2>6. CASE \E c \in Conn : Connection(c) \/ Client(c) \/ CloseConn(c)
    BY <2>1, <2>2, <2>4, <2>6 DEF Connection, Client
  <2>7. CASE Reload
    BY <2>1, <2>3, <2>5, <2>7 DEF Reload
  <2>8. CASE Terminated
    BY <2>5, <2>8 DEF Terminated
  <2> QED
    BY <1>1, <2>5, <2>6, <2>7, <2>8 DEF Next
<1>2. IInv /\ WayInv /\ [Next]_vars => IInv' /\ WayInv'
  BY <1>1
<1> QED
  BY <1>2, InitInvariant, InitWay, PTL DEF Spec

\* "Incoming connections are unaffected" (README.md:97): with any number of connections, records,
\* client numbers and reloads, every record read is exactly once on its way, behind the records of
\* its connection read before it (reloadable.go:95-166).
THEOREM RecordsKeepTheirOrder == ASSUME Assumed = Assumptions PROVE Spec => []DeliveredInOrder
<1>1. ASSUME IInv, WayInv PROVE DeliveredInOrder
  <2> SUFFICES ASSUME NEW c \in Conn
               PROVE  /\ {r \in Range(Way(c)) : r[1] = c} = {c} \X (1..(nextRecord[c] - 1))
                      /\ \A i, j \in DOMAIN Way(c) :
                            i < j /\ Way(c)[i][1] = c /\ Way(c)[j][1] = c => Way(c)[i][2] < Way(c)[j][2]
    BY DEF DeliveredInOrder
  <2> DEFINE slots == [i \in 1..MaxClientNumber |-> downstreamSinks[i - 1].pending]
             flat == FlattenSeq(received)
             got == UNION {Range(received[g]) : g \in Generation}
             held == UNION {Range(PendingAt(n)) : n \in DOMAIN downstreamSinks}
  <2>1. /\ \A g \in Generation : Range(received[g]) \subseteq Record
        /\ \A n \in DOMAIN downstreamSinks : PendingAt(n) \in Seq(Record) /\ Range(PendingAt(n)) \subseteq Record
        /\ bufferedLogs[c] \in Seq(Record) /\ Range(bufferedLogs[c]) \subseteq Record
    BY <1>1, PieceTypes DEF IInv, WayInv
  <2>2. /\ \A i \in 1..MaxClientNumber : i - 1 \in DOMAIN downstreamSinks
        /\ \A m \in DOMAIN downstreamSinks : m + 1 \in 1..MaxClientNumber /\ (m + 1) - 1 = m
    BY <1>1, NumbersOfTheModel DEF IInv, StateTypes
  <2>3. flat \in Seq(Record) /\ Range(flat) = got /\ Ordered(flat, InOrder)
    <3>1. received \in [1..(MaxReloads + 1) -> Seq(Record)] /\ MaxReloads + 1 \in Nat
      BY <1>1, NumbersOfTheModel DEF WayInv, Generation
    <3>2. received \in Seq(Seq(Record)) /\ Len(received) = MaxReloads + 1
      BY <3>1
    <3>3. /\ \A g \in 1..Len(received) : Ordered(received[g], InOrder)
          /\ \A g, h \in 1..Len(received) : g < h => Precedes(received[g], received[h], InOrder)
      BY <1>1, <3>2 DEF WayInv, PiecesInOrder, Generation
    <3>4. Range(flat) = UNION {Range(received[g]) : g \in 1..Len(received)}
      BY <3>2, FlattenFacts
    <3>5. Range(flat) = got
      BY <3>2, <3>4, Zenon DEF Generation
    <3> QED
      BY <3>2, <3>3, <3>5, FlattenFacts
  <2>4. Pending \in Seq(Record) /\ Range(Pending) = held /\ Ordered(Pending, InOrder)
    <3>1. slots \in [1..MaxClientNumber -> Seq(Record)] /\ MaxClientNumber \in Nat
      BY <2>1, <2>2, NumbersOfTheModel DEF PendingAt
    <3>2. \A i \in 1..MaxClientNumber : slots[i] = PendingAt(i - 1)
      BY DEF PendingAt
    <3>3. Pending = FlattenSeq(slots)
      BY DEF Pending
    <3> HIDE DEF slots
    <3>4. slots \in Seq(Seq(Record)) /\ Len(slots) = MaxClientNumber
      BY <3>1
    <3>5. /\ Pending \in Seq(Record) /\ Ordered(Pending, InOrder)
          /\ Range(Pending) = UNION {Range(slots[i]) : i \in 1..MaxClientNumber}
      BY <1>1, <3>2, <3>3, <3>4, SlotsFlushed
    <3>6. \A i \in 1..MaxClientNumber : Range(slots[i]) = Range(PendingAt(i - 1))
      BY <3>2, Zenon
    <3>7. UNION {Range(slots[i]) : i \in 1..MaxClientNumber} = held
      BY <2>2, <3>6
    <3> QED
      BY <3>5, <3>7, Zenon
  <2>5. /\ \A r \in got \cup held : r \in Record
        /\ \A a \in got, b \in held \cup Range(bufferedLogs[c]) : <<a, b>> \in InOrder
        /\ \A a \in held, b \in Range(bufferedLogs[c]) : <<a, b>> \in InOrder
    BY <1>1, <2>1 DEF WayInv, PiecesInOrder, Precedes
  <2> DEFINE join == flat \o Pending
  <2> HIDE DEF got, held, flat
  <2>6. join \in Seq(Record) /\ Range(join) = got \cup held /\ Ordered(join, InOrder)
    <3>1. Precedes(flat, Pending, InOrder)
      BY <2>3, <2>4, <2>5 DEF Precedes
    <3>2. Range(join) = Range(flat) \cup Range(Pending)
      BY <2>3, <2>4, JoinedFacts
    <3>3. Range(join) = got \cup held
      BY <2>3, <2>4, <3>2, Zenon
    <3> QED
      BY <2>3, <2>4, <3>1, <3>3, JoinedFacts
  <2> HIDE DEF join
  <2>7. /\ Way(c) \in Seq(Record) /\ Range(Way(c)) = got \cup held \cup Range(bufferedLogs[c])
        /\ Ordered(Way(c), InOrder)
    <3>1. Way(c) = join \o bufferedLogs[c]
      BY DEF Way, join, flat
    <3>2. Precedes(join, bufferedLogs[c], InOrder)
      BY <2>5, <2>6 DEF Precedes
    <3>3. Range(join \o bufferedLogs[c]) = Range(join) \cup Range(bufferedLogs[c])
      BY <2>1, <2>6, JoinedFacts
    <3>4. Range(Way(c)) = got \cup held \cup Range(bufferedLogs[c])
      BY <2>6, <3>1, <3>3, Zenon
    <3>5. Ordered(bufferedLogs[c], InOrder)
      BY <1>1 DEF WayInv, PiecesInOrder
    <3> QED
      BY <2>1, <2>6, <3>1, <3>2, <3>4, <3>5, JoinedFacts
  <2>8. {r \in Range(Way(c)) : r[1] = c} = {c} \X (1..(nextRecord[c] - 1))
    <3>1. nextRecord[c] \in 1..(NumRecords[c] + 1) /\ NumRecords[c] \in Nat
      BY <1>1, NumbersOfTheModel DEF IInv, StateTypes
    <3>2. ASSUME NEW r \in Range(Way(c)), r[1] = c PROVE r \in {c} \X (1..(nextRecord[c] - 1))
      <4>1. r \in Record
        BY <2>1, <2>5, <2>7
      <4>2. r[2] < nextRecord[c]
        BY <1>1, <2>7, <3>2, <4>1 DEF WayInv, NothingMissing, got, held
      <4>3. r = <<c, r[2]>> /\ r[2] \in Nat /\ r[2] > 0
        BY <3>2, <4>1, RecordFacts
      <4> QED
        BY <3>1, <4>2, <4>3
    <3>3. ASSUME NEW r \in {c} \X (1..(nextRecord[c] - 1)) PROVE r \in Range(Way(c)) /\ r[1] = c
      <4>1. r = <<c, r[2]>> /\ r[1] = c /\ r[2] \in 1..(nextRecord[c] - 1)
        BY <3>3
      <4>2. r[2] \in 1..NumRecords[c] /\ r[2] < nextRecord[c]
        BY <3>1, <4>1
      <4>3. r \in Record
        BY <4>1, <4>2, RecordFacts
      <4> QED
        BY <1>1, <2>7, <4>1, <4>2, <4>3 DEF WayInv, NothingMissing, got, held
    <3> QED
      BY <3>2, <3>3
  <2>9. ASSUME NEW i \in DOMAIN Way(c), NEW j \in DOMAIN Way(c), i < j, Way(c)[i][1] = c, Way(c)[j][1] = c
        PROVE  Way(c)[i][2] < Way(c)[j][2]
    <3>1. i \in 1..Len(Way(c)) /\ j \in 1..Len(Way(c)) /\ Way(c)[i] \in Record /\ Way(c)[j] \in Record
      BY <2>7
    <3>2. <<Way(c)[i], Way(c)[j]>> \in InOrder
      BY <2>7, <2>9, <3>1 DEF Ordered
    <3> QED
      BY <2>9, <3>1, <3>2, RecordFacts
  <2> QED
    BY <2>8, <2>9
<1> QED
  BY <1>1, WayInvariance, PTL

\* The types, one generation at a time, and nothing left behind at the exit: every record read has
\* reached a pipeline, every slot is empty and every pipeline has stopped (run.go:45-47).
THEOREM GenerationsEndClean == ASSUME Assumed = Assumptions PROVE Spec => []GenerationsAreClean
<1>1. ASSUME IInv, WayInv PROVE TypeOK
  BY <1>1 DEF IInv, WayInv, TypeOK
<1>2. ASSUME IInv, WayInv PROVE ExitIsClean
  <2> SUFFICES ASSUME mainPC = "exited"
               PROVE  /\ \A g \in Generation : pipeline[g] \notin {"up", "closed"}
                      /\ \A n \in DOMAIN downstreamSinks : downstreamSinks[n] = NoSink
                      /\ \A c \in Conn : \A i \in 1..(nextRecord[c] - 1) :
                            \E g \in Generation : <<c, i>> \in Range(received[g])
    BY DEF ExitIsClean
  <2>1. \A g \in Generation : pipeline[g] \notin {"up", "closed"}
    <3>1. \A g \in Generation : g < downstream \/ g = downstream \/ g > downstream
      BY <1>2, NumbersOfTheModel DEF IInv, StateTypes
    <3> QED
      BY <1>2, <3>1 DEF IInv, GenerationsInTurn, Draining
  <2>2. \A c \in Conn : ~Attached(c) /\ bufferedLogs[c] = <<>>
    <3>1. \A c \in Conn : connPC[c] \in {"absent", "done"}
      BY <1>2 DEF IInv, StopOrder, Busy
    <3> QED
      BY <1>2, <3>1 DEF Attached, WayInv, PiecesHaveOwners
  <2>3. \A n \in DOMAIN downstreamSinks : downstreamSinks[n] = NoSink
    BY <1>2, <2>2 DEF IInv, SlotsInUse
  <2>4. ASSUME NEW c \in Conn, NEW i \in 1..(nextRecord[c] - 1)
        PROVE  \E g \in Generation : <<c, i>> \in Range(received[g])
    <3>1. nextRecord[c] \in 1..(NumRecords[c] + 1) /\ NumRecords[c] \in Nat
      BY <1>2, NumbersOfTheModel DEF IInv, StateTypes
    <3>2. i \in 1..NumRecords[c] /\ i < nextRecord[c]
      BY <2>4, <3>1
    <3>3. <<c, i>> \in Record /\ <<c, i>>[1] = c /\ <<c, i>>[2] = i
      BY <3>2, RecordFacts
    <3>4. \A n \in DOMAIN downstreamSinks : Range(PendingAt(n)) = {}
      <4>1. \A n \in DOMAIN downstreamSinks : PendingAt(n) = <<>>
        BY <2>3 DEF PendingAt, NoSink
      <4> QED
        BY <4>1, EmptyPiece, Zenon
    <3>5. Range(bufferedLogs[c]) = {}
      BY <2>2, EmptyPiece, Zenon
    <3>6. \/ \E g \in Generation : <<c, i>> \in Range(received[g])
          \/ \E n \in DOMAIN downstreamSinks : <<c, i>> \in Range(PendingAt(n))
          \/ <<c, i>> \in Range(bufferedLogs[c])
      BY <1>2, <3>2, <3>3 DEF WayInv, NothingMissing
    <3> QED
      BY <3>4, <3>5, <3>6
  <2> QED
    BY <2>1, <2>3, <2>4
<1>3. IInv /\ WayInv /\ OneGenerationRuns => GenerationsAreClean
  BY <1>1, <1>2 DEF GenerationsAreClean
<1> QED
  BY <1>3, WayInvariance, GenerationsTakeTurns, PTL
=============================================================================
