------------------------- MODULE ReloadableOrchestrator -------------------------
(***************************************************************************)
(* run/reloadable.go between the TCP listener and the real orchestrators:   *)
(* the sinks of connections keep working while SIGHUP replaces everything   *)
(* behind them.                                                             *)
(*                                                                          *)
(*   connection goroutines:  tcpLineListener.runConnection, with the        *)
(*                           parsing receiver's sink and the ReloadableSink *)
(*   closer goroutines:      launchConnectionCloser, one per connection     *)
(*   reload goroutine:       ReloadableOrchestrator.reload on each SIGHUP   *)
(*   main goroutine:         run.Run                                        *)
(*                                                                          *)
(* Downstream orchestrators are numbered by generation.  Each is reduced to *)
(* one pipeline (one key set) and what its sinks do to it.  A client number *)
(* is the file descriptor of the connection.                                *)
(*                                                                          *)
(* A step taken under downstreamMutex is one action: it excludes reload,    *)
(* and works on the connection's own sink.                                  *)
(***************************************************************************)
EXTENDS Integers, Sequences, FiniteSets, SequencesExt, Functions

CONSTANTS
    NumConns,          \* connections made by clients
    NumRecords,        \* records sent on each connection: a sequence of numbers
    MaxClientNumber,   \* base.MaxClientNumber
    LogBufferCap,      \* defs.IntermediateBufferMaxNumLogs
    MaxReloads,        \* number of SIGHUPs
    Assumed            \* what is assumed of the environment's timing, a subset of Assumptions

\* no client connects while a reload is replacing the orchestrator;
\* the system does not give a file descriptor to a new connection before the sink of the
\* old one is closed; the agent is neither reloaded while it shuts down nor the reverse.
Assumptions == {"noConnectInReload", "uniqueNumbers", "noReloadAtStop"}

ASSUME ReloadAssumption ==
    /\ NumConns \in Nat /\ NumRecords \in [1..NumConns -> Nat]
    /\ MaxClientNumber \in Nat \ {0} /\ LogBufferCap \in Nat \ {0}
    /\ MaxReloads \in Nat
    /\ Assumed \subseteq Assumptions

VARIABLES
    \* connections
    connPC,         \* where runConnection is
    purpose,        \* why the parsing sink sends its buffer: "accept" (it is full), "flush" or "end"
    number,         \* clientNumber
    fdOpen,         \* the file descriptor is open
    newDownstream,  \* generation of the sink NewSink has just created, 0 outside it
    nextRecord,     \* next record of the client
    bufferedLogs,   \* records parsed, not yet sent downstream
    \* ReloadableOrchestrator
    downstream,     \* generation of the current downstream orchestrator
    downstreamSinks,\* by client number: NoSink, or the sink's generation and pending records
    writeLocked,    \* downstreamMutex is held by reload
    reloadPC,
    signalQueued,   \* a SIGHUP in the channel of capacity 1
    signals,        \* number of SIGHUPs so far
    \* downstream orchestrators, by generation
    pipeline,       \* "absent", "none" (no pipeline yet), "up", "closed" (input), "stopped"
    received,       \* records put into the pipeline's channel
    \* main
    listening, mainPC,
    closing,        \* generation whose Shutdown main has called
    panicked        \* a goroutine has panicked: the process is gone

connVars   == <<connPC, purpose, number, fdOpen, newDownstream, nextRecord, bufferedLogs>>
signalVars == <<signalQueued, signals>>
reloadVars == <<downstream, downstreamSinks, writeLocked, reloadPC>>
mainVars   == <<listening, mainPC, closing>>
vars == <<connVars, reloadVars, signalVars, pipeline, received, mainVars, panicked>>

Conn        == 1..NumConns
Generation  == 1..(MaxReloads + 1)
Number      == 0..MaxClientNumber
Record      == UNION {{c} \X (1..NumRecords[c]) : c \in Conn}
Sink        == [generation: Generation, pending: Seq(Record)]
NoSink      == [generation |-> 0, pending |-> <<>>]
NewSinkOf(g) == [generation |-> g, pending |-> <<>>]

Running == ~panicked /\ mainPC # "exited"

-----------------------------------------------------------------------------
(* Downstream orchestrators *)

\* Shutdown closes the channel of the pipeline, if there is one: a second Shutdown panics.
BeginShutdown(g) ==
    /\ pipeline' = [pipeline EXCEPT ![g] = IF @ = "up" THEN "closed" ELSE @]
    /\ panicked' = (pipeline[g] \in {"closed", "stopped"})

\* Shutdown returns when the pipelines it knows of have stopped.
ShutdownOver(g) == pipeline[g] \in {"none", "stopped"}

\* The worker has drained its channel and shut down its buffers.
PipelineStops(g) ==
    /\ Running
    /\ pipeline[g] = "closed"
    /\ pipeline' = [pipeline EXCEPT ![g] = "stopped"]
    /\ UNCHANGED <<connVars, reloadVars, signalVars, received, mainVars, panicked>>

\* channelInputBuffer.Flush into the channel of a generation.
Put(g, records) == [h \in Generation |-> IF h = g THEN received[h] \o records ELSE received[h]]

\* Calling an empty slot panics, and so does sending to a closed channel.
Panics(sink, records) ==
    \/ sink = NoSink
    \/ records # <<>> /\ pipeline[sink.generation] \in {"closed", "stopped"}

-----------------------------------------------------------------------------
(* ReloadableSink: what happens behind the pointer into downstreamSinks *)

\* Accept: the records join the sink's local buffer, which is flushed when full.  The limits
\* are on bytes too, so any number of the records may go out at once.  The first record of a
\* key set starts the pipeline, even of an orchestrator that was shut down.
SinkAccept(n, records) ==
    LET sink == downstreamSinks[n]
        all  == sink.pending \o records
    IN  \E k \in 0..Len(all) :
            LET full == SubSeq(all, 1, k) IN
            /\ panicked' = Panics(sink, full)
            /\ received' = Put(sink.generation, full)
            /\ pipeline' = [h \in Generation |->
                              IF h = sink.generation /\ pipeline[h] = "none" THEN "up" ELSE pipeline[h]]
            /\ downstreamSinks' = [downstreamSinks EXCEPT ![n].pending = SubSeq(all, k + 1, Len(all))]

\* Close: all pending records go out, and the slot is emptied.
SinkClose(n) ==
    LET sink == downstreamSinks[n] IN
    /\ panicked' = Panics(sink, sink.pending)
    /\ received' = Put(sink.generation, sink.pending)
    /\ downstreamSinks' = [downstreamSinks EXCEPT ![n] = NoSink]

\* Tick: they go out if they have been pending for IntermediateFlushInterval.
SinkTick(n) ==
    LET sink == downstreamSinks[n] IN
    \E due \in {sink.pending, <<>>} :
        /\ panicked' = Panics(sink, due)
        /\ received' = Put(sink.generation, due)
        /\ downstreamSinks' = [downstreamSinks EXCEPT ![n].pending = IF due = <<>> THEN @ ELSE <<>>]

-----------------------------------------------------------------------------
(* A connection: tcpLineListener.run and runConnection *)

\* Numbers the system does not give to a new connection.
NumbersInUse == {number[d] : d \in {d \in Conn : fdOpen[d]}}
                  \cup (IF "uniqueNumbers" \in Assumed
                          THEN {number[d] : d \in {d \in Conn : connPC[d] \notin {"absent", "done"}}}
                          ELSE {})

\* run: accept a connection, whose number is any free descriptor.
AcceptConn(c) ==
    /\ Running /\ listening
    /\ connPC[c] = "absent"
    /\ \E n \in Number \ NumbersInUse :
          /\ number' = [number EXCEPT ![c] = n]
          \* "rejected new connection: too many clients"
          /\ connPC' = [connPC EXCEPT ![c] = IF n >= MaxClientNumber THEN "done" ELSE "new"]
          /\ fdOpen' = [fdOpen EXCEPT ![c] = n < MaxClientNumber]
    /\ UNCHANGED <<purpose, newDownstream, nextRecord, bufferedLogs, reloadVars, signalVars,
                   pipeline, received, mainVars, panicked>>

\* ReloadableOrchestrator.NewSink up to the lock: downstream is read without it.
NewSink(c) ==
    /\ Running
    /\ connPC[c] = "new"
    /\ "noConnectInReload" \in Assumed => ~writeLocked
    /\ newDownstream' = [newDownstream EXCEPT ![c] = downstream]
    /\ connPC' = [connPC EXCEPT ![c] = "store"]
    /\ UNCHANGED <<purpose, number, fdOpen, nextRecord, bufferedLogs, reloadVars, signalVars,
                   pipeline, received, mainVars, panicked>>

\* NewSink under the read lock; a sink found in the slot is logged and overwritten.
StoreSink(c) ==
    /\ Running
    /\ connPC[c] = "store" /\ ~writeLocked
    /\ downstreamSinks' = [downstreamSinks EXCEPT ![number[c]] = NewSinkOf(newDownstream[c])]
    /\ newDownstream' = [newDownstream EXCEPT ![c] = 0]     \* the local variable is gone
    /\ connPC' = [connPC EXCEPT ![c] = "read"]
    /\ UNCHANGED <<purpose, number, fdOpen, nextRecord, bufferedLogs, downstream,
                   writeLocked, reloadPC, signalVars, pipeline, received, mainVars, panicked>>

\* mlineReader.Read or Flush yields a record; a full buffer is sent from within Accept.
ReadRecord(c) ==
    /\ Running
    /\ connPC[c] = "read"
    /\ nextRecord[c] <= NumRecords[c]
    /\ bufferedLogs' = [bufferedLogs EXCEPT ![c] = Append(@, <<c, nextRecord[c]>>)]
    /\ nextRecord' = [nextRecord EXCEPT ![c] = @ + 1]
    /\ \/ Len(bufferedLogs'[c]) < LogBufferCap /\ UNCHANGED connPC
       \/ connPC' = [connPC EXCEPT ![c] = "send"]     \* also IntermediateBufferMaxTotalBytes
    /\ UNCHANGED <<purpose, number, fdOpen, newDownstream, reloadVars, signalVars, pipeline, received,
                   mainVars, panicked>>

\* A short read timeout, or the end of the connection: recvChan.Flush.
FlushSink(c, why) ==
    /\ purpose' = [purpose EXCEPT ![c] = why]
    /\ connPC' = [connPC EXCEPT ![c] = IF bufferedLogs[c] = <<>> THEN "tick" ELSE "send"]
    /\ UNCHANGED <<number, fdOpen, newDownstream, nextRecord, bufferedLogs, reloadVars, signalVars,
                   pipeline, received, mainVars, panicked>>

ReadTimeout(c) == Running /\ connPC[c] = "read" /\ fdOpen[c] /\ FlushSink(c, "flush")

\* The client hangs up, or the descriptor was closed on the stop request: connAborter.Signal.
ReadFails(c) == Running /\ connPC[c] = "read" /\ FlushSink(c, "end")

\* Variant: the closer goroutine waits for connAborter only.
CloseConn_IgnoresStop(c) ==
    /\ Running
    /\ fdOpen[c]
    /\ connPC[c] \in {"send", "tick", "close", "done"} /\ purpose[c] = "end"
    /\ fdOpen' = [fdOpen EXCEPT ![c] = FALSE]
    /\ UNCHANGED <<connPC, purpose, number, newDownstream, nextRecord, bufferedLogs, reloadVars,
                   signalVars, pipeline, received, mainVars, panicked>>

\* The closer goroutine, woken up by connAborter or by the stop request.
CloseConn(c) ==
    /\ Running
    /\ fdOpen[c]
    /\ \/ connPC[c] \in {"read", "send", "tick", "close", "done"} /\ mainPC # "running"
       \/ connPC[c] \in {"send", "tick", "close", "done"} /\ purpose[c] = "end"
    /\ fdOpen' = [fdOpen EXCEPT ![c] = FALSE]
    /\ UNCHANGED <<connPC, purpose, number, newDownstream, nextRecord, bufferedLogs, reloadVars,
                   signalVars, pipeline, received, mainVars, panicked>>

\* Variant: ReloadableSink.Accept does not take the read lock.
SendBuffer_Unlocked(c) ==
    /\ Running
    /\ connPC[c] = "send"
    /\ SinkAccept(number[c], bufferedLogs[c])
    /\ bufferedLogs' = [bufferedLogs EXCEPT ![c] = <<>>]
    /\ connPC' = [connPC EXCEPT ![c] = IF purpose[c] = "accept" THEN "read" ELSE "tick"]
    /\ UNCHANGED <<purpose, number, fdOpen, newDownstream, nextRecord, downstream, writeLocked,
                   reloadPC, signalVars, mainVars>>

\* sendBuffer: ReloadableSink.Accept under the read lock.
SendBuffer(c) ==
    /\ Running
    /\ connPC[c] = "send" /\ ~writeLocked
    /\ SinkAccept(number[c], bufferedLogs[c])
    /\ bufferedLogs' = [bufferedLogs EXCEPT ![c] = <<>>]
    /\ connPC' = [connPC EXCEPT ![c] = IF purpose[c] = "accept" THEN "read" ELSE "tick"]
    /\ UNCHANGED <<purpose, number, fdOpen, newDownstream, nextRecord, downstream, writeLocked,
                   reloadPC, signalVars, mainVars>>

\* ReloadableSink.Tick under the read lock.
TickSink(c) ==
    /\ Running
    /\ connPC[c] = "tick" /\ ~writeLocked
    /\ SinkTick(number[c])
    /\ connPC' = [connPC EXCEPT ![c] = IF purpose[c] = "end" THEN "close" ELSE "read"]
    /\ purpose' = [purpose EXCEPT ![c] = IF @ = "end" THEN @ ELSE "accept"]
    /\ UNCHANGED <<number, fdOpen, newDownstream, nextRecord, bufferedLogs, downstream,
                   writeLocked, reloadPC, signalVars, pipeline, mainVars>>

\* ReloadableSink.Close under the read lock, then taskCounter.Done.
CloseSink(c) ==
    /\ Running
    /\ connPC[c] = "close" /\ ~writeLocked
    /\ SinkClose(number[c])
    /\ connPC' = [connPC EXCEPT ![c] = "done"]
    /\ UNCHANGED <<purpose, number, fdOpen, newDownstream, nextRecord, bufferedLogs, downstream,
                   writeLocked, reloadPC, signalVars, pipeline, mainVars>>

-----------------------------------------------------------------------------
(* ReloadableOrchestrator.reload *)

\* The signal channel keeps one SIGHUP; further ones are discarded.
SigHup ==
    /\ Running
    /\ signals < MaxReloads
    /\ "noReloadAtStop" \in Assumed => mainPC = "running"
    /\ signalQueued' = TRUE
    /\ signals' = signals + 1
    /\ UNCHANGED <<connVars, reloadVars, pipeline, received, mainVars, panicked>>

ReloadBegin ==
    /\ Running
    /\ reloadPC = "idle" /\ signalQueued
    /\ signalQueued' = FALSE
    /\ reloadPC' = "initiate"
    /\ UNCHANGED <<connVars, signals, downstream, downstreamSinks, writeLocked, pipeline, received,
                   mainVars, panicked>>

\* initiateReload fails: bad or incompatible configuration.
ReloadFails ==
    /\ Running
    /\ reloadPC = "initiate"
    /\ reloadPC' = "idle"
    /\ UNCHANGED <<connVars, signalVars, downstream, downstreamSinks, writeLocked, pipeline,
                   received, mainVars, panicked>>

ReloadLock ==
    /\ Running
    /\ reloadPC = "initiate"
    /\ "noConnectInReload" \in Assumed => \A c \in Conn : connPC[c] # "store"
    /\ writeLocked' = TRUE
    /\ reloadPC' = "closeSinks"
    /\ UNCHANGED <<connVars, signalVars, downstream, downstreamSinks, pipeline, received, mainVars,
                   panicked>>

\* The pending records of all sinks, by generation, in the order of client numbers.
PendingOf(g) ==
    FlattenSeq([i \in 1..MaxClientNumber |->
                  IF downstreamSinks[i - 1].generation = g THEN downstreamSinks[i - 1].pending
                                                           ELSE <<>>])

\* Variant: the old sinks are dropped without being closed.
ReloadCloseSinks_Skipped ==
    /\ Running
    /\ reloadPC = "closeSinks"
    /\ reloadPC' = "shutdown"
    /\ UNCHANGED <<connVars, signalVars, downstream, downstreamSinks, writeLocked, pipeline, received,
                   mainVars, panicked>>

\* Close every sink, and keep it in its slot.
ReloadCloseSinks ==
    /\ Running
    /\ reloadPC = "closeSinks"
    /\ received' = [g \in Generation |-> received[g] \o PendingOf(g)]
    /\ panicked' = (\E n \in DOMAIN downstreamSinks :
                      /\ downstreamSinks[n].pending # <<>>
                      /\ pipeline[downstreamSinks[n].generation] \in {"closed", "stopped"})
    /\ downstreamSinks' = [n \in DOMAIN downstreamSinks |->
                             [downstreamSinks[n] EXCEPT !.pending = <<>>]]
    /\ reloadPC' = "shutdown"
    /\ UNCHANGED <<connVars, signalVars, downstream, writeLocked, pipeline, mainVars>>

ReloadShutdown ==
    /\ Running
    /\ reloadPC = "shutdown"
    /\ BeginShutdown(downstream)
    /\ reloadPC' = "drain"
    /\ UNCHANGED <<connVars, signalVars, downstream, downstreamSinks, writeLocked, received, mainVars>>

\* Variant: the new orchestrator is launched while the old one drains.
ReloadComplete_Early ==
    /\ Running
    /\ reloadPC = "drain"
    /\ downstream' = downstream + 1
    /\ \E initial \in {"none", "up"} : pipeline' = [pipeline EXCEPT ![downstream + 1] = initial]
    /\ reloadPC' = "renewSinks"
    /\ UNCHANGED <<connVars, signalVars, downstreamSinks, writeLocked, received, mainVars, panicked>>

\* completeRenewal: the new orchestrator starts pipelines for the chunks found on disk.
ReloadComplete ==
    /\ Running
    /\ reloadPC = "drain" /\ ShutdownOver(downstream)
    /\ downstream' = downstream + 1
    /\ \E initial \in {"none", "up"} : pipeline' = [pipeline EXCEPT ![downstream + 1] = initial]
    /\ reloadPC' = "renewSinks"
    /\ UNCHANGED <<connVars, signalVars, downstreamSinks, writeLocked, received, mainVars, panicked>>

\* Variant: the sink of the last client number is not created again.
ReloadRenewSinks_OffByOne ==
    /\ Running
    /\ reloadPC = "renewSinks"
    /\ downstreamSinks' = [n \in DOMAIN downstreamSinks |->
                             IF downstreamSinks[n] = NoSink \/ n = MaxClientNumber - 1
                               THEN downstreamSinks[n] ELSE NewSinkOf(downstream)]
    /\ writeLocked' = FALSE
    /\ reloadPC' = "idle"
    /\ UNCHANGED <<connVars, signalVars, downstream, pipeline, received, mainVars, panicked>>

\* Create the sinks again, and unlock.
ReloadRenewSinks ==
    /\ Running
    /\ reloadPC = "renewSinks"
    /\ downstreamSinks' = [n \in DOMAIN downstreamSinks |->
                             IF downstreamSinks[n] = NoSink THEN NoSink ELSE NewSinkOf(downstream)]
    /\ writeLocked' = FALSE
    /\ reloadPC' = "idle"
    /\ UNCHANGED <<connVars, signalVars, downstream, pipeline, received, mainVars, panicked>>

-----------------------------------------------------------------------------
(* run.Run, and the end of the listener *)

\* SIGINT or SIGTERM: shutdownInputs signals the stop request.
StopRequest ==
    /\ Running
    /\ mainPC = "running"
    /\ "noReloadAtStop" \in Assumed => reloadPC = "idle" /\ ~signalQueued
    /\ mainPC' = "stopInputs"
    /\ UNCHANGED <<connVars, reloadVars, signalVars, pipeline, received, listening, closing, panicked>>

\* accept() fails, because the socket was closed on the stop request or for another reason.
ListenerEnds ==
    /\ Running
    /\ listening
    /\ listening' = FALSE
    /\ UNCHANGED <<connVars, reloadVars, signalVars, pipeline, received, mainPC, closing, panicked>>

\* All inputs have stopped; Shutdown of whatever is downstream now.
MainShutdown ==
    /\ Running
    /\ mainPC = "stopInputs"
    /\ ~listening
    /\ \A c \in Conn : connPC[c] \in {"absent", "done"}
    /\ BeginShutdown(downstream)
    /\ closing' = downstream
    /\ mainPC' = "shutdown"
    /\ UNCHANGED <<connVars, reloadVars, signalVars, received, listening>>

MainExit ==
    /\ Running
    /\ mainPC = "shutdown" /\ ShutdownOver(closing)
    /\ mainPC' = "exited"
    /\ UNCHANGED <<connVars, reloadVars, signalVars, pipeline, received, listening, closing, panicked>>

Terminated ==
    /\ ~Running
    /\ UNCHANGED vars

-----------------------------------------------------------------------------
Init ==
    /\ connPC = [c \in Conn |-> "absent"]
    /\ purpose = [c \in Conn |-> "accept"]
    /\ number = [c \in Conn |-> 0]
    /\ fdOpen = [c \in Conn |-> FALSE]
    /\ newDownstream = [c \in Conn |-> 0]
    /\ nextRecord = [c \in Conn |-> 1]
    /\ bufferedLogs = [c \in Conn |-> <<>>]
    /\ downstream = 1
    /\ downstreamSinks = [n \in 0..(MaxClientNumber - 1) |-> NoSink]
    /\ writeLocked = FALSE
    /\ reloadPC = "idle"
    /\ signalQueued = FALSE /\ signals = 0
    /\ \E initial \in {"none", "up"} :
          pipeline = [g \in Generation |-> IF g = 1 THEN initial ELSE "absent"]
    /\ received = [g \in Generation |-> <<>>]
    /\ listening = TRUE /\ mainPC = "running" /\ closing = 1
    /\ panicked = FALSE

Connection(c) ==
    \/ NewSink(c) \/ StoreSink(c) \/ ReadTimeout(c) \/ SendBuffer(c) \/ TickSink(c) \/ CloseSink(c)

Client(c) == AcceptConn(c) \/ ReadRecord(c) \/ ReadFails(c)

Reload == \/ ReloadBegin \/ ReloadFails \/ ReloadLock \/ ReloadCloseSinks \/ ReloadShutdown
          \/ ReloadComplete \/ ReloadRenewSinks

Next ==
    \/ \E c \in Conn : Connection(c) \/ Client(c) \/ CloseConn(c)
    \/ \E g \in Generation : PipelineStops(g)
    \/ SigHup \/ Reload
    \/ StopRequest \/ ListenerEnds \/ MainShutdown \/ MainExit
    \/ Terminated

Spec == Init /\ [][Next]_vars

\* Every goroutine keeps running: reads time out, or fail on a closed descriptor; the closer
\* goroutines wake up; pipelines drain (the buffers and clients behind them stop in bounded
\* time); the listener's socket is closed on the stop request.  Signals need not come.
FairSpec ==
    /\ Spec
    /\ \A c \in Conn :
          /\ WF_vars(Connection(c) \/ (ReadFails(c) /\ ~fdOpen[c]))
          /\ WF_vars(CloseConn(c) /\ mainPC # "running")
    /\ \A g \in Generation : WF_vars(PipelineStops(g))
    /\ WF_vars(Reload)
    /\ WF_vars(ListenerEnds /\ mainPC # "running")
    /\ WF_vars(MainShutdown) /\ WF_vars(MainExit)

-----------------------------------------------------------------------------
(* Properties *)

\* The types of all variables but received.
StateTypes ==
    /\ connPC \in [Conn -> {"absent", "new", "store", "read", "send", "tick", "close", "done"}]
    /\ purpose \in [Conn -> {"accept", "flush", "end"}]
    /\ number \in [Conn -> Number]
    /\ fdOpen \in [Conn -> BOOLEAN]
    /\ newDownstream \in [Conn -> Generation \cup {0}]
    /\ nextRecord \in [Conn -> Nat] /\ bufferedLogs \in [Conn -> Seq(Record)]
    /\ \A c \in Conn : nextRecord[c] \in 1..(NumRecords[c] + 1) /\ Len(bufferedLogs[c]) <= LogBufferCap
    /\ downstream \in Generation
    /\ downstreamSinks \in [0..(MaxClientNumber - 1) -> Sink \cup {NoSink}]
    /\ writeLocked \in BOOLEAN
    /\ reloadPC \in {"idle", "initiate", "closeSinks", "shutdown", "drain", "renewSinks"}
    /\ signalQueued \in BOOLEAN /\ signals \in 0..MaxReloads
    /\ pipeline \in [Generation -> {"absent", "none", "up", "closed", "stopped"}]
    /\ listening \in BOOLEAN
    /\ mainPC \in {"running", "stopInputs", "shutdown", "exited"}
    /\ closing \in Generation
    /\ panicked \in BOOLEAN

\* Type invariant.
TypeOK == StateTypes /\ \A g \in Generation : received[g] \in Seq(Record)

\* No reload, and no order of connections, flushes and shutdowns, calls an emptied slot, sends to
\* a closed pipeline channel or closes one twice (reloadable.go:113-131, 145-166).
NeverPanics == ~panicked

Pending == FlattenSeq([i \in 1..MaxClientNumber |-> downstreamSinks[i - 1].pending])

\* What the pipelines of all generations got, what is pending behind the slots, and what the
\* parsing sink of a connection still holds, in the order in which records get there.
Way(c) == FlattenSeq(received) \o Pending \o bufferedLogs[c]

\* "Incoming connections are unaffected" (README.md:97): of a connection, what is on the way is
\* every record read so far, in its order, none lost and none twice, whatever reloads happen
\* between.
DeliveredInOrder ==
    \A c \in Conn :
        LET way == Way(c) IN
        /\ {r \in Range(way) : r[1] = c} = {c} \X (1..(nextRecord[c] - 1))
        /\ \A i, j \in DOMAIN way :
              i < j /\ way[i][1] = c /\ way[j][1] = c => way[i][2] < way[j][2]

\* Outside a reload no connection holds a sink of an orchestrator that was shut down
\* (reloadable.go:124-131): its records would go to a closed channel, or to a pipeline nobody
\* stops.
SinksAreCurrent ==
    ~writeLocked => \A n \in DOMAIN downstreamSinks :
                        downstreamSinks[n] = NoSink \/ downstreamSinks[n].generation = downstream

\* Pipelines of two generations never run at once: they would use the same queue directories
\* (reloadable.go:120-123).
OneGenerationRuns ==
    Cardinality({g \in Generation : pipeline[g] \in {"up", "closed"}}) <= 1

\* When run.Run returns, everything that was read has reached a pipeline, and every pipeline has
\* stopped (run.go:45-47).
ExitIsClean ==
    mainPC = "exited" =>
        /\ \A g \in Generation : pipeline[g] \notin {"up", "closed"}
        /\ \A n \in DOMAIN downstreamSinks : downstreamSinks[n] = NoSink
        /\ \A c \in Conn : \A i \in 1..(nextRecord[c] - 1) :
              \E g \in Generation : <<c, i>> \in Range(received[g])

\* The life of the generations: one at a time, and none after the exit.
GenerationsAreClean == TypeOK /\ OneGenerationRuns /\ ExitIsClean

\* A reload that holds the lock, and so all connections, ends.
ReloadEnds == writeLocked ~> ~writeLocked

\* SIGTERM ends the agent, whatever the connections are doing.
StopLeadsToExit == mainPC = "stopInputs" ~> mainPC = "exited"

\* Both, under fair goroutines.
AlwaysEnds == ReloadEnds /\ StopLeadsToExit
=============================================================================
