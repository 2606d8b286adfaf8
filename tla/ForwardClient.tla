------------------------------ MODULE ForwardClient ------------------------------
(***************************************************************************)
(* output/baseoutput: ClientWorker, clientSession and the acknowledger, the *)
(* chunk consumer behind every network output.                              *)
(*                                                                          *)
(*   client goroutine:  ClientWorker.run, runSession and clientSession.Run  *)
(*   acknowledger:      clientSession.runAcknowledger, one per session      *)
(*   stop callback:     the function given to inputClosed.Next              *)
(*   environment:       the buffer that feeds InputChannel, and upstream    *)
(*                                                                          *)
(* Chunks are their IDs.  Connections are of one of three kinds.  With      *)
(* output/fluentdforward upstream acknowledges chunk IDs, in the order of   *)
(* sending ("ordered") or not and maybe wrongly ("unordered"), and closing  *)
(* interrupts I/O.  With output/datadog ("blank") sending is synchronous,   *)
(* closing does nothing, and acknowledgements are immediate, without ID.    *)
(*                                                                          *)
(* Everything that may go wrong outside of the program (failed connection,  *)
(* I/O error or deadline, an acknowledgement of nothing known) and each     *)
(* request to reconnect uses up one of MaxEvents.  An upstream that names a *)
(* chunk in an acknowledgement is believed to have stored it.               *)
(***************************************************************************)
EXTENDS Integers, Sequences, FiniteSets, SequencesExt

CONSTANTS
    MaxChunks,     \* chunks sent by the buffer
    InputCap,      \* capacity of InputChannel, defs.BufferMaxNumChunksInMemory
    AckerCap,      \* capacity of ackerChan, defs.ForwarderMaxPendingChunksForAck
    ConnKinds,     \* the kinds of connection to consider
    MayHang,       \* whether the acknowledger may be stuck past IntermediateChannelTimeout
    MaxEvents      \* number of failures and reconnections

ASSUME ClientAssumption ==
    /\ MaxChunks \in Nat \ {0} /\ InputCap \in Nat \ {0} /\ AckerCap \in Nat \ {0}
    /\ ConnKinds \subseteq {"ordered", "unordered", "blank"}
    /\ MayHang \in BOOLEAN
    /\ MaxEvents \in Nat

VARIABLES
    \* the buffer
    inputChannel, inputState, nextSent,
    \* ClientWorker and clientSession, in the client goroutine
    clientPC,        \* where the client goroutine is
    stage,           \* which loop sendChunk returns to: "recovery" or "normal"
    retry,           \* reconnectPolicy the session ends with
    leftovers,       \* chunks to resend
    lastChunk,       \* clientSession.lastChunk, 0 for nil
    \* shared by the client goroutine, the acknowledger and the stop callback
    ackerChan,
    ackerStop,       \* "no", "closed" (ackerChan), "aborted" (and ackerAbort signaled)
    sessionActive,   \* ClientWorker.activeSession # nil
    stopCallback,    \* inputClosed.Next callback: "armed" or "fired"
    connOpen,        \* the session's connection has not been aborted
    connKind,        \* "ordered", "unordered" or "blank"
    \* the acknowledger
    ackerPC,
    ackedChunk,      \* chunk about to be reported by onChunkAcked
    pending,         \* pendingChunksByID, then unacked
    \* upstream
    wire,            \* chunks sent on the connection, not yet read by upstream
    unanswered,      \* chunks read by upstream on this connection, not yet acknowledged
    acks,            \* acknowledgements on their way back: IDs, UnknownID or NoID
    events,          \* number of failures and reconnections so far
    \* history
    stored,          \* chunks upstream has stored
    sent,            \* chunks sent in this session, in order
    consumed, left, abandoned,   \* chunks reported, or given up
    stuck,           \* chunks whose onChunkAcked is still running in a stuck acknowledger
    unnamed          \* chunks taken to be acknowledged although a Fluentd upstream gave no ID

bufferVars   == <<inputChannel, inputState, nextSent>>
clientVars   == <<clientPC, stage, retry, leftovers, lastChunk>>
ackerVars    == <<ackerPC, ackedChunk, pending>>
upstreamVars == <<wire, unanswered, acks>>
reports      == <<consumed, left, abandoned, stuck, unnamed>>
vars == <<bufferVars, clientVars, ackerChan, ackerStop, sessionActive, stopCallback, connOpen,
          connKind, ackerVars, upstreamVars, events, stored, sent, reports>>

ChunkID == 1..MaxChunks
\* An acknowledgement of an ID that no chunk has, and one without an ID, forwardprotocol.Ack{}.
UnknownID == 0
NoID == MaxChunks + 1
InputSignaled == inputState = "signaled"

\* One more failure, or request to reconnect.
Event == events < MaxEvents /\ events' = events + 1

-----------------------------------------------------------------------------
(* The buffer: outputFeeder as seen by a consumer *)

othersIdle == <<clientVars, ackerChan, ackerStop, sessionActive, stopCallback, connOpen,
                connKind, ackerVars, upstreamVars, events, stored, sent, reports>>

BufferSend ==
    /\ inputState = "open"
    /\ nextSent \in ChunkID
    /\ Len(inputChannel) < InputCap
    /\ inputChannel' = Append(inputChannel, nextSent)
    /\ nextSent' = nextSent + 1
    /\ UNCHANGED <<inputState, othersIdle>>

BufferClose ==
    /\ inputState = "open"
    /\ inputState' = "closed"
    /\ UNCHANGED <<inputChannel, nextSent, othersIdle>>

BufferSignal ==
    /\ inputState = "closed"
    /\ inputState' = "signaled"
    /\ UNCHANGED <<inputChannel, nextSent, othersIdle>>

\* saveEverything takes chunks from the closed channel, beside the client.
BufferTakeBack ==
    /\ inputState = "signaled"
    /\ inputChannel # <<>>
    /\ inputChannel' = Tail(inputChannel)
    /\ UNCHANGED <<inputState, nextSent, othersIdle>>

-----------------------------------------------------------------------------
(* ClientWorker.runSession *)

\* abortConn (RunOnce of conn.Close): network buffers are gone, both ends see an error.
AbortConn ==
    IF connKind = "blank"
      THEN UNCHANGED <<connOpen, upstreamVars>>
      ELSE connOpen' = FALSE /\ wire' = <<>> /\ unanswered' = {} /\ acks' = <<>>

\* The connection could be opened; it is only now that a session exists.
OpenConn ==
    /\ clientPC = "open"
    /\ clientPC' = "opened"
    /\ UNCHANGED <<bufferVars, stage, retry, leftovers, lastChunk, ackerChan, ackerStop,
                   sessionActive, stopCallback, connOpen, connKind, ackerVars, upstreamVars,
                   events, stored, sent, reports>>

OpenConnFails ==
    /\ clientPC = "open"
    /\ connKind # "blank"
    /\ Event
    /\ clientPC' = "retryWait"
    /\ UNCHANGED <<bufferVars, stage, retry, leftovers, lastChunk, ackerChan, ackerStop,
                   sessionActive, stopCallback, connOpen, connKind, ackerVars, upstreamVars,
                   stored, sent, reports>>

\* inputClosed interrupts the wait for a connection.
OpenConnStopped ==
    /\ clientPC = "open"
    /\ InputSignaled
    /\ clientPC' = "exit"
    /\ UNCHANGED <<bufferVars, stage, retry, leftovers, lastChunk, ackerChan, ackerStop,
                   sessionActive, stopCallback, connOpen, connKind, ackerVars, upstreamVars,
                   events, stored, sent, reports>>

\* newClientSession, activeSession.Store, and the start of the acknowledger by Run.
StartSession ==
    /\ clientPC = "opened"
    /\ clientPC' = "resend"
    /\ sessionActive' = TRUE
    /\ connOpen' = TRUE
    /\ ackerPC' = "receive"
    /\ UNCHANGED <<bufferVars, stage, retry, leftovers, lastChunk, ackerChan, ackerStop, stopCallback,
                   connKind, ackedChunk, pending, upstreamVars, events, stored, sent, reports>>

\* The callback given to inputClosed.Next aborts the connection of the session it finds,
\* if any: a session stored later is not aborted.
StopCallback ==
    /\ InputSignaled
    /\ stopCallback = "armed"
    /\ stopCallback' = "fired"
    /\ IF sessionActive THEN AbortConn ELSE UNCHANGED <<connOpen, upstreamVars>>
    /\ UNCHANGED <<bufferVars, clientVars, ackerChan, ackerStop, sessionActive, connKind, ackerVars,
                   events, stored, sent, reports>>

-----------------------------------------------------------------------------
(* clientSession.Run: resendLeftovers and processInput *)

sessionUnchanged == <<bufferVars, ackerChan, ackerStop, sessionActive, stopCallback, connKind,
                      ackerVars, reports>>

\* A step of the client goroutine that ends the session, to collect its leftovers.
EndSession(pc, policy) ==
    /\ clientPC' = pc
    /\ retry' = policy
    /\ UNCHANGED <<stage, leftovers, lastChunk>>

\* resendLeftovers, the select.  Go picks any of the ready cases.
ResendStopped ==
    /\ clientPC = "resend"
    /\ InputSignaled
    /\ EndSession("collect", "noReconnect")
    /\ UNCHANGED <<sessionUnchanged, connOpen, upstreamVars, events, stored, sent>>

ResendNext ==
    /\ clientPC = "resend"
    /\ leftovers # <<>>
    /\ lastChunk' = Head(leftovers)
    /\ leftovers' = Tail(leftovers)
    /\ clientPC' = "send"
    /\ UNCHANGED <<stage, retry, sessionUnchanged, connOpen, upstreamVars, events, stored, sent>>

\* No leftover and no signal: on to processInput.
ResendDone ==
    /\ clientPC = "resend"
    /\ leftovers = <<>> /\ ~InputSignaled
    /\ clientPC' = "input"
    /\ stage' = "normal"
    /\ UNCHANGED <<retry, leftovers, lastChunk, sessionUnchanged, connOpen, upstreamVars, events,
                   stored, sent>>

\* processInput, the select: a chunk, whether or not the channel is closed by now.
InputReceive ==
    /\ clientPC = "input"
    /\ inputChannel # <<>>
    /\ lastChunk' = Head(inputChannel)
    /\ inputChannel' = Tail(inputChannel)
    /\ clientPC' = "send"
    /\ UNCHANGED <<inputState, nextSent, stage, retry, leftovers, ackerChan, ackerStop,
                   sessionActive, stopCallback, connOpen, connKind, ackerVars, upstreamVars, events,
                   stored, sent, reports>>

InputEnded ==
    /\ clientPC = "input"
    /\ inputChannel = <<>> /\ inputState # "open"
    /\ EndSession("collect", "noReconnect")
    /\ UNCHANGED <<sessionUnchanged, connOpen, upstreamVars, events, stored, sent>>

\* maxDuration is over, or a SIGUSR1 arrived: stop the acknowledger gently and reconnect.
InputReconnect ==
    /\ clientPC = "input"
    /\ Event
    /\ EndSession("collectSoft", "reconnect")
    /\ UNCHANGED <<sessionUnchanged, connOpen, upstreamVars, stored, sent>>

\* What an operation on the connection does when it fails, by itself or after an abort.
ConnError ==
    /\ connKind # "blank"
    /\ IF connOpen THEN Event ELSE UNCHANGED events
    /\ AbortConn

\* The keep-alive ping fails.  A successful one changes nothing.
PingFails ==
    /\ clientPC = "input"
    /\ ConnError
    /\ EndSession("collect", "reconnectWithDelay")
    /\ UNCHANGED <<sessionUnchanged, stored, sent>>

\* sendChunk: conn.SendChunk succeeds.
SendChunk ==
    /\ clientPC = "send"
    /\ \/ /\ connKind = "blank"
          /\ stored' = stored \cup {lastChunk}
          /\ UNCHANGED upstreamVars
       \/ /\ connKind # "blank" /\ connOpen
          /\ wire' = Append(wire, lastChunk)
          /\ UNCHANGED <<stored, unanswered, acks>>
    /\ sent' = Append(sent, lastChunk)
    /\ clientPC' = "queue"
    /\ UNCHANGED <<stage, retry, leftovers, lastChunk, sessionUnchanged, connOpen, events>>

\* sendChunk: conn.SendChunk fails; upstream may have stored the chunk all the same.
SendChunkFails ==
    /\ clientPC = "send"
    /\ \/ ConnError
       \/ connKind = "blank" /\ Event /\ AbortConn
    /\ stored' \in {stored} \cup (IF connOpen THEN {stored \cup {lastChunk}} ELSE {})
    /\ EndSession("collect", "reconnectWithDelay")
    /\ UNCHANGED <<sessionUnchanged, sent>>

\* Variant: lastChunk is not cleared.
QueueForAck_KeepsLastChunk ==
    /\ clientPC = "queue"
    /\ Len(ackerChan) < AckerCap
    /\ ackerChan' = Append(ackerChan, lastChunk)
    /\ clientPC' = IF stage = "recovery" THEN "resend" ELSE "input"
    /\ UNCHANGED <<bufferVars, stage, retry, leftovers, lastChunk, ackerStop, sessionActive,
                   stopCallback, connOpen, connKind, ackerVars, upstreamVars, events, stored, sent,
                   reports>>

\* sendChunk, the select: pass the chunk to the acknowledger.
QueueForAck ==
    /\ clientPC = "queue"
    /\ Len(ackerChan) < AckerCap
    /\ ackerChan' = Append(ackerChan, lastChunk)
    /\ lastChunk' = 0
    /\ clientPC' = IF stage = "recovery" THEN "resend" ELSE "input"
    /\ UNCHANGED <<bufferVars, stage, retry, leftovers, ackerStop, sessionActive, stopCallback,
                   connOpen, connKind, ackerVars, upstreamVars, events, stored, sent, reports>>

\* sendChunk, the select: the stop signal, or the end of the acknowledger.
QueueStopped ==
    /\ clientPC = "queue"
    /\ \/ InputSignaled /\ EndSession("collect", "noReconnect")
       \/ ackerPC = "ended" /\ EndSession("collect", "reconnectWithDelay")
    /\ UNCHANGED <<sessionUnchanged, connOpen, upstreamVars, events, stored, sent>>

-----------------------------------------------------------------------------
(* clientSession.collectLeftovers, and the end of runSession *)

\* close(ackerChan)
CloseAckerChan ==
    /\ clientPC \in {"collect", "collectSoft"}
    /\ ackerStop' = "closed"
    /\ clientPC' = IF clientPC = "collect" THEN "abort" ELSE "softWait"
    /\ UNCHANGED <<bufferVars, stage, retry, leftovers, lastChunk, ackerChan, sessionActive,
                   stopCallback, connOpen, connKind, ackerVars, upstreamVars, events, stored, sent,
                   reports>>

\* ackerEnded.Wait(ForwarderAckerStopTimeout): the end of the acknowledger or the timeout.
SoftWaitOver ==
    /\ clientPC = "softWait"
    /\ clientPC' = "abort"
    /\ UNCHANGED <<bufferVars, stage, retry, leftovers, lastChunk, ackerChan, ackerStop,
                   sessionActive, stopCallback, connOpen, connKind, ackerVars, upstreamVars, events,
                   stored, sent, reports>>

\* Variant: the acknowledger is told to stop, but the connection it reads from is not closed.
AbortAcker_KeepsConn ==
    /\ clientPC = "abort"
    /\ ackerStop' = "aborted"
    /\ clientPC' = "gather"
    /\ UNCHANGED <<bufferVars, stage, retry, leftovers, lastChunk, ackerChan, sessionActive,
                   stopCallback, connOpen, connKind, ackerVars, upstreamVars, events, stored, sent,
                   reports>>

\* ackerAbort.Signal and abortConn
AbortAcker ==
    /\ clientPC = "abort"
    /\ ackerStop' = "aborted"
    /\ AbortConn
    /\ clientPC' = "gather"
    /\ UNCHANGED <<bufferVars, stage, retry, leftovers, lastChunk, ackerChan, sessionActive,
                   stopCallback, connKind, ackerVars, events, stored, sent, reports>>

\* Variant: the chunks to resend are not sorted.
NewLeftovers_Unsorted(chunks) ==
    {s \in [1..Cardinality(chunks) -> chunks] :
        \A i, j \in 1..Cardinality(chunks) : i < j => s[i] > s[j]}

\* newLeftoverChannel: sorted and deduplicated.
NewLeftovers(chunks) ==
    {s \in [1..Cardinality(chunks) -> chunks] :
        \A i, j \in 1..Cardinality(chunks) : i < j => s[i] < s[j]}

\* Variant: the chunk being sent when the session ended is not collected.
Collected_NoLastChunk(unacked) == ToSet(leftovers) \cup ToSet(ackerChan) \cup unacked

\* What collectLeftovers merges, given the chunks left by the acknowledger.
Collected(unacked) ==
    ToSet(leftovers) \cup ToSet(ackerChan) \cup unacked \cup ({lastChunk} \ {0})

\* The session is over, and what was its own is gone: its leftovers go to the next session or to
\* the final loop of run.
FinishSession(unacked) ==
    /\ leftovers' \in NewLeftovers(Collected(unacked))
    /\ lastChunk' = 0
    /\ ackerChan' = <<>>
    /\ sessionActive' = FALSE
    /\ ackerPC' = "none" /\ ackedChunk' = 0 /\ pending' = {}
    /\ stage' = "recovery" /\ retry' = "noReconnect" /\ ackerStop' = "no" /\ sent' = <<>>
    /\ clientPC' = CASE retry = "noReconnect" -> "exit"
                     [] retry = "reconnectWithDelay" -> "retryWait"
                     [] retry = "reconnect" -> "open"
    /\ UNCHANGED <<bufferVars, stopCallback, connOpen, connKind, upstreamVars, events, stored,
                   consumed, left, unnamed>>

GatherLeftovers ==
    /\ clientPC = "gather"
    /\ ackerPC = "ended"
    /\ FinishSession(pending)
    /\ UNCHANGED <<abandoned, stuck>>

\* ackerEnded.Wait(IntermediateChannelTimeout) times out, logged as a BUG: the acknowledger is
\* inside onChunkAcked and has not stored its un-acknowledged chunks.
GatherWithoutAcker ==
    /\ MayHang
    /\ clientPC = "gather"
    /\ ackerPC = "report"
    /\ FinishSession({})
    /\ abandoned' = abandoned \cup pending \cup {ackedChunk}
    /\ stuck' = stuck \cup {ackedChunk}

\* ClientWorker.run: inputClosed.Wait(ForwarderRetryInterval), signaled or timed out.
RetryWaitOver ==
    /\ clientPC = "retryWait"
    /\ clientPC' \in (IF InputSignaled THEN {"exit", "open"} ELSE {"open"})
    /\ UNCHANGED <<bufferVars, stage, retry, leftovers, lastChunk, ackerChan, ackerStop,
                   sessionActive, stopCallback, connOpen, connKind, ackerVars, upstreamVars,
                   events, stored, sent, reports>>

\* ClientWorker.run: the final loop over the leftovers, then onFinished.
ReportLeftover ==
    /\ clientPC = "exit"
    /\ leftovers # <<>>
    /\ left' = left \cup {Head(leftovers)}
    /\ leftovers' = Tail(leftovers)
    /\ UNCHANGED <<bufferVars, clientPC, stage, retry, lastChunk, ackerChan, ackerStop,
                   sessionActive, stopCallback, connOpen, connKind, ackerVars, upstreamVars,
                   events, stored, sent, consumed, abandoned, stuck, unnamed>>

FinishClient ==
    /\ clientPC = "exit"
    /\ leftovers = <<>>
    /\ clientPC' = "finished"
    /\ UNCHANGED <<bufferVars, stage, retry, leftovers, lastChunk, ackerChan, ackerStop,
                   sessionActive, stopCallback, connOpen, connKind, ackerVars, upstreamVars,
                   events, stored, sent, reports>>

-----------------------------------------------------------------------------
(* clientSession.runAcknowledger *)

ackerUnchanged == <<bufferVars, clientVars, ackerStop, sessionActive, stopCallback, connKind, sent>>

\* The select on ackerChan and ackerAbort: a sent chunk.
AckerReceive ==
    /\ ackerPC = "receive"
    /\ ackerChan # <<>>
    /\ pending' = pending \cup {Head(ackerChan)}
    /\ ackedChunk' = Head(ackerChan)
    /\ ackerChan' = Tail(ackerChan)
    /\ ackerPC' = "read"
    /\ UNCHANGED <<ackerUnchanged, connOpen, upstreamVars, events, stored, reports>>

\* The select on ackerChan and ackerAbort: the channel is closed, or the abort signal.
AckerStops ==
    /\ ackerPC = "receive"
    /\ \/ ackerStop # "no" /\ ackerChan = <<>>
       \/ ackerStop = "aborted"
    /\ ackerPC' = "ended"
    /\ UNCHANGED <<ackerUnchanged, ackerChan, ackedChunk, pending, connOpen, upstreamVars, events,
                   stored, reports>>

\* ReadChunkAck succeeds: with the ID of a pending chunk, which may not be the one just received
\* from ackerChan, or with an empty ID, whatever the connection, for the current one.
ReadAck ==
    /\ ackerPC = "read"
    /\ \/ /\ connKind = "blank"
          /\ ackedChunk' = ackedChunk
          /\ UNCHANGED <<acks, unnamed>>
       \/ /\ connKind # "blank" /\ acks # <<>> /\ Head(acks) \in pending
          /\ ackedChunk' = Head(acks)
          /\ acks' = Tail(acks)
          /\ UNCHANGED unnamed
       \/ /\ connKind # "blank" /\ acks # <<>> /\ Head(acks) = NoID
          /\ ackedChunk' = ackedChunk
          /\ acks' = Tail(acks)
          /\ unnamed' = unnamed \cup {ackedChunk}
    /\ pending' = pending \ {ackedChunk'}
    /\ ackerPC' = "report"
    /\ UNCHANGED <<ackerUnchanged, ackerChan, connOpen, wire, unanswered, events, stored,
                   consumed, left, abandoned, stuck>>

\* Variant: an unknown ID is taken to be about the current chunk.
ReadUnknownAck_TakenAsCurrent ==
    /\ ackerPC = "read"
    /\ connKind # "blank" /\ acks # <<>> /\ Head(acks) \notin pending \cup {NoID}
    /\ acks' = Tail(acks)
    /\ pending' = pending \ {ackedChunk}
    /\ ackerPC' = "report"
    /\ UNCHANGED <<ackerUnchanged, ackerChan, ackedChunk, connOpen, wire, unanswered, events,
                   stored, reports>>

\* ReadChunkAck succeeds with an ID that is not pending: an error is logged, and the
\* acknowledger goes on to the next sent chunk.
ReadUnknownAck ==
    /\ ackerPC = "read"
    /\ connKind # "blank" /\ acks # <<>> /\ Head(acks) \notin pending \cup {NoID}
    /\ acks' = Tail(acks)
    /\ ackedChunk' = 0
    /\ ackerPC' = "receive"
    /\ UNCHANGED <<ackerUnchanged, ackerChan, pending, connOpen, wire, unanswered, events, stored,
                   reports>>

\* Variant: the connection is not aborted after a failure to read.
ReadAckFails_NoAbort ==
    /\ ackerPC = "read"
    /\ connKind # "blank"
    /\ IF connOpen THEN Event ELSE UNCHANGED events
    /\ ackedChunk' = 0
    /\ ackerPC' = "ended"
    /\ UNCHANGED <<ackerUnchanged, ackerChan, pending, connOpen, upstreamVars, stored, reports>>

\* ReadChunkAck fails or times out.
ReadAckFails ==
    /\ ackerPC = "read"
    /\ ConnError
    /\ ackedChunk' = 0
    /\ ackerPC' = "ended"
    /\ UNCHANGED <<ackerUnchanged, ackerChan, pending, stored, reports>>

\* onChunkAcked
ReportAcked ==
    /\ ackerPC = "report"
    /\ consumed' = consumed \cup {ackedChunk}
    /\ ackedChunk' = 0
    /\ ackerPC' = "receive"
    /\ UNCHANGED <<ackerUnchanged, ackerChan, pending, connOpen, upstreamVars, events, stored,
                   left, abandoned, stuck, unnamed>>

\* onChunkAcked of an acknowledger nobody waits for any more.
ReportAckedLate ==
    /\ \E c \in stuck :
          /\ consumed' = consumed \cup {c}
          /\ stuck' = stuck \ {c}
          /\ abandoned' = abandoned \ {c}
    /\ UNCHANGED <<ackerUnchanged, ackerChan, ackerVars, connOpen, upstreamVars, events, stored,
                   left, unnamed>>

-----------------------------------------------------------------------------
(* Upstream *)

upstreamUnchanged == <<ackerUnchanged, ackerChan, ackerVars, connOpen, reports>>

UpstreamStore ==
    /\ wire # <<>>
    /\ stored' = stored \cup {Head(wire)}
    /\ unanswered' = unanswered \cup {Head(wire)}
    /\ wire' = Tail(wire)
    /\ UNCHANGED <<upstreamUnchanged, acks, events>>

UpstreamAck ==
    /\ \E c \in unanswered :
          /\ connKind = "ordered" => \A d \in unanswered : c <= d
          /\ acks' = Append(acks, c)
          /\ unanswered' = unanswered \ {c}
    /\ UNCHANGED <<upstreamUnchanged, wire, events, stored>>

UpstreamWrongAck ==
    /\ connKind = "unordered" /\ connOpen /\ sessionActive
    /\ Event
    /\ \E answer \in {UnknownID, NoID} : acks' = Append(acks, answer)
    /\ UNCHANGED <<upstreamUnchanged, wire, unanswered, stored>>

-----------------------------------------------------------------------------
Init ==
    /\ inputChannel = <<>> /\ inputState = "open" /\ nextSent = 1
    /\ clientPC = "open" /\ stage = "recovery" /\ retry = "noReconnect"
    /\ leftovers = <<>> /\ lastChunk = 0
    /\ ackerChan = <<>> /\ ackerStop = "no"
    /\ sessionActive = FALSE /\ stopCallback = "armed"
    /\ connOpen = FALSE /\ connKind \in ConnKinds
    /\ ackerPC = "none" /\ ackedChunk = 0 /\ pending = {}
    /\ wire = <<>> /\ unanswered = {} /\ acks = <<>>
    /\ events = 0
    /\ stored = {} /\ sent = <<>> /\ unnamed = {}
    /\ consumed = {} /\ left = {} /\ abandoned = {} /\ stuck = {}

Terminated ==
    /\ clientPC = "finished"
    /\ UNCHANGED vars

Buffer == BufferSend \/ BufferClose \/ BufferSignal \/ BufferTakeBack

\* What the client goroutine does by itself.
Client ==
    \/ OpenConn \/ OpenConnStopped \/ StartSession
    \/ ResendStopped \/ ResendNext \/ ResendDone \/ InputReceive \/ InputEnded
    \/ SendChunk \/ QueueForAck \/ QueueStopped
    \/ CloseAckerChan \/ SoftWaitOver \/ AbortAcker \/ GatherLeftovers \/ GatherWithoutAcker
    \/ RetryWaitOver \/ ReportLeftover \/ FinishClient

\* What interrupts it.
ClientInterrupted == OpenConnFails \/ InputReconnect \/ PingFails \/ SendChunkFails

Acker == \/ AckerReceive \/ AckerStops \/ ReadAck \/ ReadUnknownAck \/ ReadAckFails
         \/ ReportAcked

Upstream == UpstreamStore \/ UpstreamAck \/ UpstreamWrongAck

Next == \/ Buffer \/ Client \/ ClientInterrupted \/ StopCallback \/ Acker \/ ReportAckedLate
        \/ Upstream \/ Terminated

Spec == Init /\ [][Next]_vars

-----------------------------------------------------------------------------
(* Fairness *)

\* The goroutines of the program run when they can, and every I/O operation on an aborted
\* connection returns.  Nothing is assumed of upstream, nor of failures and reconnections.
Fairness ==
    /\ WF_vars(Client)
    /\ WF_vars(PingFails /\ ~connOpen)
    /\ WF_vars(SendChunkFails /\ ~connOpen)
    /\ WF_vars(AckerReceive \/ AckerStops \/ ReadAck \/ ReadUnknownAck \/ ReportAcked
                 \/ (ReadAckFails /\ ~connOpen))
    /\ WF_vars(StopCallback)

FairSpec == Spec /\ Fairness

\* Upstream reads what it is sent, and acknowledges it.
UpstreamWorks == WF_vars(UpstreamStore) /\ WF_vars(UpstreamAck)

-----------------------------------------------------------------------------
(* Properties *)

\* Chunks received and not yet reported, by place.
BeingSent     == {lastChunk} \ {0}
BeingReported == IF ackerPC = "report" THEN {ackedChunk} ELSE {}
Held == ToSet(leftovers) \cup BeingSent \cup ToSet(ackerChan) \cup pending \cup BeingReported

\* Every variable has its type; channels keep within their capacities.
TypeOK ==
    /\ inputChannel \in Seq(ChunkID) /\ Len(inputChannel) <= InputCap
    /\ inputState \in {"open", "closed", "signaled"}
    /\ nextSent \in 1..(MaxChunks + 1)
    /\ clientPC \in {"open", "opened", "resend", "input", "send", "queue", "collect",
                     "collectSoft", "softWait", "abort", "gather", "retryWait", "exit", "finished"}
    /\ stage \in {"recovery", "normal"}
    /\ retry \in {"noReconnect", "reconnectWithDelay", "reconnect"}
    /\ leftovers \in Seq(ChunkID) /\ lastChunk \in ChunkID \cup {0}
    /\ ackerChan \in Seq(ChunkID) /\ Len(ackerChan) <= AckerCap
    /\ ackerStop \in {"no", "closed", "aborted"}
    /\ sessionActive \in BOOLEAN /\ stopCallback \in {"armed", "fired"}
    /\ connOpen \in BOOLEAN /\ connKind \in ConnKinds
    /\ ackerPC \in {"none", "receive", "read", "report", "ended"}
    /\ ackedChunk \in ChunkID \cup {0} /\ pending \subseteq ChunkID
    /\ wire \in Seq(ChunkID) /\ unanswered \subseteq ChunkID /\ acks \in Seq(ChunkID \cup {UnknownID, NoID})
    /\ events \in 0..MaxEvents
    /\ stored \subseteq ChunkID /\ sent \in Seq(ChunkID) /\ unnamed \subseteq ChunkID
    /\ consumed \subseteq ChunkID /\ left \subseteq ChunkID
    /\ abandoned \subseteq ChunkID /\ stuck \subseteq abandoned

\* The contract of ChunkConsumer and ChunkConsumerArgs, under the mapping of "held" to all the
\* places where the client keeps a chunk: with and without receiving after InputClosed.
Contract == INSTANCE ChunkConsumer WITH
    MayAbandon  <- MayHang,
    MayReadLate <- TRUE,
    input       <- inputChannel,
    held        <- Held,
    finished    <- (clientPC = "finished")
StrictContract == INSTANCE ChunkConsumer WITH
    MayAbandon  <- MayHang,
    MayReadLate <- FALSE,
    input       <- inputChannel,
    held        <- Held,
    finished    <- (clientPC = "finished")

\* The client implements the contract but for receiving late: whatever the order of failures,
\* stop signals and acknowledgements, a chunk it received is only ever given away by one report,
\* as leftover only once the input is closed, and all have been when it finishes.
ImplementsChunkConsumer == Contract!Spec

\* "never attempt to read any leftover chunk from InputChannel once it's closed": the client
\* implements the contract with that promise.
NeverReadsLate == StrictContract!Spec

\* "For any chunk, either OnChunkConsumed or OnChunkSkipped must be called": never both.  And a
\* chunk is in one place at a time, so that leftovers need no deduplication and no chunk is
\* resent while its acknowledgement is still being waited for.
OnePlaceAtATime ==
    /\ TypeOK
    /\ Contract!EachReportedOnce
    /\ Cardinality(Held) = Len(leftovers) + Cardinality(BeingSent) + Len(ackerChan)
                              + Cardinality(pending) + Cardinality(BeingReported)

\* OnChunkConsumed deletes the file of a chunk: it is only called for chunks that upstream has
\* stored, whatever acknowledgements come in, but for those that an acknowledgement without ID
\* was taken for.
ConsumedIsStored == consumed \cup BeingReported \subseteq stored \cup unnamed

\* "Otherwise, a non-empty ID must be returned to indicate which chunk was acknowledged exactly":
\* so that no chunk is consumed that upstream has not stored.
OnlyStoredIsConsumed == consumed \cup BeingReported \subseteq stored

\* Within a session chunks are sent in the order they were produced, leftovers of earlier
\* sessions first.
SentInOrder ==
    \A i, j \in 1..Len(sent) : i < j => sent[i] < sent[j]

\* The client ends after inputClosed was signaled, whatever state it is in and whatever upstream
\* does: also when the signal comes between the opening of a connection and activeSession.Store.
StopsWhenTold == InputSignaled ~> clientPC = "finished"

\* While the input is open and upstream works and answers in order, every chunk received is
\* consumed in the end, through any number of failed sessions.
EveryChunkGetsThrough ==
    UpstreamWorks =>
        \A c \in ChunkID :
            (c \in Held /\ connKind # "unordered")
                ~> (c \in consumed \/ c \in abandoned \/ inputState # "open")

=================================================================================
