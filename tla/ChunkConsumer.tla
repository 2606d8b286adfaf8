----------------------------- MODULE ChunkConsumer -----------------------------
(***************************************************************************)
(* base.ChunkConsumer and base.ChunkConsumerArgs: what a buffer and the     *)
(* consumer of its chunks promise each other.                               *)
(*                                                                          *)
(* The buffer sends chunks in order, closes the channel, signals            *)
(* InputClosed, and may then take back what is still in the channel.  The   *)
(* consumer reports every chunk it received exactly once, as consumed or as *)
(* leftover, leftovers only after the input was closed, and finishes with   *)
(* none left.                                                               *)
(*                                                                          *)
(* The constants relax two of these promises.  A consumer whose             *)
(* acknowledger is stuck in a callback (MayAbandon) gives up the chunks it  *)
(* was waiting on: these are never reported, except that the stuck callback *)
(* may still go through.  And a consumer may go on receiving although       *)
(* InputClosed was signaled (MayReadLate), at the same time as the buffer   *)
(* takes back what is left.                                                 *)
(***************************************************************************)
EXTENDS Naturals, Sequences, FiniteSets, SequencesExt

CONSTANTS
    MaxChunks,      \* chunk IDs are 1..MaxChunks
    InputCap,       \* capacity of InputChannel
    MayAbandon,     \* whether an acknowledger may get stuck
    MayReadLate     \* whether the consumer may receive after InputClosed

VARIABLES
    input,          \* InputChannel
    inputState,     \* "open", "closed", "signaled" (InputClosed)
    held,           \* chunks received, not yet reported
    consumed,       \* chunks reported by OnChunkConsumed
    left,           \* chunks reported by OnChunkLeftover
    abandoned,      \* chunks given up
    finished        \* OnFinished was called

vars == <<input, inputState, held, consumed, left, abandoned, finished>>

-----------------------------------------------------------------------------
(* The buffer *)

\* Chunks are sent in the order of their IDs, as far as the consumer can compare.
Send(c) ==
    /\ inputState = "open"
    /\ Len(input) < InputCap
    /\ \A d \in ToSet(input) \cup held : d < c
    /\ input' = Append(input, c)
    /\ UNCHANGED <<inputState, held, consumed, left, abandoned, finished>>

Close ==
    /\ inputState = "open"
    /\ inputState' = "closed"
    /\ UNCHANGED <<input, held, consumed, left, abandoned, finished>>

Signal ==
    /\ inputState = "closed"
    /\ inputState' = "signaled"
    /\ UNCHANGED <<input, held, consumed, left, abandoned, finished>>

TakeBack ==
    /\ inputState = "signaled"
    /\ input # <<>>
    /\ input' = Tail(input)
    /\ UNCHANGED <<inputState, held, consumed, left, abandoned, finished>>

-----------------------------------------------------------------------------
(* The consumer *)

\* "never attempt to read any leftover chunk from InputChannel once it's closed"
Receive ==
    /\ ~finished
    /\ inputState # "signaled" \/ MayReadLate
    /\ input # <<>>
    /\ held' = held \cup {Head(input)}
    /\ input' = Tail(input)
    /\ UNCHANGED <<inputState, consumed, left, abandoned, finished>>

Consume(c) ==
    /\ ~finished
    /\ c \in held
    /\ held' = held \ {c}
    /\ consumed' = consumed \cup {c}
    /\ UNCHANGED <<input, inputState, left, abandoned, finished>>

Leave(c) ==
    /\ inputState # "open"
    /\ c \in held
    /\ held' = held \ {c}
    /\ left' = left \cup {c}
    /\ UNCHANGED <<input, inputState, consumed, abandoned, finished>>

Finish ==
    /\ inputState # "open"
    /\ held = {}
    /\ ~finished
    /\ finished' = TRUE
    /\ UNCHANGED <<input, inputState, held, consumed, left, abandoned>>

Abandon(S) ==
    /\ MayAbandon
    /\ held' = held \ S
    /\ abandoned' = abandoned \cup S
    /\ UNCHANGED <<input, inputState, consumed, left, finished>>

LateConsume(c) ==
    /\ c \in abandoned
    /\ abandoned' = abandoned \ {c}
    /\ consumed' = consumed \cup {c}
    /\ UNCHANGED <<input, inputState, held, left, finished>>

-----------------------------------------------------------------------------
Init ==
    /\ input = <<>> /\ inputState = "open"
    /\ held = {} /\ consumed = {} /\ left = {} /\ abandoned = {}
    /\ finished = FALSE

Next ==
    \/ \E c \in 1..MaxChunks : Send(c)
    \/ Close \/ Signal \/ TakeBack
    \/ Receive \/ Finish
    \/ \E c \in held : Consume(c) \/ Leave(c)
    \/ \E S \in SUBSET held : Abandon(S)
    \/ \E c \in abandoned : LateConsume(c)

Spec == Init /\ [][Next]_vars

\* "For any chunk, either OnChunkConsumed or OnChunkSkipped must be called."
EachReportedOnce ==
    /\ consumed \cap left = {} /\ consumed \cap abandoned = {} /\ left \cap abandoned = {}
    /\ held \cap (consumed \cup left \cup abandoned) = {}
    /\ finished => held = {}
=============================================================================
