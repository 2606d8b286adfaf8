------------------------------ MODULE RecordPool ------------------------------
(***************************************************************************)
(* base/logallocator.go and util/bytespoolby2n.go: pooled log records and   *)
(* their pooled backing buffers, counted by the number of outputs that will *)
(* release them.                                                            *)
(*                                                                          *)
(* A field value is <<name, buffer, log>>: the piece of a log kept under a  *)
(* name, lying in a backing buffer (or, with buffer 0, in memory of its     *)
(* own).  Reading it yields what the buffer holds now.  An object that no   *)
(* one refers to and that is in no pool is garbage, and as good as new.     *)
(***************************************************************************)
EXTENDS Integers, FiniteSets, FiniteSetsExt

CONSTANTS
    NumObjects,    \* records in memory
    NumBuffers,    \* backing buffers in memory
    MaxFields,     \* schema/maxFields, the length of LogRecord.Fields
    MinToPool      \* defs.InputLogMinRecordBytesToPool

ASSUME PoolAssumption ==
    /\ NumObjects \in Nat \ {0}
    /\ NumBuffers \in Nat \ {0}
    /\ MaxFields \in Nat \ {0}
    /\ MinToPool \in Nat

Obj == 1..NumObjects
Buf == 1..NumBuffers
NoValue == <<"", 0, 0>>
NoFields == [i \in 1..MaxFields |-> NoValue]

\* newLogRecord
EmptyPool ==
    [ref |-> [o \in Obj |-> 0],
     fields |-> [o \in Obj |-> NoFields],
     backbuf |-> [o \in Obj |-> 0],
     records |-> {},                                \* recordPool
     content |-> [b \in Buf |-> 0],                 \* the log last copied into the buffer
     size |-> [b \in Buf |-> 0],
     buffers |-> {}]                                \* backbufPools, all sizes

\* 1 << n
PowerOf2[n \in Nat] == IF n = 0 THEN 1 ELSE 2 * PowerOf2[n - 1]

\* bits.LeadingZeros32 turned round: the number of bits of a length.
BitLength(n) == CHOOSE k \in 0..n : PowerOf2[k] > n /\ \A j \in 0..n : PowerOf2[j] > n => k <= j

\* BytesPoolBy2n.Get and Put: the pool a length is served from, the pool a buffer returns to.
GetClass(length) == BitLength(length)
PutClass(size) == BitLength(size) - 1

\* Buffers sync.Pool may hand out for a length: one of the pool of its class, or a new one.
BufferChoices(a, length, garbage) ==
    {b \in a.buffers : PutClass(a.size[b]) = GetClass(length)}
        \cup (IF garbage = {} THEN {} ELSE {Min(garbage)})

\* LogAllocator.NewRecord for a log: the state after it, with object o and buffer b.
NewRecord(a, log, length, o, b, initialRefCount) ==
    LET new == o \notin a.records
        pooled == length > MinToPool IN
    [a EXCEPT !.records = @ \ {o},
              !.ref[o] = (IF new THEN 0 ELSE @) + initialRefCount,
              !.fields[o] = IF new THEN NoFields ELSE @,
              !.backbuf[o] = IF pooled THEN b ELSE IF new THEN 0 ELSE @,
              !.buffers = IF pooled THEN @ \ {b} ELSE @,
              !.content = IF pooled THEN [@ EXCEPT ![b] = log] ELSE @,
              !.size = IF pooled /\ b \notin a.buffers
                       THEN [@ EXCEPT ![b] = PowerOf2[GetClass(length)]] ELSE @]

\* LogAllocator.recycleRecord
RecycleRecord(a, o) ==
    [a EXCEPT !.buffers = IF a.backbuf[o] # 0 THEN @ \cup {a.backbuf[o]} ELSE @,
              !.backbuf[o] = 0,
              !.records = @ \cup {o}]

\* Variant: recycled by the first of two outputs.
Release_TooEarly(a, o) ==
    LET released == [a EXCEPT !.ref[o] = @ - 1] IN
    IF released.ref[o] > 1 THEN released
    ELSE RecycleRecord([released EXCEPT !.fields[o] = NoFields], o)

\* LogAllocator.Release; below zero it panics.
Release(a, o) ==
    LET released == [a EXCEPT !.ref[o] = @ - 1] IN
    IF released.ref[o] > 0 THEN released
    ELSE RecycleRecord([released EXCEPT !.fields[o] = NoFields], o)

\* A field as the code sees it: the name it was stored under and the log it shows.
ReadField(a, o, location) ==
    LET v == a.fields[o][location] IN
    IF v = NoValue THEN <<"", 0>>
    ELSE <<v[1], IF v[2] = 0 THEN v[3] ELSE a.content[v[2]]>>
=============================================================================
