---------------------------- MODULE PipelineProofs ----------------------------
(***************************************************************************)
(* Proofs about Pipeline, for every set of messages, every percentage,      *)
(* every list of configurations and any number of reloads.                  *)
(***************************************************************************)
EXTENDS Pipeline, SequenceFacts, FiniteSetTheorems, TLAPS

-----------------------------------------------------------------------------
(* The percentage of the drop transform *)

\* How far the drops are ahead of Rate percent of the matches, times 100.
Excess(matched, droppedOnes) == 100 * droppedOnes - Rate * matched

\* The inductive invariant: unlike DropRateKept it also knows the types, and it holds for
\* Rate = 100, when nothing is counted.
DropInv ==
    /\ totalMatched \in Nat
    /\ totalDropped \in Nat
    /\ -Rate <= Excess(totalMatched, totalDropped)
    /\ Excess(totalMatched, totalDropped) < 100 - Rate \/ Rate = 100

\* The comparison of tdrop rounds the percentage down.  With a whole Rate this makes no
\* difference: it is below Rate exactly when the drops are behind.
LEMMA RoundedComparison ==
    ASSUME NEW m \in Nat \ {0}, NEW d \in Nat, NEW r \in 1..100
    PROVE  (100 * d) \div m < r <=> 100 * d - r * m < 0
<1> DEFINE q == (100 * d) \div m
<1>1. q \in Int /\ m * q <= 100 * d /\ 100 * d < m * q + m
  OBVIOUS
<1>2. ASSUME q < r PROVE 100 * d < r * m
  <2>1. q + 1 <= r
    BY <1>1, <1>2
  <2> QED
    BY <1>1, <2>1
<1>3. ASSUME r <= q PROVE r * m <= 100 * d
  BY <1>1, <1>3
<1> QED
  BY <1>1, <1>2, <1>3

\* Counting one match keeps the drops as close to the percentage as they were.
LEMMA OneMoreMatch ==
    ASSUME DropInv
    PROVE  /\ BelowRate => /\ -Rate <= Excess(totalMatched + 1, totalDropped + 1)
                           /\ Excess(totalMatched + 1, totalDropped + 1) < 100 - Rate
           /\ ~BelowRate /\ Rate # 100 =>
                           /\ -Rate <= Excess(totalMatched + 1, totalDropped)
                           /\ Excess(totalMatched + 1, totalDropped) < 100 - Rate
<1> DEFINE e == Excess(totalMatched, totalDropped)
<1>1. Rate \in 1..100
  BY PipelineAssumption
<1>2. e \in Int /\ -Rate <= e /\ (e < 100 - Rate \/ Rate = 100)
  BY <1>1 DEF DropInv, Excess
<1>3. /\ Excess(totalMatched + 1, totalDropped + 1) = e + 100 - Rate
      /\ Excess(totalMatched + 1, totalDropped) = e - Rate
  BY <1>1 DEF DropInv, Excess
<1>4. ASSUME totalMatched # 0 PROVE BelowRate <=> e < 0
  BY <1>1, <1>4, RoundedComparison DEF DropInv, BelowRate, Excess
<1>5. ASSUME totalMatched = 0 PROVE ~BelowRate /\ 0 <= e
  BY <1>1, <1>5 DEF DropInv, BelowRate, Excess
<1> HIDE DEF e
<1>6. BelowRate => e < 0
  BY <1>4, <1>5
<1>7. ~BelowRate => 0 <= e
  BY <1>2, <1>4, <1>5
<1> QED
  BY <1>1, <1>2, <1>3, <1>6, <1>7

\* Nothing is counted before the first record.
LEMMA DropInvInit == Init => DropInv
  BY PipelineAssumption DEF Init, DropInv, Excess

\* CountMatch is all that the transform does to its counters.
LEMMA CountMatchKeepsDropInv == DropInv /\ CountMatch => DropInv'
<1> SUFFICES ASSUME DropInv, CountMatch PROVE DropInv'
  OBVIOUS
<1>1. Rate \in 1..100
  BY PipelineAssumption
<1>2. CASE ~(DropMatches /\ Rate # 100)
  BY <1>2 DEF CountMatch, DropInv, Excess, dropVars
<1>3. CASE DropMatches /\ Rate # 100 /\ BelowRate
  <2>1. totalMatched' = totalMatched + 1 /\ totalDropped' = totalDropped + 1
    BY <1>3 DEF CountMatch
  <2> QED
    BY <1>1, <1>3, <2>1, OneMoreMatch DEF DropInv, Excess
<1>4. CASE DropMatches /\ Rate # 100 /\ ~BelowRate
  <2>1. totalMatched' = totalMatched + 1 /\ totalDropped' = totalDropped
    BY <1>4 DEF CountMatch
  <2> QED
    BY <1>1, <1>4, <2>1, OneMoreMatch DEF DropInv, Excess
<1> QED
  BY <1>2, <1>3, <1>4

\* Every other step, of the input, of a reload or of the outputs, leaves the counters alone.
LEMMA DropInvNext == DropInv /\ [Next]_vars => DropInv'
<1> SUFFICES ASSUME DropInv, [Next]_vars PROVE DropInv'
  OBVIOUS
<1>1. ASSUME UNCHANGED dropVars PROVE DropInv'
  BY <1>1 DEF dropVars, DropInv, Excess
<1>2. CASE TransformDrops \/ TransformPasses
  BY <1>2, CountMatchKeepsDropInv DEF TransformDrops, TransformPasses
<1>3. CASE CompleteReload
  BY <1>3, PipelineAssumption DEF CompleteReload, DropInv, Excess
<1>4. CASE Receive \/ Send \/ SendTimesOut
  BY <1>1, <1>4 DEF Receive, Send, SendTimesOut, workerVars
<1>5. CASE OnInput \/ OutputRecord \/ OnStop \/ DestroyBufferer \/ OnTick
  BY <1>1, <1>5 DEF OnInput, OutputRecord, OnStop, DestroyBufferer, OnTick
<1>6. CASE BeginReload \/ Shutdown \/ ClockTicks
  BY <1>1, <1>6 DEF BeginReload, Shutdown, ClockTicks, workerVars
<1>7. CASE Done \/ UNCHANGED vars
  BY <1>1, <1>7 DEF Done, vars, workerVars
<1> QED
  BY <1>2, <1>3, <1>4, <1>5, <1>6, <1>7 DEF Next, Worker

\* The drop transform keeps to its percentage after any number of records, matching or not,
\* and any number of reloads (tdrop/drop.go:62-77).
THEOREM DropsKeepToTheRate == Spec => []DropRateKept
<1>1. DropInv => DropRateKept
  BY PipelineAssumption DEF DropInv, DropRateKept, Excess
<1> QED
  BY <1>1, DropInvInit, DropInvNext, PTL DEF Spec

-----------------------------------------------------------------------------
(* The pools of records and buffers *)

\* The powers of two up to the n-th.
Powers(g, n) == g = [i \in 0..n |-> IF i = 0 THEN 1 ELSE 2 * g[i - 1]]

\* The recursion of PowerOf2 has a solution, as far as any number.
LEMMA PowersExist == \A n \in Nat : \E g : Powers(g, n) /\ \A i \in 0..n : g[i] \in Nat
<1> DEFINE T == {n \in Nat : \E g : Powers(g, n) /\ \A i \in 0..n : g[i] \in Nat}
<1>1. 0 \in T
  <2> DEFINE g == [i \in 0..0 |-> 1]
  <2>1. 0..0 = {0}
    OBVIOUS
  <2>2. g = [i \in 0..0 |-> IF i = 0 THEN 1 ELSE 2 * g[i - 1]]
    BY <2>1
  <2>3. Powers(g, 0) /\ \A i \in 0..0 : g[i] \in Nat
    BY <2>2 DEF Powers
  <2> QED
    BY <2>3
<1>2. ASSUME NEW n \in Nat, n \in T PROVE n + 1 \in T
  <2>1. PICK f : Powers(f, n) /\ \A i \in 0..n : f[i] \in Nat
    BY <1>2
  <2> DEFINE g == [i \in 0..(n + 1) |-> IF i = n + 1 THEN 2 * f[n] ELSE f[i]]
  <2>2. \A i \in 0..n : f[i] = IF i = 0 THEN 1 ELSE 2 * f[i - 1]
    BY <2>1 DEF Powers
  <2>3. /\ \A i \in 0..n : i \in 0..(n + 1) /\ i # n + 1
        /\ \A i \in 0..n : i # 0 => i - 1 \in 0..n
        /\ n + 1 \in 0..(n + 1) /\ (n + 1) - 1 = n /\ n \in 0..n /\ n + 1 # 0
        /\ \A i \in 0..(n + 1) : i \in 0..n \/ i = n + 1
    OBVIOUS
  <2>4. \A i \in 0..n : g[i] = f[i]
    BY <2>3
  <2>5. ASSUME NEW i \in 0..(n + 1) PROVE g[i] = IF i = 0 THEN 1 ELSE 2 * g[i - 1]
    <3>1. CASE i \in 0..n
      BY <2>2, <2>3, <2>4, <3>1
    <3>2. CASE i = n + 1
      BY <2>3, <2>4, <3>2
    <3> QED
      BY <2>3, <3>1, <3>2
  <2>6. g = [i \in 0..(n + 1) |-> IF i = 0 THEN 1 ELSE 2 * g[i - 1]]
    BY <2>5
  <2>7. Powers(g, n + 1) /\ \A i \in 0..(n + 1) : g[i] \in Nat
    <3>1. 2 * f[n] \in Nat
      BY <2>1
    <3> QED
      BY <2>1, <2>6, <3>1 DEF Powers
  <2> QED
    BY <2>7
<1> HIDE DEF T
<1>3. Nat \subseteq T
  BY <1>1, <1>2, Induction
<1> QED
  BY <1>3 DEF T

\* PowerOf2 is what its recursive definition says (1 << n).
LEMMA PowerOf2Def ==
    /\ PowerOf2[0] = 1
    /\ \A n \in Nat : PowerOf2[n] \in Nat /\ PowerOf2[n + 1] = 2 * PowerOf2[n]
<1> DEFINE G(n) == CHOOSE g : Powers(g, n) /\ \A i \in 0..n : g[i] \in Nat
           p == [n \in Nat |-> G(n)[n]]
<1>1. ASSUME NEW n \in Nat
      PROVE  /\ \A i \in 0..n : G(n)[i] = IF i = 0 THEN 1 ELSE 2 * G(n)[i - 1]
             /\ \A i \in 0..n : G(n)[i] \in Nat
  <2>1. \E g : Powers(g, n) /\ \A i \in 0..n : g[i] \in Nat
    BY PowersExist
  <2>2. Powers(G(n), n) /\ \A i \in 0..n : G(n)[i] \in Nat
    BY <2>1, Zenon
  <2> HIDE DEF G
  <2> QED
    BY <2>2 DEF Powers
<1> HIDE DEF G
<1>2. ASSUME NEW n \in Nat PROVE \A i \in 0..n : G(n)[i] = G(n + 1)[i]
  <2> DEFINE T == {i \in Nat : i \in 0..n => G(n)[i] = G(n + 1)[i]}
  <2>1. 0 \in T
    BY <1>1
  <2>2. ASSUME NEW i \in Nat, i \in T PROVE i + 1 \in T
    <3>1. SUFFICES ASSUME i + 1 \in 0..n PROVE G(n)[i + 1] = G(n + 1)[i + 1]
      OBVIOUS
    <3>2. i \in 0..n /\ i + 1 # 0 /\ (i + 1) - 1 = i /\ i + 1 \in 0..(n + 1) /\ n + 1 \in Nat
      BY <3>1
    <3>3. G(n)[i + 1] = 2 * G(n)[(i + 1) - 1] /\ G(n + 1)[i + 1] = 2 * G(n + 1)[(i + 1) - 1]
      BY <1>1, <3>1, <3>2, Zenon
    <3> QED
      BY <2>2, <3>2, <3>3
  <2> HIDE DEF T
  <2>3. Nat \subseteq T
    BY <2>1, <2>2, Induction
  <2> QED
    BY <2>3 DEF T
<1>3. ASSUME NEW n \in Nat PROVE p[n] \in Nat /\ p[n] = IF n = 0 THEN 1 ELSE 2 * p[n - 1]
  <2>1. n \in 0..n /\ p[n] = G(n)[n] /\ p[n] \in Nat
    BY <1>1
  <2>2. ASSUME n # 0 PROVE p[n] = 2 * p[n - 1]
    <3>1. n - 1 \in Nat /\ n - 1 \in 0..(n - 1) /\ (n - 1) + 1 = n
      BY <2>2
    <3>2. G(n - 1)[n - 1] = G(n)[n - 1]
      BY <1>2, <3>1
    <3> QED
      BY <1>1, <2>1, <2>2, <3>1, <3>2
  <2>3. ASSUME n = 0 PROVE p[n] = 1
    BY <1>1, <2>1, <2>3
  <2> QED
    BY <2>1, <2>2, <2>3
<1>4. p = [n \in Nat |-> IF n = 0 THEN 1 ELSE 2 * p[n - 1]]
  BY <1>3
<1> HIDE DEF p
<1>5. PowerOf2 = [n \in Nat |-> IF n = 0 THEN 1 ELSE 2 * PowerOf2[n - 1]]
  <2>1. \E q : q = [n \in Nat |-> IF n = 0 THEN 1 ELSE 2 * q[n - 1]]
    BY <1>4
  <2> QED
    BY <2>1, Zenon DEF PowerOf2
<1>6. ASSUME NEW n \in Nat PROVE PowerOf2[n] = IF n = 0 THEN 1 ELSE 2 * PowerOf2[n - 1]
  BY <1>5, Zenon
<1>7. PowerOf2[0] = 1
  BY <1>6
<1>8. ASSUME NEW n \in Nat PROVE PowerOf2[n + 1] = 2 * PowerOf2[n]
  <2>1. n + 1 \in Nat /\ n + 1 # 0 /\ (n + 1) - 1 = n
    OBVIOUS
  <2>2. PowerOf2[n + 1] = 2 * PowerOf2[(n + 1) - 1]
    BY <1>6, <2>1
  <2> QED
    BY <2>1, <2>2
<1> DEFINE T == {n \in Nat : PowerOf2[n] \in Nat}
<1>9. 0 \in T
  BY <1>7
<1>10. ASSUME NEW n \in Nat, n \in T PROVE n + 1 \in T
  BY <1>8, <1>10
<1> HIDE DEF T
<1>11. Nat \subseteq T
  BY <1>9, <1>10, Induction
<1> QED
  BY <1>7, <1>8, <1>11 DEF T

\* The powers grow, each above its own number.
LEMMA PowersGrow ==
    /\ \A n \in Nat : PowerOf2[n] > n
    /\ \A n \in Nat, k \in Nat : n < k => PowerOf2[n] < PowerOf2[k]
<1> DEFINE T == {n \in Nat : PowerOf2[n] > n}
<1>1. 0 \in T
  BY PowerOf2Def
<1>2. ASSUME NEW n \in Nat, n \in T PROVE n + 1 \in T
  BY <1>2, PowerOf2Def
<1>3. \A n \in Nat : PowerOf2[n] > n
  <2> HIDE DEF T
  <2>1. Nat \subseteq T
    BY <1>1, <1>2, Induction
  <2> QED
    BY <2>1 DEF T
<1> HIDE DEF T
<1>4. ASSUME NEW n \in Nat PROVE \A k \in Nat : n < k => PowerOf2[n] < PowerOf2[k]
  <2> DEFINE U == {k \in Nat : n < k => PowerOf2[n] < PowerOf2[k]}
  <2>1. 0 \in U
    OBVIOUS
  <2>2. ASSUME NEW k \in Nat, k \in U PROVE k + 1 \in U
    <3>1. PowerOf2[k] < PowerOf2[k + 1] /\ PowerOf2[k] \in Nat /\ PowerOf2[k + 1] \in Nat /\ PowerOf2[n] \in Nat
      BY PowerOf2Def, <1>3
    <3> QED
      BY <2>2, <3>1
  <2> HIDE DEF U
  <2>3. Nat \subseteq U
    BY <2>1, <2>2, Induction
  <2> QED
    BY <2>3 DEF U
<1> QED
  BY <1>3, <1>4

\* Some numbers have a least one.
LEMMA LeastExists == \A S \in SUBSET Nat : S # {} => \E x \in S : \A y \in S : x <= y
<1> SUFFICES ASSUME NEW S \in SUBSET Nat, S # {} PROVE \E x \in S : \A y \in S : x <= y
  OBVIOUS
<1> DEFINE R == OpToRel(<, Nat)
<1>1. IsWellFoundedOn(R, Nat)
  BY NatLessThanWellFounded
<1>2. \A m, n \in Nat : m < n => <<m, n>> \in R
  BY DEF OpToRel
<1> HIDE DEF R
<1>3. PICK x \in S : \A y \in S : ~(<<y, x>> \in R)
  BY <1>1, WFMin
<1>4. ASSUME NEW y \in S PROVE x <= y
  <2>1. x \in Nat /\ y \in Nat /\ <<y, x>> \notin R
    BY <1>3
  <2>2. ~(y < x)
    BY <1>2, <2>1
  <2> QED
    BY <2>1, <2>2
<1> QED
  BY <1>4

\* bits.LeadingZeros32: the number of bits is that of the next power of two, and a power of two
\* has one bit more than its exponent.
LEMMA BitLengthFacts ==
    /\ \A n \in Nat : BitLength(n) \in Nat /\ PowerOf2[BitLength(n)] > n
    /\ \A k \in Nat : BitLength(PowerOf2[k]) = k + 1
<1>1. ASSUME NEW n \in Nat
      PROVE  /\ BitLength(n) \in 0..n /\ PowerOf2[BitLength(n)] > n
             /\ \A j \in 0..n : PowerOf2[j] > n => BitLength(n) <= j
  <2> DEFINE L == {k \in 0..n : PowerOf2[k] > n}
  <2>1. L \in SUBSET Nat /\ n \in L
    BY PowersGrow
  <2>2. PICK k \in L : \A j \in L : k <= j
    <3> HIDE DEF L
    <3>1. L # {}
      BY <2>1
    <3> QED
      BY <2>1, <3>1, LeastExists
  <2>3. \E i \in 0..n : PowerOf2[i] > n /\ \A j \in 0..n : PowerOf2[j] > n => i <= j
    BY <2>2
  <2> QED
    BY <2>3, Zenon DEF BitLength
<1>2. ASSUME NEW k \in Nat PROVE BitLength(PowerOf2[k]) = k + 1
  <2> DEFINE n == PowerOf2[k]
             b == BitLength(n)
  <2>1. n \in Nat /\ k + 1 \in 0..n /\ PowerOf2[k + 1] > n
    <3>1. n \in Nat /\ n > k
      BY PowerOf2Def, PowersGrow
    <3>2. k + 1 \in Nat /\ k < k + 1
      OBVIOUS
    <3> QED
      BY <3>1, <3>2, PowersGrow
  <2>2. b \in 0..n /\ PowerOf2[b] > n /\ b <= k + 1
    BY <1>1, <2>1
  <2>3. b \in Nat /\ ~(b <= k)
    <3>1. SUFFICES ASSUME b <= k PROVE FALSE
      BY <2>2
    <3>2. b \in Nat /\ (b = k \/ b < k)
      BY <2>2, <3>1
    <3>3. PowerOf2[b] <= n
      BY <3>2, PowersGrow, PowerOf2Def
    <3> QED
      BY <2>1, <2>2, <3>2, <3>3, PowerOf2Def
  <2> QED
    BY <2>2, <2>3
<1> QED
  BY <1>1, <1>2

\* The least of some numbers is one of them.
LEMMA MinIsIn == \A S \in SUBSET Nat : S # {} => Min(S) \in S
<1> SUFFICES ASSUME NEW S \in SUBSET Nat, S # {} PROVE Min(S) \in S
  OBVIOUS
<1>1. \E x \in S : \A y \in S : x =< y
  BY LeastExists
<1> QED
  BY <1>1, Zenon DEF Min

-----------------------------------------------------------------------------
(* Where the records are *)

\* The pipeline has outputs, and no reload adds one.  Without the first there would be nothing to
\* release a record; the second is what run pipeline_outputs shows to be needed.
OutputsDoNotGrow ==
    \A k \in DOMAIN Configs : ConfigOK(Configs[k]) => Len(Configs[k].outputs) \in 1..InitialRefCount

Hand == Seq(Obj \X Log)

\* The types of what the receiver, the channel and the worker hold, and which configurations
\* run: those that may follow the first one.
Types ==
    /\ received \in 0..NumLogs
    /\ parsed \in Hand /\ Len(parsed) <= MaxBatch
    /\ inputChannel \in Seq(Hand) /\ Len(inputChannel) <= ChannelCap
    /\ \A k \in DOMAIN inputChannel : inputChannel[k] # <<>>
    /\ batch \in Hand
    /\ pc \in {"select", "transform", "output", "stopped", "ended"}
    /\ pc \in {"transform", "output"} <=> batch # <<>>
    /\ config \in DOMAIN Configs /\ loading \in DOMAIN Configs \cup {0}
    /\ ConfigOK(Conf) /\ Compatible(Configs[1], Conf)
    /\ loading # 0 => MayReload(Conf, Configs[loading]) /\ numReload < MaxReloads
    /\ output \in (IF pc = "output" THEN Outputs ELSE {0})
    /\ destroyed \in 0..Len(Conf.outputs) /\ numReload \in 0..MaxReloads
    /\ now \in Nat

\* A record is an object that may be released for several outputs, so that one object must not
\* be two records: of one batch, of two batches, of the parser and the worker.
OfTwo(s) == \A i, j \in DOMAIN s : s[i][1] = s[j][1] => i = j
Elsewhere(s, t) == \A i \in DOMAIN s, j \in DOMAIN t : s[i][1] # t[j][1]

HandsApart ==
    /\ OfTwo(parsed) /\ OfTwo(batch) /\ Elsewhere(batch, parsed)
    /\ \A k \in DOMAIN inputChannel :
          /\ OfTwo(inputChannel[k])
          /\ Elsewhere(inputChannel[k], batch) /\ Elsewhere(inputChannel[k], parsed)
    /\ \A k, l \in DOMAIN inputChannel : k # l => Elsewhere(inputChannel[k], inputChannel[l])

\* The records themselves, with the logs they were made for.
Members(s) == {s[i] : i \in DOMAIN s}
Records == Members(parsed) \cup Members(batch)
             \cup UNION {Members(inputChannel[k]) : k \in DOMAIN inputChannel}

\* A configuration has fields at known places.
LEMMA LocateFacts ==
    ASSUME NEW c \in Config, NEW f
    PROVE  /\ Locate(c.fields, f) # 0 <=> \E i \in DOMAIN c.fields : c.fields[i] = f
           /\ Locate(c.fields, f) # 0 =>
                 Locate(c.fields, f) \in DOMAIN c.fields /\ c.fields[Locate(c.fields, f)] = f
<1>1. DOMAIN c.fields = 1..Len(c.fields) /\ 0 \notin DOMAIN c.fields
  BY DEF Config
<1>2. Contains(c.fields, f) <=> \E i \in DOMAIN c.fields : c.fields[i] = f
  BY <1>1 DEF Contains
<1> QED
  BY <1>1, <1>2 DEF Locate, MissingFieldLocator

\* What may follow a configuration that may follow the first one may follow the first one.
LEMMA CompatibleIsTransitive ==
    ASSUME NEW a \in Config, NEW b \in Config, NEW c \in Config, Compatible(a, b), Compatible(b, c)
    PROVE  Compatible(a, c)
<1>1. ASSUME NEW f \in FixedFields(a) PROVE Locate(c.fields, f) = Locate(a.fields, f)
  <2>1. Locate(a.fields, f) # 0 /\ f \in a.inputs \cup ToSet(a.keys)
    BY LocateFacts DEF FixedFields, ToSet
  <2>2. Locate(b.fields, f) = Locate(a.fields, f) /\ b.inputs = a.inputs /\ b.keys = a.keys
    BY DEF Compatible, FieldsKept
  <2>3. f \in FixedFields(b)
    BY <2>1, <2>2, LocateFacts DEF FixedFields, ToSet
  <2> QED
    BY <2>2, <2>3 DEF Compatible, FieldsKept
<1> QED
  BY <1>1 DEF Compatible, FieldsKept

\* The constants say so.
LEMMA ConfigFacts ==
    /\ \A k \in DOMAIN Configs : Configs[k] \in Config
    /\ 1 \in DOMAIN Configs /\ 0 \notin DOMAIN Configs /\ InitialRefCount \in Nat
    /\ \A k \in DOMAIN Configs : DOMAIN Configs[k].outputs = 1..Len(Configs[k].outputs)
                                 /\ Len(Configs[k].outputs) \in Nat
<1>1. /\ \A k \in DOMAIN Configs : Configs[k] \in Config
      /\ 1 \in DOMAIN Configs /\ 0 \notin DOMAIN Configs
  BY PipelineAssumption
<1>2. ASSUME NEW c \in Config PROVE DOMAIN c.outputs = 1..Len(c.outputs) /\ Len(c.outputs) \in Nat
  BY DEF Config
<1> QED
  BY <1>1, <1>2 DEF InitialRefCount

\* The members of hands and the objects in use.
LEMMA RecordsAndObjects ==
    /\ InUse = {r[1] : r \in Records}
    /\ Types => Records \subseteq Obj \X Log /\ InUse \subseteq Obj
<1>1. InUse = {r[1] : r \in Records}
  BY DEF InUse, Objects, Records, Members
<1>2. ASSUME Types PROVE Records \subseteq Obj \X Log
  <2>1. \A s \in Hand : Members(s) \subseteq Obj \X Log
    BY DEF Hand, Members
  <2>2. parsed \in Hand /\ batch \in Hand /\ \A k \in DOMAIN inputChannel : inputChannel[k] \in Hand
    BY <1>2 DEF Types
  <2> QED
    BY <2>1, <2>2 DEF Records
<1> QED
  BY <1>1, <1>2

\* A record more, of an object that is in no hand yet.
LEMMA RecordAppended ==
    ASSUME NEW s \in Hand, NEW r \in Obj \X Log
    PROVE  /\ Append(s, r) \in Hand /\ Len(Append(s, r)) = Len(s) + 1
           /\ Members(Append(s, r)) = Members(s) \cup {r}
           /\ OfTwo(s) /\ (\A x \in Members(s) : x[1] # r[1]) => OfTwo(Append(s, r))
           /\ \A t : Elsewhere(t, s) /\ (\A x \in Members(t) : x[1] # r[1]) => Elsewhere(t, Append(s, r))
<1> DEFINE n == Len(s)
           a == Append(s, r)
<1>1. /\ n \in Nat /\ DOMAIN s = 1..n /\ DOMAIN a = 1..(n + 1) /\ Len(a) = n + 1 /\ a \in Hand
      /\ a[n + 1] = r /\ \A i \in 1..n : a[i] = s[i]
  BY DEF Hand
<1>2. \A i \in 1..(n + 1) : i \in 1..n \/ i = n + 1
  BY <1>1
<1>3. n + 1 \in 1..(n + 1) /\ \A i \in 1..n : i \in 1..(n + 1)
  BY <1>1
<1> HIDE DEF n, a
<1>4. Members(a) = Members(s) \cup {r}
  BY <1>1, <1>2, <1>3 DEF Members
<1>5. ASSUME OfTwo(s), \A x \in Members(s) : x[1] # r[1] PROVE OfTwo(a)
  BY <1>1, <1>2, <1>5 DEF OfTwo, Members
<1>6. ASSUME NEW t, Elsewhere(t, s), \A x \in Members(t) : x[1] # r[1] PROVE Elsewhere(t, a)
  BY <1>1, <1>2, <1>6 DEF Elsewhere, Members
<1> QED
  BY <1>1, <1>4, <1>5, <1>6 DEF a, n

\* The first record of a batch is done.
LEMMA RecordTaken ==
    ASSUME NEW s \in Hand, s # <<>>
    PROVE  /\ Tail(s) \in Hand /\ s[1] \in Obj \X Log /\ s[1] \in Members(s)
           /\ Tail(s) = <<>> <=> Len(s) = 1
           /\ Members(Tail(s)) \subseteq Members(s)
           /\ Members(s) = Members(Tail(s)) \cup {s[1]}
           /\ OfTwo(s) => OfTwo(Tail(s)) /\ \A x \in Members(Tail(s)) : x[1] # s[1][1]
           /\ \A t : Elsewhere(s, t) => Elsewhere(Tail(s), t)
           /\ \A t : Elsewhere(t, s) => Elsewhere(t, Tail(s))
<1> DEFINE n == Len(s)
           a == Tail(s)
<1>1. /\ n \in Nat \ {0} /\ DOMAIN s = 1..n /\ DOMAIN a = 1..(n - 1) /\ Len(a) = n - 1 /\ a \in Hand
      /\ \A i \in 1..(n - 1) : a[i] = s[i + 1]
      /\ a = <<>> <=> n = 1
  <2>1. n \in Nat \ {0} /\ DOMAIN s = 1..n
    BY DEF Hand
  <2>2. a \in Hand /\ Len(a) = n - 1 /\ \A i \in 1..(n - 1) : a[i] = s[i + 1]
    BY DEF Hand
  <2>3. a = <<>> <=> Len(a) = 0
    BY <2>2, EmptySeq DEF Hand
  <2>4. DOMAIN a = 1..Len(a)
    BY <2>2 DEF Hand
  <2> HIDE DEF n, a
  <2> QED
    BY <2>1, <2>2, <2>3, <2>4
<1>2. /\ 1 \in 1..n /\ \A i \in 1..(n - 1) : i + 1 \in 1..n /\ i + 1 # 1
      /\ \A i \in 1..n : i = 1 \/ (i - 1 \in 1..(n - 1) /\ (i - 1) + 1 = i)
      /\ \A i, j \in 1..(n - 1) : i + 1 = j + 1 => i = j
  BY <1>1
<1> HIDE DEF n, a
<1>3. s[1] \in Obj \X Log
  BY <1>1, <1>2 DEF Hand
<1>4. \A x \in Members(a) : x \in Members(s)
  BY <1>1, <1>2 DEF Members
<1>5. \A x \in Members(s) : x \in Members(a) \/ x = s[1]
  <2>1. SUFFICES ASSUME NEW i \in 1..n PROVE s[i] \in Members(a) \/ s[i] = s[1]
    BY <1>1 DEF Members
  <2>2. CASE i = 1
    BY <2>2
  <2>3. CASE i # 1
    <3>1. i - 1 \in DOMAIN a /\ a[i - 1] = s[i]
      BY <1>1, <1>2, <2>3
    <3> QED
      BY <3>1 DEF Members
  <2> QED
    BY <2>2, <2>3
<1>6. s[1] \in Members(s)
  BY <1>1, <1>2 DEF Members
<1>7. ASSUME OfTwo(s) PROVE OfTwo(a) /\ \A x \in Members(a) : x[1] # s[1][1]
  <2>1. \A i, j \in 1..n : s[i][1] = s[j][1] => i = j
    BY <1>1, <1>7 DEF OfTwo
  <2>2. ASSUME NEW i \in 1..(n - 1), NEW j \in 1..(n - 1), a[i][1] = a[j][1] PROVE i = j
    BY <1>1, <1>2, <2>1, <2>2
  <2>3. ASSUME NEW i \in 1..(n - 1) PROVE a[i][1] # s[1][1]
    BY <1>1, <1>2, <2>1
  <2> QED
    BY <1>1, <2>2, <2>3 DEF OfTwo, Members
<1>8. ASSUME NEW t, Elsewhere(s, t) PROVE Elsewhere(a, t)
  <2>1. SUFFICES ASSUME NEW i \in DOMAIN a, NEW j \in DOMAIN t PROVE a[i][1] # t[j][1]
    BY DEF Elsewhere
  <2>2. i + 1 \in DOMAIN s /\ a[i] = s[i + 1]
    BY <1>1, <1>2
  <2>3. s[i + 1][1] # t[j][1]
    BY <1>8, <2>2, Zenon DEF Elsewhere
  <2> QED
    BY <2>2, <2>3, Zenon
<1>9. ASSUME NEW t, Elsewhere(t, s) PROVE Elsewhere(t, a)
  <2>1. SUFFICES ASSUME NEW i \in DOMAIN t, NEW j \in DOMAIN a PROVE t[i][1] # a[j][1]
    BY DEF Elsewhere
  <2>2. j + 1 \in DOMAIN s /\ a[j] = s[j + 1]
    BY <1>1, <1>2
  <2>3. t[i][1] # s[j + 1][1]
    BY <1>9, <2>2, Zenon DEF Elsewhere
  <2> QED
    BY <2>2, <2>3, Zenon
<1> QED
  BY <1>1, <1>3, <1>4, <1>5, <1>6, <1>7, <1>8, <1>9 DEF a, n

\* No record at all.
LEMMA NoRecords ==
    /\ <<>> \in Hand /\ Members(<<>>) = {} /\ OfTwo(<<>>)
    /\ \A t : Elsewhere(<<>>, t) /\ Elsewhere(t, <<>>)
<1>1. DOMAIN <<>> = {} /\ <<>> \in Hand
  BY DEF Hand
<1> QED
  BY <1>1 DEF Members, OfTwo, Elsewhere

\* Two hands hold different records when no object is in both.
LEMMA ElsewhereIsSymmetric == \A s, t : Elsewhere(s, t) => Elsewhere(t, s)
  BY DEF Elsewhere

-----------------------------------------------------------------------------
(* What each step does with the records *)

\* Receive puts one more into the parser's hands, or none.
LEMMA ReceiveMovesRecords ==
    ASSUME Types, HandsApart, NEW o \in Obj \ InUse, NEW log \in Log,
           parsed' = Append(parsed, <<o, log>>), UNCHANGED <<inputChannel, batch>>
    PROVE  HandsApart' /\ Records' = Records \cup {<<o, log>>} /\ parsed' \in Hand
<1>1. parsed \in Hand /\ <<o, log>> \in Obj \X Log /\ <<o, log>>[1] = o
  BY DEF Types
<1>2. \A x \in Records : x[1] # o
  BY RecordsAndObjects
<1>3. /\ \A x \in Members(parsed) : x[1] # o
      /\ \A x \in Members(batch) : x[1] # o
      /\ \A k \in DOMAIN inputChannel : \A x \in Members(inputChannel[k]) : x[1] # o
  BY <1>2 DEF Records
<1>4. /\ parsed' \in Hand /\ Members(parsed') = Members(parsed) \cup {<<o, log>>}
      /\ OfTwo(parsed')
      /\ \A t : Elsewhere(t, parsed) /\ (\A x \in Members(t) : x[1] # o) => Elsewhere(t, parsed')
  BY <1>1, <1>3, RecordAppended DEF HandsApart
<1>5. HandsApart'
  BY <1>3, <1>4 DEF HandsApart
<1>6. Records' = Records \cup {<<o, log>>}
  BY <1>4 DEF Records
<1> QED
  BY <1>4, <1>5, <1>6

\* Send moves them into the channel.
LEMMA SendMovesRecords ==
    ASSUME Types, HandsApart, Send
    PROVE  /\ HandsApart' /\ Records' = Records
           /\ parsed' \in Hand /\ inputChannel' \in Seq(Hand) /\ Len(inputChannel') = Len(inputChannel) + 1
           /\ \A k \in DOMAIN inputChannel' : inputChannel'[k] # <<>>
<1> DEFINE n == Len(inputChannel)
<1>1. /\ parsed' = <<>> /\ parsed # <<>> /\ batch' = batch /\ parsed \in Hand
      /\ inputChannel' = Append(inputChannel, parsed) /\ inputChannel \in Seq(Hand)
  BY DEF Send, Types, workerVars
<1>2. /\ n \in Nat /\ DOMAIN inputChannel = 1..n /\ DOMAIN inputChannel' = 1..(n + 1)
      /\ inputChannel'[n + 1] = parsed /\ \A k \in 1..n : inputChannel'[k] = inputChannel[k]
      /\ inputChannel' \in Seq(Hand) /\ Len(inputChannel') = n + 1
  BY <1>1
<1>3. /\ \A k \in 1..(n + 1) : k \in 1..n \/ k = n + 1
      /\ \A k \in 1..n : k \in 1..(n + 1) /\ k # n + 1 /\ n + 1 \in 1..(n + 1)
  BY <1>2
<1> HIDE DEF n
<1>4. \A k \in DOMAIN inputChannel' : inputChannel'[k] # <<>>
  BY <1>1, <1>2, <1>3 DEF Types
<1>5. HandsApart'
  <2>1. OfTwo(parsed') /\ OfTwo(batch') /\ Elsewhere(batch', parsed')
    BY <1>1, NoRecords DEF HandsApart
  <2>2. ASSUME NEW k \in 1..(n + 1)
        PROVE  /\ OfTwo(inputChannel'[k])
               /\ Elsewhere(inputChannel'[k], batch') /\ Elsewhere(inputChannel'[k], parsed')
    BY <1>1, <1>2, <1>3, NoRecords, ElsewhereIsSymmetric DEF HandsApart
  <2>3. ASSUME NEW k \in 1..(n + 1), NEW l \in 1..(n + 1), k # l
        PROVE  Elsewhere(inputChannel'[k], inputChannel'[l])
    BY <1>1, <1>2, <1>3, <2>3, ElsewhereIsSymmetric DEF HandsApart
  <2> QED
    BY <1>2, <2>1, <2>2, <2>3 DEF HandsApart
<1>6. Records' = Records
  <2>1. UNION {Members(inputChannel'[k]) : k \in 1..(n + 1)}
          = Members(parsed) \cup UNION {Members(inputChannel[k]) : k \in 1..n}
    <3>1. \A k \in 1..n : Members(inputChannel'[k]) = Members(inputChannel[k]) /\ k \in 1..(n + 1)
      BY <1>2, <1>3
    <3>2. Members(inputChannel'[n + 1]) = Members(parsed) /\ n + 1 \in 1..(n + 1)
      BY <1>2, <1>3
    <3> QED
      BY <1>3, <3>1, <3>2
  <2>2. Members(parsed') = {} /\ Members(batch') = Members(batch)
    BY <1>1, NoRecords
  <2>3. /\ Records = Members(parsed) \cup Members(batch) \cup UNION {Members(inputChannel[k]) : k \in 1..n}
        /\ Records' = Members(parsed') \cup Members(batch')
                         \cup UNION {Members(inputChannel'[k]) : k \in 1..(n + 1)}
    BY <1>2 DEF Records
  <2> QED
    BY <2>1, <2>2, <2>3
<1> QED
  BY <1>1, <1>2, <1>4, <1>5, <1>6, NoRecords DEF n

\* A send that times out loses them.
LEMMA SendTimesOutMovesRecords ==
    ASSUME Types, HandsApart, SendTimesOut
    PROVE  HandsApart' /\ Records' \subseteq Records /\ parsed' \in Hand
<1>1. parsed' = <<>> /\ batch' = batch /\ inputChannel' = inputChannel
  BY DEF SendTimesOut, workerVars
<1> QED
  BY <1>1, NoRecords DEF HandsApart, Records

\* The worker takes a batch from the channel.
LEMMA OnInputMovesRecords ==
    ASSUME Types, HandsApart, OnInput
    PROVE  /\ HandsApart' /\ Records' = Records
           /\ batch' \in Hand /\ batch' # <<>> /\ inputChannel' \in Seq(Hand)
           /\ Len(inputChannel') = Len(inputChannel) - 1
           /\ \A k \in DOMAIN inputChannel' : inputChannel'[k] # <<>>
<1> DEFINE n == Len(inputChannel)
<1>1. /\ parsed' = parsed /\ batch = <<>> /\ inputChannel # <<>> /\ inputChannel \in Seq(Hand)
      /\ batch' = Head(inputChannel) /\ inputChannel' = Tail(inputChannel)
  BY DEF OnInput, Types, receiverVars
<1>2. /\ n \in Nat \ {0} /\ DOMAIN inputChannel = 1..n /\ DOMAIN inputChannel' = 1..(n - 1)
      /\ batch' = inputChannel[1] /\ \A k \in 1..(n - 1) : inputChannel'[k] = inputChannel[k + 1]
      /\ inputChannel' \in Seq(Hand) /\ Len(inputChannel') = n - 1 /\ batch' \in Hand
  BY <1>1
<1>3. /\ 1 \in 1..n /\ \A k \in 1..(n - 1) : k + 1 \in 1..n /\ k + 1 # 1
      /\ \A k \in 1..n : k = 1 \/ (k - 1 \in 1..(n - 1) /\ (k - 1) + 1 = k)
      /\ \A k, l \in 1..(n - 1) : k + 1 = l + 1 => k = l
  BY <1>2
<1> HIDE DEF n
<1>4. batch' # <<>> /\ \A k \in DOMAIN inputChannel' : inputChannel'[k] # <<>>
  BY <1>1, <1>2, <1>3 DEF Types
<1>5. HandsApart'
  <2>1. OfTwo(parsed') /\ OfTwo(batch') /\ Elsewhere(batch', parsed')
    BY <1>1, <1>2, <1>3 DEF HandsApart
  <2>2. ASSUME NEW k \in 1..(n - 1)
        PROVE  /\ OfTwo(inputChannel'[k])
               /\ Elsewhere(inputChannel'[k], batch') /\ Elsewhere(inputChannel'[k], parsed')
    BY <1>1, <1>2, <1>3 DEF HandsApart
  <2>3. ASSUME NEW k \in 1..(n - 1), NEW l \in 1..(n - 1), k # l
        PROVE  Elsewhere(inputChannel'[k], inputChannel'[l])
    BY <1>1, <1>2, <1>3, <2>3 DEF HandsApart
  <2> QED
    BY <1>2, <2>1, <2>2, <2>3 DEF HandsApart
<1>6. Records' = Records
  <2>1. ASSUME NEW x
        PROVE  (\E k \in 1..n : x \in Members(inputChannel[k]))
                 <=> x \in Members(batch') \/ \E k \in 1..(n - 1) : x \in Members(inputChannel'[k])
    <3>1. ASSUME NEW k \in 1..n, x \in Members(inputChannel[k])
          PROVE  x \in Members(batch') \/ \E l \in 1..(n - 1) : x \in Members(inputChannel'[l])
      <4>1. CASE k = 1
        BY <1>2, <3>1, <4>1
      <4>2. CASE k # 1
        <5>1. k - 1 \in 1..(n - 1) /\ inputChannel'[k - 1] = inputChannel[k]
          BY <1>2, <1>3, <4>2
        <5> QED
          BY <3>1, <5>1
      <4> QED
        BY <4>1, <4>2
    <3>2. ASSUME x \in Members(batch') PROVE \E k \in 1..n : x \in Members(inputChannel[k])
      BY <1>2, <1>3, <3>2
    <3>3. ASSUME NEW k \in 1..(n - 1), x \in Members(inputChannel'[k])
          PROVE  \E l \in 1..n : x \in Members(inputChannel[l])
      BY <1>2, <1>3, <3>3
    <3> QED
      BY <3>1, <3>2, <3>3
  <2>2. UNION {Members(inputChannel[k]) : k \in 1..n}
          = Members(batch') \cup UNION {Members(inputChannel'[k]) : k \in 1..(n - 1)}
    BY <2>1
  <2> QED
    BY <1>1, <1>2, <2>2, NoRecords DEF Records
<1> QED
  BY <1>2, <1>4, <1>5, <1>6 DEF n

\* It is done with the first record.
LEMMA NextRecordMovesRecords ==
    ASSUME Types, HandsApart, batch # <<>>, NextRecord, UNCHANGED <<parsed, inputChannel>>
    PROVE  /\ HandsApart' /\ Records = Records' \cup {batch[1]} /\ batch[1] \in Obj \X Log
           /\ \A r \in Records' : r[1] # Record
           /\ batch' \in Hand /\ pc' \in {"select", "transform"}
           /\ pc' = "transform" <=> batch' # <<>>
<1>1. batch \in Hand /\ batch' = Tail(batch)
  BY DEF Types, NextRecord
<1>2. /\ batch' \in Hand /\ batch[1] \in Obj \X Log
      /\ batch' = <<>> <=> Len(batch) = 1
      /\ Members(batch) = Members(batch') \cup {batch[1]}
      /\ OfTwo(batch) => OfTwo(batch') /\ \A x \in Members(batch') : x[1] # Record
      /\ \A t : Elsewhere(batch, t) => Elsewhere(batch', t)
      /\ \A t : Elsewhere(t, batch) => Elsewhere(t, batch')
      /\ batch[1] \in Members(batch)
  BY <1>1, RecordTaken DEF Record
<1>3. HandsApart'
  BY <1>2 DEF HandsApart
<1>4. Records = Records' \cup {batch[1]}
  BY <1>2 DEF Records
<1>5. ASSUME NEW r \in Records' PROVE r[1] # Record
  <2>1. \A s, t : Elsewhere(s, t) => \A x \in Members(s), y \in Members(t) : x[1] # y[1]
    BY DEF Elsewhere, Members
  <2>2. /\ \A x \in Members(parsed) : x[1] # Record
        /\ \A k \in DOMAIN inputChannel : \A x \in Members(inputChannel[k]) : x[1] # Record
    BY <1>2, <2>1 DEF HandsApart, Record
  <2> QED
    BY <1>2, <2>2 DEF Records, HandsApart
<1>6. pc' \in {"select", "transform"} /\ (pc' = "transform" <=> batch' # <<>>)
  BY <1>2 DEF NextRecord
<1> QED
  BY <1>2, <1>3, <1>4, <1>5, <1>6

\* The objects and the buffers a record may be made of.
FreshObjects == alloc.records \cup (IF GarbageObjects = {} THEN {} ELSE {Min(GarbageObjects)})
FreshBuffers(length) ==
    IF length > MinToPool THEN BufferChoices(alloc, length, GarbageBuffers) ELSE {0}

\* What is in the pools is in nobody's hands.
PoolsAreFree ==
    /\ alloc.records \subseteq Obj /\ alloc.buffers \subseteq Buf
    /\ alloc.records \cap InUse = {}

\* A record is made of an object that is in no hand.
LEMMA FreshObjectsAreFree == PoolsAreFree => FreshObjects \subseteq Obj \ InUse
<1> SUFFICES ASSUME PoolsAreFree, NEW o \in FreshObjects PROVE o \in Obj \ InUse
  OBVIOUS
<1>1. CASE o \in alloc.records
  BY <1>1 DEF PoolsAreFree
<1>2. CASE o \notin alloc.records
  <2>1. GarbageObjects # {} /\ o = Min(GarbageObjects) /\ GarbageObjects \in SUBSET Nat
    BY <1>2, PoolAssumption DEF FreshObjects, GarbageObjects, Obj
  <2>2. o \in GarbageObjects
    BY <2>1, MinIsIn
  <2> QED
    BY <2>2 DEF GarbageObjects
<1> QED
  BY <1>1, <1>2

\* Receive, made of a given object and buffer.
Made(o, b, log) == NewRecord(alloc, log, LengthOf[log], o, b, InitialRefCount)

\* A record that the parser has filled, and the two ways Receive may end with it.
Filled(a, o, log) == [a EXCEPT !.fields[o] = ParsedFields(a, o, log)]

Rejects(o, b, log) == parsed' = parsed /\ alloc' = Release(Made(o, b, log), o)
Parses(o, b, log) == parsed' = Append(parsed, <<o, log>>) /\ alloc' = Filled(Made(o, b, log), o, log)

\* What Receive does, whatever it is given.
LEMMA ReceiveSteps ==
    ASSUME Receive, Types
    PROVE  \E log \in Log : \E o \in FreshObjects : \E b \in FreshBuffers(LengthOf[log]) :
              /\ received' = log /\ Len(parsed) < MaxBatch
              /\ Rejects(o, b, log) \/ Parses(o, b, log)
              /\ UNCHANGED <<inputChannel, batch, pc, output, config>>
<1> DEFINE log == received + 1
<1>1. log \in Log /\ Len(parsed) < MaxBatch /\ UNCHANGED <<inputChannel, batch, pc, output, config>>
  <2>1. received < NumLogs /\ Len(parsed) < MaxBatch
    BY DEF Receive
  <2>2. UNCHANGED <<inputChannel, workerVars, configVars>>
    BY DEF Receive
  <2>3. received \in 0..NumLogs
    BY DEF Types
  <2>4. log \in Log
    BY <2>1, <2>3, PipelineAssumption DEF Log
  <2> QED
    BY <2>1, <2>2, <2>4 DEF workerVars, configVars
<1>2. PICK o \in FreshObjects : \E b \in FreshBuffers(LengthOf[log]) :
         received' = log /\ (Rejects(o, b, log) \/ Parses(o, b, log))
  BY Zenon DEF Receive, FreshObjects, FreshBuffers, Rejects, Parses, Made, Filled
<1> QED
  BY <1>1, <1>2

\* The types are kept, and so is the separation of the hands, when what is in the pools is free.
LEMMA TypesNext ==
    ASSUME OutputsDoNotGrow, Types, HandsApart, PoolsAreFree, [Next]_vars
    PROVE  Types' /\ HandsApart'
<1> DEFINE Confs == <<config, loading, numReload>>
           Rest == <<pc, output, batch>>
<1>1. CASE Receive
  <2>1. PICK log \in Log, o \in FreshObjects :
           /\ received' = log /\ Len(parsed) < MaxBatch
           /\ parsed' = parsed \/ parsed' = Append(parsed, <<o, log>>)
    BY <1>1, ReceiveSteps DEF Rejects, Parses
  <2>2. UNCHANGED <<inputChannel, batch, pc, output, destroyed, now, config, loading, numReload>>
    BY <1>1 DEF Receive, workerVars, configVars, clockVars
  <2>3. log \in 0..NumLogs /\ MaxBatch \in Nat /\ Len(parsed) \in Nat
    BY PipelineAssumption DEF Log, Types, Hand
  <2>4. CASE parsed' = parsed
    <3>1. HandsApart'
      BY <2>2, <2>4 DEF HandsApart
    <3>2. Types'
      BY <2>1, <2>2, <2>3, <2>4 DEF Types, Conf, Outputs
    <3> QED
      BY <3>1, <3>2
  <2>5. CASE parsed' = Append(parsed, <<o, log>>)
    <3>1. o \in Obj \ InUse
      BY FreshObjectsAreFree
    <3>2. HandsApart' /\ parsed' \in Hand
      BY <2>2, <2>5, <3>1, ReceiveMovesRecords
    <3>3. Len(parsed') = Len(parsed) + 1
      BY <2>5 DEF Types, Hand
    <3>4. Len(parsed') <= MaxBatch /\ received' \in 0..NumLogs
      <4>1. Len(parsed) < MaxBatch /\ received' = log
        BY <2>1, Zenon
      <4> HIDE <2>5
      <4> QED
        BY <2>3, <3>3, <4>1
    <3>5. Types'
      BY <2>2, <3>2, <3>4 DEF Types, Conf, Outputs
    <3> QED
      BY <3>2, <3>5
  <2> QED
    BY <2>1, <2>4, <2>5
<1>2. CASE Send
  <2>1. /\ HandsApart' /\ parsed' \in Hand /\ inputChannel' \in Seq(Hand)
        /\ Len(inputChannel') = Len(inputChannel) + 1
        /\ \A k \in DOMAIN inputChannel' : inputChannel'[k] # <<>>
    BY <1>2, SendMovesRecords
  <2>2. UNCHANGED <<received, batch, pc, output, destroyed, now, config, loading, numReload>>
    BY <1>2 DEF Send, workerVars, configVars, clockVars
  <2>3. Len(parsed') = 0 /\ Len(inputChannel) < ChannelCap /\ Len(inputChannel) \in Nat
    BY <1>2 DEF Send, Types
  <2>4. Len(parsed') <= MaxBatch /\ Len(inputChannel') <= ChannelCap
    BY <2>1, <2>3, PipelineAssumption
  <2> QED
    BY <2>1, <2>2, <2>4 DEF Types, Conf, Outputs
<1>3. CASE SendTimesOut
  <2>1. HandsApart' /\ parsed' \in Hand
    BY <1>3, SendTimesOutMovesRecords
  <2>2. /\ UNCHANGED <<received, batch, pc, output, destroyed, now, config, loading, numReload>>
        /\ UNCHANGED inputChannel
    BY <1>3 DEF SendTimesOut, workerVars, configVars, clockVars
  <2>3. Len(parsed') <= MaxBatch
    BY <1>3, PipelineAssumption DEF SendTimesOut
  <2> QED
    BY <2>1, <2>2, <2>3 DEF Types, Conf, Outputs
<1>4. CASE OnInput
  <2>1. /\ HandsApart' /\ batch' \in Hand /\ batch' # <<>> /\ inputChannel' \in Seq(Hand)
        /\ Len(inputChannel') = Len(inputChannel) - 1
        /\ \A k \in DOMAIN inputChannel' : inputChannel'[k] # <<>>
    BY <1>4, OnInputMovesRecords
  <2>2. /\ UNCHANGED <<received, parsed, output, destroyed, now, config, loading, numReload>>
        /\ pc' = "transform" /\ pc = "select"
    BY <1>4 DEF OnInput, receiverVars, configVars, clockVars
  <2>3. Len(inputChannel') <= ChannelCap
    BY <2>1, PipelineAssumption DEF Types
  <2>4. output' \in (IF pc' = "output" THEN Outputs' ELSE {0})
    BY <2>2 DEF Types
  <2> QED
    BY <2>1, <2>2, <2>3, <2>4 DEF Types, Conf
<1>5. ASSUME /\ NextRecord /\ output' = 0 /\ batch # <<>>
             /\ UNCHANGED <<received, parsed, inputChannel, destroyed, now, config, loading,
                           numReload>>
      PROVE  Types' /\ HandsApart'
  <2>1. /\ HandsApart' /\ batch' \in Hand /\ pc' \in {"select", "transform"}
        /\ pc' = "transform" <=> batch' # <<>>
    BY <1>5, NextRecordMovesRecords
  <2>2. output' \in (IF pc' = "output" THEN Outputs' ELSE {0})
    BY <1>5, <2>1
  <2>3. /\ pc' \in {"select", "transform", "output", "stopped", "ended"}
        /\ pc' \in {"transform", "output"} <=> batch' # <<>>
    BY <2>1
  <2> QED
    BY <1>5, <2>1, <2>2, <2>3 DEF Types, Conf
<1>6. CASE TransformDrops
  <2>1. /\ NextRecord /\ pc = "transform" /\ output' = output
        /\ UNCHANGED <<received, parsed, inputChannel, destroyed, now, config, loading, numReload>>
    BY <1>6 DEF TransformDrops, receiverVars, configVars, clockVars
  <2>2. output' = 0 /\ batch # <<>>
    BY <2>1 DEF Types
  <2> QED
    BY <1>5, <2>1, <2>2
<1>7. CASE TransformPasses
  <2>1. /\ pc = "transform" /\ pc' = "output" /\ output' = 1
        /\ UNCHANGED <<received, parsed, inputChannel, batch, destroyed, now, config, loading,
                      numReload>>
    BY <1>7 DEF TransformPasses, receiverVars, configVars, clockVars
  <2>2. 1 \in Outputs
    BY ConfigFacts DEF OutputsDoNotGrow, Outputs, Types, Conf
  <2>3. HandsApart'
    BY <2>1 DEF HandsApart
  <2> QED
    BY <2>1, <2>2, <2>3 DEF Types, Conf, Outputs
<1>8. CASE OutputRecord
  <2>1. /\ pc = "output" /\ batch # <<>>
        /\ UNCHANGED <<received, parsed, inputChannel, destroyed, now, config, loading, numReload>>
    BY <1>8 DEF OutputRecord, receiverVars, configVars, clockVars, Types
  <2>2. CASE output < Len(Conf.outputs)
    <3>1. output' = output + 1 /\ UNCHANGED <<pc, batch>>
      BY <1>8, <2>2 DEF OutputRecord
    <3>2. output \in Outputs /\ output + 1 \in Outputs
      BY <2>1, <2>2, ConfigFacts DEF Types, Outputs, Conf
    <3>3. HandsApart'
      BY <2>1, <3>1 DEF HandsApart
    <3> QED
      BY <2>1, <3>1, <3>2, <3>3 DEF Types, Conf, Outputs
  <2>3. CASE ~(output < Len(Conf.outputs))
    <3>1. output' = 0 /\ NextRecord
      BY <1>8, <2>3 DEF OutputRecord
    <3> QED
      BY <1>5, <2>1, <3>1
  <2> QED
    BY <2>2, <2>3
<1>9. CASE OnTick
  BY <1>9 DEF OnTick, receiverVars, configVars, clockVars, Types, Conf, Outputs, HandsApart
<1>10. CASE OnStop
  <2>1. /\ pc = "select" /\ pc' = "stopped"
        /\ UNCHANGED <<received, parsed, inputChannel, batch, output, destroyed, now, config,
                      loading, numReload>>
    BY <1>10 DEF OnStop, receiverVars, configVars, clockVars
  <2>2. HandsApart'
    BY <2>1 DEF HandsApart
  <2>3. output' \in (IF pc' = "output" THEN Outputs' ELSE {0})
    BY <2>1 DEF Types
  <2> QED
    BY <2>1, <2>2, <2>3 DEF Types, Conf
<1>11. CASE DestroyBufferer
  <2>1. /\ pc = "stopped" /\ pc' \in {"stopped", "ended"}
        /\ UNCHANGED <<received, parsed, inputChannel, batch, output, now, config,
                      loading, numReload>>
    BY <1>11 DEF DestroyBufferer, receiverVars, configVars, clockVars
  <2>2. HandsApart'
    BY <2>1 DEF HandsApart
  <2>3. output' \in (IF pc' = "output" THEN Outputs' ELSE {0})
    BY <2>1 DEF Types
  <2>4. destroyed' \in 0..Len(Conf.outputs)
    BY <1>11, ConfigFacts DEF DestroyBufferer, Types, Conf
  <2> QED
    BY <2>1, <2>2, <2>3, <2>4 DEF Types, Conf
<1>12. CASE BeginReload
  <2>1. /\ UNCHANGED <<received, parsed, inputChannel, batch, pc, output, destroyed, now,
                      config, numReload>>
        /\ loading' \in DOMAIN Configs /\ MayReload(Conf, Configs[loading']) /\ numReload < MaxReloads
    BY <1>12 DEF BeginReload, receiverVars, workerVars, clockVars
  <2>2. HandsApart'
    BY <2>1 DEF HandsApart
  <2> QED
    BY <2>1, <2>2 DEF Types, Conf, Outputs
<1>13. CASE CompleteReload
  <2>1. /\ UNCHANGED <<received, parsed, inputChannel, batch, output>>
        /\ pc = "ended" /\ pc' = "select" /\ loading # 0 /\ config' = loading /\ loading' = 0
        /\ destroyed' = 0 /\ numReload' = numReload + 1 /\ now' = now + 1
    BY <1>13 DEF CompleteReload, receiverVars
  <2>2. HandsApart'
    BY <2>1 DEF HandsApart
  <2>3. MayReload(Conf, Configs[loading]) /\ numReload < MaxReloads /\ loading \in DOMAIN Configs
    BY <2>1 DEF Types
  <2>4. ConfigOK(Configs[loading]) /\ Compatible(Configs[1], Configs[loading])
    BY <2>3, ConfigFacts, CompatibleIsTransitive DEF MayReload, Types, Conf
  <2>5. 0 \in 0..Len(Configs[loading].outputs) /\ numReload' \in 0..MaxReloads /\ now + 1 \in Nat
    BY <2>1, <2>3, ConfigFacts, PipelineAssumption DEF Types
  <2>6. output' \in (IF pc' = "output" THEN Outputs' ELSE {0})
    BY <2>1 DEF Types
  <2> QED
    BY <2>1, <2>2, <2>3, <2>4, <2>5, <2>6 DEF Types, Conf
<1>14. CASE Shutdown
  BY <1>14 DEF Shutdown, receiverVars, workerVars, configVars, clockVars, Types, Conf, Outputs, HandsApart
<1>15. CASE ClockTicks
  <2>1. now' \in Nat
    BY <1>15 DEF ClockTicks
  <2> QED
    BY <1>15, <2>1 DEF ClockTicks, receiverVars, workerVars, configVars, Types, Conf, Outputs, HandsApart
<1>16. CASE Done \/ UNCHANGED vars
  BY <1>16 DEF Done, vars, receiverVars, workerVars, configVars, clockVars, Types, Conf, Outputs, HandsApart
<1> QED
  BY <1>1, <1>2, <1>3, <1>4, <1>6, <1>7, <1>8, <1>9, <1>10, <1>11, <1>12, <1>13, <1>14, <1>15, <1>16
  DEF Next, Worker

\* The first state is right.
LEMMA TypesInit == Init => Types /\ HandsApart
<1> SUFFICES ASSUME Init PROVE Types /\ HandsApart
  OBVIOUS
<1>1. /\ received = 0 /\ parsed = <<>> /\ inputChannel = <<>> /\ batch = <<>> /\ pc = "select"
      /\ output = 0 /\ destroyed = 0 /\ now = 1 /\ config = 1 /\ loading = 0 /\ numReload = 0
  BY DEF Init
<1>2. DOMAIN <<>> = {} /\ <<>> \in Seq(Hand) /\ Len(<<>>) = 0
  OBVIOUS
<1>3. HandsApart
  BY <1>1, <1>2, NoRecords DEF HandsApart
<1>4. Compatible(Configs[1], Configs[1])
  BY DEF Compatible, FieldsKept
<1>5. Types
  BY <1>1, <1>2, <1>4, NoRecords, ConfigFacts, PipelineAssumption DEF Types, Conf
<1> QED
  BY <1>3, <1>5

-----------------------------------------------------------------------------
(* What is in the records *)

Value == {NoValue} \cup (STRING \X (Buf \cup {0}) \X (Log \cup {0}))

PoolState ==
    [ref : [Obj -> Int], fields : [Obj -> [1..MaxFields -> Value]], backbuf : [Obj -> Buf \cup {0}],
     records : SUBSET Obj, content : [Buf -> Log \cup {0}], size : [Buf -> Nat], buffers : SUBSET Buf]

\* The fields that the parser has filled from a log, and no other.
IsInput(i) == i \in DOMAIN Configs[1].fields /\ Configs[1].fields[i] \in Configs[1].inputs

FieldsOf(buffer, log) ==
    [i \in 1..MaxFields |->
        IF IsInput(i) THEN <<Configs[1].fields[i], buffer, IF buffer = 0 THEN log ELSE 0>> ELSE NoValue]

PowerSize(a, b) == \E k \in Nat : a.size[b] = PowerOf2[k]

\* The inductive part of PoolIsSound: pools with a set R of records in use.  A record has a
\* positive count, shows its own log, and has a buffer of its own that is long enough; what is in
\* the pools is empty, and no record of R.
PooledEmpty(a) == \A o \in a.records : a.ref[o] = 0 /\ a.fields[o] = NoFields /\ a.backbuf[o] = 0
PooledFree(a, R) == \A r \in R : r[1] \notin a.records /\ a.backbuf[r[1]] \notin a.buffers
PooledSizes(a) == \A b \in a.buffers : PowerSize(a, b)
Holds(a, o, log) ==
    /\ a.fields[o] = FieldsOf(a.backbuf[o], log)
    /\ a.backbuf[o] # 0 => /\ a.content[a.backbuf[o]] = log
                           /\ LengthOf[log] < a.size[a.backbuf[o]] /\ PowerSize(a, a.backbuf[o])
OwnBuffers(a, R) ==
    \A r, q \in R : r # q => /\ r[1] # q[1]
                             /\ a.backbuf[r[1]] # 0 => a.backbuf[r[1]] # a.backbuf[q[1]]

PoolOK(a, R) ==
    /\ a \in PoolState /\ R \subseteq Obj \X Log
    /\ PooledEmpty(a) /\ PooledFree(a, R) /\ PooledSizes(a)
    /\ \A r \in R : a.ref[r[1]] > 0 /\ Holds(a, r[1], r[2])
    /\ OwnBuffers(a, R)

\* A record less.
LEMMA FewerRecords == \A a, R, S : PoolOK(a, R) /\ S \subseteq R => PoolOK(a, S)
  BY DEF PoolOK, PooledFree, OwnBuffers

\* The types of the fields of the pools' state, which is made of them.
PoolTypes(ref, fields, backbuf, records, content, size, buffers) ==
    /\ ref \in [Obj -> Int] /\ fields \in [Obj -> [1..MaxFields -> Value]]
    /\ backbuf \in [Obj -> Buf \cup {0}] /\ records \subseteq Obj /\ buffers \subseteq Buf
    /\ content \in [Buf -> Log \cup {0}] /\ size \in [Buf -> Nat]

\* What is known of the parts of an allocator.
LEMMA PoolFields ==
    ASSUME NEW a \in PoolState
    PROVE  /\ PoolTypes(a.ref, a.fields, a.backbuf, a.records, a.content, a.size, a.buffers)
           /\ 0 \notin Buf /\ 0 \notin Obj
  BY DEF PoolState, PoolTypes, Buf, Obj

\* The state a is made of these fields.
IsMadeOf(a, ref, fields, backbuf, records, content, size, buffers) ==
    /\ a.ref = ref /\ a.fields = fields /\ a.backbuf = backbuf /\ a.records = records
    /\ a.content = content /\ a.size = size /\ a.buffers = buffers
    /\ a \in PoolState

\* Setting one field leaves the others alone.
LEMMA PoolUpdates ==
    ASSUME NEW a, NEW ref, NEW fields, NEW backbuf, NEW records, NEW content, NEW size, NEW buffers,
           IsMadeOf(a, ref, fields, backbuf, records, content, size, buffers), NEW o, NEW x
    PROVE  /\ [ref EXCEPT ![o] = x] \in [Obj -> Int] =>
                 IsMadeOf([a EXCEPT !.ref[o] = x],
                          [ref EXCEPT ![o] = x], fields, backbuf, records, content, size, buffers)
           /\ [fields EXCEPT ![o] = x] \in [Obj -> [1..MaxFields -> Value]] =>
                 IsMadeOf([a EXCEPT !.fields[o] = x],
                          ref, [fields EXCEPT ![o] = x], backbuf, records, content, size, buffers)
           /\ [backbuf EXCEPT ![o] = x] \in [Obj -> Buf \cup {0}] =>
                 IsMadeOf([a EXCEPT !.backbuf[o] = x],
                          ref, fields, [backbuf EXCEPT ![o] = x], records, content, size, buffers)
           /\ x \subseteq Obj =>
                 IsMadeOf([a EXCEPT !.records = x], ref, fields, backbuf, x, content, size, buffers)
           /\ x \in [Buf -> Log \cup {0}] =>
                 IsMadeOf([a EXCEPT !.content = x], ref, fields, backbuf, records, x, size, buffers)
           /\ x \in [Buf -> Nat] =>
                 IsMadeOf([a EXCEPT !.size = x], ref, fields, backbuf, records, content, x, buffers)
           /\ x \subseteq Buf =>
                 IsMadeOf([a EXCEPT !.buffers = x], ref, fields, backbuf, records, content, size, x)
<1> DEFINE a1 == [a EXCEPT !.ref[o] = x]
           a2 == [a EXCEPT !.fields[o] = x]
           a3 == [a EXCEPT !.backbuf[o] = x]
<1>1. /\ a.ref = ref /\ a.fields = fields /\ a.backbuf = backbuf /\ a.records = records
      /\ a.content = content /\ a.size = size /\ a.buffers = buffers
      /\ a \in PoolState
  BY DEF IsMadeOf
<1>2. /\ a1.ref = [ref EXCEPT ![o] = x] /\ a1.fields = fields /\ a1.backbuf = backbuf
      /\ a1.records = records /\ a1.content = content /\ a1.size = size /\ a1.buffers = buffers
      /\ [ref EXCEPT ![o] = x] \in [Obj -> Int] => a1 \in PoolState
  BY <1>1 DEF PoolState
<1>3. /\ a2.ref = ref /\ a2.fields = [fields EXCEPT ![o] = x] /\ a2.backbuf = backbuf
      /\ a2.records = records /\ a2.content = content /\ a2.size = size /\ a2.buffers = buffers
      /\ [fields EXCEPT ![o] = x] \in [Obj -> [1..MaxFields -> Value]] => a2 \in PoolState
  BY <1>1 DEF PoolState
<1>4. /\ a3.ref = ref /\ a3.fields = fields /\ a3.backbuf = [backbuf EXCEPT ![o] = x]
      /\ a3.records = records /\ a3.content = content /\ a3.size = size /\ a3.buffers = buffers
      /\ [backbuf EXCEPT ![o] = x] \in [Obj -> Buf \cup {0}] => a3 \in PoolState
  BY <1>1 DEF PoolState
<1>5. /\ x \subseteq Obj =>
            IsMadeOf([a EXCEPT !.records = x], ref, fields, backbuf, x, content, size, buffers)
      /\ x \in [Buf -> Log \cup {0}] =>
            IsMadeOf([a EXCEPT !.content = x], ref, fields, backbuf, records, x, size, buffers)
      /\ x \in [Buf -> Nat] =>
            IsMadeOf([a EXCEPT !.size = x], ref, fields, backbuf, records, content, x, buffers)
      /\ x \subseteq Buf =>
            IsMadeOf([a EXCEPT !.buffers = x], ref, fields, backbuf, records, content, size, x)
  BY <1>1 DEF PoolState, IsMadeOf
<1> HIDE DEF a1, a2, a3
<1>6. /\ [ref EXCEPT ![o] = x] \in [Obj -> Int] =>
            IsMadeOf(a1, [ref EXCEPT ![o] = x], fields, backbuf, records, content, size, buffers)
      /\ [fields EXCEPT ![o] = x] \in [Obj -> [1..MaxFields -> Value]] =>
            IsMadeOf(a2, ref, [fields EXCEPT ![o] = x], backbuf, records, content, size, buffers)
      /\ [backbuf EXCEPT ![o] = x] \in [Obj -> Buf \cup {0}] =>
            IsMadeOf(a3, ref, fields, [backbuf EXCEPT ![o] = x], records, content, size, buffers)
  BY <1>2, <1>3, <1>4 DEF IsMadeOf
<1> QED
  BY <1>5, <1>6 DEF a1, a2, a3

\* Empty fields have the type of fields.
LEMMA FieldTypes ==
    /\ NoFields \in [1..MaxFields -> Value]
    /\ \A buffer \in Buf \cup {0}, log \in Log : FieldsOf(buffer, log) \in [1..MaxFields -> Value]
<1>1. NoValue \in Value
  BY DEF Value
<1>2. \A i \in DOMAIN Configs[1].fields : Configs[1].fields[i] \in STRING
  BY ConfigFacts DEF Config
<1>3. ASSUME NEW buffer \in Buf \cup {0}, NEW log \in Log, NEW i \in 1..MaxFields, IsInput(i)
      PROVE  <<Configs[1].fields[i], buffer, IF buffer = 0 THEN log ELSE 0>> \in Value
  BY <1>2, <1>3 DEF Value, IsInput
<1> QED
  BY <1>1, <1>3 DEF NoFields, FieldsOf

\* LogAllocator.Release of a record that other outputs still need: only the count changes.
LEMMA ReleaseNotLast ==
    ASSUME NEW a \in PoolState, NEW o \in Obj, a.ref[o] > 1, NEW n, n = Release(a, o)
    PROVE  IsMadeOf(n, [a.ref EXCEPT ![o] = a.ref[o] - 1], a.fields, a.backbuf, a.records, a.content,
                    a.size, a.buffers)
<1> DEFINE ref == [a.ref EXCEPT ![o] = a.ref[o] - 1]
           b == [a EXCEPT !.ref[o] = a.ref[o] - 1]
<1>1. IsMadeOf(a, a.ref, a.fields, a.backbuf, a.records, a.content, a.size, a.buffers)
  BY DEF IsMadeOf
<1>2. ref \in [Obj -> Int] /\ ref[o] = a.ref[o] - 1 /\ a.ref[o] - 1 > 0
  BY PoolFields DEF PoolTypes
<1>3. IsMadeOf(b, ref, a.fields, a.backbuf, a.records, a.content, a.size, a.buffers)
  BY <1>1, <1>2, PoolUpdates
<1>4. n = b
  <2>1. b.ref[o] > 0
    BY <1>2, <1>3 DEF IsMadeOf
  <2> QED
    BY <2>1 DEF Release
<1> QED
  BY <1>3, <1>4

\* LogAllocator.Release by the last output: the record is cleared, and it and its buffer return to
\* their pools.
LEMMA ReleaseLast ==
    ASSUME NEW a \in PoolState, NEW o \in Obj, a.ref[o] = 1, NEW n, n = Release(a, o)
    PROVE  IsMadeOf(n, [a.ref EXCEPT ![o] = 0], [a.fields EXCEPT ![o] = NoFields],
                    [a.backbuf EXCEPT ![o] = 0], a.records \cup {o}, a.content, a.size,
                    IF a.backbuf[o] # 0 THEN a.buffers \cup {a.backbuf[o]} ELSE a.buffers)
<1> DEFINE ref == [a.ref EXCEPT ![o] = 0]
           fields == [a.fields EXCEPT ![o] = NoFields]
           backbuf == [a.backbuf EXCEPT ![o] = 0]
           buffers == IF a.backbuf[o] # 0 THEN a.buffers \cup {a.backbuf[o]} ELSE a.buffers
           b == [a EXCEPT !.ref[o] = a.ref[o] - 1]
           c == [b EXCEPT !.fields[o] = NoFields]
           d == [c EXCEPT !.buffers = buffers]
           e == [d EXCEPT !.backbuf[o] = 0]
           f == [e EXCEPT !.records = a.records \cup {o}]
<1>1. /\ [a.ref EXCEPT ![o] = a.ref[o] - 1] = ref /\ ref[o] = 0
      /\ ref \in [Obj -> Int] /\ fields \in [Obj -> [1..MaxFields -> Value]]
      /\ backbuf \in [Obj -> Buf \cup {0}] /\ a.records \cup {o} \subseteq Obj /\ buffers \subseteq Buf
  BY PoolFields, FieldTypes DEF PoolTypes
<1>2. IsMadeOf(a, a.ref, a.fields, a.backbuf, a.records, a.content, a.size, a.buffers)
  BY DEF IsMadeOf
<1>3. IsMadeOf(b, ref, a.fields, a.backbuf, a.records, a.content, a.size, a.buffers)
  BY <1>1, <1>2, PoolUpdates
<1>4. n = RecycleRecord(c, o)
  <2>1. ~(b.ref[o] > 0)
    BY <1>1, <1>3 DEF IsMadeOf
  <2> QED
    BY <2>1 DEF Release
<1> HIDE DEF b
<1>5. IsMadeOf(c, ref, fields, a.backbuf, a.records, a.content, a.size, a.buffers)
  BY <1>1, <1>3, PoolUpdates
<1> HIDE DEF c
<1>6. IsMadeOf(d, ref, fields, a.backbuf, a.records, a.content, a.size, buffers)
  BY <1>1, <1>5, PoolUpdates
<1>7. c.backbuf = a.backbuf /\ c.records = a.records /\ c.buffers = a.buffers
  BY <1>5 DEF IsMadeOf
<1>8. n = f
  BY <1>4, <1>7, Zenon DEF RecycleRecord
<1> HIDE DEF d, buffers
<1>9. IsMadeOf(e, ref, fields, backbuf, a.records, a.content, a.size, buffers)
  BY <1>1, <1>6, PoolUpdates
<1> HIDE DEF e
<1>10. IsMadeOf(f, ref, fields, backbuf, a.records \cup {o}, a.content, a.size, buffers)
  BY <1>1, <1>9, PoolUpdates
<1> QED
  BY <1>8, <1>10 DEF buffers

\* LogAllocator.NewRecord.
LEMMA NewRecordMade ==
    ASSUME NEW a \in PoolState, NEW o \in Obj, NEW log \in Log, NEW length \in Nat, NEW count \in Nat,
           NEW b, length > MinToPool => b \in Buf, NEW n, n = NewRecord(a, log, length, o, b, count),
           PooledEmpty(a)
    PROVE  LET pooled == length > MinToPool IN
           IsMadeOf(n, [a.ref EXCEPT ![o] = count], [a.fields EXCEPT ![o] = NoFields],
                    [a.backbuf EXCEPT ![o] = IF pooled THEN b ELSE 0], a.records \ {o},
                    IF pooled THEN [a.content EXCEPT ![b] = log] ELSE a.content,
                    IF pooled /\ b \notin a.buffers
                    THEN [a.size EXCEPT ![b] = PowerOf2[GetClass(length)]] ELSE a.size,
                    IF pooled THEN a.buffers \ {b} ELSE a.buffers)
<1>1. MinToPool \in Nat /\ GetClass(length) \in Nat /\ PowerOf2[GetClass(length)] \in Nat
  BY PoolAssumption, BitLengthFacts, PowerOf2Def DEF GetClass
<1> DEFINE pooled == length > MinToPool
           new == o \notin a.records
           ref == [a.ref EXCEPT ![o] = count]
           fields == [a.fields EXCEPT ![o] = NoFields]
           backbuf == [a.backbuf EXCEPT ![o] = IF pooled THEN b ELSE 0]
           buffers == IF pooled THEN a.buffers \ {b} ELSE a.buffers
           content == IF pooled THEN [a.content EXCEPT ![b] = log] ELSE a.content
           size == IF pooled /\ b \notin a.buffers
                   THEN [a.size EXCEPT ![b] = PowerOf2[GetClass(length)]] ELSE a.size
           a1 == [a EXCEPT !.records = a.records \ {o}]
           a2 == [a1 EXCEPT !.ref[o] = (IF new THEN 0 ELSE a.ref[o]) + count]
           a3 == [a2 EXCEPT !.fields[o] = IF new THEN NoFields ELSE a.fields[o]]
           a4 == [a3 EXCEPT !.backbuf[o] = IF pooled THEN b ELSE IF new THEN 0 ELSE a.backbuf[o]]
           a5 == [a4 EXCEPT !.buffers = buffers]
           a6 == [a5 EXCEPT !.content = content]
           a7 == [a6 EXCEPT !.size = size]
<1>2. n = a7
  BY DEF NewRecord
<1>3. /\ ref \in [Obj -> Int] /\ fields \in [Obj -> [1..MaxFields -> Value]]
      /\ backbuf \in [Obj -> Buf \cup {0}] /\ a.records \ {o} \subseteq Obj /\ buffers \subseteq Buf
      /\ content \in [Buf -> Log \cup {0}] /\ size \in [Buf -> Nat]
  BY <1>1, PoolFields, FieldTypes DEF PoolTypes
<1>4. /\ (IF new THEN 0 ELSE a.ref[o]) + count = count
      /\ (IF new THEN NoFields ELSE a.fields[o]) = NoFields
      /\ (IF pooled THEN b ELSE IF new THEN 0 ELSE a.backbuf[o]) = IF pooled THEN b ELSE 0
  BY DEF PooledEmpty
<1>5. IsMadeOf(a, a.ref, a.fields, a.backbuf, a.records, a.content, a.size, a.buffers)
  BY DEF IsMadeOf
<1>6. IsMadeOf(a1, a.ref, a.fields, a.backbuf, a.records \ {o}, a.content, a.size, a.buffers)
  BY <1>3, <1>5, PoolUpdates
<1> HIDE DEF a1, pooled, new, buffers, content, size
<1>7. IsMadeOf(a2, ref, a.fields, a.backbuf, a.records \ {o}, a.content, a.size, a.buffers)
  BY <1>3, <1>4, <1>6, PoolUpdates
<1> HIDE DEF a2
<1>8. IsMadeOf(a3, ref, fields, a.backbuf, a.records \ {o}, a.content, a.size, a.buffers)
  BY <1>3, <1>4, <1>7, PoolUpdates
<1> HIDE DEF a3
<1>9. IsMadeOf(a4, ref, fields, backbuf, a.records \ {o}, a.content, a.size, a.buffers)
  BY <1>3, <1>4, <1>8, PoolUpdates
<1> HIDE DEF a4
<1>10. IsMadeOf(a5, ref, fields, backbuf, a.records \ {o}, a.content, a.size, buffers)
  BY <1>3, <1>9, PoolUpdates
<1> HIDE DEF a5
<1>11. IsMadeOf(a6, ref, fields, backbuf, a.records \ {o}, content, a.size, buffers)
  BY <1>3, <1>10, PoolUpdates
<1> HIDE DEF a6
<1>12. IsMadeOf(a7, ref, fields, backbuf, a.records \ {o}, content, size, buffers)
  BY <1>3, <1>11, PoolUpdates
<1> QED
  BY <1>2, <1>12 DEF pooled, buffers, content, size

-----------------------------------------------------------------------------
(* The pools go on being right *)

\* A buffer for a log of some length is in no record's hands, and has the size of its class.
BufferFor(a, R, b, length) ==
    length > MinToPool =>
        /\ b \in Buf /\ \A r \in R : a.backbuf[r[1]] # b
        /\ b \in a.buffers => a.size[b] = PowerOf2[GetClass(length)]

\* An object o that is neither pooled nor one of R, and its buffer, if any, likewise.
Aside(a, R, o, log) ==
    /\ o \notin a.records /\ \A r \in R : r[1] # o
    /\ a.backbuf[o] \in Buf \cup {0}
    /\ a.backbuf[o] # 0 =>
          /\ a.backbuf[o] \notin a.buffers /\ \A r \in R : a.backbuf[r[1]] # a.backbuf[o]
          /\ a.content[a.backbuf[o]] = log
          /\ LengthOf[log] < a.size[a.backbuf[o]] /\ PowerSize(a, a.backbuf[o])

\* A new record changes no other record, and its buffer is long enough (BytesPoolBy2n.Get).
LEMMA NewRecordIsAside ==
    ASSUME NEW a, NEW R, PoolOK(a, R), NEW o \in Obj, \A r \in R : r[1] # o, NEW log \in Log,
           NEW b, BufferFor(a, R, b, LengthOf[log]), NEW count \in Nat \ {0},
           NEW n, n = NewRecord(a, log, LengthOf[log], o, b, count)
    PROVE  /\ PoolOK(n, R) /\ Aside(n, R, o, log)
           /\ n.ref = [a.ref EXCEPT ![o] = count] /\ n.fields[o] = NoFields
<1> DEFINE length == LengthOf[log]
           pooled == length > MinToPool
           p2 == PowerOf2[GetClass(length)]
<1>1. /\ a \in PoolState /\ R \subseteq Obj \X Log /\ PooledEmpty(a) /\ length \in Nat
      /\ PoolTypes(a.ref, a.fields, a.backbuf, a.records, a.content, a.size, a.buffers)
      /\ 0 \notin Buf /\ MinToPool \in Nat
  BY PoolFields, PipelineAssumption, PoolAssumption DEF PoolOK
<1>2. /\ GetClass(length) \in Nat /\ p2 > length /\ p2 \in Nat
  BY <1>1, BitLengthFacts, PowerOf2Def DEF GetClass
<1>3. IsMadeOf(n, [a.ref EXCEPT ![o] = count], [a.fields EXCEPT ![o] = NoFields],
               [a.backbuf EXCEPT ![o] = IF pooled THEN b ELSE 0], a.records \ {o},
               IF pooled THEN [a.content EXCEPT ![b] = log] ELSE a.content,
               IF pooled /\ b \notin a.buffers THEN [a.size EXCEPT ![b] = p2] ELSE a.size,
               IF pooled THEN a.buffers \ {b} ELSE a.buffers)
  <2>1. length > MinToPool => b \in Buf
    BY DEF BufferFor
  <2> QED
    BY <1>1, <2>1, NewRecordMade
<1>4. /\ n \in PoolState /\ n.ref = [a.ref EXCEPT ![o] = count] /\ n.records = a.records \ {o}
      /\ n.fields = [a.fields EXCEPT ![o] = NoFields]
      /\ n.backbuf = [a.backbuf EXCEPT ![o] = IF pooled THEN b ELSE 0]
      /\ pooled => /\ n.content = [a.content EXCEPT ![b] = log] /\ n.buffers = a.buffers \ {b}
                   /\ n.size = IF b \notin a.buffers THEN [a.size EXCEPT ![b] = p2] ELSE a.size
      /\ ~pooled => n.content = a.content /\ n.buffers = a.buffers /\ n.size = a.size
  BY <1>3 DEF IsMadeOf
<1>5. /\ n.ref[o] = count /\ n.fields[o] = NoFields /\ n.backbuf[o] = IF pooled THEN b ELSE 0
      /\ \A p \in Obj : p # o => /\ n.ref[p] = a.ref[p] /\ n.fields[p] = a.fields[p]
                                 /\ n.backbuf[p] = a.backbuf[p]
  BY <1>1, <1>4 DEF PoolTypes
<1>6. /\ pooled => /\ b \in Buf /\ n.content[b] = log /\ n.size[b] = p2 /\ b \notin n.buffers
                   /\ \A r \in R : a.backbuf[r[1]] # b
      /\ \A c \in Buf : ~(pooled /\ c = b) => n.content[c] = a.content[c] /\ n.size[c] = a.size[c]
      /\ \A c \in n.buffers : c \in a.buffers /\ ~(pooled /\ c = b)
      /\ n.buffers \subseteq a.buffers
  <2>1. CASE pooled
    <3>1. b \in Buf /\ (b \in a.buffers => a.size[b] = p2) /\ \A r \in R : a.backbuf[r[1]] # b
      BY <2>1 DEF BufferFor
    <3> QED
      BY <1>1, <1>4, <2>1, <3>1 DEF PoolTypes
  <2>2. CASE ~pooled
    BY <1>4, <2>2
  <2> QED
    BY <2>1, <2>2
<1> HIDE DEF length, pooled, p2
<1>7. PooledEmpty(n)
  BY <1>1, <1>4, <1>5 DEF PooledEmpty, PoolTypes
<1>8. \A r \in R : /\ r[1] \in Obj /\ r[1] # o /\ a.backbuf[r[1]] \in Buf \cup {0}
                   /\ n.backbuf[r[1]] = a.backbuf[r[1]]
  BY <1>1, <1>5 DEF PoolTypes
<1>9. PooledFree(n, R)
  BY <1>4, <1>6, <1>8 DEF PooledFree, PoolOK
<1>10. PooledSizes(n)
  BY <1>1, <1>6 DEF PooledSizes, PoolOK, PowerSize, PoolTypes
<1>11. ASSUME NEW r \in R PROVE n.ref[r[1]] > 0 /\ Holds(n, r[1], r[2])
  <2>1. a.ref[r[1]] > 0 /\ Holds(a, r[1], r[2])
    BY DEF PoolOK
  <2>2. ~(pooled /\ a.backbuf[r[1]] = b)
    BY <1>6
  <2> QED
    BY <1>5, <1>6, <1>8, <2>1, <2>2 DEF Holds, PowerSize
<1>12. OwnBuffers(n, R)
  BY <1>8 DEF OwnBuffers, PoolOK
<1>13. PoolOK(n, R)
  BY <1>1, <1>4, <1>7, <1>9, <1>10, <1>11, <1>12 DEF PoolOK
<1>14. Aside(n, R, o, log)
  <2>1. o \notin n.records /\ \A r \in R : r[1] # o
    BY <1>4
  <2>2. n.backbuf[o] \in Buf \cup {0} /\ (n.backbuf[o] # 0 => pooled /\ n.backbuf[o] = b)
    BY <1>5, <1>6
  <2>3. pooled => LengthOf[log] < n.size[b] /\ PowerSize(n, b)
    BY <1>2, <1>6 DEF PowerSize, length, p2
  <2> QED
    BY <1>6, <1>8, <2>1, <2>2, <2>3 DEF Aside
<1> QED
  BY <1>4, <1>5, <1>13, <1>14

\* The parser fills it, and it is one of the records in use.
LEMMA FilledIsHeld ==
    ASSUME NEW a, NEW R, PoolOK(a, R), NEW o \in Obj, NEW log \in Log, Aside(a, R, o, log),
           a.ref[o] > 0, a.fields[o] = NoFields, NEW n, n = Filled(a, o, log)
    PROVE  PoolOK(n, R \cup {<<o, log>>}) /\ n.ref = a.ref
<1> DEFINE S == R \cup {<<o, log>>}
           value == FieldsOf(a.backbuf[o], log)
<1>1. /\ a \in PoolState /\ R \subseteq Obj \X Log /\ S \subseteq Obj \X Log
      /\ PoolTypes(a.ref, a.fields, a.backbuf, a.records, a.content, a.size, a.buffers)
      /\ 0 \notin Buf
  BY PoolFields DEF PoolOK
<1>2. ParsedFields(a, o, log) = value
  BY DEF ParsedFields, FieldsOf, IsInput, NoFields
<1>3. value \in [1..MaxFields -> Value]
  BY FieldTypes DEF Aside
<1> HIDE DEF value
<1>4. [a.fields EXCEPT ![o] = value] \in [Obj -> [1..MaxFields -> Value]]
  BY <1>1, <1>3 DEF PoolTypes
<1>5. IsMadeOf(n, a.ref, [a.fields EXCEPT ![o] = value], a.backbuf, a.records, a.content, a.size, a.buffers)
  <2>1. IsMadeOf(a, a.ref, a.fields, a.backbuf, a.records, a.content, a.size, a.buffers)
    BY <1>1 DEF IsMadeOf
  <2>2. n = [a EXCEPT !.fields[o] = value]
    BY <1>2 DEF Filled
  <2>3. IsMadeOf([a EXCEPT !.fields[o] = value], a.ref, [a.fields EXCEPT ![o] = value], a.backbuf,
                 a.records, a.content, a.size, a.buffers)
    BY <1>4, <2>1, PoolUpdates
  <2> QED
    BY <2>2, <2>3
<1>6. /\ n \in PoolState /\ n.ref = a.ref /\ n.backbuf = a.backbuf /\ n.records = a.records
      /\ n.content = a.content /\ n.size = a.size /\ n.buffers = a.buffers
      /\ n.fields[o] = value /\ \A p \in Obj : p # o => n.fields[p] = a.fields[p]
  BY <1>1, <1>5 DEF IsMadeOf, PoolTypes
<1>7. \A r \in S : r = <<o, log>> \/ (r \in R /\ r[1] # o /\ r[1] \in Obj)
  BY <1>1 DEF Aside
<1>8. <<o, log>>[1] = o /\ <<o, log>>[2] = log
  OBVIOUS
<1>9. PooledEmpty(n)
  BY <1>1, <1>6 DEF PooledEmpty, PoolOK, Aside, PoolTypes
<1>10. PooledFree(n, S)
  BY <1>1, <1>6, <1>7, <1>8, PoolFields DEF PooledFree, PoolOK, Aside, PoolTypes
<1>11. PooledSizes(n)
  BY <1>6 DEF PooledSizes, PoolOK, PowerSize
<1>12. ASSUME NEW r \in S PROVE n.ref[r[1]] > 0 /\ Holds(n, r[1], r[2])
  <2>1. CASE r = <<o, log>>
    BY <1>6, <1>8, <2>1 DEF Holds, Aside, PowerSize, value
  <2>2. CASE r \in R /\ r[1] # o /\ r[1] \in Obj
    BY <1>6, <2>2 DEF PoolOK, Holds, PowerSize
  <2> QED
    BY <1>7, <2>1, <2>2
<1>13. OwnBuffers(n, S)
  BY <1>6, <1>7, <1>8 DEF OwnBuffers, PoolOK, Aside
<1> QED
  BY <1>1, <1>6, <1>9, <1>10, <1>11, <1>12, <1>13 DEF PoolOK

\* Releasing a record that is in no one's hands any more.
LEMMA ReleaseOfAside ==
    ASSUME NEW a, NEW R, PoolOK(a, R), NEW o \in Obj, a.ref[o] > 0,
           o \notin a.records, \A r \in R : r[1] # o, a.backbuf[o] \in Buf \cup {0},
           a.backbuf[o] # 0 => PowerSize(a, a.backbuf[o]) /\ \A r \in R : a.backbuf[r[1]] # a.backbuf[o],
           NEW n, n = Release(a, o)
    PROVE  PoolOK(n, R) /\ \A p \in Obj : p # o => n.ref[p] = a.ref[p]
<1>1. /\ a \in PoolState /\ R \subseteq Obj \X Log
      /\ PoolTypes(a.ref, a.fields, a.backbuf, a.records, a.content, a.size, a.buffers)
      /\ 0 \notin Buf
  BY PoolFields DEF PoolOK
<1>2. CASE a.ref[o] > 1
  <2>1. IsMadeOf(n, [a.ref EXCEPT ![o] = a.ref[o] - 1], a.fields, a.backbuf, a.records, a.content,
                 a.size, a.buffers)
    BY <1>1, <1>2, ReleaseNotLast
  <2>2. /\ n \in PoolState /\ n.fields = a.fields /\ n.backbuf = a.backbuf /\ n.records = a.records
        /\ n.content = a.content /\ n.size = a.size /\ n.buffers = a.buffers
        /\ \A p \in Obj : p # o => n.ref[p] = a.ref[p]
    BY <1>1, <2>1 DEF IsMadeOf, PoolTypes
  <2>3. \A p \in a.records : p \in Obj /\ p # o
    BY <1>1 DEF PoolTypes
  <2>4. \A r \in R : r[1] \in Obj /\ r[1] # o
    BY <1>1
  <2>5. PooledEmpty(n) /\ PooledFree(n, R) /\ PooledSizes(n) /\ OwnBuffers(n, R)
    BY <2>2, <2>3 DEF PoolOK, PooledEmpty, PooledFree, PooledSizes, OwnBuffers, PowerSize
  <2>6. \A r \in R : n.ref[r[1]] > 0 /\ Holds(n, r[1], r[2])
    BY <2>2, <2>4 DEF PoolOK, Holds, PowerSize
  <2> QED
    BY <1>1, <2>2, <2>5, <2>6 DEF PoolOK
<1>3. CASE ~(a.ref[o] > 1)
  <2>1. a.ref[o] = 1
    BY <1>1, <1>3 DEF PoolTypes
  <2> DEFINE b == a.backbuf[o]
             buffers == IF b # 0 THEN a.buffers \cup {b} ELSE a.buffers
  <2>2. IsMadeOf(n, [a.ref EXCEPT ![o] = 0], [a.fields EXCEPT ![o] = NoFields],
                 [a.backbuf EXCEPT ![o] = 0], a.records \cup {o}, a.content, a.size, buffers)
    BY <1>1, <2>1, ReleaseLast
  <2>3. /\ n \in PoolState /\ n.records = a.records \cup {o}
        /\ n.content = a.content /\ n.size = a.size /\ n.buffers = buffers
        /\ n.ref[o] = 0 /\ n.fields[o] = NoFields /\ n.backbuf[o] = 0
        /\ \A p \in Obj : p # o => /\ n.ref[p] = a.ref[p] /\ n.fields[p] = a.fields[p]
                                   /\ n.backbuf[p] = a.backbuf[p]
    BY <1>1, <2>2 DEF IsMadeOf, PoolTypes
  <2>4. \A r \in R : r[1] \in Obj /\ r[1] # o
    BY <1>1
  <2>5. \A p \in a.records : p \in Obj
    BY <1>1 DEF PoolTypes
  <2>6. PooledEmpty(n)
    BY <2>3, <2>5 DEF PoolOK, PooledEmpty
  <2>7. PooledFree(n, R)
    BY <2>3, <2>4 DEF PoolOK, PooledFree
  <2>8. PooledSizes(n)
    BY <2>3 DEF PoolOK, PooledSizes, PowerSize
  <2>9. OwnBuffers(n, R)
    BY <2>3, <2>4 DEF PoolOK, OwnBuffers
  <2>10. \A r \in R : n.ref[r[1]] > 0 /\ Holds(n, r[1], r[2])
    BY <2>3, <2>4 DEF PoolOK, Holds, PowerSize
  <2> QED
    BY <1>1, <2>3, <2>6, <2>7, <2>8, <2>9, <2>10 DEF PoolOK
<1> QED
  BY <1>2, <1>3

\* Releasing a record that other outputs still need.
LEMMA ReleaseOfHeld ==
    ASSUME NEW a, NEW R, PoolOK(a, R), NEW r \in R, a.ref[r[1]] > 1, NEW n, n = Release(a, r[1])
    PROVE  PoolOK(n, R) /\ n.ref = [a.ref EXCEPT ![r[1]] = a.ref[r[1]] - 1]
<1> DEFINE o == r[1]
<1>1. /\ a \in PoolState /\ R \subseteq Obj \X Log /\ o \in Obj
      /\ PoolTypes(a.ref, a.fields, a.backbuf, a.records, a.content, a.size, a.buffers)
  BY PoolFields DEF PoolOK
<1> HIDE DEF o
<1>2. IsMadeOf(n, [a.ref EXCEPT ![o] = a.ref[o] - 1], a.fields, a.backbuf, a.records, a.content,
               a.size, a.buffers)
  BY <1>1, ReleaseNotLast DEF o
<1>3. /\ n \in PoolState /\ n.fields = a.fields /\ n.backbuf = a.backbuf /\ n.records = a.records
      /\ n.content = a.content /\ n.size = a.size /\ n.buffers = a.buffers
      /\ n.ref = [a.ref EXCEPT ![o] = a.ref[o] - 1]
      /\ n.ref[o] > 0 /\ \A p \in Obj : p # o => n.ref[p] = a.ref[p]
  BY <1>1, <1>2 DEF IsMadeOf, PoolTypes, o
<1>4. \A p \in a.records : p \in Obj /\ p # o
  BY <1>1 DEF PoolTypes, PoolOK, PooledFree, o
<1>5. \A q \in R : q[1] \in Obj
  BY <1>1
<1>6. PooledEmpty(n) /\ PooledFree(n, R) /\ PooledSizes(n) /\ OwnBuffers(n, R)
  BY <1>3, <1>4 DEF PoolOK, PooledEmpty, PooledFree, PooledSizes, OwnBuffers, PowerSize
<1>7. \A q \in R : n.ref[q[1]] > 0 /\ Holds(n, q[1], q[2])
  BY <1>3, <1>5 DEF PoolOK, Holds, PowerSize
<1> QED
  BY <1>1, <1>3, <1>6, <1>7 DEF PoolOK, o

-----------------------------------------------------------------------------
(* The records are released as often as they are counted for *)

\* The count that is left of a record: what it was made with, less the outputs already done.
CountLeft(o) == IF pc = "output" /\ o = Record THEN InitialRefCount - (output - 1) ELSE InitialRefCount

CountsKept == \A r \in Records : alloc.ref[r[1]] = CountLeft(r[1])

\* The inductive invariant of PoolIsSound.
PoolInv ==
    /\ Types /\ HandsApart
    /\ PoolOK(alloc, Records)
    /\ CountsKept
    /\ ~panicked

\* It holds at the start,
LEMMA PoolInvInit == Init => PoolInv
<1> SUFFICES ASSUME Init PROVE PoolInv
  OBVIOUS
<1>1. Types /\ HandsApart
  BY TypesInit
<1>2. parsed = <<>> /\ batch = <<>> /\ inputChannel = <<>> /\ alloc = EmptyPool /\ ~panicked
  BY DEF Init
<1>3. Records = {}
  BY <1>2 DEF Records, Members
<1>4. EmptyPool \in PoolState
  BY FieldTypes DEF EmptyPool, PoolState
<1>5. EmptyPool.records = {} /\ EmptyPool.buffers = {}
  BY DEF EmptyPool
<1>6. PoolOK(alloc, Records)
  BY <1>2, <1>3, <1>4, <1>5 DEF PoolOK, PooledEmpty, PooledFree, PooledSizes, OwnBuffers
<1> QED
  BY <1>1, <1>2, <1>3, <1>6 DEF PoolInv, CountsKept

\* and says what the other lemmas ask for.
LEMMA PoolInvFacts ==
    ASSUME PoolInv
    PROVE  /\ PoolsAreFree /\ alloc \in PoolState /\ Records \subseteq Obj \X Log
           /\ \A r \in Records : r[1] \in Obj /\ r[2] \in Log /\ r = <<r[1], r[2]>>
           /\ batch # <<>> => batch[1] \in Records
<1>1. alloc \in PoolState /\ Records \subseteq Obj \X Log /\ PooledFree(alloc, Records)
  BY DEF PoolInv, PoolOK
<1>2. alloc.records \subseteq Obj /\ alloc.buffers \subseteq Buf
  BY <1>1, PoolFields DEF PoolTypes
<1>3. PoolsAreFree
  BY <1>1, <1>2, RecordsAndObjects DEF PoolsAreFree, PooledFree
<1>4. ASSUME batch # <<>> PROVE batch[1] \in Records
  BY <1>4, RecordTaken DEF Records, PoolInv, Types
<1>5. \A r \in Records : r[1] \in Obj /\ r[2] \in Log /\ r = <<r[1], r[2]>>
  BY <1>1
<1> QED
  BY <1>1, <1>3, <1>4, <1>5

\* What sync.Pool may hand out fits.
LEMMA FreshBuffersFit ==
    ASSUME PoolInv, NEW log \in Log, NEW b \in FreshBuffers(LengthOf[log])
    PROVE  BufferFor(alloc, Records, b, LengthOf[log])
<1>1. SUFFICES ASSUME LengthOf[log] > MinToPool
               PROVE  /\ b \in Buf /\ \A r \in Records : alloc.backbuf[r[1]] # b
                      /\ b \in alloc.buffers => alloc.size[b] = PowerOf2[GetClass(LengthOf[log])]
  BY DEF BufferFor
<1>2. /\ PooledFree(alloc, Records) /\ PooledSizes(alloc) /\ alloc.buffers \subseteq Buf
      /\ LengthOf[log] \in Nat
  BY PoolInvFacts, PipelineAssumption DEF PoolInv, PoolOK, PoolsAreFree
<1>3. b \in BufferChoices(alloc, LengthOf[log], GarbageBuffers)
  BY <1>1 DEF FreshBuffers
<1>4. CASE b \in alloc.buffers /\ PutClass(alloc.size[b]) = GetClass(LengthOf[log])
  <2>1. PICK k \in Nat : alloc.size[b] = PowerOf2[k]
    BY <1>2, <1>4 DEF PooledSizes, PowerSize
  <2>2. PutClass(alloc.size[b]) = k
    BY <2>1, BitLengthFacts DEF PutClass
  <2> QED
    BY <1>2, <1>4, <2>1, <2>2 DEF PooledFree
<1>5. CASE ~(b \in alloc.buffers /\ PutClass(alloc.size[b]) = GetClass(LengthOf[log]))
  <2>1. GarbageBuffers # {} /\ b = Min(GarbageBuffers)
    BY <1>3, <1>5 DEF BufferChoices
  <2>2. GarbageBuffers \in SUBSET Nat
    BY DEF GarbageBuffers, Buf
  <2>3. b \in GarbageBuffers
    BY <2>1, <2>2, MinIsIn
  <2>4. b \in Buf /\ b \notin alloc.buffers /\ \A o \in InUse : alloc.backbuf[o] # b
    BY <2>3 DEF GarbageBuffers
  <2> QED
    BY <2>4, RecordsAndObjects
<1> QED
  BY <1>4, <1>5

\* A step that touches neither the records nor their counts.
LEMMA PoolUnchanged ==
    ASSUME PoolInv, Types', HandsApart', Records' \subseteq Records, UNCHANGED <<alloc, panicked>>,
           \A r \in Records' : CountLeft(r[1])' = CountLeft(r[1])
    PROVE  PoolInv'
<1>1. PoolOK(alloc', Records')
  BY FewerRecords DEF PoolInv
<1>2. CountsKept'
  BY DEF CountsKept, PoolInv
<1> QED
  BY <1>1, <1>2 DEF PoolInv

\* A record o can be made for a log, with buffer b.
MayMake(a, R, o, log, b, count) ==
    /\ PoolOK(a, R) /\ o \in Obj /\ (\A r \in R : r[1] # o) /\ log \in Log
    /\ BufferFor(a, R, b, LengthOf[log]) /\ count \in Nat \ {0}

OthersKept(a, n, o) == \A p \in Obj : p # o => n.ref[p] = a.ref[p]

\* The parser rejects it, or fills it.
LEMMA RejectedIsReleased ==
    \A a, R, o, log, b, count : MayMake(a, R, o, log, b, count) =>
       LET n == Release(NewRecord(a, log, LengthOf[log], o, b, count), o) IN
       PoolOK(n, R) /\ OthersKept(a, n, o)
<1> SUFFICES ASSUME NEW a, NEW R, NEW o, NEW log, NEW b, NEW count, MayMake(a, R, o, log, b, count)
             PROVE  LET n == Release(NewRecord(a, log, LengthOf[log], o, b, count), o) IN
                    PoolOK(n, R) /\ OthersKept(a, n, o)
  OBVIOUS
<1> DEFINE m == NewRecord(a, log, LengthOf[log], o, b, count)
           n == Release(m, o)
<1>1. /\ PoolOK(m, R) /\ Aside(m, R, o, log) /\ m.ref = [a.ref EXCEPT ![o] = count]
  BY NewRecordIsAside DEF MayMake
<1>2. a.ref \in [Obj -> Int] /\ o \in Obj /\ log \in Log /\ count > 0
  BY DEF PoolOK, PoolState, MayMake
<1> HIDE DEF m
<1>3. m.ref[o] > 0 /\ OthersKept(a, m, o)
  BY <1>1, <1>2 DEF OthersKept
<1>4. /\ o \notin m.records /\ \A r \in R : r[1] # o
      /\ m.backbuf[o] \in Buf \cup {0}
      /\ m.backbuf[o] # 0 => /\ PowerSize(m, m.backbuf[o])
                             /\ \A r \in R : m.backbuf[r[1]] # m.backbuf[o]
  BY <1>1 DEF Aside
<1>5. PoolOK(m, R) /\ o \in Obj
  BY <1>1, <1>2
<1>6. m.ref[o] > 0
  BY <1>3
<1>7. PoolOK(n, R) /\ \A p \in Obj : p # o => n.ref[p] = m.ref[p]
  BY <1>4, <1>5, <1>6, ReleaseOfAside
<1> QED
  BY <1>3, <1>7 DEF m, OthersKept

\* A new record whose fields are filled is held with its own buffer, and the others are as they were.
LEMMA ParsedIsHeld ==
    \A a, R, o, log, b, count : MayMake(a, R, o, log, b, count) =>
       LET n == Filled(NewRecord(a, log, LengthOf[log], o, b, count), o, log) IN
       PoolOK(n, R \cup {<<o, log>>}) /\ n.ref[o] = count /\ OthersKept(a, n, o)
<1> SUFFICES ASSUME NEW a, NEW R, NEW o, NEW log, NEW b, NEW count, MayMake(a, R, o, log, b, count)
             PROVE  LET n == Filled(NewRecord(a, log, LengthOf[log], o, b, count), o, log) IN
                    PoolOK(n, R \cup {<<o, log>>}) /\ n.ref[o] = count /\ OthersKept(a, n, o)
  OBVIOUS
<1> DEFINE m == NewRecord(a, log, LengthOf[log], o, b, count)
           n == Filled(m, o, log)
<1>1. /\ PoolOK(m, R) /\ Aside(m, R, o, log) /\ m.ref = [a.ref EXCEPT ![o] = count]
      /\ m.fields[o] = NoFields
  BY NewRecordIsAside DEF MayMake
<1>2. a.ref \in [Obj -> Int] /\ o \in Obj /\ log \in Log /\ count > 0
  BY DEF PoolOK, PoolState, MayMake
<1> HIDE DEF m
<1>3. m.ref[o] > 0 /\ m.ref[o] = count /\ OthersKept(a, m, o)
  BY <1>1, <1>2 DEF OthersKept
<1>4. PoolOK(m, R) /\ Aside(m, R, o, log) /\ m.fields[o] = NoFields /\ o \in Obj /\ log \in Log
  BY <1>1, <1>2
<1>5. m.ref[o] > 0
  BY <1>3
<1>6. PoolOK(n, R \cup {<<o, log>>}) /\ n.ref = m.ref
  BY <1>4, <1>5, FilledIsHeld
<1> QED
  BY <1>3, <1>6 DEF m, OthersKept

\* Receive: a new record of a free object, or a message that cannot be parsed.
Receives(o, b, log) ==
    /\ MayMake(alloc, Records, o, log, b, InitialRefCount)
    /\ \A r \in Records : r[1] # o /\ r[1] \in Obj
    /\ o \notin InUse
    /\ Rejects(o, b, log) \/ Parses(o, b, log)
    /\ UNCHANGED <<inputChannel, batch, pc, output, config>>

\* That is what Receive does.
LEMMA ReceiveMakes ==
    ASSUME OutputsDoNotGrow, PoolInv, Receive
    PROVE  \E log \in Log, o \in Obj : \E b : Receives(o, b, log)
<1>1. PICK log \in Log : \E o \in FreshObjects : \E b \in FreshBuffers(LengthOf[log]) :
         /\ Rejects(o, b, log) \/ Parses(o, b, log)
         /\ UNCHANGED <<inputChannel, batch, pc, output, config>>
  BY ReceiveSteps DEF PoolInv
<1>2. PICK o \in FreshObjects : \E b \in FreshBuffers(LengthOf[log]) :
         /\ Rejects(o, b, log) \/ Parses(o, b, log)
         /\ UNCHANGED <<inputChannel, batch, pc, output, config>>
  BY <1>1
<1>3. PICK b \in FreshBuffers(LengthOf[log]) :
         /\ Rejects(o, b, log) \/ Parses(o, b, log)
         /\ UNCHANGED <<inputChannel, batch, pc, output, config>>
  BY <1>2
<1>4. o \in Obj /\ o \notin InUse /\ \A r \in Records : r[1] # o /\ r[1] \in Obj
  BY PoolInvFacts, FreshObjectsAreFree, RecordsAndObjects
<1>5. BufferFor(alloc, Records, b, LengthOf[log])
  BY FreshBuffersFit
<1>6. InitialRefCount \in Nat \ {0}
  BY ConfigFacts, PipelineAssumption DEF OutputsDoNotGrow
<1>7. MayMake(alloc, Records, o, log, b, InitialRefCount)
  BY <1>4, <1>5, <1>6 DEF PoolInv, MayMake
<1> QED
  BY <1>3, <1>4, <1>7 DEF Receives

\* Receive keeps the pool sound.
LEMMA ReceiveKeepsPool ==
    ASSUME OutputsDoNotGrow, PoolInv, Receive, Types', HandsApart'
    PROVE  PoolInv'
<1>1. PICK log \in Log, o \in Obj : \E b : Receives(o, b, log)
  BY ReceiveMakes
<1>2. PICK b : Receives(o, b, log)
  BY <1>1
<1>3. /\ MayMake(alloc, Records, o, log, b, InitialRefCount)
      /\ \A r \in Records : r[1] # o /\ r[1] \in Obj
      /\ o \notin InUse
      /\ Rejects(o, b, log) \/ Parses(o, b, log)
      /\ UNCHANGED <<inputChannel, batch, pc, output, config>>
  BY <1>2 DEF Receives
<1>4. o \in Obj /\ o \notin InUse /\ \A r \in Records : r[1] # o /\ r[1] \in Obj
  BY <1>1, <1>3
<1>5. MayMake(alloc, Records, o, log, b, InitialRefCount)
  BY <1>1, <1>3
<1>6. panicked' = panicked
  BY DEF Receive
<1>7. \A p : CountLeft(p)' = CountLeft(p)
  BY <1>1, <1>3 DEF CountLeft, Record
<1>8. CASE Rejects(o, b, log)
  <2>1. alloc' = Release(NewRecord(alloc, log, LengthOf[log], o, b, InitialRefCount), o)
        /\ parsed' = parsed
    BY <1>8 DEF Rejects, Made
  <2>2. Records' = Records
    BY <1>1, <1>3, <2>1 DEF Records
  <2>3. PoolOK(alloc', Records) /\ OthersKept(alloc, alloc', o)
    BY <1>5, <2>1, RejectedIsReleased
  <2>4. CountsKept'
    BY <1>4, <1>7, <2>2, <2>3 DEF CountsKept, PoolInv, OthersKept
  <2> QED
    BY <1>6, <2>2, <2>3, <2>4 DEF PoolInv
<1>9. CASE Parses(o, b, log)
  <2>1. alloc' = Filled(NewRecord(alloc, log, LengthOf[log], o, b, InitialRefCount), o, log)
        /\ parsed' = Append(parsed, <<o, log>>)
    BY <1>9 DEF Parses, Made
  <2>2. Records' = Records \cup {<<o, log>>}
    BY <1>1, <1>3, <1>4, <2>1, ReceiveMovesRecords DEF PoolInv
  <2>3. PoolOK(alloc', Records') /\ alloc'.ref[o] = InitialRefCount /\ OthersKept(alloc, alloc', o)
    <3> DEFINE n == Filled(NewRecord(alloc, log, LengthOf[log], o, b, InitialRefCount), o, log)
    <3>1. PoolOK(n, Records \cup {<<o, log>>}) /\ n.ref[o] = InitialRefCount /\ OthersKept(alloc, n, o)
      BY <1>5, ParsedIsHeld, Zenon
    <3>2. alloc' = n
      BY <2>1
    <3> HIDE DEF n
    <3> QED
      BY <2>2, <3>1, <3>2
  <2>4. CountLeft(o) = InitialRefCount
    <3>1. ASSUME pc = "output" PROVE o # Record
      <4>1. batch # <<>>
        BY <3>1 DEF PoolInv, Types
      <4> QED
        BY <1>4, <4>1, PoolInvFacts DEF Record
    <3> QED
      BY <3>1 DEF CountLeft
  <2>5. CountsKept'
    <3>1. SUFFICES ASSUME NEW r \in Records' PROVE alloc'.ref[r[1]] = CountLeft(r[1])
      BY <1>7 DEF CountsKept
    <3>2. CASE r = <<o, log>>
      BY <2>3, <2>4, <3>2
    <3>3. CASE r \in Records
      BY <1>4, <2>3, <3>3 DEF CountsKept, PoolInv, OthersKept
    <3> QED
      BY <2>2, <3>2, <3>3
  <2> QED
    BY <1>6, <2>3, <2>5 DEF PoolInv
<1> QED
  BY <1>1, <1>3, <1>8, <1>9

\* The worker is done with the record in hand: the last release of it, or the only one.
LEMMA LastReleaseKeepsPool ==
    ASSUME PoolInv, Types', HandsApart', batch # <<>>, NextRecord, UNCHANGED <<parsed, inputChannel>>,
           alloc' = Release(alloc, Record), panicked' = (alloc.ref[Record] < 1), alloc.ref[Record] > 0
    PROVE  PoolInv'
<1>1. /\ Records = Records' \cup {batch[1]} /\ Record \in Obj /\ batch[1] \in Records
      /\ \A r \in Records' : r[1] # Record
      /\ pc' # "output"
  BY NextRecordMovesRecords DEF PoolInv, Record
<1>2. /\ PoolOK(alloc, Records') /\ alloc \in PoolState /\ \A r \in Records' : r[1] \in Obj /\ r \in Records
  BY <1>1, FewerRecords, PoolInvFacts DEF PoolInv
<1>3. /\ Record \notin alloc.records /\ alloc.backbuf[Record] \in Buf \cup {0}
      /\ alloc.backbuf[Record] # 0 =>
            PowerSize(alloc, alloc.backbuf[Record])
            /\ \A r \in Records' : alloc.backbuf[r[1]] # alloc.backbuf[Record]
  <2>1. /\ Record \notin alloc.records /\ Holds(alloc, Record, batch[1][2])
        /\ alloc.backbuf[Record] \in Buf \cup {0}
    BY <1>1, <1>2, PoolFields DEF PoolInv, PoolOK, PooledFree, PoolTypes, Record
  <2>2. ASSUME NEW r \in Records', alloc.backbuf[Record] # 0
        PROVE  alloc.backbuf[r[1]] # alloc.backbuf[Record]
    <3>1. r # batch[1] /\ r \in Records
      BY <1>1 DEF Record
    <3> QED
      BY <1>1, <2>2, <3>1 DEF PoolInv, PoolOK, OwnBuffers, Record
  <2> QED
    BY <2>1, <2>2 DEF Holds
<1>4. PoolOK(alloc', Records') /\ \A p \in Obj : p # Record => alloc'.ref[p] = alloc.ref[p]
  BY <1>1, <1>2, <1>3, ReleaseOfAside
<1>5. CountsKept'
  <2>1. SUFFICES ASSUME NEW r \in Records' PROVE alloc'.ref[r[1]] = CountLeft(r[1])'
    BY DEF CountsKept
  <2>2. r \in Records /\ r[1] \in Obj /\ r[1] # Record
    BY <1>1, <1>2
  <2>3. CountLeft(r[1]) = InitialRefCount /\ CountLeft(r[1])' = InitialRefCount
    BY <1>1, <2>2 DEF CountLeft
  <2> QED
    BY <1>4, <2>2, <2>3 DEF CountsKept, PoolInv
<1>6. ~panicked'
  <2>1. alloc.ref[Record] \in Int
    BY <1>1, <1>2, PoolFields DEF PoolTypes
  <2>2. ~(alloc.ref[Record] < 1)
    BY <2>1
  <2> QED
    BY <2>2, Zenon
<1> QED
  BY <1>4, <1>5, <1>6 DEF PoolInv

\* OutputRecord of an output that is not the last one.
LEMMA OutputKeepsPool ==
    ASSUME OutputsDoNotGrow, PoolInv, OutputRecord, Types', HandsApart'
    PROVE  PoolInv'
<1>1. /\ pc = "output" /\ batch # <<>> /\ UNCHANGED <<parsed, inputChannel, config>>
      /\ alloc' = Release(alloc, Record) /\ panicked' = (alloc.ref[Record] < 1)
  BY DEF OutputRecord, receiverVars, configVars, PoolInv, Types
<1>2. /\ output \in 1..Len(Conf.outputs) /\ Len(Conf.outputs) \in 1..InitialRefCount
      /\ InitialRefCount \in Nat
  BY <1>1, ConfigFacts DEF PoolInv, Types, Outputs, OutputsDoNotGrow, Conf
<1>3. batch[1] \in Records /\ Record \in Obj /\ alloc \in PoolState
  BY <1>1, PoolInvFacts DEF Record
<1>4. alloc.ref[Record] = InitialRefCount - (output - 1)
  BY <1>1, <1>3 DEF PoolInv, CountsKept, CountLeft, Record
<1>5. CASE output < Len(Conf.outputs)
  <2>1. output' = output + 1 /\ UNCHANGED <<pc, batch>>
    BY <1>5 DEF OutputRecord
  <2>2. Records' = Records
    BY <1>1, <2>1 DEF Records
  <2>3. alloc.ref[Record] > 1
    BY <1>2, <1>4, <1>5
  <2>4. /\ PoolOK(alloc', Records)
        /\ alloc'.ref = [alloc.ref EXCEPT ![Record] = alloc.ref[Record] - 1]
    <3>1. PoolOK(alloc, Records) /\ alloc.ref[batch[1][1]] > 1
      BY <2>3 DEF PoolInv, Record
    <3> QED
      BY <1>1, <1>3, <3>1, ReleaseOfHeld DEF Record
  <2>5. /\ alloc'.ref[Record] = alloc.ref[Record] - 1
        /\ \A p \in Obj : p # Record => alloc'.ref[p] = alloc.ref[p]
    BY <1>3, <2>4, PoolFields DEF PoolTypes
  <2>6. CountsKept'
    <3>1. SUFFICES ASSUME NEW r \in Records PROVE alloc'.ref[r[1]] = CountLeft(r[1])'
      BY <2>2 DEF CountsKept
    <3>2. r[1] \in Obj /\ Record' = Record /\ alloc.ref[r[1]] = CountLeft(r[1])
      BY <2>1, PoolInvFacts DEF Record, PoolInv, CountsKept
    <3>3. CASE r[1] = Record
      BY <1>1, <1>2, <1>4, <2>1, <2>5, <3>2, <3>3 DEF CountLeft
    <3>4. CASE r[1] # Record
      BY <2>5, <3>2, <3>4 DEF CountLeft
    <3> QED
      BY <3>3, <3>4
  <2>7. ~panicked'
    <3>1. ~(alloc.ref[Record] < 1)
      BY <1>2, <1>4, <2>3
    <3> QED
      BY <1>1, <3>1, Zenon
  <2> QED
    BY <1>1, <2>2, <2>4, <2>6, <2>7 DEF PoolInv
<1>6. CASE ~(output < Len(Conf.outputs))
  <2>1. NextRecord
    BY <1>6 DEF OutputRecord
  <2>2. alloc.ref[Record] > 0
    BY <1>2, <1>4
  <2> QED
    BY <1>1, <2>1, <2>2, LastReleaseKeepsPool
<1> QED
  BY <1>5, <1>6

\* Every step keeps the pools right.
LEMMA PoolInvNext == OutputsDoNotGrow /\ PoolInv /\ [Next]_vars => PoolInv'
<1> SUFFICES ASSUME OutputsDoNotGrow, PoolInv, [Next]_vars PROVE PoolInv'
  OBVIOUS
<1>1. Types' /\ HandsApart'
  BY PoolInvFacts, TypesNext DEF PoolInv
<1>2. ASSUME UNCHANGED <<parsed, inputChannel, batch, alloc, panicked>>,
             pc # "output", pc' # "output"
      PROVE  PoolInv'
  <2>1. Records' = Records
    BY <1>2 DEF Records
  <2>2. \A p : CountLeft(p)' = CountLeft(p)
    BY <1>2 DEF CountLeft
  <2> QED
    BY <1>1, <1>2, <2>1, <2>2, PoolUnchanged
<1>3. ASSUME UNCHANGED <<batch, alloc, panicked, pc, output>>, Records' \subseteq Records
      PROVE  PoolInv'
  <2>1. \A p : CountLeft(p)' = CountLeft(p)
    BY <1>3 DEF CountLeft, Record
  <2> QED
    BY <1>1, <1>3, <2>1, PoolUnchanged
<1>4. CASE Receive
  BY <1>1, <1>4, ReceiveKeepsPool
<1>5. CASE Send \/ SendTimesOut
  <2>1. UNCHANGED <<batch, alloc, panicked, pc, output>>
    BY <1>5 DEF Send, SendTimesOut, workerVars
  <2>2. Records' \subseteq Records
    BY <1>5, SendMovesRecords, SendTimesOutMovesRecords DEF PoolInv
  <2> QED
    BY <1>3, <2>1, <2>2
<1>6. CASE OnInput
  <2>1. UNCHANGED <<alloc, panicked>> /\ pc = "select" /\ pc' = "transform"
    BY <1>6 DEF OnInput
  <2>2. Records' = Records
    BY <1>6, OnInputMovesRecords DEF PoolInv
  <2>3. \A p : CountLeft(p)' = CountLeft(p)
    BY <2>1 DEF CountLeft
  <2> QED
    BY <1>1, <2>1, <2>2, <2>3, PoolUnchanged
<1>7. CASE TransformDrops
  <2>1. /\ pc = "transform" /\ batch # <<>> /\ NextRecord /\ UNCHANGED <<parsed, inputChannel>>
        /\ alloc' = Release(alloc, Record) /\ panicked' = (alloc.ref[Record] < 1)
    BY <1>7 DEF TransformDrops, receiverVars, PoolInv, Types
  <2>2. alloc.ref[Record] > 0
    BY <2>1, PoolInvFacts DEF PoolInv, PoolOK, Record
  <2> QED
    BY <1>1, <2>1, <2>2, LastReleaseKeepsPool
<1>8. CASE TransformPasses
  <2>1. /\ UNCHANGED <<parsed, inputChannel, batch, alloc, panicked>>
        /\ pc = "transform" /\ pc' = "output" /\ output' = 1
    BY <1>8 DEF TransformPasses, receiverVars
  <2>2. Records' = Records
    BY <2>1 DEF Records
  <2>3. InitialRefCount \in Nat
    BY ConfigFacts
  <2>4. \A p : CountLeft(p)' = CountLeft(p)
    BY <2>1, <2>3 DEF CountLeft, InitialRefCount
  <2> QED
    BY <1>1, <2>1, <2>2, <2>4, PoolUnchanged
<1>9. CASE OutputRecord
  BY <1>1, <1>9, OutputKeepsPool
<1>10. CASE OnTick \/ OnStop \/ DestroyBufferer \/ CompleteReload
  BY <1>2, <1>10 DEF OnTick, OnStop, DestroyBufferer, CompleteReload, receiverVars
<1>11. CASE BeginReload \/ Shutdown \/ ClockTicks \/ Done \/ UNCHANGED vars
  <2>1. UNCHANGED <<parsed, inputChannel, batch, alloc, panicked, pc, output>>
    BY <1>11 DEF BeginReload, Shutdown, ClockTicks, Done, vars, receiverVars, workerVars
  <2>2. Records' = Records
    BY <2>1 DEF Records
  <2> QED
    BY <1>3, <2>1, <2>2
<1> QED
  BY <1>4, <1>5, <1>6, <1>7, <1>8, <1>9, <1>10, <1>11 DEF Next, Worker

\* The invariant says that the pools are sound.
LEMMA PoolInvSound == PoolInv => PoolIsSound
<1> SUFFICES ASSUME PoolInv PROVE PoolIsSound
  OBVIOUS
<1>1. PoolOK(alloc, Records) /\ ~panicked /\ InUse = {r[1] : r \in Records}
  BY RecordsAndObjects DEF PoolInv
<1>2. alloc.records \cap InUse = {} /\ \A o \in InUse : alloc.ref[o] > 0 /\ alloc.backbuf[o] \notin alloc.buffers
  BY <1>1 DEF PoolOK, PooledFree
<1>3. \A o \in alloc.records : alloc.ref[o] = 0 /\ alloc.fields[o] = NoFields /\ alloc.backbuf[o] = 0
  BY <1>1 DEF PoolOK, PooledEmpty
<1>4. \A o, p \in InUse : o # p /\ alloc.backbuf[o] # 0 => alloc.backbuf[o] # alloc.backbuf[p]
  BY <1>1 DEF PoolOK, OwnBuffers
<1>5. ASSUME NEW o \in InUse, alloc.backbuf[o] # 0
      PROVE  LengthOf[alloc.content[alloc.backbuf[o]]] <= alloc.size[alloc.backbuf[o]]
  <2>1. PICK r \in Records : o = r[1]
    BY <1>1
  <2>2. r[2] \in Log /\ alloc.content[alloc.backbuf[o]] = r[2] /\ LengthOf[r[2]] < alloc.size[alloc.backbuf[o]]
    BY <1>1, <1>5, <2>1, PoolInvFacts DEF PoolOK, Holds
  <2>3. LengthOf[r[2]] \in Nat /\ alloc.size[alloc.backbuf[o]] \in Nat
    <3>1. alloc \in PoolState /\ o \in Obj
      BY <1>1, <2>1, PoolInvFacts
    <3>2. alloc.backbuf[o] \in Buf
      BY <1>5, <3>1, PoolFields DEF PoolTypes
    <3> QED
      BY <2>2, <3>1, <3>2, PoolFields, PipelineAssumption DEF PoolTypes
  <2> QED
    BY <2>2, <2>3
<1> QED
  BY <1>1, <1>2, <1>3, <1>4, <1>5 DEF PoolIsSound, NeverPanics

\* The record pool over any number of records and reloads that add no output: no record is released
\* more often than it is counted for, so that LogAllocator.Release never panics; what is in the
\* pools is empty and in no one's hands; no buffer serves two records, and each is long enough.
THEOREM PoolStaysSound == OutputsDoNotGrow /\ Spec => []PoolIsSound
<1> SUFFICES ASSUME OutputsDoNotGrow PROVE Spec => []PoolIsSound
  OBVIOUS
<1>1. OutputsDoNotGrow /\ PoolInv /\ [Next]_vars => PoolInv'
  BY PoolInvNext
<1>2. PoolInv /\ [Next]_vars => PoolInv'
  BY <1>1
<1> QED
  BY <1>2, PoolInvInit, PoolInvSound, PTL DEF Spec

-----------------------------------------------------------------------------
(* Sums and streams *)

\* The recursion of FoldLeft over the first n numbers.
Summing(g, s, n) ==
    g = [T \in SUBSET (1..n) |-> IF T = {} THEN 0 ELSE g[T \ {Max(T)}] + s[Max(T)]]

\* That function for a sequence.
SumOf(s) == CHOOSE g : g = [T \in SUBSET DOMAIN s |-> IF T = {} THEN 0 ELSE g[T \ {Max(T)}] + s[Max(T)]]

\* Total is the value of that recursion at the whole domain.
LEMMA TotalDef == \A s : Total(s) = SumOf(s)[DOMAIN s]
  BY Zenon DEF Total, FoldLeft, MapThenFoldSet, SumOf

\* The last of some numbers is one of them.
LEMMA MaxIsIn ==
    /\ \A n \in Nat : \A T \in SUBSET (1..n) : T # {} => Max(T) \in T
    /\ \A n \in Nat : \A T \in SUBSET (1..n) : n \in T => Max(T) = n
<1>1. ASSUME NEW n \in Nat, NEW T \in SUBSET (1..n), T # {} PROVE Max(T) \in T
  <2> DEFINE S == {m \in Nat : \A x \in T : m >= x}
  <2>1. S \in SUBSET Nat /\ n \in S
    OBVIOUS
  <2>2. PICK m \in S : \A y \in S : m <= y
    BY <2>1, LeastExists
  <2>3. m \in T
    <3>1. SUFFICES ASSUME m \notin T PROVE FALSE
      OBVIOUS
    <3>2. \A x \in T : x \in Nat /\ m > x /\ x # 0
      BY <2>2, <3>1
    <3>3. m # 0 /\ m \in Nat
      <4>1. m \in Nat
        BY <2>2
      <4>2. \E x \in T : x \in 1..n /\ m > x
        BY <1>1, <3>2
      <4> QED
        BY <4>1, <4>2
    <3>4. m - 1 \in Nat /\ \A x \in T : m - 1 >= x
      BY <3>2, <3>3
    <3>5. m - 1 \in S /\ ~(m <= m - 1)
      BY <3>3, <3>4
    <3> QED
      BY <2>2, <3>5
  <2>4. \A x \in T : m >= x
    BY <2>2
  <2> QED
    BY <2>3, <2>4, Zenon DEF Max
<1>2. ASSUME NEW n \in Nat, NEW T \in SUBSET (1..n), n \in T PROVE Max(T) = n
  <2>1. n \in T /\ \A y \in T : n >= y
    <3>1. \A y \in 1..n : n >= y
      OBVIOUS
    <3> QED
      BY <1>2, <3>1
  <2>2. Max(T) \in T /\ \A y \in T : Max(T) >= y
    BY <2>1, Zenon DEF Max
  <2>3. Max(T) \in 1..n /\ Max(T) >= n
    BY <1>2, <2>2
  <2> QED
    BY <2>3
<1> QED
  BY <1>1, <1>2

\* There is a function that FoldLeft may choose.
LEMMA SummingExists == \A s : \A n \in Nat : \E g : Summing(g, s, n)
<1> SUFFICES ASSUME NEW s PROVE \A n \in Nat : \E g : Summing(g, s, n)
  OBVIOUS
<1> DEFINE P == {n \in Nat : \E g : Summing(g, s, n)}
<1>1. 0 \in P
  <2> DEFINE g == [T \in SUBSET (1..0) |-> 0]
  <2>1. \A T \in SUBSET (1..0) : T = {}
    OBVIOUS
  <2>2. g = [T \in SUBSET (1..0) |-> IF T = {} THEN 0 ELSE g[T \ {Max(T)}] + s[Max(T)]]
    BY <2>1
  <2> HIDE DEF g
  <2>3. Summing(g, s, 0)
    BY <2>2 DEF Summing
  <2> QED
    BY <2>3
<1>2. ASSUME NEW n \in Nat, n \in P PROVE n + 1 \in P
  <2>1. PICK f : Summing(f, s, n)
    BY <1>2
  <2> DEFINE g == [T \in SUBSET (1..(n + 1)) |-> IF n + 1 \in T THEN f[T \ {n + 1}] + s[n + 1] ELSE f[T]]
  <2>2. ASSUME NEW T \in SUBSET (1..(n + 1))
        PROVE  g[T] = IF T = {} THEN 0 ELSE g[T \ {Max(T)}] + s[Max(T)]
    <3>1. CASE n + 1 \in T
      <4>1. Max(T) = n + 1 /\ T \ {n + 1} \in SUBSET (1..(n + 1)) /\ n + 1 \notin T \ {n + 1}
        BY <3>1, MaxIsIn
      <4>2. g[T \ {n + 1}] = f[T \ {n + 1}]
        BY <4>1
      <4> QED
        BY <3>1, <4>1, <4>2
    <3>2. CASE n + 1 \notin T /\ T # {}
      <4>1. \A i \in 1..(n + 1) : i = n + 1 \/ i \in 1..n
        OBVIOUS
      <4>2. T \in SUBSET (1..n)
        BY <3>2, <4>1
      <4>3. Max(T) \in T
        BY <3>2, <4>2, MaxIsIn
      <4>4. f[T] = f[T \ {Max(T)}] + s[Max(T)]
        BY <2>1, <3>2, <4>2 DEF Summing
      <4>5. T \ {Max(T)} \in SUBSET (1..(n + 1)) /\ n + 1 \notin T \ {Max(T)}
        BY <3>2
      <4> QED
        BY <3>2, <4>4, <4>5
    <3>3. CASE T = {}
      <4>1. f[T] = 0
        BY <2>1, <3>3 DEF Summing
      <4> QED
        BY <3>3, <4>1
    <3> QED
      BY <3>1, <3>2, <3>3
  <2>3. g = [T \in SUBSET (1..(n + 1)) |-> IF T = {} THEN 0 ELSE g[T \ {Max(T)}] + s[Max(T)]]
    BY <2>2
  <2> HIDE DEF g
  <2>4. Summing(g, s, n + 1)
    BY <2>3 DEF Summing
  <2> QED
    BY <2>4
<1> HIDE DEF P
<1>3. Nat \subseteq P
  BY <1>1, <1>2, Induction
<1> QED
  BY <1>3 DEF P

\* A number more.
LEMMA TotalFacts ==
    /\ Total(<<>>) = 0
    /\ \A s \in Seq(Nat) : Total(s) \in Nat /\ \A k \in Nat : Total(Append(s, k)) = Total(s) + k
<1>1. ASSUME NEW s \in Seq(Nat)
      PROVE  /\ Summing(SumOf(s), s, Len(s))
             /\ SumOf(s)[1..0] = 0
             /\ \A i \in 1..Len(s) : SumOf(s)[1..i] = SumOf(s)[1..(i - 1)] + s[i]
  <2> DEFINE g == SumOf(s)
             n == Len(s)
  <2>1. DOMAIN s = 1..n /\ n \in Nat
    OBVIOUS
  <2>2. \E f : Summing(f, s, n)
    BY <2>1, SummingExists
  <2>3. Summing(g, s, n)
    BY <2>1, <2>2, Zenon DEF SumOf, Summing
  <2> HIDE DEF g, n
  <2>4. g[1..0] = 0
    <3>1. 1..0 = {} /\ {} \in SUBSET (1..n)
      OBVIOUS
    <3> QED
      BY <2>3, <3>1 DEF Summing
  <2>5. ASSUME NEW i \in 1..n PROVE g[1..i] = g[1..(i - 1)] + s[i]
    <3>1. i \in Nat /\ 1 <= i /\ i <= n /\ n \in Nat
      BY <2>1
    <3>2. 1..i \in SUBSET (1..n) /\ 1..i # {} /\ i \in 1..i /\ i \in Nat /\ 1..i \in SUBSET (1..i)
      <4>1. \A j \in 1..i : j \in 1..n
        BY <3>1
      <4> QED
        BY <3>1, <4>1
    <3>3. Max(1..i) = i
      BY <3>2, MaxIsIn
    <3>4. (1..i) \ {i} = 1..(i - 1)
      BY <3>2
    <3> QED
      BY <2>3, <3>2, <3>3, <3>4 DEF Summing
  <2> QED
    BY <2>3, <2>4, <2>5 DEF g, n
<1>2. ASSUME NEW s \in Seq(Nat) PROVE \A i \in 0..Len(s) : SumOf(s)[1..i] \in Nat
  <2> DEFINE P == {i \in Nat : i \in 0..Len(s) => SumOf(s)[1..i] \in Nat}
  <2>1. 0 \in P
    BY <1>1
  <2>2. ASSUME NEW i \in Nat, i \in P PROVE i + 1 \in P
    <3>1. SUFFICES ASSUME i + 1 \in 0..Len(s) PROVE SumOf(s)[1..(i + 1)] \in Nat
      OBVIOUS
    <3>2. i \in 0..Len(s) /\ i + 1 \in 1..Len(s) /\ (i + 1) - 1 = i /\ s[i + 1] \in Nat
      BY <3>1
    <3>3. SumOf(s)[1..i] \in Nat
      BY <2>2, <3>2
    <3>4. SumOf(s)[1..(i + 1)] = SumOf(s)[1..((i + 1) - 1)] + s[i + 1]
      BY <1>1, <3>2
    <3> QED
      BY <3>2, <3>3, <3>4
  <2> HIDE DEF P
  <2>3. Nat \subseteq P
    BY <2>1, <2>2, Induction
  <2> QED
    BY <2>3 DEF P
<1>3. ASSUME NEW s \in Seq(Nat) PROVE Total(s) = SumOf(s)[1..Len(s)]
  BY TotalDef
<1>4. Total(<<>>) = 0
  <2>1. <<>> \in Seq(Nat) /\ Len(<<>>) = 0
    OBVIOUS
  <2>2. Total(<<>>) = SumOf(<<>>)[1..0]
    BY <1>3, <2>1
  <2> QED
    BY <1>1, <2>1, <2>2
<1>5. ASSUME NEW s \in Seq(Nat), NEW k \in Nat PROVE Total(Append(s, k)) = Total(s) + k
  <2> DEFINE t == Append(s, k)
             n == Len(s)
             f == SumOf(s)
             g == SumOf(t)
  <2>1. t \in Seq(Nat) /\ n \in Nat /\ Len(t) = n + 1 /\ t[n + 1] = k /\ \A i \in 1..n : t[i] = s[i]
    OBVIOUS
  <2>2. /\ f[1..0] = 0 /\ \A i \in 1..n : f[1..i] = f[1..(i - 1)] + s[i]
        /\ g[1..0] = 0 /\ \A i \in 1..(n + 1) : g[1..i] = g[1..(i - 1)] + t[i]
    <3>1. /\ g[1..0] = 0 /\ \A i \in 1..Len(t) : g[1..i] = g[1..(i - 1)] + t[i]
      <4> HIDE DEF t
      <4> QED
        BY <1>1, <2>1
    <3> HIDE DEF g, t
    <3> QED
      BY <1>1, <2>1, <3>1
  <2>3. Total(s) = f[1..n] /\ Total(t) = g[1..(n + 1)]
    <3> HIDE DEF t
    <3> QED
      BY <1>3, <2>1
  <2> HIDE DEF f, g, t, n
  <2> DEFINE P == {i \in Nat : i \in 0..n => f[1..i] = g[1..i]}
  <2>4. 0 \in P
    BY <2>2
  <2>5. ASSUME NEW i \in Nat, i \in P PROVE i + 1 \in P
    <3>1. SUFFICES ASSUME i + 1 \in 0..n PROVE f[1..(i + 1)] = g[1..(i + 1)]
      OBVIOUS
    <3>2. i \in 0..n /\ i + 1 \in 1..n /\ i + 1 \in 1..(n + 1) /\ (i + 1) - 1 = i
      BY <2>1, <3>1
    <3>3. f[1..i] = g[1..i] /\ t[i + 1] = s[i + 1]
      BY <2>1, <2>5, <3>2
    <3>4. f[1..(i + 1)] = f[1..((i + 1) - 1)] + s[i + 1] /\ g[1..(i + 1)] = g[1..((i + 1) - 1)] + t[i + 1]
      BY <2>2, <3>2
    <3> QED
      BY <3>2, <3>3, <3>4
  <2> HIDE DEF P
  <2>6. Nat \subseteq P
    BY <2>4, <2>5, Induction
  <2>7. f[1..n] = g[1..n]
    BY <2>1, <2>6 DEF P
  <2>8. g[1..(n + 1)] = g[1..n] + k
    <3>1. n + 1 \in 1..(n + 1) /\ (n + 1) - 1 = n
      BY <2>1
    <3>2. g[1..(n + 1)] = g[1..((n + 1) - 1)] + t[n + 1]
      BY <2>2, <3>1
    <3> QED
      BY <2>1, <3>1, <3>2
  <2> QED
    BY <2>3, <2>7, <2>8 DEF t
<1>6. ASSUME NEW s \in Seq(Nat) PROVE Total(s) \in Nat
  BY <1>2, <1>3
<1> QED
  BY <1>4, <1>5, <1>6

-----------------------------------------------------------------------------
(* What is written for a log, and what packers write *)

\* The stream an output makes of a log, empty if it refuses the event; streams, and tokens.
StreamFor(n, log) ==
    [id |-> log, len |-> EventLength(n, log), mark |-> "", fields |-> ExpectedFields(n, log)]
Stream1 == {StreamFor(n, log) : n \in OutputNames, log \in Log}
Marks == {Mark("["), Mark(","), Mark("]")}
Token == Stream1 \cup Marks

\* The parts of a stream.
LEMMA StreamParts ==
    \A n, log : /\ StreamFor(n, log).id = log /\ StreamFor(n, log).len = EventLength(n, log)
                /\ StreamFor(n, log).mark = "" /\ StreamFor(n, log).fields = ExpectedFields(n, log)
  BY DEF StreamFor

\* A stream has the ID of its log, and a mark none.
LEMMA TokenFacts ==
    /\ \A t \in Token : t.id \in Nat /\ t.len \in Nat
    /\ \A t \in Token : t.id # 0 => t.id \in Log /\ t \in Stream1
    /\ \A t \in Stream1 : t \in Token /\ t.id \in Log /\ t.id # 0 /\ t.mark = "" /\ t.len \in Nat
    /\ \A m \in {"[", ",", "]"} : Mark(m) \in Token /\ Mark(m).id = 0 /\ Mark(m).mark = m /\ Mark(m).len = 1
<1>1. \A log \in Log : log \in Nat /\ log # 0 /\ LengthOf[log] \in Nat
  BY PipelineAssumption DEF Log
<1>2. \A t \in Stream1 : t \in Token /\ t.id \in Log /\ t.id # 0 /\ t.mark = "" /\ t.len \in Nat
  <2> SUFFICES ASSUME NEW t \in Stream1 PROVE t.id \in Log /\ t.id # 0 /\ t.mark = "" /\ t.len \in Nat
    BY DEF Token
  <2>1. PICK n \in OutputNames, log \in Log : t = StreamFor(n, log)
    BY DEF Stream1
  <2>2. t.id = log /\ t.len = EventLength(n, log) /\ t.mark = ""
    BY <2>1, StreamParts
  <2>3. EventLength(n, log) \in Nat
    BY <1>1 DEF EventLength
  <2> QED
    BY <1>1, <2>2, <2>3
<1>3. \A m \in {"[", ",", "]"} : Mark(m) \in Token /\ Mark(m).id = 0 /\ Mark(m).mark = m /\ Mark(m).len = 1
  BY DEF Token, Marks, Mark
<1>4. ASSUME NEW t \in Marks
      PROVE  t.id = 0 /\ t.len = 1
  <2>1. \A m : Mark(m).id = 0 /\ Mark(m).len = 1
    BY DEF Mark
  <2>2. t = Mark("[") \/ t = Mark(",") \/ t = Mark("]")
    BY DEF Marks
  <2> QED
    BY <2>1, <2>2
<1>5. ASSUME NEW t \in Token
      PROVE  t.id \in Nat /\ t.len \in Nat /\ (t.id # 0 => t.id \in Log /\ t \in Stream1)
  <2>1. CASE t \in Stream1
    BY <1>1, <1>2, <2>1
  <2>2. CASE t \in Marks
    BY <1>4, <2>2
  <2> QED
    BY <2>1, <2>2 DEF Token
<1> QED
  BY <1>2, <1>3, <1>5

\* What is a sequence.
LEMMA IsSequence ==
    ASSUME NEW S, NEW n \in Nat, NEW f, f = [i \in 1..n |-> f[i]], \A i \in 1..n : f[i] \in S
    PROVE  f \in Seq(S) /\ Len(f) = n
  OBVIOUS

\* A sequence that is another one with an element more.
LEMMA AppendIs ==
    ASSUME NEW S, NEW q \in Seq(S), NEW r \in Seq(S), NEW x \in S, Len(r) = Len(q) + 1,
           \A i \in 1..Len(q) : r[i] = q[i], r[Len(q) + 1] = x
    PROVE  r = Append(q, x)
<1> DEFINE n == Len(q)
<1>1. n \in Nat /\ DOMAIN r = 1..(n + 1) /\ DOMAIN Append(q, x) = 1..(n + 1)
  OBVIOUS
<1>2. \A i \in 1..(n + 1) : r[i] = Append(q, x)[i]
  OBVIOUS
<1> QED
  BY <1>1, <1>2

\* The tokens that are streams, and the lengths.
Picked(w) == [i \in DOMAIN w |-> IF w[i].id # 0 THEN <<w[i]>> ELSE <<>>]
Lengths(w) == [i \in DOMAIN w |-> w[i].len]

\* Both have one item for each token, and StreamsOf and BytesOf are made of them.
LEMMA PickedAndLengths ==
    ASSUME NEW S, NEW w \in Seq(S), \A t \in S : t.len \in Nat
    PROVE  /\ Picked(w) \in Seq(Seq(S)) /\ Len(Picked(w)) = Len(w)
           /\ Lengths(w) \in Seq(Nat) /\ Len(Lengths(w)) = Len(w)
           /\ StreamsOf(w) = FlattenSeq(Picked(w)) /\ BytesOf(w) = Total(Lengths(w))
<1> DEFINE n == Len(w)
           p == Picked(w)
           l == Lengths(w)
<1>1. n \in Nat /\ DOMAIN w = 1..n /\ \A i \in 1..n : w[i] \in S
  OBVIOUS
<1>2. p = [i \in 1..n |-> p[i]] /\ l = [i \in 1..n |-> l[i]]
  BY <1>1 DEF Picked, Lengths
<1>3. \A i \in 1..n : p[i] \in Seq(S) /\ l[i] \in Nat
  <2>1. \A x \in S : <<x>> \in Seq(S) /\ <<>> \in Seq(S)
    OBVIOUS
  <2> QED
    BY <1>1, <2>1 DEF Picked, Lengths
<1> HIDE DEF p, l, n
<1>4. p \in Seq(Seq(S)) /\ Len(p) = n
  BY <1>1, <1>2, <1>3, IsSequence
<1>5. l \in Seq(Nat) /\ Len(l) = n
  BY <1>1, <1>2, <1>3, IsSequence
<1> QED
  BY <1>4, <1>5 DEF p, l, n, StreamsOf, BytesOf, Picked, Lengths

\* Streams and bytes of one token more.
LEMMA OneMoreToken ==
    ASSUME NEW w \in Seq(Token), NEW t \in Token
    PROVE  /\ Append(w, t) \in Seq(Token) /\ StreamsOf(w) \in Seq(Token)
           /\ StreamsOf(Append(w, t)) = IF t.id # 0 THEN Append(StreamsOf(w), t) ELSE StreamsOf(w)
           /\ BytesOf(w) \in Nat /\ BytesOf(Append(w, t)) = BytesOf(w) + t.len
<1> DEFINE n == Len(w)
           v == Append(w, t)
           x == IF t.id # 0 THEN <<t>> ELSE <<>>
<1>1. /\ n \in Nat /\ v \in Seq(Token) /\ Len(v) = n + 1 /\ v[n + 1] = t
      /\ \A i \in 1..n : v[i] = w[i] /\ w[i] \in Token
      /\ DOMAIN w = 1..n /\ DOMAIN v = 1..(n + 1)
  OBVIOUS
<1>2. x \in Seq(Token)
  OBVIOUS
<1> HIDE DEF v
<1>3. /\ Picked(w) \in Seq(Seq(Token)) /\ Len(Picked(w)) = n
      /\ Lengths(w) \in Seq(Nat) /\ Len(Lengths(w)) = n
      /\ StreamsOf(w) = FlattenSeq(Picked(w)) /\ BytesOf(w) = Total(Lengths(w))
  BY PickedAndLengths, TokenFacts
<1>4. /\ Picked(v) \in Seq(Seq(Token)) /\ Len(Picked(v)) = n + 1
      /\ Lengths(v) \in Seq(Nat) /\ Len(Lengths(v)) = n + 1
      /\ StreamsOf(v) = FlattenSeq(Picked(v)) /\ BytesOf(v) = Total(Lengths(v))
  BY <1>1, PickedAndLengths, TokenFacts
<1> HIDE DEF n
<1>5. /\ \A i \in 1..n : Picked(v)[i] = Picked(w)[i] /\ Lengths(v)[i] = Lengths(w)[i]
      /\ Picked(v)[n + 1] = x /\ Lengths(v)[n + 1] = t.len
  <2>1. n + 1 \in 1..(n + 1) /\ \A i \in 1..n : i \in 1..(n + 1)
    BY <1>1
  <2> QED
    BY <1>1, <2>1 DEF Picked, Lengths
<1> HIDE DEF x
<1>6. Picked(v) = Append(Picked(w), x)
  BY <1>2, <1>3, <1>4, <1>5, AppendIs
<1>7. Lengths(v) = Append(Lengths(w), t.len) /\ t.len \in Nat
  <2>1. t.len \in Nat
    BY TokenFacts
  <2> QED
    BY <1>3, <1>4, <1>5, <2>1, AppendIs
<1>8. StreamsOf(v) = StreamsOf(w) \o x /\ StreamsOf(w) \in Seq(Token)
  <2>1. FlattenSeq(Append(Picked(w), x)) = FlattenSeq(Picked(w)) \o x
    BY <1>2, <1>3, FlattenAppend
  <2>2. FlattenSeq(Picked(w)) \in Seq(Token)
    BY <1>3, FlattenFacts
  <2> QED
    BY <1>3, <1>4, <1>6, <2>1, <2>2
<1>9. StreamsOf(w) \o x = IF t.id # 0 THEN Append(StreamsOf(w), t) ELSE StreamsOf(w)
  <2>1. \A s \in Seq(Token) : s \o <<t>> = Append(s, t) /\ s \o <<>> = s
    OBVIOUS
  <2> QED
    BY <1>8, <2>1 DEF x
<1>10. BytesOf(w) \in Nat /\ BytesOf(v) = BytesOf(w) + t.len
  BY <1>3, <1>4, <1>7, TotalFacts
<1> QED
  BY <1>1, <1>8, <1>9, <1>10 DEF v

\* No tokens.
LEMMA NoTokens == <<>> \in Seq(Token) /\ StreamsOf(<<>>) = <<>> /\ BytesOf(<<>>) = 0 /\ LogsIn(<<>>) = <<>>
<1>1. DOMAIN <<>> = {} /\ <<>> \in Seq(Token) /\ \A f : f \in Seq({}) /\ Len(f) = 0 => f = <<>>
  OBVIOUS
<1>2. [i \in DOMAIN <<>> |-> IF <<>>[i].id # 0 THEN << <<>>[i] >> ELSE <<>>] = <<>>
  BY <1>1
<1>3. [i \in DOMAIN <<>> |-> <<>>[i].len] = <<>> /\ [i \in DOMAIN <<>> |-> <<>>[i].id] = <<>>
  BY <1>1
<1>4. FlattenSeq(<<>>) = <<>>
  BY FlattenDef
<1>5. StreamsOf(<<>>) = <<>>
  BY <1>2, <1>4 DEF StreamsOf
<1>6. BytesOf(<<>>) = 0
  BY <1>3, TotalFacts DEF BytesOf
<1> QED
  BY <1>1, <1>3, <1>5, <1>6 DEF LogsIn

\* The logs of streams.
IDsOf(s) == [i \in DOMAIN s |-> s[i].id]

\* They are logs, one for each stream.
LEMMA IDsOfStreams ==
    ASSUME NEW s \in Seq(Stream1)
    PROVE  IDsOf(s) \in Seq(Log) /\ Len(IDsOf(s)) = Len(s)
<1> DEFINE n == Len(s)
           f == IDsOf(s)
<1>1. n \in Nat /\ DOMAIN s = 1..n /\ \A i \in 1..n : s[i] \in Stream1
  OBVIOUS
<1>2. f = [i \in 1..n |-> f[i]] /\ \A i \in 1..n : f[i] \in Log
  <2>1. \A x \in Stream1 : x.id \in Log
    BY TokenFacts
  <2> QED
    BY <1>1, <2>1 DEF IDsOf
<1> HIDE DEF f, n
<1>3. f \in Seq(Log) /\ Len(f) = n
  BY <1>1, <1>2, IsSequence
<1> QED
  BY <1>3 DEF f, n

\* The streams among some tokens are of those tokens.
LEMMA StreamsAmong ==
    ASSUME NEW T, T \subseteq Token, NEW w \in Seq(T)
    PROVE  StreamsOf(w) \in Seq({t \in T : t.id # 0})
<1> DEFINE S == {t \in T : t.id # 0}
<1> DEFINE p == Picked(w)
           n == Len(w)
<1>1. Len(p) = n /\ StreamsOf(w) = FlattenSeq(p)
  <2>1. w \in Seq(Token)
    OBVIOUS
  <2> QED
    BY <2>1, PickedAndLengths, TokenFacts
<1>2. n \in Nat /\ DOMAIN w = 1..n /\ \A i \in 1..n : w[i] \in T
  OBVIOUS
<1>3. \A t \in T : t.id # 0 => t \in S
  OBVIOUS
<1> HIDE DEF S
<1>4. \A x \in S : <<x>> \in Seq(S)
  OBVIOUS
<1>5. \A i \in 1..n : p[i] \in Seq(S)
  <2> SUFFICES ASSUME NEW i \in 1..n PROVE p[i] \in Seq(S)
    OBVIOUS
  <2>1. CASE w[i].id # 0
    <3>1. p[i] = <<w[i]>> /\ w[i] \in S
      BY <1>2, <1>3, <2>1 DEF Picked
    <3> QED
      BY <1>4, <3>1
  <2>2. CASE w[i].id = 0
    BY <1>2, <2>2 DEF Picked
  <2> QED
    BY <2>1, <2>2
<1>6. p = [i \in 1..n |-> p[i]]
  BY <1>2 DEF Picked
<1> HIDE DEF p, n
<1>7. p \in Seq(Seq(S))
  BY <1>2, <1>5, <1>6, IsSequence
<1>8. FlattenSeq(p) \in Seq(S)
  BY <1>7, FlattenFacts
<1> QED
  BY <1>1, <1>8 DEF S

\* Of tokens in general, they are streams.
LEMMA StreamsOnly == \A w \in Seq(Token) : StreamsOf(w) \in Seq(Stream1)
<1> SUFFICES ASSUME NEW w \in Seq(Token) PROVE StreamsOf(w) \in Seq(Stream1)
  OBVIOUS
<1>1. StreamsOf(w) \in Seq({t \in Token : t.id # 0})
  BY StreamsAmong
<1>2. {t \in Token : t.id # 0} \subseteq Stream1
  BY TokenFacts
<1>3. ASSUME NEW S, NEW T, S \subseteq T, NEW q \in Seq(S) PROVE q \in Seq(T)
  BY <1>3
<1> QED
  BY <1>1, <1>2, <1>3

\* The logs whose streams are written.
LEMMA OneMoreLog ==
    ASSUME NEW w \in Seq(Token)
    PROVE  /\ LogsIn(w) \in Seq(Log) /\ Len(LogsIn(w)) = Len(StreamsOf(w))
           /\ \A t \in Stream1 : LogsIn(Append(w, t)) = Append(LogsIn(w), t.id)
           /\ \A m \in {"[", ",", "]"} : LogsIn(Append(w, Mark(m))) = LogsIn(w)
<1>1. StreamsOf(w) \in Seq(Stream1)
  BY StreamsOnly
<1>2. \A t : LogsIn(t) = IDsOf(StreamsOf(t))
  BY DEF LogsIn, IDsOf
<1>3. ASSUME NEW x \in Stream1 PROVE LogsIn(Append(w, x)) = Append(LogsIn(w), x.id)
  <2> DEFINE q == StreamsOf(w)
             r == Append(q, x)
             log == x.id
  <2>1. StreamsOf(Append(w, x)) = r
    <3>1. x \in Token /\ x.id # 0
      BY TokenFacts
    <3> QED
      BY <3>1, OneMoreToken
  <2>2. x \in Stream1 /\ x.id = log /\ log \in Log
    BY TokenFacts
  <2> HIDE DEF q, log
  <2>3. /\ r \in Seq(Stream1) /\ Len(r) = Len(q) + 1 /\ r[Len(q) + 1] = x /\ Len(q) \in Nat
        /\ \A i \in 1..Len(q) : r[i] = q[i]
        /\ DOMAIN q = 1..Len(q) /\ DOMAIN r = 1..(Len(q) + 1)
    BY <1>1, <2>2 DEF q
  <2> HIDE DEF r
  <2>4. /\ IDsOf(q) \in Seq(Log) /\ IDsOf(r) \in Seq(Log)
        /\ Len(IDsOf(q)) = Len(q) /\ Len(IDsOf(r)) = Len(q) + 1
    BY <1>1, <2>3, IDsOfStreams DEF q
  <2>5. (\A i \in 1..Len(q) : IDsOf(r)[i] = IDsOf(q)[i]) /\ IDsOf(r)[Len(q) + 1] = log
    <3>1. Len(q) + 1 \in 1..(Len(q) + 1) /\ \A i \in 1..Len(q) : i \in 1..(Len(q) + 1)
      BY <2>3
    <3> QED
      BY <2>2, <2>3, <3>1 DEF IDsOf
  <2>6. IDsOf(r) = Append(IDsOf(q), log)
    BY <2>4, <2>5, AppendIs
  <2> QED
    BY <1>2, <2>1, <2>6 DEF q, log
<1>4. ASSUME NEW m \in {"[", ",", "]"} PROVE LogsIn(Append(w, Mark(m))) = LogsIn(w)
  <2>1. Mark(m) \in Token /\ Mark(m).id = 0
    BY TokenFacts
  <2>2. StreamsOf(Append(w, Mark(m))) = StreamsOf(w)
    BY <2>1, OneMoreToken
  <2> QED
    BY <1>2, <2>2
<1>5. LogsIn(w) \in Seq(Log) /\ Len(LogsIn(w)) = Len(StreamsOf(w))
  BY <1>1, <1>2, IDsOfStreams
<1> QED
  BY <1>3, <1>4, <1>5

-----------------------------------------------------------------------------
(* Packers *)

\* What a packer may be asked to write, and the chunks it may make.
ID == Nat \X Nat
Chunk == [id : ID, size : Nat, data : Seq(Token)]

\* The mark at a place of a JSON array that has not been closed.
MarkAt(i) == IF i = 1 THEN "[" ELSE IF i % 2 = 0 THEN "" ELSE ","

\* What n records leave in the write buffer, and the bytes counted for them.  A stream of Datadog
\* counts the comma before the next one.
ShapeFluentd(n, bytes, w) ==
    n = Len(StreamsOf(w)) /\ bytes = BytesOf(w) /\ StreamsOf(w) = w

ShapeDatadog(n, bytes, w) ==
    /\ n = Len(StreamsOf(w)) /\ bytes = BytesOf(w) + (IF n = 0 THEN 0 ELSE 1)
    /\ Len(w) = IF n = 0 THEN 1 ELSE 2 * n
    /\ \A i \in 1..Len(w) : w[i].mark = MarkAt(i)

Shape(format, n, bytes, w) ==
    IF format = "datadog" THEN ShapeDatadog(n, bytes, w) ELSE ShapeFluentd(n, bytes, w)

Limited(n, bytes) ==
    n > 1 => (MaxRecords > 0 => n <= MaxRecords) /\ (MaxBytes > 0 => bytes <= MaxBytes)

\* A packer made of its parts.
Packer(format, id, n, bytes, w, time, sequence) ==
    [format |-> format, current |-> [id |-> id, numRecords |-> n, numBytes |-> bytes],
     written |-> w, epochNano |-> time, sequence |-> sequence]

\* A packer between two records has no chunk, or one with records.
Idle(p, format, time, sequence) == p = Packer(format, <<0, 0>>, 0, 0, <<>>, time, sequence)

Holding(p, format, id, time, sequence, n, bytes, w) ==
    /\ p = Packer(format, id, n, bytes, w, time, sequence)
    /\ Shape(format, n, bytes, w) /\ Limited(n, bytes)

Packs(p, format, id, time, sequence, logs) ==
    \E n \in Nat \ {0}, bytes \in Nat, w \in Seq(Token) :
       Holding(p, format, id, time, sequence, n, bytes, w) /\ LogsIn(w) = logs

\* Twice a number, and the next ones.
LEMMA Halves ==
    \A n \in Nat : /\ 2 * n \in Nat /\ 2 * (n + 1) = (2 * n + 1) + 1
                   /\ (2 * n) % 2 = 0 /\ (2 * n + 1) % 2 = 1 /\ ((2 * n + 1) + 1) % 2 = 0
                   /\ (2 * n + 1) + 1 # 1 /\ (n # 0 => 2 * n + 1 # 1)
  OBVIOUS

\* A token more has the place after the last.
LEMMA MarkedToTheEnd ==
    ASSUME NEW m \in Nat, NEW w \in Seq(Token), Len(w) = m, NEW t \in Token,
           \A i \in 1..m : w[i].mark = MarkAt(i), t.mark = MarkAt(m + 1)
    PROVE  /\ Append(w, t) \in Seq(Token) /\ Len(Append(w, t)) = m + 1
           /\ \A i \in 1..(m + 1) : Append(w, t)[i].mark = MarkAt(i)
<1> DEFINE v == Append(w, t)
<1>1. /\ v \in Seq(Token) /\ Len(v) = m + 1 /\ v[m + 1] = t /\ \A i \in 1..m : v[i] = w[i]
  OBVIOUS
<1>2. \A i \in 1..(m + 1) : i \in 1..m \/ i = m + 1
  OBVIOUS
<1> HIDE DEF v
<1>3. \A i \in 1..(m + 1) : v[i].mark = MarkAt(i)
  BY <1>1, <1>2
<1> QED
  BY <1>1, <1>3 DEF v

\* A stream of fluentdforward.
LEMMA FluentdShape ==
    ASSUME NEW n \in Nat, NEW bytes \in Nat, NEW w \in Seq(Token), ShapeFluentd(n, bytes, w),
           NEW t \in Token, t.id # 0
    PROVE  ShapeFluentd(n + 1, bytes + t.len, Append(w, t)) /\ Append(w, t) \in Seq(Token)
<1>1. /\ Append(w, t) \in Seq(Token) /\ StreamsOf(Append(w, t)) = Append(StreamsOf(w), t)
      /\ StreamsOf(w) \in Seq(Token) /\ BytesOf(Append(w, t)) = BytesOf(w) + t.len
  BY OneMoreToken
<1>2. n = Len(StreamsOf(w)) /\ bytes = BytesOf(w) /\ StreamsOf(w) = w
  BY DEF ShapeFluentd
<1>3. Len(Append(w, t)) = Len(w) + 1
  OBVIOUS
<1> QED
  BY <1>1, <1>2, <1>3 DEF ShapeFluentd

\* A stream of datadog, after the comma that the one before asks for.
IsStream(t) == t \in Token /\ t.id # 0 /\ t.mark = ""

\* The comma before a record that is not the first.
Commas(n, w) == IF n # 0 THEN Append(w, Mark(",")) ELSE w

\* A comma, if there is a record before it, has the place of a comma.
LEMMA CommaShape ==
    ASSUME NEW n \in Nat, NEW bytes \in Nat, NEW w \in Seq(Token), ShapeDatadog(n, bytes, w),
           NEW c, c = Commas(n, w), NEW m, m = 2 * n + 1
    PROVE  /\ c \in Seq(Token) /\ StreamsOf(c) = StreamsOf(w) /\ BytesOf(c) = bytes
           /\ m \in Nat /\ Len(c) = m /\ \A i \in 1..m : c[i].mark = MarkAt(i)
<1>1. m \in Nat
  BY Halves
<1>2. CASE n = 0
  <2>1. c = w /\ m = 1
    BY <1>2 DEF Commas
  <2>2. Len(w) = 1 /\ \A i \in 1..Len(w) : w[i].mark = MarkAt(i)
    BY <1>2 DEF ShapeDatadog
  <2>3. BytesOf(w) \in Nat
    BY NoTokens, TokenFacts, OneMoreToken
  <2>4. bytes = BytesOf(w)
    BY <1>2, <2>3 DEF ShapeDatadog
  <2> QED
    BY <1>1, <2>1, <2>2, <2>4
<1>3. CASE n # 0
  <2> DEFINE k == 2 * n
             comma == Mark(",")
  <2>1. comma \in Token /\ comma.id = 0 /\ comma.len = 1 /\ comma.mark = ","
    BY TokenFacts
  <2>2. k \in Nat /\ m = k + 1 /\ m # 1 /\ m % 2 = 1
    BY <1>3, Halves
  <2>3. bytes = BytesOf(w) + 1 /\ Len(w) = k /\ \A i \in 1..Len(w) : w[i].mark = MarkAt(i)
    BY <1>3 DEF ShapeDatadog
  <2>4. c = Append(w, comma)
    BY <1>3 DEF Commas
  <2> HIDE DEF k, comma
  <2>5. comma.mark = MarkAt(k + 1)
    <3>1. MarkAt(m) = ","
      BY <2>2 DEF MarkAt
    <3> QED
      BY <2>1, <2>2, <3>1
  <2>6. Append(w, comma) \in Seq(Token) /\ StreamsOf(Append(w, comma)) = StreamsOf(w)
        /\ BytesOf(Append(w, comma)) = BytesOf(w) + 1
    BY <2>1, OneMoreToken
  <2>7. Len(Append(w, comma)) = k + 1 /\ \A i \in 1..(k + 1) : Append(w, comma)[i].mark = MarkAt(i)
    <3>1. \A i \in 1..k : w[i].mark = MarkAt(i)
      BY <2>3
    <3> QED
      BY <2>1, <2>2, <2>3, <2>5, <3>1, MarkedToTheEnd
  <2> QED
    BY <1>1, <2>2, <2>3, <2>4, <2>6, <2>7
<1> QED
  BY <1>2, <1>3

\* Datadog counts a byte and the stream for a record.
LEMMA DatadogShape ==
    ASSUME NEW n \in Nat, NEW bytes \in Nat, NEW w \in Seq(Token), ShapeDatadog(n, bytes, w),
           NEW t, IsStream(t)
    PROVE  /\ ShapeDatadog(n + 1, bytes + 1 + t.len, Append(Commas(n, w), t))
           /\ Append(Commas(n, w), t) \in Seq(Token)
<1> SUFFICES ASSUME NEW c, c = Commas(n, w), NEW m, m = 2 * n + 1, NEW s, s = StreamsOf(w),
                    NEW v, v = Append(c, t), NEW size, size = t.len
             PROVE  ShapeDatadog(n + 1, bytes + 1 + size, v) /\ v \in Seq(Token)
  OBVIOUS
<1>1. /\ c \in Seq(Token) /\ StreamsOf(c) = s /\ BytesOf(c) = bytes
      /\ m \in Nat /\ Len(c) = m /\ \A i \in 1..m : c[i].mark = MarkAt(i)
  BY CommaShape
<1>2. size \in Nat /\ s \in Seq(Token)
  BY TokenFacts, OneMoreToken DEF IsStream
<1>3. t \in Token
  BY DEF IsStream
<1>4. StreamsOf(Append(c, t)) = Append(StreamsOf(c), t) /\ Append(c, t) \in Seq(Token)
      /\ BytesOf(Append(c, t)) = BytesOf(c) + t.len
  <2>1. t.id # 0
    BY DEF IsStream
  <2> QED
    BY <1>1, <1>3, <2>1, OneMoreToken
<1>5. 2 * (n + 1) = m + 1 /\ (m + 1) % 2 = 0 /\ m + 1 # 1
  BY Halves
<1>6. n = Len(s)
  BY DEF ShapeDatadog
<1>7. t.mark = MarkAt(m + 1)
  <2>1. MarkAt(m + 1) = ""
    BY <1>5 DEF MarkAt
  <2> QED
    BY <2>1 DEF IsStream
<1>8. v \in Seq(Token) /\ StreamsOf(v) = Append(s, t) /\ BytesOf(v) = bytes + size
  BY <1>1, <1>4
<1>9. Len(v) = m + 1 /\ \A i \in 1..(m + 1) : v[i].mark = MarkAt(i)
  BY <1>1, <1>7, <1>3, MarkedToTheEnd
<1>10. n + 1 = Len(StreamsOf(v)) /\ n + 1 # 0
  <2>1. Len(Append(s, t)) = Len(s) + 1
    BY <1>2, <1>3
  <2> QED
    BY <1>6, <1>8, <2>1
<1>11. bytes + 1 + size = BytesOf(v) + 1
  BY <1>2, <1>8
<1>12. Len(v) = 2 * (n + 1) /\ \A i \in 1..Len(v) : v[i].mark = MarkAt(i)
  BY <1>5, <1>9
<1>13. ShapeDatadog(n + 1, bytes + 1 + size, v)
  BY <1>10, <1>11, <1>12 DEF ShapeDatadog
<1> QED
  BY <1>8, <1>13

\* Setting the counts of a chunk, and with them the write buffer.
Counts(id, n, bytes) == [id |-> id, numRecords |-> n, numBytes |-> bytes]

\* What Write changes: the counts of the chunk, and with them the write buffer.
SetCounts(c, n, bytes) == [c EXCEPT !.numRecords = n, !.numBytes = bytes]
SetWritten(p, w, n, bytes) == [p EXCEPT !.written = w, !.current.numRecords = n, !.current.numBytes = bytes]

\* The counts of a chunk are set together.
LEMMA CountsSet == \A id, n, bytes, m, k : SetCounts(Counts(id, n, bytes), m, k) = Counts(id, m, k)
<1> SUFFICES ASSUME NEW id, NEW n, NEW bytes, NEW m, NEW k, NEW c, c = Counts(id, n, bytes),
                    NEW d, d = SetCounts(c, m, k)
             PROVE  d = Counts(id, m, k)
  OBVIOUS
<1> QED
  BY DEF Counts, SetCounts

\* So are the counts and the buffer of a packer.
LEMMA WrittenSet ==
    \A format, id, n, bytes, w, time, sequence, v, m, k :
       SetWritten(Packer(format, id, n, bytes, w, time, sequence), v, m, k)
         = Packer(format, id, m, k, v, time, sequence)
<1> SUFFICES ASSUME NEW format, NEW id, NEW n, NEW bytes, NEW w, NEW time, NEW sequence,
                    NEW v, NEW m, NEW k, NEW p, p = Packer(format, id, n, bytes, w, time, sequence),
                    NEW q, q = SetWritten(p, v, m, k)
             PROVE  q = Packer(format, id, m, k, v, time, sequence)
  OBVIOUS
<1>1. p.current = Counts(id, n, bytes)
  BY DEF Packer, Counts
<1>2. q = [p EXCEPT !.written = v, !.current = SetCounts(p.current, m, k)]
  BY DEF SetWritten, SetCounts
<1>3. SetCounts(p.current, m, k) = Counts(id, m, k)
  BY <1>1, CountsSet
<1>4. q = [p EXCEPT !.written = v, !.current = Counts(id, m, k)]
  BY <1>2, <1>3, Zenon
<1>5. q = [format |-> format, current |-> Counts(id, m, k), written |-> v, epochNano |-> time,
           sequence |-> sequence]
  BY <1>4 DEF Packer
<1> QED
  BY <1>5 DEF Packer, Counts

\* Write of both formats.
LEMMA WriteMakes ==
    ASSUME NEW format, NEW id, NEW n \in Nat, NEW bytes \in Nat, NEW w \in Seq(Token), NEW time, NEW sequence,
           NEW t, IsStream(t), NEW p, p = Packer(format, id, n, bytes, w, time, sequence)
    PROVE  Write(p, t) =
             IF format = "datadog"
             THEN Packer(format, id, n + 1, bytes + 1 + t.len, Append(Commas(n, w), t), time, sequence)
             ELSE Packer(format, id, n + 1, bytes + t.len, Append(w, t), time, sequence)
<1> SUFFICES ASSUME NEW size, size = t.len
             PROVE  Write(p, t) = IF format = "datadog"
               THEN Packer(format, id, n + 1, bytes + 1 + size, Append(Commas(n, w), t), time, sequence)
               ELSE Packer(format, id, n + 1, bytes + size, Append(w, t), time, sequence)
  OBVIOUS
<1>1. p.format = format /\ p.written = w /\ p.current.numRecords = n
      /\ p.current.numBytes = bytes
  BY DEF Packer
<1>2. CASE format # "datadog"
  <2>1. WriteFluentd(p, t) = [p EXCEPT !.written = Append(@, t), !.current.numRecords = @ + 1,
                                       !.current.numBytes = @ + size]
    BY DEF WriteFluentd
  <2>2. WriteFluentd(p, t) = Packer(format, id, n + 1, bytes + size, Append(w, t), time, sequence)
    <3>1. WriteFluentd(p, t) = SetWritten(p, Append(w, t), n + 1, bytes + size)
      BY <1>1, <2>1 DEF SetWritten
    <3> QED
      BY <3>1, WrittenSet
  <2>3. Write(p, t) = WriteFluentd(p, t)
    BY <1>1, <1>2 DEF Write
  <2> QED
    BY <1>2, <2>2, <2>3
<1>3. CASE format = "datadog"
  <2> DEFINE comma == IF p.current.numRecords # 0 THEN <<Mark(",")>> ELSE <<>>
             v == Append(Commas(n, w), t)
  <2>1. WriteDatadog(p, t) = [p EXCEPT !.written = @ \o comma \o <<t>>, !.current.numRecords = @ + 1,
                                       !.current.numBytes = @ + 1 + size]
    BY DEF WriteDatadog
  <2>2. w \o comma \o <<t>> = v
    <3>1. \A m \in Token : w \o <<m>> = Append(w, m) /\ Append(w, m) \in Seq(Token)
      OBVIOUS
    <3>2. w \o <<>> = w
      OBVIOUS
    <3>3. w \o comma = Commas(n, w) /\ Commas(n, w) \in Seq(Token)
      <4>1. Mark(",") \in Token
        BY TokenFacts
      <4> QED
        BY <1>1, <3>1, <3>2, <4>1 DEF Commas
    <3>4. t \in Token
      BY DEF IsStream
    <3>5. \A c \in Seq(Token) : c \o <<t>> = Append(c, t)
      BY <3>4
    <3> QED
      BY <3>3, <3>5
  <2> HIDE DEF comma, v
  <2>3. WriteDatadog(p, t) = SetWritten(p, v, n + 1, bytes + 1 + size)
    BY <1>1, <2>1, <2>2 DEF SetWritten
  <2>4. WriteDatadog(p, t) = Packer(format, id, n + 1, bytes + 1 + size, v, time, sequence)
    BY <2>3, WrittenSet
  <2>5. Write(p, t) = WriteDatadog(p, t)
    BY <1>1, <1>3 DEF Write
  <2> QED
    BY <1>3, <2>4, <2>5 DEF v
<1> QED
  BY <1>2, <1>3

\* NewChunk.
Opening(format) == IF format = "datadog" THEN <<Mark("[")>> ELSE <<>>
Latest(e, time) == IF time > e THEN time ELSE e
NextNumber(e, q, time) == IF time > e THEN 0 ELSE q + 1

\* NewChunk opens the buffer and takes the next ID.
LEMMA NewChunkMakes ==
    ASSUME NEW format, NEW id, NEW n, NEW bytes, NEW e \in Nat, NEW sequence, NEW time \in Nat,
           NEW p, p = Packer(format, id, n, bytes, <<>>, e, sequence)
    PROVE  NewChunk(p, time) =
             Packer(format, <<time, NextNumber(e, sequence, time)>>, 0, Len(Opening(format)), Opening(format),
                    Latest(e, time), NextNumber(e, sequence, time))
<1>1. p.format = format /\ p.written = <<>> /\ p.epochNano = e /\ p.sequence = sequence
  BY DEF Packer
<1>2. Opening(format) \in Seq(Token) /\ <<>> \o Opening(format) = Opening(format)
  <2>1. Mark("[") \in Token
    BY TokenFacts
  <2> QED
    BY <2>1 DEF Opening
<1>3. NextSequence(p, time) = NextNumber(e, sequence, time)
      /\ GenerateID(p, time) = <<time, NextNumber(e, sequence, time)>>
  BY <1>1 DEF NextSequence, GenerateID, NextNumber
<1>4. NewChunk(p, time) =
         [p EXCEPT !.epochNano = Latest(e, time), !.sequence = NextNumber(e, sequence, time),
                   !.written = Opening(format),
                   !.current = Counts(<<time, NextNumber(e, sequence, time)>>, 0, Len(Opening(format)))]
  <2>1. NewChunk(p, time) =
         [p EXCEPT !.epochNano = IF time > @ THEN time ELSE @, !.sequence = NextSequence(p, time),
                   !.written = @ \o Opening(format),
                   !.current = [id |-> GenerateID(p, time), numRecords |-> 0, numBytes |-> Len(Opening(format))]]
    BY <1>1 DEF NewChunk, Opening
  <2>2. (IF time > p.epochNano THEN time ELSE p.epochNano) = Latest(e, time)
    BY <1>1 DEF Latest
  <2> QED
    BY <1>1, <1>2, <1>3, <2>1, <2>2 DEF Counts
<1> QED
  BY <1>4 DEF Packer, Counts

\* The formats of outputs.
Formats == {"fluentd", "datadog"}

\* A stream written after w, with what Write puts between.
Extended(format, n, w, t) == Append(IF format = "datadog" THEN Commas(n, w) ELSE w, t)
MoreBytes(format, bytes, size) == IF format = "datadog" THEN bytes + 1 + size ELSE bytes + size

\* Write makes v of w, whatever the packer's ID and clock.
WrittenAs(format, n, bytes, w, t, k, v) ==
    \A id, time, sequence :
       Write(Packer(format, id, n, bytes, w, time, sequence), t)
          = Packer(format, id, n + 1, k, v, time, sequence)

\* So written, v has the shape of one record more and k its bytes.
Extends(format, n, bytes, w, t, v, k) ==
    /\ v \in Seq(Token) /\ k \in Nat /\ Shape(format, n + 1, k, v) /\ LogsIn(v) = Append(LogsIn(w), t.id)
    /\ WrittenAs(format, n, bytes, w, t, k, v)

\* Whatever is held, a stream more has the shape, and one more log.
LEMMA ExtendedFacts ==
    \A format, n, bytes, w : \A t \in Stream1 :
       n \in Nat /\ bytes \in Nat /\ w \in Seq(Token) /\ Shape(format, n, bytes, w) =>
          Extends(format, n, bytes, w, t, Extended(format, n, w, t), MoreBytes(format, bytes, t.len))
<1> SUFFICES ASSUME NEW format, NEW n \in Nat, NEW bytes \in Nat, NEW w \in Seq(Token),
                    Shape(format, n, bytes, w), NEW t \in Stream1, NEW log, log = t.id,
                    NEW v, v = Extended(format, n, w, t), NEW k, k = MoreBytes(format, bytes, t.len)
             PROVE  Extends(format, n, bytes, w, t, v, k)
  OBVIOUS
<1>1. IsStream(t) /\ t \in Token /\ t.id # 0 /\ t.len \in Nat
  BY TokenFacts DEF IsStream
<1>2. CASE format = "datadog"
  <2> DEFINE c == Commas(n, w)
  <2>1. v = Append(c, t) /\ k = bytes + 1 + t.len
    BY <1>2 DEF Extended, MoreBytes
  <2>2. ShapeDatadog(n + 1, k, v) /\ v \in Seq(Token)
    BY <1>1, <1>2, <2>1, DatadogShape DEF Shape
  <2>3. k \in Nat
    BY <1>1, <2>1
  <2>4. c \in Seq(Token) /\ LogsIn(c) = LogsIn(w)
    <3>1. Mark(",") \in Token
      BY TokenFacts
    <3>2. \A x \in Token : Append(w, x) \in Seq(Token)
      OBVIOUS
    <3>3. Append(w, Mark(",")) \in Seq(Token)
      BY <3>1, <3>2, Zenon
    <3>4. LogsIn(Append(w, Mark(","))) = LogsIn(w)
      BY OneMoreLog
    <3> QED
      BY <3>3, <3>4 DEF Commas
  <2> HIDE DEF c
  <2>5. LogsIn(Append(c, t)) = Append(LogsIn(c), log)
    BY <2>4, OneMoreLog
  <2>6. ASSUME NEW id, NEW time, NEW sequence
        PROVE  Write(Packer(format, id, n, bytes, w, time, sequence), t)
                    = Packer(format, id, n + 1, k, v, time, sequence)
    <3>1. Write(Packer(format, id, n, bytes, w, time, sequence), t)
            = Packer(format, id, n + 1, bytes + 1 + t.len, Append(Commas(n, w), t), time, sequence)
      BY <1>1, <1>2, WriteMakes
    <3> QED
      BY <2>1, <3>1 DEF c
  <2> QED
    BY <1>2, <2>1, <2>2, <2>3, <2>4, <2>5, <2>6 DEF Shape, WrittenAs, Extends
<1>3. CASE format # "datadog"
  <2>1. v = Append(w, t) /\ k = bytes + t.len
    BY <1>3 DEF Extended, MoreBytes
  <2>2. ShapeFluentd(n + 1, k, v) /\ v \in Seq(Token)
    BY <1>1, <1>3, <2>1, FluentdShape DEF Shape
  <2>3. k \in Nat
    BY <1>1, <2>1
  <2>4. LogsIn(Append(w, t)) = Append(LogsIn(w), log)
    BY OneMoreLog
  <2>5. \A id, time, sequence :
                 Write(Packer(format, id, n, bytes, w, time, sequence), t)
                    = Packer(format, id, n + 1, k, v, time, sequence)
    BY <1>1, <1>3, <2>1, WriteMakes
  <2> QED
    BY <1>3, <2>1, <2>2, <2>3, <2>4, <2>5 DEF Shape, WrittenAs, Extends
<1> QED
  BY <1>2, <1>3

\* What is written before the first stream.
LEMMA OpeningShape ==
    ASSUME NEW format, NEW w, w = Opening(format)
    PROVE  w \in Seq(Token) /\ Len(w) \in Nat /\ Shape(format, 0, Len(w), w) /\ LogsIn(w) = <<>>
<1>1. <<>> \in Seq(Token) /\ StreamsOf(<<>>) = <<>> /\ BytesOf(<<>>) = 0 /\ LogsIn(<<>>) = <<>> /\ Len(<<>>) = 0
  BY NoTokens
<1>2. CASE format # "datadog"
  <2>1. w = <<>>
    BY <1>2 DEF Opening
  <2> QED
    BY <1>1, <1>2, <2>1 DEF Shape, ShapeFluentd
<1>3. CASE format = "datadog"
  <2> DEFINE m == Mark("[")
  <2>1. m \in Token /\ m.id = 0 /\ m.len = 1 /\ m.mark = "["
    BY TokenFacts
  <2>2. LogsIn(Append(<<>>, m)) = LogsIn(<<>>)
    BY <1>1, OneMoreLog
  <2> HIDE DEF m
  <2>3. StreamsOf(Append(<<>>, m)) = StreamsOf(<<>>) /\ BytesOf(Append(<<>>, m)) = BytesOf(<<>>) + 1
    BY <1>1, <2>1, OneMoreToken
  <2>4. w = <<m>> /\ Append(<<>>, m) = <<m>>
    BY <1>3 DEF Opening, m
  <2>5. <<m>> \in Seq(Token) /\ Len(<<m>>) = 1 /\ <<m>>[1] = m
    BY <2>1
  <2>6. m.mark = MarkAt(1)
    BY <2>1 DEF MarkAt
  <2>7. \A i \in 1..1 : <<m>>[i].mark = MarkAt(i)
    <3>1. \A i \in 1..1 : i = 1
      OBVIOUS
    <3> QED
      BY <2>5, <2>6, <3>1
  <2>8. ShapeDatadog(0, 1, <<m>>)
    BY <1>1, <2>3, <2>4, <2>5, <2>7 DEF ShapeDatadog
  <2> QED
    BY <1>1, <1>3, <2>2, <2>4, <2>5, <2>8 DEF Shape
<1> QED
  BY <1>2, <1>3

\* A chunk of some logs.
IsChunk(c, format, id, logs) ==
    /\ c \in Chunk /\ c.id = id
    /\ LogsIn(c.data) = logs /\ WellFormedChunk(c, format)

\* What FinalizeChunk makes of the write buffer.
Closed(format, w) == IF format = "datadog" THEN Append(w, Mark("]")) ELSE w

\* FinalizeChunk takes the ID, the count and the closed buffer.
LEMMA FinalizeMakes ==
    ASSUME NEW format, NEW id, NEW n, NEW bytes, NEW w \in Seq(Token), NEW time, NEW sequence,
           NEW p, p = Packer(format, id, n, bytes, w, time, sequence)
    PROVE  FinalizeChunk(p) = [id |-> id, size |-> n, data |-> Closed(format, w)]
<1>1. p.format = format /\ p.written = w /\ p.current.numRecords = n /\ p.current.id = id
  BY DEF Packer
<1>2. \A m \in Token : w \o <<m>> = Append(w, m)
  OBVIOUS
<1>3. w \o <<>> = w
  OBVIOUS
<1>4. w \o (IF p.format = "datadog" THEN <<Mark("]")>> ELSE <<>>) = Closed(format, w)
  <2>1. Mark("]") \in Token
    BY TokenFacts
  <2>2. w \o <<Mark("]")>> = Append(w, Mark("]"))
    BY <1>2, <2>1, Zenon
  <2> QED
    BY <1>1, <1>3, <2>2 DEF Closed
<1> QED
  BY <1>1, <1>4 DEF FinalizeChunk

\* A closed array has a mark at each of its odd places.
LEMMA ClosedArray ==
    ASSUME NEW n \in Nat \ {0}, NEW bytes \in Nat, NEW w \in Seq(Token), ShapeDatadog(n, bytes, w),
           NEW d, d = Append(w, Mark("]"))
    PROVE  d \in Seq(Token) /\ IsJSONArray(d)
<1> SUFFICES ASSUME NEW m \in Token, m.mark = "]", d = Append(w, m), NEW k \in Nat, k = 2 * n
             PROVE  d \in Seq(Token) /\ IsJSONArray(d)
  BY TokenFacts, Halves
<1>1. Len(w) = k /\ \A i \in 1..k : w[i].mark = MarkAt(i)
  BY DEF ShapeDatadog
<1>2. /\ d \in Seq(Token) /\ Len(d) = k + 1 /\ d[k + 1] = m /\ DOMAIN d = 1..(k + 1)
      /\ \A i \in 1..k : d[i] = w[i]
  <2>1. \A x \in Token : /\ Append(w, x) \in Seq(Token) /\ Len(Append(w, x)) = k + 1
                         /\ Append(w, x)[k + 1] = x /\ DOMAIN Append(w, x) = 1..(k + 1)
                         /\ \A i \in 1..k : Append(w, x)[i] = w[i]
    BY <1>1
  <2>2. \A x \in Token : d = Append(w, x) =>
          /\ d \in Seq(Token) /\ Len(d) = k + 1 /\ d[k + 1] = x /\ DOMAIN d = 1..(k + 1)
          /\ \A i \in 1..k : d[i] = w[i]
    BY <2>1
  <2> QED
    BY <2>2, Zenon
<1>3. (k + 1) % 2 = 1 /\ k + 1 # 1
  BY Halves
<1>4. \A i \in 1..k : i # k + 1 /\ d[i].mark = MarkAt(i)
  BY <1>1, <1>2
<1>5. \A i \in 1..(k + 1) : i \in 1..k \/ i = k + 1
  OBVIOUS
<1>6. ASSUME NEW i \in DOMAIN d
      PROVE  d[i].mark = CASE i = 1 -> "["
                           [] i = Len(d) -> "]"
                           [] OTHER -> IF i % 2 = 0 THEN "" ELSE ","
  <2>1. CASE i = k + 1
    <3>1. d[i].mark = "]"
      BY <1>2, <2>1
    <3> QED
      BY <1>2, <1>3, <2>1, <3>1
  <2>2. CASE i \in 1..k
    <3>1. d[i].mark = MarkAt(i) /\ i # Len(d)
      BY <1>2, <1>4, <2>2
    <3> QED
      BY <3>1 DEF MarkAt
  <2> QED
    BY <1>2, <1>5, <2>1, <2>2
<1>7. Len(d) % 2 = 1
  BY <1>2, <1>3
<1> QED
  BY <1>2, <1>6, <1>7 DEF IsJSONArray

\* FinalizeChunk makes a chunk as it must be.
LEMMA FinalizedIsSound ==
    ASSUME NEW format \in Formats, NEW id \in ID, NEW time, NEW sequence, NEW n \in Nat \ {0},
           NEW bytes \in Nat, NEW w \in Seq(Token), NEW p, Holding(p, format, id, time, sequence, n, bytes, w),
           NEW c, c = FinalizeChunk(p)
    PROVE  IsChunk(c, format, id, LogsIn(w))
<1> SUFFICES ASSUME NEW d, d = Closed(format, w),
                    c = [id |-> id, size |-> n, data |-> d]
             PROVE  IsChunk(c, format, id, LogsIn(w))
  BY FinalizeMakes DEF Holding
<1>1. c.id = id /\ c.size = n /\ c.data = d 
  OBVIOUS
<1>2. /\ d \in Seq(Token) /\ StreamsOf(d) = StreamsOf(w) /\ LogsIn(d) = LogsIn(w)
      /\ IF format = "datadog" THEN IsJSONArray(d) ELSE d = StreamsOf(d)
      /\ n = Len(StreamsOf(d)) /\ BytesOf(d) <= bytes
  <2>1. CASE format = "datadog"
    <3>1. ShapeDatadog(n, bytes, w)
      BY <2>1 DEF Holding, Shape
    <3>2. d = Append(w, Mark("]"))
      BY <2>1 DEF Closed
    <3>3. d \in Seq(Token) /\ IsJSONArray(d)
      BY <3>1, <3>2, ClosedArray
    <3>4. LogsIn(d) = LogsIn(w)
      BY <3>2, OneMoreLog
    <3>5. StreamsOf(d) = StreamsOf(w) /\ BytesOf(d) = BytesOf(w) + 1
      <4>1. Mark("]") \in Token /\ Mark("]").id = 0 /\ Mark("]").len = 1
        BY TokenFacts
      <4> QED
        BY <3>2, <4>1, OneMoreToken
    <3>6. n = Len(StreamsOf(w)) /\ bytes = BytesOf(w) + 1
      BY <3>1 DEF ShapeDatadog
    <3> QED
      BY <2>1, <3>3, <3>4, <3>5, <3>6
  <2>2. CASE format # "datadog"
    <3>1. ShapeFluentd(n, bytes, w)
      BY <2>2 DEF Holding, Shape
    <3>2. d = w
      BY <2>2 DEF Closed
    <3> QED
      BY <2>2, <3>1, <3>2 DEF ShapeFluentd
  <2> QED
    BY <2>1, <2>2
<1>3. BytesOf(d) \in Nat
  BY <1>2, NoTokens, TokenFacts, OneMoreToken DEF IsStream
<1>4. WithinLimits(c)
  <2>1. Limited(n, bytes)
    BY DEF Holding
  <2> QED
    BY <1>1, <1>2, <1>3, <2>1, LimitsAssumption DEF WithinLimits, Limited
<1>5. WellFormedChunk(c, format)
  BY <1>1, <1>2, <1>4 DEF WellFormedChunk
<1>6. c \in Chunk
  BY <1>1, <1>2 DEF Chunk
<1> QED
  BY <1>1, <1>2, <1>5, <1>6 DEF IsChunk

\* The first stream of a chunk.
LEMMA FirstStream ==
    ASSUME NEW format \in Formats, NEW e \in Nat, NEW q \in Nat, NEW time \in Nat,
           NEW id, NEW n, NEW bytes, NEW p, p = Packer(format, id, n, bytes, <<>>, e, q),
           NEW t \in Stream1, NEW r, r = Write(NewChunk(p, time), t)
    PROVE  Packs(r, format, <<time, NextNumber(e, q, time)>>, Latest(e, time), NextNumber(e, q, time), <<t.id>>)
<1> SUFFICES ASSUME NEW w, w = Opening(format), NEW log, log = t.id, NEW next, next = NextNumber(e, q, time),
                    NEW last, last = Latest(e, time), NEW new, new = <<time, next>>,
                    NEW v, v = Extended(format, 0, w, t), NEW b, b = Len(w), NEW k, k = MoreBytes(format, b, t.len)
             PROVE  Packs(r, format, new, last, next, <<log>>)
  OBVIOUS
<1>1. NewChunk(p, time) = Packer(format, new, 0, b, w, last, next)
  BY NewChunkMakes
<1>2. w \in Seq(Token) /\ b \in Nat /\ Shape(format, 0, b, w) /\ LogsIn(w) = <<>>
  BY OpeningShape
<1>3. /\ v \in Seq(Token) /\ k \in Nat /\ Shape(format, 0 + 1, k, v) /\ LogsIn(v) = Append(LogsIn(w), log)
      /\ WrittenAs(format, 0, b, w, t, k, v)
  <2>1. 0 \in Nat
    OBVIOUS
  <2> QED
    <3>1. Extends(format, 0, b, w, t, v, k)
      BY <1>2, <2>1, ExtendedFacts
    <3> QED
      BY <3>1 DEF Extends
<1>4. 0 + 1 = 1 /\ 1 \in Nat \ {0} /\ Limited(1, k)
  BY DEF Limited
<1>5. LogsIn(v) = <<log>>
  <2>1. Append(<<>>, log) = <<log>>
    OBVIOUS
  <2> QED
    BY <1>2, <1>3, <2>1
<1>6. r = Packer(format, new, 1, k, v, last, next)
  <2>1. Write(Packer(format, new, 0, b, w, last, next), t) = Packer(format, new, 0 + 1, k, v, last, next)
    BY <1>3 DEF WrittenAs
  <2> QED
    BY <1>1, <1>4, <2>1
<1>7. Holding(r, format, new, last, next, 1, k, v)
  BY <1>3, <1>4, <1>6 DEF Holding
<1> QED
  BY <1>3, <1>4, <1>5, <1>7 DEF Packs

\* Another stream of a chunk that has room for it.
LEMMA NextStream ==
    ASSUME NEW format \in Formats, NEW id, NEW e, NEW q,
           NEW n \in Nat \ {0}, NEW bytes \in Nat, NEW w \in Seq(Token),
           NEW p, Holding(p, format, id, e, q, n, bytes, w),
           NEW t \in Stream1, CanAppendData(p, t.len), NEW r, r = Write(p, t)
    PROVE  Packs(r, format, id, e, q, Append(LogsIn(w), t.id))
<1> SUFFICES ASSUME NEW log, log = t.id, NEW v, v = Extended(format, n, w, t),
                    NEW size, size = t.len, NEW k, k = MoreBytes(format, bytes, t.len)
             PROVE  Packs(r, format, id, e, q, Append(LogsIn(w), log))
  OBVIOUS
<1>1. /\ p = Packer(format, id, n, bytes, w, e, q) /\ Shape(format, n, bytes, w)
      /\ n \in Nat
  BY DEF Holding
<1>2. t.len = size /\ size \in Nat
  BY TokenFacts
<1>3. /\ v \in Seq(Token) /\ k \in Nat /\ Shape(format, n + 1, k, v) /\ LogsIn(v) = Append(LogsIn(w), log)
      /\ WrittenAs(format, n, bytes, w, t, k, v)
  <2>1. Shape(format, n, bytes, w) /\ n \in Nat
    BY <1>1
  <2> QED
    <3>1. Extends(format, n, bytes, w, t, v, k)
      BY <2>1, ExtendedFacts
    <3> QED
      BY <3>1 DEF Extends
<1>4. k = IF format = "datadog" THEN bytes + 1 + size ELSE bytes + size
  BY <1>2 DEF MoreBytes
<1>5. p.format = format /\ p.current.numRecords = n /\ p.current.numBytes = bytes
  BY <1>1 DEF Packer
<1>6. (MaxRecords > 0 => n < MaxRecords) /\ (MaxBytes > 0 => k <= MaxBytes)
  <2>1. CASE format = "datadog"
    BY <1>2, <1>4, <1>5, <2>1, LimitsAssumption DEF CanAppendData, CanAppendDatadog
  <2>2. CASE format # "datadog"
    BY <1>2, <1>4, <1>5, <2>2, LimitsAssumption DEF CanAppendData, CanAppendFluentd
  <2> QED
    BY <2>1, <2>2
<1>7. Limited(n + 1, k) /\ n + 1 \in Nat \ {0}
  BY <1>1, <1>6, LimitsAssumption DEF Limited
<1>8. r = Packer(format, id, n + 1, k, v, e, q)
  <2>1. Write(Packer(format, id, n, bytes, w, e, q), t) = Packer(format, id, n + 1, k, v, e, q)
    BY <1>3 DEF WrittenAs
  <2> QED
    BY <1>1, <2>1
<1>9. Holding(r, format, id, e, q, n + 1, k, v)
  BY <1>3, <1>7, <1>8 DEF Holding
<1> QED
  BY <1>3, <1>7, <1>9 DEF Packs

\* FlushBuffer, on a packer with and without a chunk.
LEMMA FlushOfIdle ==
    ASSUME NEW format, NEW e, NEW q, NEW p, Idle(p, format, e, q)
    PROVE  /\ p.current = NoChunk /\ p.written = <<>> /\ p.epochNano = e /\ p.sequence = q
           /\ FlushBuffer(p).packer = p /\ FlushBuffer(p).chunks = <<>>
<1>1. p.current = NoChunk /\ p.written = <<>> /\ p.epochNano = e /\ p.sequence = q
  BY DEF Idle, Packer, NoChunk
<1> QED
  BY <1>1 DEF FlushBuffer

\* FlushBuffer of a packer that holds records.
Flushes(p, format, e, q, w) ==
    /\ p.current # NoChunk /\ p.written = w /\ p.epochNano = e /\ p.sequence = q
    /\ Idle(FlushBuffer(p).packer, format, e, q)
    /\ FlushBuffer(p).chunks = <<FinalizeChunk(p)>>

\* FlushBuffer of a packer with records makes a chunk of them and leaves the packer idle.
LEMMA FlushOfHolding ==
    ASSUME NEW format, NEW id, NEW e, NEW q,
           NEW n \in Nat \ {0}, NEW bytes \in Nat, NEW w \in Seq(Token), NEW p, Holding(p, format, id, e, q, n, bytes, w)
    PROVE  Flushes(p, format, e, q, w)
<1>1. p = Packer(format, id, n, bytes, w, e, q)
  BY DEF Holding
<1>2. p.written = w /\ p.epochNano = e /\ p.sequence = q /\ p.current.numRecords = n
  BY <1>1 DEF Packer
<1>3. p.current # NoChunk
  <2>1. NoChunk.numRecords = 0
    BY DEF NoChunk
  <2> QED
    BY <1>2, <2>1
<1>4. FlushBuffer(p).packer = [p EXCEPT !.current = NoChunk, !.written = <<>>]
      /\ FlushBuffer(p).chunks = <<FinalizeChunk(p)>>
  BY <1>3 DEF FlushBuffer
<1>5. ASSUME NEW r, r = [p EXCEPT !.current = NoChunk, !.written = <<>>] PROVE Idle(r, format, e, q)
  BY <1>1, <1>5 DEF Packer, Idle, NoChunk
<1> QED
  BY <1>2, <1>3, <1>4, <1>5 DEF Flushes

\* A packer as it is between two calls.
Ready(p, format) ==
    /\ p.epochNano \in Nat /\ p.sequence \in Nat
    /\ \/ Idle(p, format, p.epochNano, p.sequence)
       \/ /\ p.current.id \in ID
          /\ \E n \in Nat \ {0}, bytes \in Nat, w \in Seq(Token) :
                Holding(p, format, p.current.id, p.epochNano, p.sequence, n, bytes, w)

\* The chunk goes on, or another begins with an ID of its own.
SameID(p, r) == r.current.id = p.current.id /\ r.epochNano = p.epochNano /\ r.sequence = p.sequence

NewID(p, r, time) ==
    /\ r.epochNano = Latest(p.epochNano, time)
    /\ r.sequence = NextNumber(p.epochNano, p.sequence, time)
    /\ r.current.id = <<time, NextNumber(p.epochNano, p.sequence, time)>>

\* What the parts of a packer are.
LEMMA PackerParts ==
    ASSUME NEW format, NEW id, NEW time, NEW sequence, NEW n, NEW bytes, NEW w,
           NEW p, p = Packer(format, id, n, bytes, w, time, sequence)
    PROVE  /\ p.format = format /\ p.current.id = id /\ p.current.numRecords = n /\ p.current.numBytes = bytes
           /\ p.written = w /\ p.epochNano = time /\ p.sequence = sequence
           /\ (n # 0 => p.current # NoChunk)
  BY DEF Packer, NoChunk

\* A packer with a chunk of these logs and this ID.
ReadyAs(r, format, id, e, q, logs) ==
    /\ Ready(r, format) /\ LogsIn(r.written) = logs /\ r.current # NoChunk
    /\ r.current.id = id /\ r.epochNano = e /\ r.sequence = q

\* Such a packer may be asked for more.
LEMMA PacksIsReady ==
    ASSUME NEW format, NEW id \in ID, NEW e \in Nat, NEW q \in Nat, NEW logs, NEW r, Packs(r, format, id, e, q, logs)
    PROVE  ReadyAs(r, format, id, e, q, logs)
<1> PICK n \in Nat \ {0}, bytes \in Nat, w \in Seq(Token) : Holding(r, format, id, e, q, n, bytes, w) /\ LogsIn(w) = logs
  BY DEF Packs
<1>1. /\ r.current.id = id /\ r.written = w /\ r.epochNano = e /\ r.sequence = q /\ r.current # NoChunk
  BY PackerParts DEF Holding
<1> QED
  BY <1>1 DEF Ready, ReadyAs

\* A packer is ready once it is made.
LEMMA NewPackerIsReady ==
    ASSUME NEW format
    PROVE  /\ Ready(NewMessagePacker(format), format) /\ NewMessagePacker(format).current = NoChunk
           /\ NewMessagePacker(format).epochNano = 0 /\ NewMessagePacker(format).sequence = 0
           /\ NewMessagePacker(format).written = <<>>
<1> SUFFICES ASSUME NEW p, p = NewMessagePacker(format)
             PROVE  /\ Ready(p, format) /\ p.current = NoChunk /\ p.epochNano = 0 /\ p.sequence = 0
                    /\ p.written = <<>>
  OBVIOUS
<1>1. p = Packer(format, <<0, 0>>, 0, 0, <<>>, 0, 0)
  BY DEF NewMessagePacker, Packer, NoChunk
<1>2. p.epochNano = 0 /\ p.sequence = 0 /\ p.current = NoChunk /\ p.written = <<>>
  BY <1>1 DEF Packer, NoChunk
<1> QED
  BY <1>1, <1>2 DEF Ready, Idle

\* FlushBuffer.
FlushedChunk(p, r, format) ==
    \E c : r.chunks = <<c>> /\ IsChunk(c, format, p.current.id, LogsIn(p.written))

\* FlushBuffer makes the chunk of what is held, or nothing when nothing is held.
LEMMA FlushMakes ==
    ASSUME NEW format \in Formats, NEW p, Ready(p, format), NEW r, r = FlushBuffer(p)
    PROVE  /\ Ready(r.packer, format) /\ r.packer.current = NoChunk /\ r.packer.written = <<>>
           /\ r.packer.epochNano = p.epochNano /\ r.packer.sequence = p.sequence
           /\ IF p.current = NoChunk THEN r.chunks = <<>> /\ p.written = <<>>
                                     ELSE FlushedChunk(p, r, format) /\ p.current.id \in ID
<1> SUFFICES ASSUME NEW e, e = p.epochNano, NEW q, q = p.sequence, NEW id, id = p.current.id
             PROVE  /\ Ready(r.packer, format) /\ r.packer.current = NoChunk /\ r.packer.written = <<>>
                    /\ r.packer.epochNano = e /\ r.packer.sequence = q
                    /\ IF p.current = NoChunk THEN r.chunks = <<>> /\ p.written = <<>>
                                              ELSE FlushedChunk(p, r, format) /\ p.current.id \in ID
  OBVIOUS
<1>1. e \in Nat /\ q \in Nat
  BY DEF Ready
<1>2. CASE Idle(p, format, e, q)
  <2>1. /\ p.current = NoChunk /\ p.written = <<>> /\ r.packer = p /\ r.chunks = <<>>
    BY <1>2, FlushOfIdle
  <2> QED
    BY <2>1
<1>3. CASE ~Idle(p, format, e, q)
  <2> PICK n \in Nat \ {0}, bytes \in Nat, w \in Seq(Token) : Holding(p, format, id, e, q, n, bytes, w)
    BY <1>3 DEF Ready
  <2>1. /\ p.current # NoChunk /\ p.written = w /\ Idle(r.packer, format, e, q) /\ r.chunks = <<FinalizeChunk(p)>>
    <3>1. Flushes(p, format, e, q, w)
      BY FlushOfHolding
    <3> QED
      BY <3>1 DEF Flushes
  <2>2. id \in ID
    BY <1>3 DEF Ready
  <2>3. IsChunk(FinalizeChunk(p), format, id, LogsIn(w))
    BY <2>2, FinalizedIsSound
  <2>4. /\ r.packer.current = NoChunk /\ r.packer.written = <<>> /\ r.packer.epochNano = e /\ r.packer.sequence = q
    BY <2>1, FlushOfIdle
  <2>5. Ready(r.packer, format)
    BY <1>1, <2>1, <2>4 DEF Ready
  <2> QED
    BY <2>1, <2>2, <2>3, <2>4, <2>5 DEF FlushedChunk
<1> QED
  BY <1>2, <1>3

\* WriteStream: into the chunk there is, or a new one.
Appended(p, r, log) ==
    /\ r.chunks = <<>> /\ SameID(p, r.packer) /\ p.current # NoChunk
    /\ LogsIn(r.packer.written) = Append(LogsIn(p.written), log)

\* A new chunk begins with the log, after the one that was held.
Started(p, r, format, log, time) ==
    /\ NewID(p, r.packer, time) /\ LogsIn(r.packer.written) = <<log>>
    /\ IF p.current = NoChunk THEN r.chunks = <<>> /\ p.written = <<>>
                              ELSE FlushedChunk(p, r, format) /\ p.current.id \in ID

\* An idle packer begins a chunk with the stream.
LEMMA StartsNew ==
    ASSUME NEW format \in Formats, NEW p, Ready(p, format), p.current = NoChunk, NEW time \in Nat,
           NEW t \in Stream1, NEW log, log = t.id, NEW r, r = Write(NewChunk(p, time), t)
    PROVE  /\ Ready(r, format) /\ r.current # NoChunk /\ NewID(p, r, time) /\ LogsIn(r.written) = <<log>>
<1> SUFFICES ASSUME NEW e, e = p.epochNano, NEW q, q = p.sequence, NEW next, next = NextNumber(e, q, time),
                    NEW last, last = Latest(e, time), NEW new, new = <<time, next>>
             PROVE  /\ Ready(r, format) /\ r.current # NoChunk /\ NewID(p, r, time) /\ LogsIn(r.written) = <<log>>
  OBVIOUS
<1>1. e \in Nat /\ q \in Nat
  BY DEF Ready
<1>2. Idle(p, format, e, q)
  <2> SUFFICES ASSUME NEW n \in Nat \ {0}, NEW bytes \in Nat, NEW w \in Seq(Token),
                      Holding(p, format, p.current.id, e, q, n, bytes, w)
               PROVE  FALSE
    BY DEF Ready
  <2>1. Flushes(p, format, e, q, w)
    BY FlushOfHolding
  <2> QED
    BY <2>1 DEF Flushes
<1>3. p = Packer(format, <<0, 0>>, 0, 0, <<>>, e, q)
  BY <1>2 DEF Idle
<1>4. Packs(r, format, new, last, next, <<log>>)
  BY <1>1, <1>3, FirstStream
<1>5. next \in Nat /\ last \in Nat /\ new \in ID
  BY <1>1 DEF NextNumber, Latest, ID
<1>6. ReadyAs(r, format, new, last, next, <<log>>)
  BY <1>4, <1>5, PacksIsReady
<1> QED
  BY <1>6 DEF NewID, ReadyAs

\* WriteStream appends to the chunk, or begins one after flushing what was held.
LEMMA WriteStreamMakes ==
    ASSUME NEW format \in Formats, NEW p, Ready(p, format), NEW time \in Nat, NEW t \in Stream1,
           NEW log, log = t.id, NEW r, r = WriteStream(p, t, time)
    PROVE  /\ Ready(r.packer, format) /\ r.packer.current # NoChunk
           /\ Appended(p, r, log) \/ Started(p, r, format, log, time)
<1> SUFFICES ASSUME NEW size, size = t.len
             PROVE  /\ Ready(r.packer, format) /\ r.packer.current # NoChunk
                    /\ Appended(p, r, log) \/ Started(p, r, format, log, time)
  OBVIOUS
<1>1. log \in Log
  BY TokenFacts
<1>2. CASE p.current = NoChunk
  <2>1. r.packer = Write(NewChunk(p, time), t) /\ r.chunks = <<>>
    BY <1>2 DEF WriteStream
  <2>2. p.written = <<>>
    BY <1>2, FlushMakes
  <2> QED
    BY <1>2, <2>1, <2>2, StartsNew DEF Started
<1>3. CASE p.current # NoChunk /\ ~CanAppendData(p, size)
  <2> DEFINE f == FlushBuffer(p)
  <2>1. /\ Ready(f.packer, format) /\ f.packer.current = NoChunk
        /\ f.packer.epochNano = p.epochNano /\ f.packer.sequence = p.sequence
        /\ FlushedChunk(p, f, format) /\ p.current.id \in ID
    BY <1>3, FlushMakes
  <2>2. r.packer = Write(NewChunk(f.packer, time), t) /\ r.chunks = f.chunks
    BY <1>3, <2>1 DEF WriteStream
  <2> HIDE DEF f
  <2>3. /\ Ready(r.packer, format) /\ r.packer.current # NoChunk /\ NewID(f.packer, r.packer, time)
        /\ LogsIn(r.packer.written) = <<log>>
    BY <2>1, <2>2, StartsNew
  <2>4. NewID(p, r.packer, time)
    BY <2>1, <2>3 DEF NewID
  <2>5. FlushedChunk(p, r, format)
    BY <2>1, <2>2 DEF FlushedChunk
  <2> QED
    BY <1>3, <2>1, <2>3, <2>4, <2>5 DEF Started
<1>4. CASE p.current # NoChunk /\ CanAppendData(p, size)
  <2>1. r.packer = Write(p, t) /\ r.chunks = <<>>
    BY <1>4 DEF WriteStream
  <2> DEFINE e == p.epochNano
             q == p.sequence
             id == p.current.id
  <2>2. ~Idle(p, format, e, q)
    BY <1>4, FlushOfIdle
  <2>3. id \in ID /\ e \in Nat /\ q \in Nat
    BY <2>2 DEF Ready
  <2> PICK n \in Nat \ {0}, bytes \in Nat, w \in Seq(Token) : Holding(p, format, id, e, q, n, bytes, w)
    BY <2>2 DEF Ready
  <2>4. p.written = w
    BY PackerParts DEF Holding
  <2> HIDE DEF e, q, id
  <2>5. Packs(Write(p, t), format, id, e, q, Append(LogsIn(w), log))
    BY <1>1, <1>4, NextStream
  <2>6. /\ Ready(r.packer, format) /\ LogsIn(r.packer.written) = Append(LogsIn(w), log)
        /\ r.packer.current # NoChunk
        /\ r.packer.current.id = id /\ r.packer.epochNano = e /\ r.packer.sequence = q
    <3>1. ReadyAs(r.packer, format, id, e, q, Append(LogsIn(w), log))
      BY <2>1, <2>3, <2>5, PacksIsReady
    <3> QED
      BY <3>1 DEF ReadyAs
  <2>7. SameID(p, r.packer)
    BY <2>6 DEF e, q, id, SameID
  <2> QED
    BY <1>4, <2>1, <2>4, <2>6, <2>7 DEF Appended
<1> QED
  BY <1>2, <1>3, <1>4

-----------------------------------------------------------------------------
(* What the outputs are given *)

\* A field that the parser fills is where it is looked for, and shows the log.
LEMMA InputFieldRead ==
    ASSUME NEW o \in Obj, NEW log \in Log, Holds(alloc, o, log), alloc \in PoolState, Types,
           NEW f \in Configs[1].inputs
    PROVE  f \in ToSet(Conf.fields) /\ f # "" /\ ReadField(alloc, o, Locate(Conf.fields, f)) = <<f, log>>
<1> DEFINE first == Configs[1]
           i == Locate(first.fields, f)
<1>1. first \in Config /\ Conf \in Config /\ ConfigOK(first) /\ Compatible(first, Conf)
  BY ConfigFacts, PipelineAssumption DEF Types, Conf
<1>2. i # 0 /\ i \in DOMAIN first.fields /\ first.fields[i] = f /\ f \in FixedFields(first)
  <2>1. i # 0
    BY <1>1 DEF ConfigOK, AllLocated, MissingFieldLocator
  <2>2. i \in DOMAIN first.fields /\ first.fields[i] = f
    BY <1>1, <2>1, LocateFacts
  <2> QED
    BY <2>1, <2>2 DEF FixedFields, ToSet
<1>3. Locate(Conf.fields, f) = i
  BY <1>1, <1>2 DEF Compatible, FieldsKept
<1>4. f \in ToSet(Conf.fields)
  BY <1>1, <1>2, <1>3, LocateFacts DEF ToSet
<1>5. i \in 1..MaxFields /\ IsInput(i)
  <2>1. first.fields \in Seq(STRING) /\ first.maxFields \in Nat /\ first.maxFields >= Len(first.fields)
        /\ MaxFields = first.maxFields
    BY <1>1, PipelineAssumption DEF Config, ConfigOK, SchemaOK
  <2> QED
    BY <1>2, <2>1 DEF IsInput
<1>6. f # ""
  <2>1. ~Contains(first.fields, "")
    BY <1>1 DEF ConfigOK, SchemaOK
  <2>2. DOMAIN first.fields = 1..Len(first.fields)
    BY <1>1 DEF Config
  <2> QED
    BY <1>2, <2>1, <2>2 DEF Contains
<1> DEFINE b == alloc.backbuf[o]
           v == alloc.fields[o][i]
<1>7. b \in Buf \cup {0} /\ 0 \notin Buf
  BY PoolFields DEF PoolTypes
<1>8. v = <<f, b, IF b = 0 THEN log ELSE 0>>
  BY <1>2, <1>5 DEF Holds, FieldsOf
<1>9. b # 0 => alloc.content[b] = log
  BY DEF Holds
<1>10. v # NoValue /\ v[1] = f /\ v[2] = b /\ (b = 0 => v[3] = log)
  <2> HIDE DEF v, b, i
  <2>1. \A x, y, z : <<x, y, z>>[1] = x /\ <<x, y, z>>[2] = y /\ <<x, y, z>>[3] = z
    OBVIOUS
  <2>2. v[1] = f /\ v[2] = b /\ v[3] = IF b = 0 THEN log ELSE 0
    BY <1>8, <2>1
  <2>3. NoValue[1] = ""
    BY DEF NoValue
  <2> QED
    BY <1>6, <2>2, <2>3
<1>11. ReadField(alloc, o, i) = <<f, log>>
  <2> HIDE DEF v, b, i
  <2> QED
    BY <1>9, <1>10 DEF ReadField, v, b
<1> QED
  BY <1>3, <1>4, <1>6, <1>11

\* Nothing is found under another name.
LEMMA OtherFieldRead ==
    ASSUME NEW o \in Obj, NEW log \in Log, Holds(alloc, o, log), alloc \in PoolState, Types,
           NEW g \in ToSet(Conf.fields), g \notin Configs[1].inputs
    PROVE  ReadField(alloc, o, Locate(Conf.fields, g)) = <<"", 0>>
<1> DEFINE first == Configs[1]
           j == Locate(Conf.fields, g)
<1>1. first \in Config /\ Conf \in Config /\ ConfigOK(first) /\ ConfigOK(Conf) /\ Compatible(first, Conf)
  BY ConfigFacts, PipelineAssumption DEF Types, Conf
<1>2. j \in DOMAIN Conf.fields /\ Conf.fields[j] = g
  BY <1>1, LocateFacts DEF ToSet
<1>3. j \in 1..MaxFields
  <2>1. Conf.fields \in Seq(STRING) /\ Conf.maxFields \in Nat /\ Conf.maxFields >= Len(Conf.fields)
        /\ MaxFields = Conf.maxFields
    BY <1>1, PipelineAssumption DEF Config, ConfigOK, SchemaOK, Compatible
  <2> QED
    BY <1>2, <2>1
<1>4. ~IsInput(j)
  <2> SUFFICES ASSUME IsInput(j) PROVE FALSE
    OBVIOUS
  <2> DEFINE f == first.fields[j]
             i == Locate(first.fields, f)
  <2>1. j \in DOMAIN first.fields /\ f \in first.inputs
    BY DEF IsInput
  <2>2. i # 0 /\ i \in DOMAIN first.fields /\ first.fields[i] = f
    BY <1>1, <2>1, LocateFacts
  <2>3. i = j
    BY <1>1, <2>1, <2>2 DEF ConfigOK, SchemaOK
  <2>4. f \in FixedFields(first)
    BY <2>1 DEF FixedFields, ToSet
  <2>5. Locate(Conf.fields, f) = j
    BY <1>1, <2>3, <2>4 DEF Compatible, FieldsKept
  <2>6. Conf.fields[j] = f
    BY <1>1, <1>2, <2>5, LocateFacts
  <2> QED
    BY <1>2, <2>1, <2>6
<1>5. alloc.fields[o][j] = NoValue
  BY <1>3, <1>4 DEF Holds, FieldsOf
<1> QED
  BY <1>5 DEF ReadField

\* What is serialized of the record in hand is what its own message said.
LEMMA StreamIsOwn ==
    ASSUME PoolInv, batch # <<>>, NameOf(output) \in OutputNames
    PROVE  /\ Stream = StreamFor(NameOf(output), batch[1][2]) /\ batch[1][2] \in Log
           /\ Stream \in Stream1 /\ Stream.id = batch[1][2]
<1> DEFINE o == batch[1][1]
           log == batch[1][2]
           names == ToSet(Conf.fields)
<1>1. batch[1] \in Records /\ o \in Obj /\ log \in Log /\ alloc \in PoolState
  BY PoolInvFacts
<1>2. Holds(alloc, o, log) /\ Types
  BY <1>1 DEF PoolInv, PoolOK
<1> HIDE DEF o, log
<1>3. \A f \in Configs[1].inputs : f \in names /\ f # "" /\ ReadField(alloc, o, Locate(Conf.fields, f)) = <<f, log>>
  BY <1>1, <1>2, InputFieldRead
<1>4. \A g \in names : g \notin Configs[1].inputs => ReadField(alloc, o, Locate(Conf.fields, g)) = <<"", 0>>
  BY <1>1, <1>2, OtherFieldRead
<1>5. Record = o
  BY DEF Record, o
<1>6. \A f : Field(f) = ReadField(alloc, o, Locate(Conf.fields, f))
  BY <1>5 DEF Field
<1>7. \A f : f \in {g \in names : Field(g)[1] # ""} <=> f \in Configs[1].inputs
  <2> HIDE DEF names
  <2>1. \A f \in Configs[1].inputs : f \in names /\ Field(f)[1] # ""
    <3>1. \A f \in Configs[1].inputs : f \in names /\ f # "" /\ Field(f) = <<f, log>>
      BY <1>3, <1>6
    <3>2. \A x, y : <<x, y>>[1] = x
      OBVIOUS
    <3> QED
      BY <3>1, <3>2
  <2>2. \A g \in names : g \notin Configs[1].inputs => Field(g)[1] = ""
    <3>1. \A g \in names : g \notin Configs[1].inputs => Field(g) = <<"", 0>>
      BY <1>4, <1>6
    <3>2. \A x, y : <<x, y>>[1] = x
      OBVIOUS
    <3> QED
      BY <3>1, <3>2
  <2> QED
    BY <2>1, <2>2
<1>8. {<<f, Field(f)>> : f \in {g \in names : Field(g)[1] # ""}} = {<<f, <<f, log>>>> : f \in Configs[1].inputs}
  <2>1. {g \in names : Field(g)[1] # ""} = Configs[1].inputs
    BY <1>7
  <2>2. \A f \in Configs[1].inputs : Field(f) = <<f, log>>
    BY <1>3, <1>6
  <2> QED
    BY <2>1, <2>2
<1>9. Stream = StreamFor(NameOf(output), log)
  BY <1>8 DEF Stream, StreamRefused, StreamFor, EventLength, ExpectedFields, log
<1>10. StreamFor(NameOf(output), log) \in Stream1
  BY <1>1 DEF Stream1
<1>11. Stream.id = log
  BY <1>9, StreamParts
<1> QED
  BY <1>1, <1>9, <1>10, <1>11 DEF log

\* The logs in some chunks, and the chunks that may be among those of an output.
LogsOf(chunks) == FlattenSeq([k \in DOMAIN chunks |-> LogsIn(chunks[k].data)])
Carried(chunks, p) == LogsOf(chunks) \o LogsIn(p.written)

\* Some configuration has an output of this name in this format.
MayWrite(n, format) ==
    \E c \in DOMAIN Configs : \E i \in DOMAIN Configs[c].outputs :
       Configs[c].outputs[i].name = n /\ Configs[c].outputs[i].format = format

\* A chunk that an output of this name may have made, and a sequence of such chunks.
SoundChunk(c, n) ==
    \E k \in DOMAIN Configs : \E i \in DOMAIN Configs[k].outputs :
       Configs[k].outputs[i].name = n /\ WellFormedChunk(c, Configs[k].outputs[i].format)

SoundChunks(chunks, n) == chunks \in Seq(Chunk) /\ \A k \in DOMAIN chunks : SoundChunk(chunks[k], n)

\* A chunk more.
LEMMA ChunkLogs ==
    ASSUME NEW chunks \in Seq(Chunk)
    PROVE  /\ [k \in DOMAIN chunks |-> LogsIn(chunks[k].data)] \in Seq(Seq(Log))
           /\ LogsOf(chunks) \in Seq(Log)
<1> DEFINE m == Len(chunks)
           l == [k \in DOMAIN chunks |-> LogsIn(chunks[k].data)]
<1>1. m \in Nat /\ DOMAIN chunks = 1..m /\ \A k \in 1..m : chunks[k] \in Chunk
  OBVIOUS
<1>2. \A c \in Chunk : LogsIn(c.data) \in Seq(Log)
  <2>1. \A c \in Chunk : c.data \in Seq(Token)
    BY DEF Chunk
  <2> QED
    BY <2>1, OneMoreLog
<1>3. l = [k \in 1..m |-> l[k]] /\ \A k \in 1..m : l[k] \in Seq(Log)
  BY <1>1, <1>2
<1> HIDE DEF l, m
<1>4. l \in Seq(Seq(Log))
  BY <1>1, <1>3, IsSequence
<1>5. FlattenSeq(l) \in Seq(Log)
  BY <1>4, FlattenFacts
<1> QED
  BY <1>4, <1>5 DEF LogsOf, l

\* The logs of a chunk more come after the others.
LEMMA ChunkAdded ==
    ASSUME NEW n, NEW chunks, SoundChunks(chunks, n), NEW c \in Chunk, SoundChunk(c, n),
           NEW new, new = chunks \o <<c>>
    PROVE  SoundChunks(new, n) /\ LogsOf(new) = LogsOf(chunks) \o LogsIn(c.data)
<1> DEFINE m == Len(chunks)
           l == [k \in DOMAIN chunks |-> LogsIn(chunks[k].data)]
           x == LogsIn(c.data)
           r == [k \in DOMAIN new |-> LogsIn(new[k].data)]
<1>1. chunks \in Seq(Chunk) /\ m \in Nat /\ DOMAIN chunks = 1..m
  BY DEF SoundChunks
<1>2. /\ new \in Seq(Chunk) /\ DOMAIN new = 1..(m + 1) /\ new[m + 1] = c
      /\ \A k \in 1..m : new[k] = chunks[k]
  BY <1>1
<1>3. \A k \in 1..(m + 1) : k \in 1..m \/ k = m + 1
  BY <1>1
<1>4. m + 1 \in 1..(m + 1) /\ \A k \in 1..m : k \in 1..(m + 1)
  BY <1>1
<1> HIDE DEF m
<1>5. SoundChunks(new, n)
  BY <1>1, <1>2, <1>3 DEF SoundChunks
<1>6. l \in Seq(Seq(Log)) /\ r \in Seq(Seq(Log))
  BY <1>1, <1>2, ChunkLogs
<1>7. x \in Seq(Log)
  <2>1. c.data \in Seq(Token)
    BY DEF Chunk
  <2> QED
    BY <2>1, OneMoreLog
<1>8. Len(l) = m /\ Len(r) = m + 1 /\ r[m + 1] = x /\ \A k \in 1..m : r[k] = l[k]
  <2>1. DOMAIN l = 1..m /\ DOMAIN r = 1..(m + 1)
    BY <1>1, <1>2
  <2>2. Len(l) = m /\ Len(r) = m + 1
    <3>1. m \in Nat /\ m + 1 \in Nat
      BY <1>1
    <3> HIDE DEF l, r
    <3> QED
      BY <1>6, <2>1, <3>1
  <2> QED
    BY <1>1, <1>2, <1>4, <2>2
<1> HIDE DEF l, r, x
<1>9. r = Append(l, x)
  BY <1>6, <1>7, <1>8, AppendIs
<1>10. FlattenSeq(r) = FlattenSeq(l) \o x
  BY <1>6, <1>7, <1>9, FlattenAppend
<1> QED
  BY <1>5, <1>10 DEF LogsOf, l, r, x

\* What a packer has written is logs.
LEMMA WrittenLogs ==
    ASSUME NEW p, NEW format, Ready(p, format)
    PROVE  LogsIn(p.written) \in Seq(Log)
<1> DEFINE e == p.epochNano
           q == p.sequence
           id == p.current.id
<1>1. CASE Idle(p, format, e, q)
  <2>1. p.written = <<>>
    BY <1>1, FlushOfIdle
  <2>2. LogsIn(<<>>) = <<>> /\ <<>> \in Seq(Log)
    BY NoTokens
  <2> QED
    BY <2>1, <2>2, Zenon
<1>2. CASE ~Idle(p, format, e, q)
  <2> PICK n \in Nat \ {0}, bytes \in Nat, w \in Seq(Token) : Holding(p, format, id, e, q, n, bytes, w)
    BY <1>2 DEF Ready
  <2> HIDE DEF e, q, id
  <2>1. p.written = w
    BY PackerParts DEF Holding
  <2>2. LogsIn(w) \in Seq(Log)
    BY OneMoreLog
  <2> QED
    BY <2>1, <2>2, Zenon
<1> QED
  BY <1>1, <1>2

\* Nothing is lost between a packer and the chunks it has made, whatever it is asked for.
Delivers(n, format, chunks, r, logs) ==
    /\ SoundChunks(chunks \o r.chunks, n) /\ Ready(r.packer, format)
    /\ Carried(chunks \o r.chunks, r.packer) = logs

\* The chunks made carry these logs.
Adds(n, chunks, r, logs) ==
    SoundChunks(chunks \o r.chunks, n) /\ LogsOf(chunks \o r.chunks) = LogsOf(chunks) \o logs

\* So it is with a chunk that a flush has made.
LEMMA FlushedAdded ==
    ASSUME NEW n, NEW format \in Formats, MayWrite(n, format), NEW chunks, SoundChunks(chunks, n),
           NEW p, NEW r, FlushedChunk(p, r, format)
    PROVE  Adds(n, chunks, r, LogsIn(p.written))
<1> SUFFICES ASSUME NEW logs, logs = LogsIn(p.written), NEW new, new = chunks \o r.chunks
             PROVE  SoundChunks(new, n) /\ LogsOf(new) = LogsOf(chunks) \o logs
  BY DEF Adds
<1>1. PICK c : r.chunks = <<c>> /\ IsChunk(c, format, p.current.id, LogsIn(p.written))
  BY DEF FlushedChunk
<1>2. c \in Chunk /\ LogsIn(c.data) = LogsIn(p.written) /\ WellFormedChunk(c, format)
  BY <1>1 DEF IsChunk
<1>3. SoundChunk(c, n)
  BY <1>2 DEF SoundChunk, MayWrite
<1>4. new = chunks \o <<c>> /\ LogsIn(c.data) = logs
  BY <1>1, <1>2
<1>5. SoundChunks(new, n) /\ LogsOf(new) = LogsOf(chunks) \o LogsIn(c.data)
  BY <1>2, <1>3, <1>4, ChunkAdded
<1> QED
  BY <1>4, <1>5

\* No chunk adds nothing.
LEMMA NoneAdded ==
    ASSUME NEW n, NEW chunks, SoundChunks(chunks, n)
    PROVE  chunks \o <<>> = chunks /\ LogsOf(chunks) \in Seq(Log)
<1>1. chunks \in Seq(Chunk)
  BY DEF SoundChunks
<1>2. \A c \in Seq(Chunk) : c \o <<>> = c
  OBVIOUS
<1> QED
  BY <1>1, <1>2, ChunkLogs

\* A flush loses nothing.
LEMMA FlushDelivers ==
    ASSUME NEW n, NEW format \in Formats, MayWrite(n, format), NEW chunks, SoundChunks(chunks, n),
           NEW p, Ready(p, format), NEW r, r = FlushBuffer(p)
    PROVE  Delivers(n, format, chunks, r, Carried(chunks, p))
<1>1. Ready(r.packer, format) /\ r.packer.written = <<>>
  BY FlushMakes
<1>2. LogsIn(<<>>) = <<>> /\ LogsOf(chunks) \in Seq(Log) /\ LogsIn(p.written) \in Seq(Log)
  BY NoTokens, NoneAdded, WrittenLogs
<1> SUFFICES ASSUME NEW l, l = LogsOf(chunks), NEW w, w = LogsIn(p.written), l \in Seq(Log), w \in Seq(Log)
             PROVE  Delivers(n, format, chunks, r, l \o w)
  BY <1>2 DEF Carried
<1>3. CASE p.current = NoChunk
  <2>1. r.chunks = <<>> /\ w = <<>>
    BY <1>2, <1>3, FlushMakes
  <2>2. chunks \o r.chunks = chunks
    BY <2>1, NoneAdded
  <2>3. Carried(chunks \o r.chunks, r.packer) = l \o <<>>
    BY <1>1, <1>2, <2>2 DEF Carried
  <2> QED
    BY <1>1, <2>1, <2>2, <2>3 DEF Delivers
<1>4. CASE p.current # NoChunk
  <2>1. FlushedChunk(p, r, format)
    BY <1>4, FlushMakes
  <2>2. SoundChunks(chunks \o r.chunks, n) /\ LogsOf(chunks \o r.chunks) = l \o w
    <3>1. Adds(n, chunks, r, w)
      BY <2>1, FlushedAdded
    <3> QED
      BY <3>1 DEF Adds
  <2>3. Carried(chunks \o r.chunks, r.packer) = (l \o w) \o <<>>
    BY <1>1, <1>2, <2>2 DEF Carried
  <2>4. (l \o w) \o <<>> = l \o w
    OBVIOUS
  <2> QED
    BY <1>1, <2>2, <2>3, <2>4 DEF Delivers
<1> QED
  BY <1>3, <1>4

\* A stream written is one log more, and nothing is lost.
LEMMA StreamDelivers ==
    ASSUME NEW n, NEW format \in Formats, MayWrite(n, format), NEW chunks, SoundChunks(chunks, n),
           NEW p, Ready(p, format), NEW time \in Nat,
           NEW t \in Stream1, NEW log, log = t.id, NEW r, r = WriteStream(p, t, time)
    PROVE  Delivers(n, format, chunks, r, Carried(chunks, p) \o <<log>>)
<1>1. Ready(r.packer, format)
  BY WriteStreamMakes
<1>2. LogsIn(<<>>) = <<>> /\ LogsOf(chunks) \in Seq(Log) /\ LogsIn(p.written) \in Seq(Log)
  BY NoTokens, NoneAdded, WrittenLogs
<1> SUFFICES ASSUME NEW l, l = LogsOf(chunks), NEW w, w = LogsIn(p.written), l \in Seq(Log), w \in Seq(Log),
                    NEW x, x = LogsIn(r.packer.written)
             PROVE  Delivers(n, format, chunks, r, (l \o w) \o <<log>>)
  BY <1>2 DEF Carried
<1>3. CASE Appended(p, r, log)
  <2>1. r.chunks = <<>> /\ x = Append(w, log)
    BY <1>3 DEF Appended
  <2>2. chunks \o r.chunks = chunks
    BY <2>1, NoneAdded
  <2>3. Carried(chunks \o r.chunks, r.packer) = l \o Append(w, log)
    BY <2>1, <2>2 DEF Carried
  <2>4. l \o Append(w, log) = (l \o w) \o <<log>>
    <3>1. log \in Log
      BY TokenFacts
    <3>2. \A x1, y1 \in Seq(Log) : \A z \in Log : x1 \o Append(y1, z) = (x1 \o y1) \o <<z>>
      OBVIOUS
    <3> QED
      BY <3>1, <3>2
  <2> QED
    BY <1>1, <2>2, <2>3, <2>4 DEF Delivers
<1>4. CASE Started(p, r, format, log, time)
  <2>1. x = <<log>>
    BY <1>4 DEF Started
  <2>2. SoundChunks(chunks \o r.chunks, n) /\ LogsOf(chunks \o r.chunks) = l \o w
    <3>1. CASE p.current = NoChunk
      <4>1. r.chunks = <<>> /\ w = <<>>
        BY <1>2, <1>4, <3>1 DEF Started
      <4>2. l \o w = l
        BY <4>1
      <4> QED
        BY <4>1, <4>2, NoneAdded
    <3>2. CASE p.current # NoChunk
      <4>1. FlushedChunk(p, r, format)
        BY <1>4, <3>2 DEF Started
      <4> QED
        <5>1. Adds(n, chunks, r, w)
          BY <4>1, FlushedAdded
        <5> QED
          BY <5>1 DEF Adds
    <3> QED
      BY <3>1, <3>2
  <2> QED
    BY <1>1, <2>1, <2>2 DEF Delivers, Carried
<1>5. Appended(p, r, log) \/ Started(p, r, format, log, time)
  BY WriteStreamMakes
<1> QED
  BY <1>3, <1>4, <1>5

-----------------------------------------------------------------------------
(* Every output gets what has passed *)

\* The outputs of a configuration, and what the worker still has for them.
OutputAt(k, n) == CHOOSE i \in DOMAIN Configs[k].outputs : Configs[k].outputs[i].name = n
FormatOf(i) == Conf.outputs[i].format

\* The log in hand, if the output has not had it yet.
OfName(n) == IF InHand(n) THEN <<batch[1][2]>> ELSE <<>>

\* Of each output: sound chunks, and the logs that passed in them, in the packer or in hand.
NothingLost(n) ==
    /\ SoundChunks(accepted[n], n)
    /\ passed[n] = LogsOf(accepted[n]) \o LogsPacked(n) \o OfName(n)

\* Each packer may be asked for more, and none holds anything once the worker has stopped.
PackersReady ==
    /\ packers = [i \in Outputs |-> packers[i]]
    /\ \A i \in Outputs : Ready(packers[i], FormatOf(i))
    /\ pc \in {"stopped", "ended"} => \A i \in Outputs : packers[i].written = <<>>

\* The inductive invariant of EveryOutputGetsEveryRecord and of the chunks' contents.
DeliveryInv ==
    /\ PoolInv /\ PackersReady
    /\ accepted = [n \in OutputNames |-> accepted[n]] /\ passed = [n \in OutputNames |-> passed[n]]
    /\ \A n \in OutputNames : NothingLost(n)

\* An output has a name of its own.
LEMMA OutputsOfConfig ==
    ASSUME NEW k \in DOMAIN Configs, ConfigOK(Configs[k])
    PROVE  \A i \in DOMAIN Configs[k].outputs :
              /\ Configs[k].outputs[i].name \in OutputNames
              /\ Configs[k].outputs[i].format \in Formats
              /\ MayWrite(Configs[k].outputs[i].name, Configs[k].outputs[i].format)
              /\ OutputAt(k, Configs[k].outputs[i].name) = i
<1> SUFFICES ASSUME NEW i \in DOMAIN Configs[k].outputs
             PROVE  /\ Configs[k].outputs[i].name \in OutputNames
                    /\ Configs[k].outputs[i].format \in Formats
                    /\ MayWrite(Configs[k].outputs[i].name, Configs[k].outputs[i].format)
                    /\ OutputAt(k, Configs[k].outputs[i].name) = i
  OBVIOUS
<1>1. Configs[k].outputs[i].name \in OutputNames
  BY DEF OutputNames
<1>2. Configs[k].outputs[i].format \in Formats
  <2>1. Configs[k].outputs \in Seq([name : STRING, format : {"fluentd", "datadog"}])
    BY ConfigFacts DEF Config
  <2>2. Configs[k].outputs[i] \in [name : STRING, format : {"fluentd", "datadog"}]
    <3>1. ASSUME NEW S, NEW q \in Seq(S), NEW j \in DOMAIN q PROVE q[j] \in S
      OBVIOUS
    <3> QED
      BY <2>1, <3>1
  <2> QED
    BY <2>2 DEF Formats
<1>3. MayWrite(Configs[k].outputs[i].name, Configs[k].outputs[i].format)
  BY DEF MayWrite
<1>4. OutputAt(k, Configs[k].outputs[i].name) = i
  <2> DEFINE n == Configs[k].outputs[i].name
  <2>1. \A j \in DOMAIN Configs[k].outputs : Configs[k].outputs[j].name = n => j = i
    BY DEF ConfigOK
  <2>2. /\ OutputAt(k, n) \in DOMAIN Configs[k].outputs
        /\ Configs[k].outputs[OutputAt(k, n)].name = n
    <3>1. \E j \in DOMAIN Configs[k].outputs : Configs[k].outputs[j].name = n
      OBVIOUS
    <3> QED
      BY <3>1, Zenon DEF OutputAt
  <2> QED
    BY <2>1, <2>2
<1> QED
  BY <1>1, <1>2, <1>3, <1>4

\* The outputs in use, known by their place and by their name.
LEMMA OutputFacts ==
    ASSUME Types
    PROVE  /\ Outputs = 1..Len(Conf.outputs) /\ Len(Conf.outputs) \in Nat
           /\ \A i \in Outputs : /\ NameOf(i) \in OutputNames /\ FormatOf(i) \in Formats
                                 /\ MayWrite(NameOf(i), FormatOf(i))
                                 /\ IsOutput(NameOf(i)) /\ IndexOf(NameOf(i)) = i
           /\ \A n : IsOutput(n) => IndexOf(n) \in Outputs /\ NameOf(IndexOf(n)) = n
<1>1. config \in DOMAIN Configs /\ ConfigOK(Configs[config])
  BY DEF Types, Conf
<1>2. \A i \in DOMAIN Configs[config].outputs :
              /\ Configs[config].outputs[i].name \in OutputNames
              /\ Configs[config].outputs[i].format \in Formats
              /\ MayWrite(Configs[config].outputs[i].name, Configs[config].outputs[i].format)
              /\ OutputAt(config, Configs[config].outputs[i].name) = i
  BY <1>1, OutputsOfConfig
<1>3. \A n : IndexOf(n) = OutputAt(config, n)
  BY DEF IndexOf, OutputAt, Outputs, NameOf, Conf
<1>4. \A i \in Outputs : /\ NameOf(i) \in OutputNames /\ FormatOf(i) \in Formats
                         /\ MayWrite(NameOf(i), FormatOf(i))
                         /\ IsOutput(NameOf(i)) /\ IndexOf(NameOf(i)) = i
  BY <1>2, <1>3 DEF Outputs, Conf, NameOf, FormatOf, IsOutput
<1>5. \A n : IsOutput(n) => IndexOf(n) \in Outputs /\ NameOf(IndexOf(n)) = n
  BY <1>4 DEF IsOutput
<1>6. Outputs = 1..Len(Conf.outputs) /\ Len(Conf.outputs) \in Nat
  BY <1>1, ConfigFacts DEF Outputs, Conf
<1> QED
  BY <1>4, <1>5, <1>6

\* The same outputs as before.
LEMMA OutputsKept ==
    ASSUME config' = config
    PROVE  /\ Conf' = Conf /\ Outputs' = Outputs
           /\ \A i : NameOf(i)' = NameOf(i) /\ FormatOf(i)' = FormatOf(i)
           /\ \A n : (IsOutput(n)' <=> IsOutput(n)) /\ IndexOf(n)' = IndexOf(n)
<1>1. \A n : IndexOf(n) = OutputAt(config, n) /\ IndexOf(n)' = OutputAt(config', n)
  BY DEF IndexOf, OutputAt, Outputs, NameOf, Conf
<1> QED
  BY <1>1 DEF Conf, Outputs, NameOf, FormatOf, IsOutput

\* At the start there is nothing.
LEMMA DeliveryInvInit == Init => DeliveryInv
<1> SUFFICES ASSUME Init PROVE DeliveryInv
  OBVIOUS
<1>1. PoolInv
  BY PoolInvInit
<1>2. config = 1 /\ pc = "select" /\ packers = NewPackers(Configs[1])
      /\ passed = [n \in OutputNames |-> <<>>] /\ accepted = [n \in OutputNames |-> <<>>]
  BY DEF Init
<1>3. /\ packers = [i \in Outputs |-> packers[i]]
      /\ \A i \in Outputs : packers[i] = NewMessagePacker(FormatOf(i))
  BY <1>2 DEF NewPackers, Outputs, Conf, FormatOf
<1>4. PackersReady
  <2>1. \A i \in Outputs : Ready(packers[i], FormatOf(i))
    BY <1>3, NewPackerIsReady
  <2> QED
    BY <1>2, <1>3, <2>1 DEF PackersReady
<1>5. \A n : LogsPacked(n) = <<>>
  <2> SUFFICES ASSUME NEW n, IsOutput(n) PROVE LogsIn(packers[IndexOf(n)].written) = <<>>
    BY DEF LogsPacked
  <2>1. IndexOf(n) \in Outputs
    BY <1>1, OutputFacts DEF PoolInv
  <2>2. packers[IndexOf(n)].written = <<>>
    BY <1>3, <2>1, NewPackerIsReady
  <2>3. LogsIn(<<>>) = <<>>
    BY NoTokens
  <2> QED
    BY <2>2, <2>3, Zenon
<1>6. SoundChunks(<<>>, "") /\ LogsOf(<<>>) = <<>>
  <2>1. <<>> \in Seq(Chunk) /\ DOMAIN <<>> = {}
    OBVIOUS
  <2>2. LogsOf(<<>>) = FlattenSeq(<<>>)
    BY <2>1 DEF LogsOf
  <2>3. FlattenSeq(<<>>) = <<>>
    <3>1. StreamsOf(<<>>) = FlattenSeq(<<>>)
      BY <2>1 DEF StreamsOf
    <3> QED
      BY <3>1, NoTokens
  <2> QED
    BY <2>1, <2>2, <2>3 DEF SoundChunks
<1>7. \A n \in OutputNames : NothingLost(n)
  <2> SUFFICES ASSUME NEW n \in OutputNames PROVE NothingLost(n)
    OBVIOUS
  <2>1. accepted[n] = <<>> /\ passed[n] = <<>> /\ ~InHand(n)
    BY <1>2 DEF InHand
  <2>2. SoundChunks(<<>>, n)
    BY <1>6 DEF SoundChunks
  <2>3. <<>> \o <<>> \o <<>> = <<>>
    OBVIOUS
  <2> QED
    BY <1>5, <1>6, <2>1, <2>2, <2>3 DEF NothingLost, OfName
<1> QED
  BY <1>1, <1>2, <1>4, <1>7 DEF DeliveryInv

\* A step that touches no packer, chunk or history, and not the record in hand.
LEMMA DeliveryUnchanged ==
    ASSUME DeliveryInv, PoolInv', UNCHANGED <<packers, accepted, passed, config>>,
           pc' \in {"stopped", "ended"} => pc \in {"stopped", "ended"},
           \A n : OfName(n)' = OfName(n)
    PROVE  DeliveryInv'
<1>1. /\ Outputs' = Outputs /\ \A i : FormatOf(i)' = FormatOf(i)
      /\ \A n : (IsOutput(n)' <=> IsOutput(n)) /\ IndexOf(n)' = IndexOf(n)
  BY OutputsKept
<1>2. PackersReady'
  BY <1>1 DEF DeliveryInv, PackersReady
<1>3. \A n : LogsPacked(n)' = LogsPacked(n)
  BY <1>1 DEF LogsPacked
<1>4. \A n \in OutputNames : NothingLost(n)'
  BY <1>3 DEF DeliveryInv, NothingLost
<1> QED
  BY <1>2, <1>4 DEF DeliveryInv

\* The packers are replaced one by one: what an output had is what it has.
LEMMA DeliveryOfAll ==
    ASSUME DeliveryInv, PoolInv', config' = config, PackersReady',
           accepted' = [n \in OutputNames |-> accepted'[n]], passed' = [n \in OutputNames |-> passed'[n]],
           \A n \in OutputNames : SoundChunks(accepted'[n], n),
           \A n \in OutputNames : IsOutput(n) =>
              passed'[n] = Carried(accepted'[n], packers'[IndexOf(n)]) \o OfName(n)',
           \A n \in OutputNames : ~IsOutput(n) => accepted'[n] = accepted[n] /\ passed'[n] = passed[n]
    PROVE  DeliveryInv'
<1>1. \A n : (IsOutput(n)' <=> IsOutput(n)) /\ IndexOf(n)' = IndexOf(n)
  BY OutputsKept
<1>2. ASSUME NEW n \in OutputNames PROVE NothingLost(n)'
  <2>1. SoundChunks(accepted[n], n)'
    OBVIOUS
  <2>2. CASE IsOutput(n)
    <3>1. LogsPacked(n)' = LogsIn(packers'[IndexOf(n)].written)
      BY <1>1, <2>2 DEF LogsPacked
    <3>2. passed'[n] = LogsOf(accepted'[n]) \o LogsPacked(n)' \o OfName(n)'
      BY <2>2, <3>1 DEF Carried
    <3> QED
      BY <2>1, <3>2 DEF NothingLost
  <2>3. CASE ~IsOutput(n)
    <3>1. LogsPacked(n)' = <<>> /\ LogsPacked(n) = <<>>
      BY <1>1, <2>3 DEF LogsPacked
    <3>2. OfName(n)' = <<>> /\ OfName(n) = <<>>
      BY <1>1, <2>3 DEF OfName, InHand
    <3>3. passed[n] = LogsOf(accepted[n]) \o LogsPacked(n) \o OfName(n)
      BY DEF DeliveryInv, NothingLost
    <3>4. passed'[n] = LogsOf(accepted'[n]) \o LogsPacked(n)' \o OfName(n)'
      BY <2>3, <3>1, <3>2, <3>3
    <3> QED
      BY <2>1, <3>4 DEF NothingLost
  <2> QED
    BY <2>2, <2>3
<1> QED
  BY <1>2 DEF DeliveryInv

\* A record passes: every output is to get it.
LEMMA PassesDelivery ==
    ASSUME DeliveryInv, PoolInv', TransformPasses
    PROVE  DeliveryInv'
<1>1. /\ pc = "transform" /\ pc' = "output" /\ output' = 1 /\ UNCHANGED <<batch, packers, accepted, config>>
      /\ passed' = [n \in OutputNames |-> IF IsOutput(n) THEN Append(passed[n], batch[1][2]) ELSE passed[n]]
  BY DEF TransformPasses, configVars
<1>2. /\ Outputs' = Outputs /\ \A i : FormatOf(i)' = FormatOf(i)
      /\ \A n : (IsOutput(n)' <=> IsOutput(n)) /\ IndexOf(n)' = IndexOf(n)
  BY <1>1, OutputsKept
<1>3. PackersReady'
  BY <1>1, <1>2 DEF DeliveryInv, PackersReady
<1>4. Types
  BY DEF DeliveryInv, PoolInv
<1> DEFINE log == batch[1][2]
<1>5. log \in Log
  BY <1>1, <1>4, PoolInvFacts DEF DeliveryInv, Types
<1>6. ASSUME NEW n \in OutputNames, IsOutput(n)
      PROVE  passed'[n] = Carried(accepted'[n], packers'[IndexOf(n)]) \o OfName(n)'
  <2> DEFINE i == IndexOf(n)
             c == Carried(accepted[n], packers[i])
  <2>1. i \in Outputs /\ i >= 1
    BY <1>4, <1>6, OutputFacts
  <2>2. InHand(n)' /\ ~InHand(n)
    BY <1>1, <1>2, <1>6, <2>1 DEF InHand
  <2>3. OfName(n)' = <<log>> /\ OfName(n) = <<>>
    BY <1>1, <2>2 DEF OfName
  <2>4. LogsOf(accepted[n]) \in Seq(Log) /\ LogsIn(packers[i].written) \in Seq(Log)
    BY <2>1, NoneAdded, WrittenLogs DEF DeliveryInv, NothingLost, PackersReady
  <2>5. c \in Seq(Log)
    BY <2>4 DEF Carried
  <2>6. passed[n] = c \o <<>>
    <3>1. LogsPacked(n) = LogsIn(packers[i].written)
      BY <1>6 DEF LogsPacked
    <3>2. passed[n] = LogsOf(accepted[n]) \o LogsPacked(n) \o OfName(n)
      BY DEF DeliveryInv, NothingLost
    <3> QED
      BY <2>3, <3>1, <3>2 DEF Carried
  <2> HIDE DEF c, i, log
  <2>7. Append(c \o <<>>, log) = c \o <<log>>
    BY <1>5, <2>5
  <2>8. passed'[n] = c \o <<log>>
    BY <1>1, <1>6, <2>6, <2>7 DEF log
  <2> QED
    BY <1>1, <2>3, <2>8 DEF c, i
<1>7. \A n \in OutputNames : SoundChunks(accepted'[n], n)
  BY <1>1 DEF DeliveryInv, NothingLost
<1>8. /\ accepted' = [n \in OutputNames |-> accepted'[n]] /\ passed' = [n \in OutputNames |-> passed'[n]]
      /\ \A n \in OutputNames : ~IsOutput(n) => accepted'[n] = accepted[n] /\ passed'[n] = passed[n]
  BY <1>1 DEF DeliveryInv
<1> QED
  BY <1>1, <1>3, <1>6, <1>7, <1>8, DeliveryOfAll

\* What OutputRecord does to the output it is at, and to the record in hand.
Result == WriteStream(packers[output], Stream, now)

\* What OutputRecord does to the packers, the chunks, and the worker's place.
LEMMA OutputSteps ==
    ASSUME OutputRecord, Types
    PROVE  /\ pc = "output" /\ batch # <<>> /\ output \in Outputs /\ UNCHANGED <<passed, config>>
           /\ packers' = [packers EXCEPT ![output] = Result.packer]
           /\ accepted' = [accepted EXCEPT ![NameOf(output)] = accepted[NameOf(output)] \o Result.chunks]
           /\ IF output < Len(Conf.outputs)
              THEN output' = output + 1 /\ UNCHANGED <<pc, batch>>
              ELSE pc' \in {"select", "transform"}
<1>1. pc = "output" /\ batch # <<>> /\ output \in Outputs
  BY DEF OutputRecord, Types
<1>2. UNCHANGED <<passed, config>>
  BY DEF OutputRecord, configVars
<1>3. /\ packers' = [packers EXCEPT ![output] = Result.packer]
      /\ accepted' = [accepted EXCEPT ![NameOf(output)] = accepted[NameOf(output)] \o Result.chunks]
  BY DEF OutputRecord, AcceptChunks, Result
<1>4. IF output < Len(Conf.outputs)
      THEN output' = output + 1 /\ UNCHANGED <<pc, batch>>
      ELSE pc' \in {"select", "transform"}
  BY DEF OutputRecord, NextRecord
<1> QED
  BY <1>1, <1>2, <1>3, <1>4

\* A record is output: the output it is at has got it, the others keep what they have.
LEMMA OutputDelivery ==
    ASSUME DeliveryInv, PoolInv', OutputRecord
    PROVE  DeliveryInv'
<1>1. Types /\ Types'
  BY DEF DeliveryInv, PoolInv
<1> DEFINE name == NameOf(output)
           log == batch[1][2]
<1>2. /\ pc = "output" /\ batch # <<>> /\ output \in Outputs /\ UNCHANGED <<passed, config>>
      /\ packers' = [packers EXCEPT ![output] = Result.packer]
      /\ accepted' = [accepted EXCEPT ![name] = accepted[name] \o Result.chunks]
      /\ IF output < Len(Conf.outputs)
         THEN output' = output + 1 /\ UNCHANGED <<pc, batch>>
         ELSE pc' \in {"select", "transform"}
  BY <1>1, OutputSteps
<1>3. /\ Outputs' = Outputs /\ \A i : FormatOf(i)' = FormatOf(i)
      /\ \A n : (IsOutput(n)' <=> IsOutput(n)) /\ IndexOf(n)' = IndexOf(n)
  BY <1>2, OutputsKept
<1>4. /\ Outputs = 1..Len(Conf.outputs) /\ Len(Conf.outputs) \in Nat
      /\ name \in OutputNames /\ FormatOf(output) \in Formats /\ MayWrite(name, FormatOf(output))
      /\ IsOutput(name) /\ IndexOf(name) = output
      /\ \A n : IsOutput(n) => IndexOf(n) \in Outputs /\ NameOf(IndexOf(n)) = n
  BY <1>1, <1>2, OutputFacts
<1>5. Stream \in Stream1 /\ Stream.id = log /\ log \in Log /\ now \in Nat
  BY <1>1, <1>2, <1>4, StreamIsOwn DEF DeliveryInv, Types
<1>6. /\ packers = [i \in Outputs |-> packers[i]] /\ \A i \in Outputs : Ready(packers[i], FormatOf(i))
      /\ accepted = [n \in OutputNames |-> accepted[n]]
  BY DEF DeliveryInv, PackersReady
<1>7. \A n \in OutputNames : /\ SoundChunks(accepted[n], n)
                             /\ passed[n] = LogsOf(accepted[n]) \o LogsPacked(n) \o OfName(n)
  BY DEF DeliveryInv, NothingLost
<1> DEFINE chunks == accepted[name]
           p == packers[output]
<1>8. Delivers(name, FormatOf(output), chunks, Result, Carried(chunks, p) \o <<log>>)
  <2>1. Ready(p, FormatOf(output)) /\ SoundChunks(chunks, name)
    BY <1>2, <1>4, <1>6, <1>7
  <2>2. Result = WriteStream(p, Stream, now)
    BY DEF Result
  <2> HIDE DEF p, chunks, log, name
  <2> QED
    BY <1>4, <1>5, <2>1, <2>2, StreamDelivers
<1>9. packers'[output] = Result.packer /\ \A i \in Outputs : i # output => packers'[i] = packers[i]
  BY <1>2, <1>6
<1>10. packers' = [i \in Outputs |-> packers'[i]]
  BY <1>2, <1>6
<1>11. accepted'[name] = chunks \o Result.chunks /\ \A n \in OutputNames : n # name => accepted'[n] = accepted[n]
  BY <1>2, <1>4, <1>6
<1>12. accepted' = [n \in OutputNames |-> accepted'[n]]
  BY <1>2, <1>6
<1> HIDE DEF log, chunks, p, name
<1>13. PackersReady'
  <2>1. \A i \in Outputs : Ready(packers'[i], FormatOf(i))
    BY <1>6, <1>8, <1>9 DEF Delivers
  <2>2. pc' \notin {"stopped", "ended"}
    BY <1>2
  <2> QED
    BY <1>3, <1>10, <2>1, <2>2 DEF PackersReady
<1>14. \A n \in OutputNames : SoundChunks(accepted'[n], n)
  BY <1>7, <1>8, <1>11 DEF Delivers
<1>15. ASSUME NEW n \in OutputNames, IsOutput(n)
       PROVE  passed'[n] = Carried(accepted'[n], packers'[IndexOf(n)]) \o OfName(n)'
  <2> DEFINE i == IndexOf(n)
  <2>1. i \in Outputs /\ NameOf(i) = n
    BY <1>4, <1>15
  <2>2. i \in Nat /\ output \in Nat /\ i <= Len(Conf.outputs) /\ output <= Len(Conf.outputs)
    BY <1>2, <1>4, <2>1
  <2>3. passed[n] = Carried(accepted[n], packers[i]) \o OfName(n)
    BY <1>7, <1>15 DEF LogsPacked, Carried
  <2>4. CASE i = output
    <3>1. n = name
      BY <2>1, <2>4 DEF name
    <3>2. InHand(n)
      BY <1>2, <1>15, <2>2, <2>4 DEF InHand
    <3>3. OfName(n) = <<log>>
      BY <3>2 DEF OfName, log
    <3>4. ~InHand(n)'
      <4>1. CASE output < Len(Conf.outputs)
        BY <1>2, <1>3, <2>2, <2>4, <4>1 DEF InHand
      <4>2. CASE ~(output < Len(Conf.outputs))
        BY <1>2, <4>2 DEF InHand
      <4> QED
        BY <4>1, <4>2
    <3>5. OfName(n)' = <<>>
      BY <3>4 DEF OfName
    <3>6. Carried(accepted'[n], packers'[i]) = Carried(chunks, p) \o <<log>>
      BY <1>8, <1>9, <1>11, <2>4, <3>1 DEF Delivers
    <3>7. Carried(chunks, p) \in Seq(Log)
      <4>1. SoundChunks(chunks, name) /\ Ready(p, FormatOf(output))
        BY <1>2, <1>4, <1>6, <1>7 DEF chunks, p
      <4>2. LogsOf(chunks) \in Seq(Log) /\ LogsIn(p.written) \in Seq(Log)
        BY <4>1, NoneAdded, WrittenLogs
      <4> QED
        BY <4>2 DEF Carried
    <3>8. passed'[n] = Carried(chunks, p) \o <<log>>
      BY <1>2, <2>3, <2>4, <3>1, <3>3 DEF chunks, p
    <3>9. (Carried(chunks, p) \o <<log>>) \o <<>> = Carried(chunks, p) \o <<log>>
      BY <1>5, <3>7
    <3> QED
      BY <3>5, <3>6, <3>8, <3>9
  <2>5. CASE i # output
    <3>1. n # name /\ packers'[i] = packers[i] /\ accepted'[n] = accepted[n]
      BY <1>4, <1>9, <1>11, <2>1, <2>5
    <3>2. OfName(n)' = OfName(n)
      <4>1. CASE output < Len(Conf.outputs)
        <5>1. (i >= output + 1) <=> (i >= output)
          BY <2>2, <2>5
        <5>2. InHand(n)' <=> InHand(n)
          BY <1>2, <1>3, <4>1, <5>1 DEF InHand
        <5> QED
          BY <1>2, <4>1, <5>2 DEF OfName
      <4>2. CASE ~(output < Len(Conf.outputs))
        <5>1. ~(i >= output)
          BY <2>2, <2>5, <4>2
        <5>2. ~InHand(n)' /\ ~InHand(n)
          BY <1>2, <4>2, <5>1 DEF InHand
        <5> QED
          BY <5>2 DEF OfName
      <4> QED
        BY <4>1, <4>2
    <3> QED
      BY <1>2, <2>3, <3>1, <3>2
  <2> QED
    BY <2>4, <2>5
<1>16. ASSUME NEW n \in OutputNames, ~IsOutput(n) PROVE accepted'[n] = accepted[n] /\ passed'[n] = passed[n]
  BY <1>2, <1>4, <1>11, <1>16
<1>17. passed' = [n \in OutputNames |-> passed'[n]]
  BY <1>2 DEF DeliveryInv
<1> QED
  BY <1>2, <1>12, <1>13, <1>14, <1>15, <1>16, <1>17, DeliveryOfAll

\* A flush: what was in the packers is in the chunks.
LEMMA FlushDelivery ==
    ASSUME DeliveryInv, PoolInv', OnTick \/ OnStop
    PROVE  DeliveryInv'
<1>1. Types
  BY DEF DeliveryInv, PoolInv
<1>2. /\ pc = "select" /\ pc' # "output" /\ UNCHANGED <<passed, config>>
      /\ packers' = [i \in Outputs |-> Flushed(i).packer]
      /\ accepted' = [n \in OutputNames |-> accepted[n] \o ChunksFor(n)]
  BY DEF OnTick, OnStop, FlushChunks, configVars
<1>3. /\ Outputs' = Outputs /\ \A i : FormatOf(i)' = FormatOf(i)
      /\ \A n : (IsOutput(n)' <=> IsOutput(n)) /\ IndexOf(n)' = IndexOf(n)
  BY <1>2, OutputsKept
<1>4. /\ \A i \in Outputs : FormatOf(i) \in Formats /\ MayWrite(NameOf(i), FormatOf(i))
      /\ \A n : IsOutput(n) => IndexOf(n) \in Outputs /\ NameOf(IndexOf(n)) = n
  BY <1>1, OutputFacts
<1>5. \A i \in Outputs : Ready(packers[i], FormatOf(i))
  BY DEF DeliveryInv, PackersReady
<1>6. \A n \in OutputNames : /\ SoundChunks(accepted[n], n)
                             /\ passed[n] = LogsOf(accepted[n]) \o LogsPacked(n) \o OfName(n)
  BY DEF DeliveryInv, NothingLost
<1>7. \A n : OfName(n) = <<>> /\ OfName(n)' = <<>>
  BY <1>2 DEF OfName, InHand
<1>8. PackersReady'
  <2>1. \A i \in Outputs : /\ packers'[i] = Flushed(i).packer
                           /\ Ready(Flushed(i).packer, FormatOf(i)) /\ Flushed(i).packer.written = <<>>
    BY <1>2, <1>4, <1>5, FlushMakes DEF Flushed
  <2>2. packers' = [i \in Outputs |-> packers'[i]]
    BY <1>2
  <2> QED
    BY <1>3, <2>1, <2>2 DEF PackersReady
<1>9. ASSUME NEW n \in OutputNames, IsOutput(n)
      PROVE  /\ SoundChunks(accepted'[n], n)
             /\ passed'[n] = Carried(accepted'[n], packers'[IndexOf(n)]) \o OfName(n)'
  <2> SUFFICES ASSUME NEW i, i = IndexOf(n), NEW p, p = packers[i], NEW chunks, chunks = accepted[n],
                      NEW r, r = Flushed(i)
               PROVE  /\ SoundChunks(accepted'[n], n)
                      /\ passed'[n] = Carried(accepted'[n], packers'[i]) \o OfName(n)'
    OBVIOUS
  <2>1. i \in Outputs /\ NameOf(i) = n
    BY <1>4, <1>9
  <2>2. Ready(p, FormatOf(i)) /\ FormatOf(i) \in Formats /\ MayWrite(n, FormatOf(i)) /\ SoundChunks(chunks, n)
    BY <1>4, <1>5, <1>6, <2>1
  <2>3. r = FlushBuffer(p)
    BY DEF Flushed
  <2>4. Delivers(n, FormatOf(i), chunks, r, Carried(chunks, p))
    BY <2>2, <2>3, FlushDelivers
  <2>5. accepted'[n] = chunks \o r.chunks /\ packers'[i] = r.packer
    BY <1>2, <1>9, <2>1 DEF ChunksFor
  <2>6. passed[n] = Carried(chunks, p) \o <<>>
    BY <1>6, <1>7, <1>9 DEF LogsPacked, Carried
  <2> QED
    BY <1>2, <1>7, <2>4, <2>5, <2>6 DEF Delivers
<1>10. ASSUME NEW n \in OutputNames, ~IsOutput(n)
       PROVE  /\ SoundChunks(accepted'[n], n) /\ accepted'[n] = accepted[n] /\ passed'[n] = passed[n]
  <2>1. accepted'[n] = accepted[n] \o <<>>
    BY <1>2, <1>10 DEF ChunksFor
  <2>2. SoundChunks(accepted[n], n)
    BY <1>6
  <2>3. accepted'[n] = accepted[n]
    BY <2>1, <2>2, NoneAdded
  <2> QED
    BY <1>2, <2>2, <2>3
<1>11. accepted' = [n \in OutputNames |-> accepted'[n]] /\ passed' = [n \in OutputNames |-> passed'[n]]
  BY <1>2 DEF DeliveryInv
<1> QED
  BY <1>2, <1>8, <1>9, <1>10, <1>11, DeliveryOfAll

\* A reload: new packers, when nothing is in the old ones.
LEMMA ReloadDelivery ==
    ASSUME DeliveryInv, PoolInv', CompleteReload
    PROVE  DeliveryInv'
<1>1. Types /\ Types'
  BY DEF DeliveryInv, PoolInv
<1>2. /\ pc = "ended" /\ pc' = "select" /\ UNCHANGED <<passed, accepted>>
      /\ packers' = NewPackers(Configs[loading]) /\ config' = loading
  BY DEF CompleteReload, historyVars
<1>3. \A n : OfName(n) = <<>> /\ OfName(n)' = <<>>
  BY <1>2 DEF OfName, InHand
<1>4. LogsIn(<<>>) = <<>>
  BY NoTokens
<1>5. \A n : LogsPacked(n) = <<>>
  <2> SUFFICES ASSUME NEW n, IsOutput(n) PROVE LogsIn(packers[IndexOf(n)].written) = <<>>
    BY DEF LogsPacked
  <2>1. IndexOf(n) \in Outputs
    BY <1>1, OutputFacts
  <2>2. packers[IndexOf(n)].written = <<>>
    BY <1>2, <2>1 DEF DeliveryInv, PackersReady
  <2> QED
    BY <1>4, <2>2, Zenon
<1>6. /\ packers' = [i \in Outputs' |-> packers'[i]]
      /\ \A i \in Outputs' : packers'[i] = NewMessagePacker(FormatOf(i)')
  BY <1>2 DEF NewPackers, Outputs, Conf, FormatOf
<1>7. PackersReady'
  <2>1. \A i \in Outputs' : Ready(packers'[i], FormatOf(i)')
    BY <1>6, NewPackerIsReady
  <2> QED
    BY <1>2, <1>6, <2>1 DEF PackersReady
<1>8. \A n : LogsPacked(n)' = <<>>
  <2> SUFFICES ASSUME NEW n, IsOutput(n)' PROVE LogsIn(packers'[IndexOf(n)'].written) = <<>>
    BY DEF LogsPacked
  <2>1. IndexOf(n)' \in Outputs'
    <3>1. \A k \in DOMAIN Configs : ConfigOK(Configs[k]) =>
             \A i \in DOMAIN Configs[k].outputs : OutputAt(k, Configs[k].outputs[i].name) = i
      BY OutputsOfConfig
    <3>2. config' \in DOMAIN Configs /\ ConfigOK(Configs[config'])
      BY <1>1 DEF Types, Conf
    <3>3. IndexOf(n)' = OutputAt(config', n)
      BY DEF IndexOf, OutputAt, Outputs, NameOf, Conf
    <3>4. \E i \in DOMAIN Configs[config'].outputs : Configs[config'].outputs[i].name = n
      BY DEF IsOutput, Outputs, NameOf, Conf
    <3> QED
      BY <3>1, <3>2, <3>3, <3>4 DEF Outputs, Conf
  <2>2. packers'[IndexOf(n)'].written = <<>>
    BY <1>6, <2>1, NewPackerIsReady
  <2> QED
    BY <1>4, <2>2, Zenon
<1>9. \A n \in OutputNames : NothingLost(n)'
  BY <1>2, <1>3, <1>5, <1>8 DEF DeliveryInv, NothingLost
<1> QED
  BY <1>2, <1>7, <1>9 DEF DeliveryInv

\* Every step.
LEMMA DeliveryInvNext == OutputsDoNotGrow /\ DeliveryInv /\ [Next]_vars => DeliveryInv'
<1> SUFFICES ASSUME OutputsDoNotGrow, DeliveryInv, [Next]_vars PROVE DeliveryInv'
  OBVIOUS
<1>1. PoolInv'
  BY PoolInvNext DEF DeliveryInv
<1>2. ASSUME UNCHANGED <<packers, accepted, passed, config, pc, batch, output>> PROVE DeliveryInv'
  <2>1. \A n : (IsOutput(n)' <=> IsOutput(n)) /\ IndexOf(n)' = IndexOf(n)
    BY <1>2, OutputsKept
  <2>2. \A n : OfName(n)' = OfName(n)
    BY <1>2, <2>1 DEF OfName, InHand
  <2> QED
    BY <1>1, <1>2, <2>2, DeliveryUnchanged
<1>3. ASSUME UNCHANGED <<packers, accepted, passed, config>>, pc # "output", pc' # "output",
             pc' \in {"stopped", "ended"} => pc \in {"stopped", "ended"}
      PROVE  DeliveryInv'
  <2>1. \A n : OfName(n)' = OfName(n)
    BY <1>3 DEF OfName, InHand
  <2> QED
    BY <1>1, <1>3, <2>1, DeliveryUnchanged
<1>4. CASE Receive \/ Send \/ SendTimesOut \/ BeginReload \/ Shutdown \/ ClockTicks \/ Done \/ UNCHANGED vars
  BY <1>2, <1>4 DEF Receive, Send, SendTimesOut, BeginReload, Shutdown, ClockTicks, Done, vars, workerVars,
       historyVars, configVars
<1>5. CASE OnInput
  <2>1. UNCHANGED <<packers, accepted, passed, config>> /\ pc = "select" /\ pc' = "transform"
    BY <1>5 DEF OnInput, historyVars, configVars
  <2> QED
    BY <1>3, <2>1
<1>6. CASE TransformDrops
  <2>1. UNCHANGED <<packers, accepted, passed, config>> /\ pc = "transform" /\ pc' \in {"select", "transform"}
    BY <1>6 DEF TransformDrops, NextRecord, configVars
  <2> QED
    BY <1>3, <2>1
<1>7. CASE DestroyBufferer
  <2>1. UNCHANGED <<packers, accepted, passed, config>> /\ pc = "stopped" /\ pc' \in {"stopped", "ended"}
    BY <1>7 DEF DestroyBufferer, historyVars, configVars
  <2> QED
    BY <1>3, <2>1
<1> QED
  BY <1>1, <1>4, <1>5, <1>6, <1>7, PassesDelivery, OutputDelivery, FlushDelivery, ReloadDelivery
     DEF Next, Worker

\* The records of the outputs, without their contents.
LEMMA DeliveryInvSays == DeliveryInv => EveryOutputGetsEveryRecord
<1> SUFFICES ASSUME DeliveryInv PROVE EveryOutputGetsEveryRecord
  OBVIOUS
<1>1. \A n \in OutputNames : /\ SoundChunks(accepted[n], n)
                             /\ passed[n] = LogsOf(accepted[n]) \o LogsPacked(n) \o OfName(n)
  BY DEF DeliveryInv, NothingLost
<1> QED
  BY <1>1 DEF EveryOutputGetsEveryRecord, LogsAccepted, LogsOf, OfName, DeliveryInv, PackersReady

\* What an output of this name may write, and what it has written in some chunks.
TokenOf(n) == {StreamFor(n, log) : log \in Log} \cup Marks
Own(n, w) == w \in Seq(TokenOf(n))
OwnChunks(n, chunks) == \A k \in DOMAIN chunks : Own(n, chunks[k].data)

\* A packer has a form.
LEMMA ReadyIsPacker ==
    ASSUME NEW p, NEW format, Ready(p, format)
    PROVE  \E id : \E m \in Nat, bytes \in Nat, w \in Seq(Token) :
              p = Packer(format, id, m, bytes, w, p.epochNano, p.sequence)
<1>1. <<>> \in Seq(Token) /\ 0 \in Nat
  OBVIOUS
<1>2. CASE Idle(p, format, p.epochNano, p.sequence)
  BY <1>1, <1>2, Zenon DEF Idle
<1>3. CASE ~Idle(p, format, p.epochNano, p.sequence)
  <2>1. PICK n \in Nat \ {0}, bytes \in Nat, w \in Seq(Token) :
           Holding(p, format, p.current.id, p.epochNano, p.sequence, n, bytes, w)
    BY <1>3 DEF Ready
  <2>2. p = Packer(format, p.current.id, n, bytes, w, p.epochNano, p.sequence) /\ n \in Nat
    BY <2>1 DEF Holding
  <2> QED
    BY <2>2
<1> QED
  BY <1>2, <1>3

\* A token more.
LEMMA OwnTokens ==
    ASSUME NEW n \in OutputNames
    PROVE  /\ TokenOf(n) \subseteq Token /\ Own(n, <<>>)
           /\ \A w : \A t \in TokenOf(n) : Own(n, w) => Own(n, Append(w, t)) /\ w \o <<t>> = Append(w, t)
           /\ \A w : Own(n, w) => w \o <<>> = w /\ <<>> \o w = w
           /\ \A m \in {"[", ",", "]"} : Mark(m) \in TokenOf(n)
<1>1. TokenOf(n) \subseteq Token
  BY DEF TokenOf, Token, Stream1
<1>2. \A m \in {"[", ",", "]"} : Mark(m) \in TokenOf(n)
  BY DEF TokenOf, Marks
<1>3. ASSUME NEW T
      PROVE  /\ <<>> \in Seq(T) /\ \A w \in Seq(T) : w \o <<>> = w /\ <<>> \o w = w
             /\ \A w \in Seq(T), t \in T : Append(w, t) \in Seq(T) /\ w \o <<t>> = Append(w, t)
  OBVIOUS
<1> QED
  BY <1>1, <1>2, <1>3 DEF Own

\* Write adds the stream, and perhaps a mark.
LEMMA OwnWrite ==
    ASSUME NEW n \in OutputNames, NEW format, NEW id, NEW m \in Nat, NEW bytes \in Nat, NEW w, Own(n, w),
           NEW time, NEW sequence, NEW p, p = Packer(format, id, m, bytes, w, time, sequence),
           NEW t \in TokenOf(n), IsStream(t)
    PROVE  Own(n, Write(p, t).written)
<1>1. w \in Seq(Token)
  <2>1. TokenOf(n) \subseteq Token /\ w \in Seq(TokenOf(n))
    BY OwnTokens DEF Own
  <2>2. ASSUME NEW S, NEW T, S \subseteq T, NEW q \in Seq(S) PROVE q \in Seq(T)
    BY <2>2
  <2> QED
    BY <2>1, <2>2
<1>2. Own(n, Append(w, t)) /\ Own(n, Append(Commas(m, w), t))
  <2>1. Own(n, Commas(m, w))
    BY OwnTokens DEF Commas
  <2> QED
    BY <2>1, OwnTokens
<1>3. Write(p, t) = IF format = "datadog"
        THEN Packer(format, id, m + 1, bytes + 1 + t.len, Append(Commas(m, w), t), time, sequence)
        ELSE Packer(format, id, m + 1, bytes + t.len, Append(w, t), time, sequence)
  BY <1>1, WriteMakes
<1> QED
  BY <1>2, <1>3, PackerParts

\* A chunk is what was written, and perhaps a mark.
LEMMA OwnFlush ==
    ASSUME NEW n \in OutputNames, NEW format, NEW p, Ready(p, format), Own(n, p.written), NEW r, r = FlushBuffer(p)
    PROVE  OwnChunks(n, r.chunks)
<1>1. CASE p.current = NoChunk
  <2>1. r.chunks = <<>> /\ DOMAIN <<>> = {}
    BY <1>1 DEF FlushBuffer
  <2> QED
    BY <2>1 DEF OwnChunks
<1>2. CASE p.current # NoChunk
  <2>1. PICK id, m, bytes, w : /\ m \in Nat /\ bytes \in Nat /\ w \in Seq(Token)
                                /\ p = Packer(format, id, m, bytes, w, p.epochNano, p.sequence)
    BY ReadyIsPacker
  <2>2. p.written = w
    BY <2>1, PackerParts
  <2>3. FinalizeChunk(p).data = Closed(format, w)
    BY <2>1, FinalizeMakes
  <2>4. Own(n, Closed(format, w))
    BY <2>2, OwnTokens DEF Closed
  <2>5. r.chunks = <<FinalizeChunk(p)>>
    BY <1>2 DEF FlushBuffer
  <2>6. \A x : DOMAIN <<x>> = {1} /\ <<x>>[1] = x
    OBVIOUS
  <2> QED
    BY <2>3, <2>4, <2>5, <2>6 DEF OwnChunks
<1> QED
  BY <1>1, <1>2

\* What WriteStream writes and flushes is the output's own.
OwnResult(n, r) == Own(n, r.packer.written) /\ OwnChunks(n, r.chunks)

\* An idle packer writes nothing but what opens a chunk before the stream.
LEMMA OwnFirst ==
    ASSUME NEW n \in OutputNames, NEW format \in Formats, NEW p, Ready(p, format), p.written = <<>>,
           NEW t \in TokenOf(n), IsStream(t), NEW time \in Nat
    PROVE  Own(n, Write(NewChunk(p, time), t).written)
<1>1. PICK id, m, bytes, w : /\ m \in Nat /\ bytes \in Nat /\ w \in Seq(Token)
                              /\ p = Packer(format, id, m, bytes, w, p.epochNano, p.sequence)
  BY ReadyIsPacker
<1>2. w = <<>> /\ p.epochNano \in Nat
  BY <1>1, PackerParts DEF Ready
<1> SUFFICES ASSUME NEW o, o = Opening(format), NEW e \in Nat, e = p.epochNano, NEW q, q = p.sequence,
                    NEW next, next = NextNumber(e, q, time), NEW last, last = Latest(e, time), NEW c, c = NewChunk(p, time)
             PROVE  Own(n, Write(c, t).written)
  BY <1>2
<1>3. c = Packer(format, <<time, next>>, 0, Len(o), o, last, next)
  BY <1>1, <1>2, NewChunkMakes
<1>4. Own(n, o) /\ Len(o) \in Nat
  <2>1. Own(n, o)
    <3>1. <<Mark("[")>> = <<>> \o <<Mark("[")>>
      OBVIOUS
    <3>2. Own(n, <<>>) /\ Mark("[") \in TokenOf(n)
      BY OwnTokens
    <3>3. Own(n, Append(<<>>, Mark("["))) /\ <<>> \o <<Mark("[")>> = Append(<<>>, Mark("["))
      BY <3>2, OwnTokens
    <3> QED
      BY <3>1, <3>2, <3>3, Zenon DEF Opening
  <2> QED
    BY <2>1 DEF Own
<1> QED
  BY <1>3, <1>4, OwnWrite

\* WriteStream writes into the chunk there is, or the first stream of another.
LEMMA OwnStream ==
    ASSUME NEW n \in OutputNames, NEW format \in Formats, NEW p, Ready(p, format), Own(n, p.written),
           NEW t \in TokenOf(n), IsStream(t), NEW time \in Nat, NEW r, r = WriteStream(p, t, time)
    PROVE  OwnResult(n, r)
<1>1. OwnChunks(n, <<>>)
  BY DEF OwnChunks
<1>2. CASE p.current = NoChunk
  <2>1. r.packer = Write(NewChunk(p, time), t) /\ r.chunks = <<>>
    BY <1>2 DEF WriteStream
  <2>2. p.written = <<>>
    BY <1>2, FlushMakes
  <2> QED
    BY <1>1, <2>1, <2>2, OwnFirst DEF OwnResult
<1>3. CASE p.current # NoChunk /\ ~CanAppendData(p, t.len)
  <2> DEFINE f == FlushBuffer(p)
  <2>1. Ready(f.packer, format) /\ f.packer.current = NoChunk /\ f.packer.written = <<>>
    BY FlushMakes
  <2>2. r.packer = Write(NewChunk(f.packer, time), t) /\ r.chunks = f.chunks
    BY <1>3, <2>1 DEF WriteStream
  <2>3. OwnChunks(n, f.chunks)
    BY OwnFlush
  <2> HIDE DEF f
  <2> QED
    BY <2>1, <2>2, <2>3, OwnFirst DEF OwnResult
<1>4. CASE p.current # NoChunk /\ CanAppendData(p, t.len)
  <2>1. r.packer = Write(p, t) /\ r.chunks = <<>>
    BY <1>4 DEF WriteStream
  <2>2. PICK id, m, bytes, w : /\ m \in Nat /\ bytes \in Nat /\ w \in Seq(Token)
                                /\ p = Packer(format, id, m, bytes, w, p.epochNano, p.sequence)
    BY ReadyIsPacker
  <2>3. p.written = w
    BY <2>2, PackerParts
  <2>4. Own(n, Write(p, t).written)
    BY <2>2, <2>3, OwnWrite
  <2> QED
    BY <1>1, <2>1, <2>4 DEF OwnResult
<1> QED
  BY <1>2, <1>3, <1>4

\* One chunk more, or none.
Few(chunks) == chunks = <<>> \/ \E c : chunks = <<c>>

\* A packer makes one at a time.
LEMMA FewAtATime == \A p : Few(FlushBuffer(p).chunks) /\ \A t, time : Few(WriteStream(p, t, time).chunks)
<1>1. \A p : Few(FlushBuffer(p).chunks)
  BY DEF Few, FlushBuffer
<1>2. \A p, t, time : WriteStream(p, t, time).chunks \in {<<>>, FlushBuffer(p).chunks}
  BY DEF WriteStream
<1> QED
  BY <1>1, <1>2 DEF Few

\* The chunks stay the output's own.
LEMMA OwnAdded ==
    ASSUME NEW n, NEW m, NEW chunks, SoundChunks(chunks, m), OwnChunks(n, chunks),
           NEW more, OwnChunks(n, more), Few(more)
    PROVE  OwnChunks(n, chunks \o more)
<1>1. chunks \in Seq(Chunk)
  BY DEF SoundChunks
<1>2. CASE more = <<>>
  <2>1. chunks \o more = chunks
    BY <1>1, <1>2
  <2> QED
    BY <2>1
<1>3. CASE more # <<>>
  <2> PICK c : more = <<c>>
    BY <1>3 DEF Few
  <2> DEFINE l == Len(chunks)
             new == chunks \o <<c>>
  <2>1. /\ l \in Nat /\ DOMAIN chunks = 1..l /\ DOMAIN new = 1..(l + 1) /\ new[l + 1] = c
        /\ \A k \in 1..l : new[k] = chunks[k]
    BY <1>1
  <2>2. Own(n, c.data)
    <3>1. DOMAIN <<c>> = {1} /\ <<c>>[1] = c
      OBVIOUS
    <3> QED
      BY <3>1 DEF OwnChunks
  <2> HIDE DEF new, l
  <2>3. \A k \in DOMAIN new : Own(n, new[k].data)
    <3>1. \A k \in 1..(l + 1) : k \in 1..l \/ k = l + 1
      BY <2>1
    <3> QED
      BY <2>1, <2>2, <3>1 DEF OwnChunks
  <2> QED
    BY <2>3 DEF OwnChunks, new
<1> QED
  BY <1>2, <1>3

\* The inductive invariant of StreamsShowTheirOwnLog: what is written for an output is its own.
TokensOwn ==
    /\ \A i \in Outputs : Own(NameOf(i), packers[i].written)
    /\ \A n \in OutputNames : OwnChunks(n, accepted[n])

\* Nothing is written at first.
LEMMA TokensOwnInit == Init /\ DeliveryInv => TokensOwn
<1> SUFFICES ASSUME Init, DeliveryInv PROVE TokensOwn
  OBVIOUS
<1>1. packers = NewPackers(Conf) /\ accepted = [n \in OutputNames |-> <<>>]
  BY DEF Init, Conf
<1>2. \A i \in Outputs : packers[i] = NewMessagePacker(FormatOf(i))
  BY <1>1 DEF NewPackers, Outputs, FormatOf
<1>3. \A i \in Outputs : packers[i].written = <<>>
  BY <1>2, NewPackerIsReady
<1>4. DOMAIN <<>> = {} /\ \A T : <<>> \in Seq(T)
  OBVIOUS
<1> QED
  BY <1>1, <1>3, <1>4 DEF TokensOwn, Own, OwnChunks

\* A record is output: the stream is the output's own.
LEMMA OutputOwn ==
    ASSUME DeliveryInv, TokensOwn, OutputRecord
    PROVE  TokensOwn'
<1>1. Types /\ PoolInv
  BY DEF DeliveryInv, PoolInv
<1> DEFINE name == NameOf(output)
           log == batch[1][2]
           chunks == accepted[name]
           p == packers[output]
<1>2. /\ pc = "output" /\ batch # <<>> /\ output \in Outputs /\ config' = config
      /\ packers' = [packers EXCEPT ![output] = Result.packer]
      /\ accepted' = [accepted EXCEPT ![name] = accepted[name] \o Result.chunks]
  BY <1>1, OutputSteps
<1>3. Outputs' = Outputs /\ \A i : NameOf(i)' = NameOf(i)
  BY <1>2, OutputsKept
<1>4. name \in OutputNames /\ FormatOf(output) \in Formats
  BY <1>1, <1>2, OutputFacts
<1>5. Stream = StreamFor(name, log) /\ log \in Log /\ Stream \in Stream1 /\ now \in Nat
  BY <1>1, <1>2, <1>4, StreamIsOwn DEF Types
<1>6. /\ packers = [i \in Outputs |-> packers[i]] /\ accepted = [n \in OutputNames |-> accepted[n]]
      /\ Ready(p, FormatOf(output)) /\ SoundChunks(chunks, name)
  BY <1>1, <1>2, <1>4 DEF DeliveryInv, PackersReady, NothingLost
<1>7. Own(name, p.written) /\ OwnChunks(name, chunks)
  BY <1>2, <1>4 DEF TokensOwn
<1>8. Stream \in TokenOf(name) /\ IsStream(Stream)
  BY <1>5, TokenFacts DEF TokenOf, IsStream
<1>9. packers'[output] = Result.packer /\ \A i \in Outputs : i # output => packers'[i] = packers[i]
  BY <1>2, <1>6
<1>10. accepted'[name] = chunks \o Result.chunks /\ \A n \in OutputNames : n # name => accepted'[n] = accepted[n]
  BY <1>2, <1>4, <1>6
<1> HIDE DEF log, chunks, p, name
<1>11. OwnResult(name, Result)
  <2>1. Result = WriteStream(p, Stream, now)
    BY DEF Result, p
  <2> QED
    BY <1>4, <1>5, <1>6, <1>7, <1>8, <2>1, OwnStream
<1>12. OwnChunks(name, chunks \o Result.chunks)
  BY <1>6, <1>7, <1>11, OwnAdded, FewAtATime DEF OwnResult, Result
<1>13. \A i \in Outputs : Own(NameOf(i), packers'[i].written)
  BY <1>9, <1>11 DEF TokensOwn, OwnResult, name
<1>14. \A n \in OutputNames : OwnChunks(n, accepted'[n])
  BY <1>10, <1>12 DEF TokensOwn
<1> QED
  BY <1>3, <1>13, <1>14 DEF TokensOwn

\* A flush: chunks of what was written.
LEMMA FlushOwn ==
    ASSUME DeliveryInv, TokensOwn, OnTick \/ OnStop
    PROVE  TokensOwn'
<1>1. Types
  BY DEF DeliveryInv, PoolInv
<1>2. /\ config' = config
      /\ packers' = [i \in Outputs |-> Flushed(i).packer]
      /\ accepted' = [n \in OutputNames |-> accepted[n] \o ChunksFor(n)]
  BY DEF OnTick, OnStop, FlushChunks, configVars
<1>3. Outputs' = Outputs /\ \A i : NameOf(i)' = NameOf(i)
  BY <1>2, OutputsKept
<1>4. /\ \A i \in Outputs : FormatOf(i) \in Formats
      /\ \A n : IsOutput(n) => IndexOf(n) \in Outputs /\ NameOf(IndexOf(n)) = n
  BY <1>1, OutputFacts
<1>5. \A i \in Outputs : Ready(packers[i], FormatOf(i))
  BY DEF DeliveryInv, PackersReady
<1>6. \A i \in Outputs : Own(NameOf(i), packers'[i].written)
  <2> SUFFICES ASSUME NEW i \in Outputs PROVE Own(NameOf(i), packers'[i].written)
    OBVIOUS
  <2>1. packers'[i] = FlushBuffer(packers[i]).packer
    BY <1>2 DEF Flushed
  <2>2. packers'[i].written = <<>>
    BY <1>4, <1>5, <2>1, FlushMakes
  <2>3. \A T : <<>> \in Seq(T)
    OBVIOUS
  <2> QED
    BY <2>2, <2>3 DEF Own
<1>7. ASSUME NEW n \in OutputNames PROVE OwnChunks(n, accepted'[n])
  <2>1. accepted'[n] = accepted[n] \o ChunksFor(n) /\ SoundChunks(accepted[n], n) /\ OwnChunks(n, accepted[n])
    BY <1>2 DEF DeliveryInv, NothingLost, TokensOwn
  <2>2. OwnChunks(n, ChunksFor(n)) /\ Few(ChunksFor(n))
    <3>1. CASE IsOutput(n)
      <4> DEFINE i == IndexOf(n)
      <4>1. i \in Outputs /\ NameOf(i) = n
        BY <1>4, <3>1
      <4>2. Ready(packers[i], FormatOf(i)) /\ Own(n, packers[i].written)
        BY <1>5, <4>1 DEF TokensOwn
      <4> HIDE DEF i
      <4>3. OwnChunks(n, FlushBuffer(packers[i]).chunks) /\ Few(FlushBuffer(packers[i]).chunks)
        BY <4>2, OwnFlush, FewAtATime
      <4>4. ChunksFor(n) = FlushBuffer(packers[i]).chunks
        BY <3>1 DEF ChunksFor, Flushed, i
      <4> QED
        BY <4>3, <4>4
    <3>2. CASE ~IsOutput(n)
      <4>1. ChunksFor(n) = <<>> /\ DOMAIN <<>> = {}
        BY <3>2 DEF ChunksFor
      <4> QED
        BY <4>1 DEF OwnChunks, Few
    <3> QED
      BY <3>1, <3>2
  <2> QED
    BY <2>1, <2>2, OwnAdded
<1> QED
  BY <1>3, <1>6, <1>7 DEF TokensOwn

\* Every step.
LEMMA TokensOwnNext == DeliveryInv /\ TokensOwn /\ [Next]_vars => TokensOwn'
<1> SUFFICES ASSUME DeliveryInv, TokensOwn, [Next]_vars PROVE TokensOwn'
  OBVIOUS
<1>1. ASSUME UNCHANGED <<packers, accepted, config>> PROVE TokensOwn'
  <2>1. Outputs' = Outputs /\ \A i : NameOf(i)' = NameOf(i)
    BY <1>1, OutputsKept
  <2> QED
    BY <1>1, <2>1 DEF TokensOwn
<1>2. CASE CompleteReload
  <2>1. packers' = NewPackers(Configs[loading]) /\ config' = loading /\ accepted' = accepted
    BY <1>2 DEF CompleteReload, historyVars
  <2>2. \A i \in Outputs' : packers'[i] = NewMessagePacker(FormatOf(i)')
    BY <2>1 DEF NewPackers, Outputs, Conf, FormatOf
  <2>3. \A i \in Outputs' : packers'[i].written = <<>>
    BY <2>2, NewPackerIsReady
  <2>4. \A T : <<>> \in Seq(T)
    OBVIOUS
  <2> QED
    BY <2>1, <2>3, <2>4 DEF TokensOwn, Own
<1>3. CASE Receive \/ Send \/ SendTimesOut \/ OnInput \/ TransformDrops \/ TransformPasses
  BY <1>1, <1>3 DEF Receive, Send, SendTimesOut, OnInput, TransformDrops, TransformPasses, workerVars,
       historyVars, configVars
<1>4. CASE DestroyBufferer \/ BeginReload \/ Shutdown \/ ClockTicks \/ Done \/ UNCHANGED vars
  BY <1>1, <1>4 DEF DestroyBufferer, BeginReload, Shutdown, ClockTicks, Done, vars, workerVars, historyVars,
       configVars
<1> QED
  BY <1>2, <1>3, <1>4, OutputOwn, FlushOwn DEF Next, Worker

\* So each output shows of a log what it is to show.
LEMMA TokensOwnSays == TokensOwn => StreamsShowTheirOwnLog
<1> SUFFICES ASSUME TokensOwn, NEW n \in OutputNames, NEW k \in DOMAIN accepted[n],
                    NEW s, s = StreamsOf(accepted[n][k].data), NEW i \in DOMAIN s
             PROVE  s[i].fields = ExpectedFields(n, s[i].id)
  BY DEF StreamsShowTheirOwnLog
<1>1. accepted[n][k].data \in Seq(TokenOf(n)) /\ TokenOf(n) \subseteq Token
  BY OwnTokens DEF TokensOwn, OwnChunks, Own
<1>2. s \in Seq({t \in TokenOf(n) : t.id # 0})
  BY <1>1, StreamsAmong
<1>3. s[i] \in TokenOf(n) /\ s[i].id # 0
  <2>1. ASSUME NEW S, NEW q \in Seq(S), NEW j \in DOMAIN q PROVE q[j] \in S
    OBVIOUS
  <2>2. s[i] \in {t \in TokenOf(n) : t.id # 0}
    BY <1>2, <2>1
  <2> QED
    BY <2>2
<1>4. s[i] \notin Marks
  <2>1. \A m : Mark(m).id = 0
    BY DEF Mark
  <2>2. \A t \in Marks : \E m : t = Mark(m)
    BY DEF Marks
  <2>3. \A t \in Marks : t.id = 0
    BY <2>1, <2>2
  <2> QED
    BY <1>3, <2>3
<1>5. PICK log \in Log : s[i] = StreamFor(n, log)
  BY <1>3, <1>4 DEF TokenOf
<1>6. s[i].id = log /\ s[i].fields = ExpectedFields(n, log)
  BY <1>5, StreamParts
<1> QED
  BY <1>6

\* The counts stay between none and as many as there were outputs at the start, those of lost
\* objects too.
RefsBounded == \A o \in Obj : alloc.ref[o] \in 0..InitialRefCount

\* Release takes one from the count.
LEMMA ReleaseCounts ==
    ASSUME NEW a \in PoolState, NEW o \in Obj, a.ref[o] > 0, NEW n, n = Release(a, o)
    PROVE  n.ref = [a.ref EXCEPT ![o] = a.ref[o] - 1]
<1>1. a.ref \in [Obj -> Int] /\ a.ref[o] \in Int
  BY PoolFields DEF PoolTypes
<1>2. CASE a.ref[o] > 1
  BY <1>2, ReleaseNotLast DEF IsMadeOf
<1>3. CASE a.ref[o] = 1
  <2>1. n.ref = [a.ref EXCEPT ![o] = 0]
    <3>1. IsMadeOf(n, [a.ref EXCEPT ![o] = 0], [a.fields EXCEPT ![o] = NoFields],
                   [a.backbuf EXCEPT ![o] = 0], a.records \cup {o}, a.content, a.size,
                   IF a.backbuf[o] # 0 THEN a.buffers \cup {a.backbuf[o]} ELSE a.buffers)
      BY <1>3, ReleaseLast
    <3> QED
      BY <3>1 DEF IsMadeOf
  <2>2. a.ref[o] - 1 = 0
    BY <1>3
  <2> QED
    BY <2>1, <2>2
<1> QED
  BY <1>1, <1>2, <1>3

\* A rejected record has lost one of the count it was given.
LEMMA RejectedCounts ==
    \A a, R, o, log, b, count : MayMake(a, R, o, log, b, count) =>
       LET n == Release(NewRecord(a, log, LengthOf[log], o, b, count), o) IN
       n.ref = [[a.ref EXCEPT ![o] = count] EXCEPT ![o] = count - 1]
<1> SUFFICES ASSUME NEW a, NEW R, NEW o, NEW log, NEW b, NEW count, MayMake(a, R, o, log, b, count)
             PROVE  LET n == Release(NewRecord(a, log, LengthOf[log], o, b, count), o) IN
                    n.ref = [[a.ref EXCEPT ![o] = count] EXCEPT ![o] = count - 1]
  OBVIOUS
<1> DEFINE m == NewRecord(a, log, LengthOf[log], o, b, count)
           n == Release(m, o)
<1>1. PoolOK(m, R) /\ m.ref = [a.ref EXCEPT ![o] = count]
  BY NewRecordIsAside DEF MayMake
<1>2. a.ref \in [Obj -> Int] /\ o \in Obj /\ log \in Log /\ count > 0
  BY DEF PoolOK, PoolState, MayMake
<1> HIDE DEF m
<1>3. m \in PoolState /\ m.ref[o] = count
  BY <1>1, <1>2 DEF PoolOK
<1>4. n.ref = [m.ref EXCEPT ![o] = m.ref[o] - 1]
  BY <1>2, <1>3, ReleaseCounts
<1>5. n.ref = [[a.ref EXCEPT ![o] = count] EXCEPT ![o] = count - 1]
  BY <1>1, <1>3, <1>4
<1> QED
  BY <1>5 DEF m

\* No step takes a count beyond the bound.
LEMMA RefsBoundedNext ==
    ASSUME OutputsDoNotGrow, PoolInv, RefsBounded, [Next]_vars
    PROVE  RefsBounded'
<1>1. alloc.ref \in [Obj -> Int] /\ alloc \in PoolState
  BY PoolInvFacts, PoolFields DEF PoolTypes
<1>2. InitialRefCount \in Nat
  BY ConfigFacts
<1>3. ASSUME UNCHANGED alloc PROVE RefsBounded'
  BY <1>3 DEF RefsBounded
<1>4. CASE Receive
  <2>1. PICK log \in Log, o \in Obj : \E b : Receives(o, b, log)
    BY <1>4, ReceiveMakes
  <2>2. PICK b : Receives(o, b, log)
    BY <2>1
  <2>3. /\ MayMake(alloc, Records, o, log, b, InitialRefCount)
        /\ Rejects(o, b, log) \/ Parses(o, b, log)
    BY <2>2 DEF Receives
  <2>4. CASE Rejects(o, b, log)
    <3>1. alloc' = Release(NewRecord(alloc, log, LengthOf[log], o, b, InitialRefCount), o)
      BY <2>4 DEF Rejects, Made
    <3>2. alloc'.ref = [[alloc.ref EXCEPT ![o] = InitialRefCount] EXCEPT ![o] = InitialRefCount - 1]
      BY <2>3, <3>1, RejectedCounts
    <3>3. InitialRefCount > 0
      BY <2>3 DEF MayMake
    <3> QED
      BY <1>1, <1>2, <3>2, <3>3 DEF RefsBounded
  <2>5. CASE Parses(o, b, log)
    <3> DEFINE n == Filled(NewRecord(alloc, log, LengthOf[log], o, b, InitialRefCount), o, log)
    <3>1. alloc' = n
      BY <2>5 DEF Parses, Made
    <3>2. PoolOK(n, Records \cup {<<o, log>>}) /\ n.ref[o] = InitialRefCount /\ OthersKept(alloc, n, o)
      BY <2>3, ParsedIsHeld, Zenon
    <3> HIDE DEF n
    <3> QED
      BY <1>1, <1>2, <3>1, <3>2 DEF RefsBounded, OthersKept
  <2> QED
    BY <2>3, <2>4, <2>5
<1>5. CASE TransformDrops \/ OutputRecord
  <2>1. batch # <<>> /\ alloc' = Release(alloc, Record)
    BY <1>5 DEF TransformDrops, OutputRecord, PoolInv, Types
  <2>2. Record \in Obj /\ alloc.ref[Record] > 0
    BY <2>1, PoolInvFacts DEF PoolInv, PoolOK, Record
  <2>3. alloc'.ref = [alloc.ref EXCEPT ![Record] = alloc.ref[Record] - 1]
    BY <1>1, <2>1, <2>2, ReleaseCounts
  <2> QED
    BY <1>1, <1>2, <2>2, <2>3 DEF RefsBounded
<1>6. CASE Send \/ SendTimesOut \/ OnInput \/ TransformPasses \/ OnTick \/ OnStop \/ DestroyBufferer
  BY <1>3, <1>6 DEF Send, SendTimesOut, OnInput, TransformPasses, OnTick, OnStop, DestroyBufferer
<1>7. CASE BeginReload \/ CompleteReload \/ Shutdown \/ ClockTicks \/ Done \/ UNCHANGED vars
  BY <1>3, <1>7 DEF BeginReload, CompleteReload, Shutdown, ClockTicks, Done, vars
<1> QED
  BY <1>4, <1>5, <1>6, <1>7 DEF Next, Worker

\* What is counted as dropped has matched.
TotalsOK == totalMatched \in Nat /\ totalDropped \in 0..totalMatched

\* No step undoes the totals.
LEMMA TotalsOKNext == TotalsOK /\ [Next]_vars => TotalsOK'
<1> SUFFICES ASSUME TotalsOK, [Next]_vars PROVE TotalsOK'
  OBVIOUS
<1>1. ASSUME UNCHANGED dropVars PROVE TotalsOK'
  BY <1>1 DEF dropVars, TotalsOK
<1>2. ASSUME CountMatch PROVE TotalsOK'
  <2>1. CASE DropMatches /\ Rate # 100
    <3>1. totalMatched' = totalMatched + 1 /\ totalDropped' \in {totalDropped, totalDropped + 1}
      BY <1>2, <2>1 DEF CountMatch
    <3> QED
      BY <3>1 DEF TotalsOK
  <2>2. CASE ~(DropMatches /\ Rate # 100)
    BY <1>1, <1>2, <2>2 DEF CountMatch
  <2> QED
    BY <2>1, <2>2
<1>3. CASE TransformDrops \/ TransformPasses
  BY <1>2, <1>3 DEF TransformDrops, TransformPasses
<1>4. CASE CompleteReload
  BY <1>4 DEF CompleteReload, TotalsOK
<1>5. CASE Receive \/ Send \/ SendTimesOut \/ OnInput \/ OutputRecord \/ OnTick \/ OnStop
  BY <1>1, <1>5 DEF Receive, Send, SendTimesOut, OnInput, OutputRecord, OnTick, OnStop, workerVars
<1>6. CASE DestroyBufferer \/ BeginReload \/ Shutdown \/ ClockTicks \/ Done \/ UNCHANGED vars
  BY <1>1, <1>6 DEF DestroyBufferer, BeginReload, Shutdown, ClockTicks, Done, vars, workerVars
<1> QED
  BY <1>3, <1>4, <1>5, <1>6 DEF Next, Worker

\* The inductive invariant of OutputsGetWhatWasLogged.
OutputsInv == DeliveryInv /\ TokensOwn /\ RefsBounded /\ TotalsOK

\* The invariant holds at first, before any record.
LEMMA OutputsInvInit == Init => OutputsInv
<1> SUFFICES ASSUME Init PROVE OutputsInv
  OBVIOUS
<1>1. DeliveryInv
  BY DeliveryInvInit
<1>2. TokensOwn
  BY <1>1, TokensOwnInit
<1>3. RefsBounded
  <2>1. alloc = EmptyPool /\ \A o \in Obj : EmptyPool.ref[o] = 0
    BY DEF Init, EmptyPool
  <2> QED
    BY <2>1, ConfigFacts DEF RefsBounded
<1>4. TotalsOK
  BY DEF Init, TotalsOK
<1> QED
  BY <1>1, <1>2, <1>3, <1>4 DEF OutputsInv

\* Every step keeps the invariant.
LEMMA OutputsInvNext == OutputsDoNotGrow /\ OutputsInv /\ [Next]_vars => OutputsInv'
  BY DeliveryInvNext, TokensOwnNext, RefsBoundedNext, TotalsOKNext DEF OutputsInv, DeliveryInv

\* The invariant implies what the run checks.
LEMMA OutputsInvSays == OutputsInv => OutputsGetWhatWasLogged
<1> SUFFICES ASSUME OutputsInv PROVE OutputsGetWhatWasLogged
  OBVIOUS
<1>1. Types /\ PoolInv
  BY DEF OutputsInv, DeliveryInv, PoolInv
<1>2. /\ \A i \in DOMAIN parsed : IsRecord(parsed[i])
      /\ \A i \in DOMAIN batch : IsRecord(batch[i])
  BY <1>1 DEF Types, Hand, IsRecord
<1>3. /\ alloc.ref \in [Obj -> -1..InitialRefCount]
      /\ alloc.records \subseteq Obj /\ alloc.buffers \subseteq Buf
  <2>1. /\ alloc.ref \in [Obj -> Int] /\ alloc.records \subseteq Obj /\ alloc.buffers \subseteq Buf
    BY <1>1, PoolInvFacts, PoolFields DEF PoolTypes
  <2>2. InitialRefCount \in Nat /\ \A o \in Obj : alloc.ref[o] \in -1..InitialRefCount
    BY ConfigFacts DEF OutputsInv, RefsBounded
  <2> QED
    BY <2>1, <2>2
<1>4. DOMAIN packers = Outputs
  BY DEF OutputsInv, DeliveryInv, PackersReady
<1>5. TypeOK
  BY <1>1, <1>2, <1>3, <1>4 DEF TypeOK, Types, OutputsInv, TotalsOK
<1> QED
  BY <1>5, DeliveryInvSays, TokensOwnSays DEF OutputsInv, OutputsGetWhatWasLogged

\* Each output gets every record that passed the transforms, once and in order, over any number of
\* messages, chunks, ticks and reloads that add no output: LogProcessingWorker and messagePacker
\* lose none and repeat none, nothing is left in a packer when its bufferer is destroyed, and what
\* is written for a record is what its own message said, under the right names, whatever record or
\* buffer is recycled and however a reloaded schema is laid out.
THEOREM OutputsGetTheirRecords == OutputsDoNotGrow /\ Spec => []OutputsGetWhatWasLogged
<1> SUFFICES ASSUME OutputsDoNotGrow PROVE Spec => []OutputsGetWhatWasLogged
  OBVIOUS
<1>1. OutputsInv /\ [Next]_vars => OutputsInv'
  BY OutputsInvNext
<1> QED
  BY <1>1, OutputsInvInit, OutputsInvSays, PTL DEF Spec

-----------------------------------------------------------------------------
(* The IDs of the chunks grow *)

\* An ID given in an earlier generation, which ended before start, or one that the generator of a
\* packer has passed.
Past(id, e, q, start) == id[1] < start \/ id[1] < e \/ (id[1] = e /\ id[2] <= q)

Growing(chunks) == \A k \in DOMAIN chunks : \A j \in 1..(k - 1) : Before(chunks[j].id, chunks[k].id)

\* Where the chunks made so far and the one being made stand.
Numbered(chunks, p, start) ==
    /\ Growing(chunks)
    /\ p.current # NoChunk => p.current.id = <<p.epochNano, p.sequence>>
    /\ \A k \in DOMAIN chunks :
          /\ Past(chunks[k].id, p.epochNano, p.sequence, start)
          /\ p.current # NoChunk => Before(chunks[k].id, <<p.epochNano, p.sequence>>)

\* A clock that is not set back makes every new ID greater than those before it.
LEMMA NewIDIsLater ==
    ASSUME NEW e \in Nat, NEW q \in Nat, NEW start \in Nat, NEW time \in Nat, start <= time, e <= time,
           NEW next, next = NextNumber(e, q, time)
    PROVE  /\ Latest(e, time) = time /\ next \in Nat
           /\ Before(<<e, q>>, <<time, next>>)
           /\ \A id \in ID : /\ Past(id, e, q, start) => Before(id, <<time, next>>)
                             /\ Before(id, <<time, next>>) => Past(id, time, next, start)
<1>1. Latest(e, time) = time /\ next \in Nat /\ (time > e \/ (time = e /\ next = q + 1))
  BY DEF Latest, NextNumber
<1>2. \A x, y : <<x, y>>[1] = x /\ <<x, y>>[2] = y
  OBVIOUS
<1>3. ASSUME NEW id \in ID
      PROVE  /\ Past(id, e, q, start) => Before(id, <<time, next>>)
             /\ Before(id, <<time, next>>) => Past(id, time, next, start)
  <2> SUFFICES ASSUME NEW a \in Nat, a = id[1], NEW b \in Nat, b = id[2]
               PROVE  /\ Past(id, e, q, start) => Before(id, <<time, next>>)
                      /\ Before(id, <<time, next>>) => Past(id, time, next, start)
    BY DEF ID
  <2>1. Past(id, e, q, start) <=> a < start \/ a < e \/ (a = e /\ b <= q)
    BY DEF Past
  <2>2. Past(id, time, next, start) <=> a < start \/ a < time \/ (a = time /\ b <= next)
    BY DEF Past
  <2>3. Before(id, <<time, next>>) <=> a < time \/ (a = time /\ b < next)
    BY <1>2 DEF Before
  <2>4. (a < start \/ a < e \/ (a = e /\ b <= q)) => a < time \/ (a = time /\ b < next)
    BY <1>1
  <2>5. (a < time \/ (a = time /\ b < next)) => (a < start \/ a < time \/ (a = time /\ b <= next))
    BY <1>1
  <2> QED
    BY <2>1, <2>2, <2>3, <2>4, <2>5
<1>4. Before(<<e, q>>, <<time, next>>)
  BY <1>1, <1>2 DEF Before
<1> QED
  BY <1>1, <1>3, <1>4

\* The chunks there were, and perhaps one with this ID.
AddedLater(new, chunks, id) ==
    /\ Growing(new)
    /\ \A k \in DOMAIN new : new[k].id = id \/ \E j \in DOMAIN chunks : new[k] = chunks[j]

\* A chunk later than all before it.
LEMMA LaterChunk ==
    ASSUME NEW chunks \in Seq(Chunk), Growing(chunks), NEW c \in Chunk,
           \A k \in DOMAIN chunks : Before(chunks[k].id, c.id),
           NEW new, new = chunks \o <<c>>
    PROVE  AddedLater(new, chunks, c.id)
<1> DEFINE m == Len(chunks)
<1>1. m \in Nat /\ DOMAIN chunks = 1..m /\ DOMAIN new = 1..(m + 1) /\ new[m + 1] = c
      /\ \A k \in 1..m : new[k] = chunks[k]
  OBVIOUS
<1> HIDE DEF m
<1>2. \A k \in 1..(m + 1) : k \in 1..m \/ k = m + 1
  BY <1>1
<1>3. ASSUME NEW k \in 1..(m + 1), NEW j \in 1..(k - 1) PROVE Before(new[j].id, new[k].id)
  <2>1. j \in 1..m
    BY <1>1
  <2>2. CASE k \in 1..m
    BY <1>1, <2>1, <2>2 DEF Growing
  <2>3. CASE k = m + 1
    BY <1>1, <2>1, <2>3
  <2> QED
    BY <1>2, <2>2, <2>3
<1> QED
  BY <1>1, <1>2, <1>3 DEF Growing, AddedLater

\* The chunk a packer has flushed has the ID the packer was at.
LEMMA FlushedNumber ==
    ASSUME NEW n, NEW chunks, SoundChunks(chunks, n), NEW p, p.current # NoChunk, p.current.id \in ID,
           NEW start, Numbered(chunks, p, start), NEW format, NEW r, FlushedChunk(p, r, format),
           NEW new, new = chunks \o r.chunks
    PROVE  AddedLater(new, chunks, <<p.epochNano, p.sequence>>) /\ <<p.epochNano, p.sequence>> \in ID
<1>1. PICK c : r.chunks = <<c>> /\ IsChunk(c, format, p.current.id, LogsIn(p.written))
  BY DEF FlushedChunk
<1>2. c \in Chunk /\ c.id = <<p.epochNano, p.sequence>>
  BY <1>1 DEF IsChunk, Numbered
<1>3. chunks \in Seq(Chunk) /\ Growing(chunks) /\ \A k \in DOMAIN chunks : Before(chunks[k].id, c.id)
  BY <1>2 DEF SoundChunks, Numbered
<1>4. AddedLater(new, chunks, c.id)
  <2>1. new = chunks \o <<c>>
    BY <1>1
  <2> QED
    BY <1>2, <1>3, <2>1, LaterChunk
<1>5. <<p.epochNano, p.sequence>> \in ID
  BY DEF Numbered
<1> QED
  BY <1>2, <1>4, <1>5

\* FlushBuffer leaves the generator where it is.
LEMMA FlushKeepsNumbers ==
    ASSUME NEW n, NEW format \in Formats, NEW chunks, SoundChunks(chunks, n),
           NEW p, Ready(p, format), NEW start, Numbered(chunks, p, start), NEW r, r = FlushBuffer(p)
    PROVE  Numbered(chunks \o r.chunks, r.packer, start) /\ r.packer.epochNano = p.epochNano
<1> SUFFICES ASSUME NEW e, e = p.epochNano, NEW q, q = p.sequence, NEW new, new = chunks \o r.chunks
             PROVE  Numbered(new, r.packer, start) /\ r.packer.epochNano = p.epochNano
  OBVIOUS
<1>1. r.packer.current = NoChunk /\ r.packer.epochNano = e /\ r.packer.sequence = q /\ e \in Nat /\ q \in Nat
  BY FlushMakes DEF Ready
<1>2. \A k \in DOMAIN chunks : Past(chunks[k].id, e, q, start)
  BY DEF Numbered
<1>3. CASE p.current = NoChunk
  <2>1. r.chunks = <<>>
    BY <1>3, FlushMakes
  <2>2. new = chunks
    BY <2>1, NoneAdded
  <2> QED
    BY <1>1, <1>2, <2>2 DEF Numbered
<1>4. CASE p.current # NoChunk
  <2>1. FlushedChunk(p, r, format) /\ p.current.id \in ID
    BY <1>4, FlushMakes
  <2>2. AddedLater(new, chunks, <<e, q>>)
    BY <1>4, <2>1, FlushedNumber
  <2>3. Past(<<e, q>>, e, q, start)
    <3>1. <<e, q>>[1] = e /\ <<e, q>>[2] = q /\ q <= q
      BY <1>1
    <3> QED
      BY <3>1 DEF Past
  <2>4. \A k \in DOMAIN new : Past(new[k].id, e, q, start)
    BY <1>2, <2>2, <2>3 DEF AddedLater
  <2> QED
    BY <1>1, <2>2, <2>4 DEF Numbered, AddedLater
<1> QED
  BY <1>3, <1>4

\* WriteStream.
LEMMA StreamKeepsNumbers ==
    ASSUME NEW n, NEW format \in Formats, NEW chunks, SoundChunks(chunks, n),
           NEW p, Ready(p, format), NEW start \in Nat, NEW time \in Nat, start <= time, p.epochNano <= time,
           Numbered(chunks, p, start), NEW t \in Stream1, NEW log, log = t.id, NEW r, r = WriteStream(p, t, time)
    PROVE  Numbered(chunks \o r.chunks, r.packer, start) /\ r.packer.epochNano <= time
<1> SUFFICES ASSUME NEW e, e = p.epochNano, NEW q, q = p.sequence, NEW new, new = chunks \o r.chunks,
                    NEW next, next = NextNumber(e, q, time)
             PROVE  Numbered(new, r.packer, start) /\ r.packer.epochNano <= time
  OBVIOUS
<1>1. e \in Nat /\ q \in Nat /\ r.packer.current # NoChunk
  BY WriteStreamMakes DEF Ready
<1>2. \A k \in DOMAIN chunks : chunks[k].id \in ID
  <2>1. chunks \in Seq(Chunk)
    BY DEF SoundChunks
  <2>2. \A k \in DOMAIN chunks : chunks[k] \in Chunk
    BY <2>1
  <2> QED
    BY <2>2 DEF Chunk
<1>3. CASE Appended(p, r, log)
  <2>1. r.chunks = <<>> /\ p.current # NoChunk
        /\ r.packer.current.id = p.current.id /\ r.packer.epochNano = e /\ r.packer.sequence = q
    BY <1>3 DEF Appended, SameID
  <2>2. new = chunks
    BY <2>1, NoneAdded
  <2> QED
    BY <2>1, <2>2 DEF Numbered
<1>4. CASE Started(p, r, format, log, time)
  <2>1. /\ Latest(e, time) = time /\ next \in Nat
        /\ Before(<<e, q>>, <<time, next>>)
        /\ \A id \in ID : /\ Past(id, e, q, start) => Before(id, <<time, next>>)
                          /\ Before(id, <<time, next>>) => Past(id, time, next, start)
    BY <1>1, NewIDIsLater
  <2>2. r.packer.epochNano = time /\ r.packer.sequence = next /\ r.packer.current.id = <<time, next>>
    BY <1>4, <2>1 DEF Started, NewID
  <2>3. \A k \in DOMAIN chunks : Before(chunks[k].id, <<time, next>>)
    BY <1>2, <2>1 DEF Numbered
  <2>4. Growing(new) /\ \A k \in DOMAIN new : new[k].id \in ID /\ Before(new[k].id, <<time, next>>)
    <3>1. CASE p.current = NoChunk
      <4>1. r.chunks = <<>>
        BY <1>4, <3>1 DEF Started
      <4>2. new = chunks
        BY <4>1, NoneAdded
      <4> QED
        BY <1>2, <2>3, <4>2 DEF Numbered
    <3>2. CASE p.current # NoChunk
      <4>1. FlushedChunk(p, r, format) /\ p.current.id \in ID
        BY <1>4, <3>2 DEF Started
      <4>2. AddedLater(new, chunks, <<e, q>>) /\ <<e, q>> \in ID
        BY <3>2, <4>1, FlushedNumber
      <4> QED
        BY <1>2, <2>1, <2>3, <4>2 DEF AddedLater
    <3> QED
      BY <3>1, <3>2
  <2>5. \A k \in DOMAIN new : Past(new[k].id, time, next, start)
    BY <2>1, <2>4
  <2>6. Numbered(new, r.packer, start)
    BY <2>2, <2>4, <2>5 DEF Numbered
  <2>7. r.packer.epochNano <= time
    BY <2>2
  <2> QED
    BY <2>6, <2>7
<1>5. Appended(p, r, log) \/ Started(p, r, format, log, time)
  BY WriteStreamMakes
<1> QED
  BY <1>3, <1>4, <1>5

\* The chunks of an output the running configuration does not have.
OfThePast(chunks, start) == Growing(chunks) /\ \A k \in DOMAIN chunks : chunks[k].id[1] < start

NumberedFor(n, start) ==
    IF IsOutput(n) THEN Numbered(accepted[n], packers[IndexOf(n)], start)
                   ELSE OfThePast(accepted[n], start)

\* What the clock has shown is not ahead of what it shows.
TimesPassed(start) == start <= now /\ \A i \in Outputs : packers[i].epochNano <= now

\* The IDs, when the generation began at this time.
NumberedSince(start) == TimesPassed(start) /\ \A n \in OutputNames : NumberedFor(n, start)

\* The inductive invariant of ChunksAreSound.
NumbersInv == DeliveryInv /\ (~setBack => \E start \in Nat : NumberedSince(start))

\* No number has been given at first.
LEMMA NumbersInvInit == Init => NumbersInv
<1> SUFFICES ASSUME Init PROVE NumbersInv
  OBVIOUS
<1>1. DeliveryInv
  BY DeliveryInvInit
<1>2. now = 1 /\ accepted = [n \in OutputNames |-> <<>>] /\ packers = NewPackers(Conf)
  BY DEF Init, Conf
<1>3. \A i \in Outputs : packers[i] = NewMessagePacker(FormatOf(i))
  BY <1>2 DEF NewPackers, Outputs, FormatOf
<1>4. \A i \in Outputs : packers[i].epochNano = 0 /\ packers[i].current = NoChunk
  BY <1>3, NewPackerIsReady
<1>5. \A n : IsOutput(n) => IndexOf(n) \in Outputs
  BY <1>1, OutputFacts DEF DeliveryInv, PoolInv
<1>6. TimesPassed(1)
  BY <1>2, <1>4 DEF TimesPassed
<1>7. DOMAIN <<>> = {}
  OBVIOUS
<1>8. ASSUME NEW n \in OutputNames PROVE NumberedFor(n, 1)
  <2>1. accepted[n] = <<>>
    BY <1>2
  <2>2. CASE IsOutput(n)
    <3>1. packers[IndexOf(n)].current = NoChunk
      BY <1>4, <1>5, <2>2
    <3>2. Numbered(<<>>, packers[IndexOf(n)], 1)
      BY <1>7, <3>1 DEF Numbered, Growing
    <3> QED
      BY <2>1, <2>2, <3>2 DEF NumberedFor
  <2>3. CASE ~IsOutput(n)
    BY <1>7, <2>1, <2>3 DEF NumberedFor, OfThePast, Growing
  <2> QED
    BY <2>2, <2>3
<1> QED
  BY <1>1, <1>6, <1>8 DEF NumbersInv, NumberedSince

\* A step that makes no ID and no chunk.
LEMMA NumbersUnchanged ==
    ASSUME DeliveryInv, NEW start \in Nat, NumberedSince(start), UNCHANGED <<packers, accepted, config>>,
           now' >= now, now' \in Nat
    PROVE  NumberedSince(start)'
<1>1. Outputs' = Outputs /\ \A n : (IsOutput(n)' <=> IsOutput(n)) /\ IndexOf(n)' = IndexOf(n)
  BY OutputsKept
<1>2. TimesPassed(start)'
  <2>1. now \in Nat /\ \A i \in Outputs : packers[i].epochNano \in Nat
    BY DEF DeliveryInv, PackersReady, PoolInv, Types, Ready
  <2> QED
    BY <1>1, <2>1 DEF NumberedSince, TimesPassed
<1>3. \A n \in OutputNames : NumberedFor(n, start)'
  BY <1>1 DEF NumberedSince, NumberedFor
<1> QED
  BY <1>2, <1>3 DEF NumberedSince

\* A record is output: only the packer it is at may make an ID.
LEMMA OutputNumbers ==
    ASSUME DeliveryInv, NEW start \in Nat, NumberedSince(start), OutputRecord
    PROVE  NumberedSince(start)'
<1>1. Types
  BY DEF DeliveryInv, PoolInv
<1> DEFINE name == NameOf(output)
           log == batch[1][2]
           chunks == accepted[name]
           p == packers[output]
<1>2. /\ pc = "output" /\ batch # <<>> /\ output \in Outputs /\ config' = config
      /\ packers' = [packers EXCEPT ![output] = Result.packer]
      /\ accepted' = [accepted EXCEPT ![name] = accepted[name] \o Result.chunks]
  BY <1>1, OutputSteps
<1>3. UNCHANGED now
  BY DEF OutputRecord, clockVars
<1>4. Outputs' = Outputs /\ \A n : (IsOutput(n)' <=> IsOutput(n)) /\ IndexOf(n)' = IndexOf(n)
  BY <1>2, OutputsKept
<1>5. /\ name \in OutputNames /\ FormatOf(output) \in Formats
      /\ IsOutput(name) /\ IndexOf(name) = output
      /\ \A n : IsOutput(n) => IndexOf(n) \in Outputs /\ NameOf(IndexOf(n)) = n
  BY <1>1, <1>2, OutputFacts
<1>6. Stream \in Stream1 /\ Stream.id = log /\ now \in Nat
  BY <1>1, <1>2, <1>5, StreamIsOwn DEF DeliveryInv, Types
<1>7. /\ packers = [i \in Outputs |-> packers[i]] /\ accepted = [n \in OutputNames |-> accepted[n]]
      /\ Ready(p, FormatOf(output)) /\ SoundChunks(chunks, name)
  BY <1>1, <1>2, <1>5 DEF DeliveryInv, PackersReady, NothingLost
<1>8. Numbered(chunks, p, start) /\ start <= now /\ p.epochNano <= now
  BY <1>2, <1>5 DEF NumberedSince, NumberedFor, TimesPassed
<1>9. Result = WriteStream(p, Stream, now)
  BY DEF Result
<1>10. packers'[output] = Result.packer /\ \A i \in Outputs : i # output => packers'[i] = packers[i]
  BY <1>2, <1>7
<1>11. accepted'[name] = chunks \o Result.chunks /\ \A n \in OutputNames : n # name => accepted'[n] = accepted[n]
  BY <1>2, <1>5, <1>7
<1> HIDE DEF log, chunks, p, name
<1>12. Numbered(chunks \o Result.chunks, Result.packer, start) /\ Result.packer.epochNano <= now
  BY <1>5, <1>6, <1>7, <1>8, <1>9, StreamKeepsNumbers
<1>13. TimesPassed(start)'
  BY <1>3, <1>4, <1>8, <1>10, <1>12 DEF NumberedSince, TimesPassed
<1>14. ASSUME NEW n \in OutputNames PROVE NumberedFor(n, start)'
  <2>1. NumberedFor(n, start)
    BY DEF NumberedSince
  <2>2. CASE n = name
    BY <1>3, <1>4, <1>5, <1>10, <1>11, <1>12, <2>2 DEF NumberedFor
  <2>3. CASE n # name /\ IsOutput(n)
    <3>1. IndexOf(n) \in Outputs /\ IndexOf(n) # output
      BY <1>5, <2>3 DEF name
    <3> QED
      BY <1>3, <1>4, <1>10, <1>11, <2>1, <2>3, <3>1 DEF NumberedFor
  <2>4. CASE n # name /\ ~IsOutput(n)
    BY <1>3, <1>4, <1>11, <2>1, <2>4 DEF NumberedFor
  <2> QED
    BY <2>2, <2>3, <2>4
<1> QED
  BY <1>13, <1>14 DEF NumberedSince

\* A flush: the packers keep their places.
LEMMA FlushNumbers ==
    ASSUME DeliveryInv, NEW start \in Nat, NumberedSince(start), OnTick \/ OnStop
    PROVE  NumberedSince(start)'
<1>1. Types
  BY DEF DeliveryInv, PoolInv
<1>2. /\ UNCHANGED <<config, now>>
      /\ packers' = [i \in Outputs |-> Flushed(i).packer]
      /\ accepted' = [n \in OutputNames |-> accepted[n] \o ChunksFor(n)]
  BY DEF OnTick, OnStop, FlushChunks, configVars, clockVars
<1>3. Outputs' = Outputs /\ \A n : (IsOutput(n)' <=> IsOutput(n)) /\ IndexOf(n)' = IndexOf(n)
  BY <1>2, OutputsKept
<1>4. /\ \A i \in Outputs : FormatOf(i) \in Formats
      /\ \A n : IsOutput(n) => IndexOf(n) \in Outputs /\ NameOf(IndexOf(n)) = n
  BY <1>1, OutputFacts
<1>5. \A i \in Outputs : Ready(packers[i], FormatOf(i))
  BY <1>1 DEF DeliveryInv, PackersReady
<1>6. \A n \in OutputNames : SoundChunks(accepted[n], n)
  BY <1>1 DEF DeliveryInv, NothingLost
<1>7. TimesPassed(start)'
  <2>1. ASSUME NEW i \in Outputs PROVE packers'[i].epochNano = packers[i].epochNano
    <3>1. packers'[i] = FlushBuffer(packers[i]).packer
      BY <1>2 DEF Flushed
    <3> QED
      BY <1>4, <1>5, <3>1, FlushMakes
  <2> QED
    BY <1>2, <1>3, <2>1 DEF NumberedSince, TimesPassed
<1>8. ASSUME NEW n \in OutputNames PROVE NumberedFor(n, start)'
  <2>1. NumberedFor(n, start)
    BY DEF NumberedSince
  <2>2. CASE IsOutput(n)
    <3> SUFFICES ASSUME NEW i, i = IndexOf(n), NEW p, p = packers[i], NEW chunks, chunks = accepted[n],
                        NEW r, r = Flushed(i)
                 PROVE  NumberedFor(n, start)'
      OBVIOUS
    <3>1. i \in Outputs
      BY <1>4, <2>2
    <3>2. Ready(p, FormatOf(i)) /\ FormatOf(i) \in Formats /\ SoundChunks(chunks, n) /\ r = FlushBuffer(p)
      BY <1>4, <1>5, <1>6, <3>1 DEF Flushed
    <3>3. Numbered(chunks, p, start)
      BY <2>1, <2>2 DEF NumberedFor
    <3>4. Numbered(chunks \o r.chunks, r.packer, start)
      BY <3>2, <3>3, FlushKeepsNumbers
    <3>5. accepted'[n] = chunks \o r.chunks /\ packers'[i] = r.packer
      BY <1>2, <2>2, <3>1 DEF ChunksFor
    <3> QED
      BY <1>2, <1>3, <2>2, <3>4, <3>5 DEF NumberedFor
  <2>3. CASE ~IsOutput(n)
    <3>1. accepted'[n] = accepted[n] \o <<>>
      BY <1>2, <2>3 DEF ChunksFor
    <3>2. accepted'[n] = accepted[n]
      BY <1>6, <3>1, NoneAdded
    <3> QED
      BY <1>2, <1>3, <2>1, <2>3, <3>2 DEF NumberedFor
  <2> QED
    BY <2>2, <2>3
<1> QED
  BY <1>7, <1>8 DEF NumberedSince

\* The IDs of earlier generations are of the past: a reload takes the clock further.
LEMMA AllOfThePast ==
    ASSUME DeliveryInv, NEW start \in Nat, NumberedSince(start), NEW n \in OutputNames
    PROVE  OfThePast(accepted[n], now + 1)
<1>1. Types /\ SoundChunks(accepted[n], n) /\ NumberedFor(n, start) /\ start <= now
  BY DEF NumberedSince, DeliveryInv, PoolInv, NothingLost, TimesPassed
<1>2. now \in Nat
  BY <1>1 DEF Types
<1>3. \A k \in DOMAIN accepted[n] : accepted[n][k].id[1] \in Nat
  <2>1. accepted[n] \in Seq(Chunk)
    BY <1>1 DEF SoundChunks
  <2>2. \A k \in DOMAIN accepted[n] : accepted[n][k] \in Chunk
    BY <2>1
  <2> QED
    BY <2>2 DEF Chunk, ID
<1>4. CASE IsOutput(n)
  <2>1. IndexOf(n) \in Outputs
    BY <1>1, <1>4, OutputFacts
  <2> SUFFICES ASSUME NEW e \in Nat, e = packers[IndexOf(n)].epochNano, e <= now
               PROVE  OfThePast(accepted[n], now + 1)
    BY <2>1 DEF NumberedSince, TimesPassed, DeliveryInv, PackersReady, Ready
  <2>2. \A k \in DOMAIN accepted[n] : LET t == accepted[n][k].id[1] IN t < start \/ t < e \/ t = e
    BY <1>1, <1>4 DEF NumberedFor, Numbered, Past
  <2>3. \A k \in DOMAIN accepted[n] : accepted[n][k].id[1] < now + 1
    BY <1>1, <1>2, <1>3, <2>2
  <2> QED
    BY <1>1, <1>4, <2>3 DEF NumberedFor, Numbered, OfThePast
<1>5. CASE ~IsOutput(n)
  <2>1. Growing(accepted[n]) /\ \A k \in DOMAIN accepted[n] : accepted[n][k].id[1] < start
    BY <1>1, <1>5 DEF NumberedFor, OfThePast
  <2>2. \A k \in DOMAIN accepted[n] : accepted[n][k].id[1] < now + 1
    BY <1>1, <1>2, <1>3, <2>1
  <2> QED
    BY <2>1, <2>2 DEF OfThePast
<1> QED
  BY <1>4, <1>5

\* A reload: new packers, which have given no ID.
LEMMA ReloadNumbers ==
    ASSUME DeliveryInv, NEW start \in Nat, NumberedSince(start), CompleteReload, NEW next, next = now + 1
    PROVE  NumberedSince(next)' /\ next \in Nat
<1>1. now \in Nat
  BY DEF DeliveryInv, PoolInv, Types
<1>2. /\ config' = loading /\ packers' = NewPackers(Configs[loading]) /\ accepted' = accepted
      /\ now' = next
  BY DEF CompleteReload, historyVars
<1>3. /\ \A i \in Outputs' : packers'[i] = NewMessagePacker(FormatOf(i)')
  BY <1>2 DEF NewPackers, Outputs, Conf, FormatOf
<1>4. \A i \in Outputs' : packers'[i].epochNano = 0 /\ packers'[i].current = NoChunk
  BY <1>3, NewPackerIsReady
<1>5. TimesPassed(next)'
  BY <1>1, <1>2, <1>4 DEF TimesPassed
<1>6. ASSUME NEW n \in OutputNames PROVE NumberedFor(n, next)'
  <2>1. OfThePast(accepted'[n], next)
    BY <1>2, AllOfThePast
  <2>2. CASE IsOutput(n)'
    <3>1. IndexOf(n)' \in Outputs'
      <4>1. PICK i \in Outputs' : NameOf(i)' = n
        BY <2>2 DEF IsOutput
      <4>2. \E j \in DOMAIN Configs[config'].outputs : Configs[config'].outputs[j].name = n
        BY <4>1 DEF Outputs, NameOf, Conf
      <4>3. OutputAt(config', n) \in DOMAIN Configs[config'].outputs
        BY <4>2 DEF OutputAt
      <4>4. IndexOf(n)' = OutputAt(config', n)
        BY DEF IndexOf, OutputAt, Outputs, NameOf, Conf
      <4> QED
        BY <4>3, <4>4 DEF Outputs, Conf
    <3>2. packers'[IndexOf(n)'].current = NoChunk
      BY <1>4, <3>1
    <3>3. Numbered(accepted'[n], packers'[IndexOf(n)'], next)
      BY <2>1, <3>2 DEF Numbered, OfThePast, Past
    <3> QED
      BY <2>2, <3>3 DEF NumberedFor
  <2>3. CASE ~IsOutput(n)'
    BY <2>1, <2>3 DEF NumberedFor
  <2> QED
    BY <2>2, <2>3
<1> QED
  BY <1>1, <1>5, <1>6 DEF NumberedSince

\* Every step but a reload goes on with the same generation, while the clock is not set back.
LEMMA NumbersNext ==
    ASSUME DeliveryInv, DeliveryInv', NEW start \in Nat, NumberedSince(start), [Next]_vars, ~setBack'
    PROVE  \E since \in Nat : NumberedSince(since)'
<1>1. now \in Nat /\ now' \in Nat
  BY DEF DeliveryInv, PoolInv, Types
<1>2. ASSUME UNCHANGED <<packers, accepted, config, now>> PROVE NumberedSince(start)'
  BY <1>1, <1>2, NumbersUnchanged
<1>3. CASE ClockTicks
  <2>1. UNCHANGED <<packers, accepted, config>>
    BY <1>3 DEF ClockTicks, workerVars, historyVars, configVars
  <2>2. PICK t \in 1..MaxTime : (t > now \/ t < now) /\ now' = t /\ setBack' = (setBack \/ t < now)
    BY <1>3 DEF ClockTicks
  <2>3. now' > now
    BY <2>2
  <2>4. NumberedSince(start)'
    BY <1>1, <2>1, <2>3, NumbersUnchanged
  <2> QED
    BY <2>4
<1>4. CASE Receive \/ Send \/ SendTimesOut \/ OnInput \/ TransformDrops \/ TransformPasses
  BY <1>2, <1>4 DEF Receive, Send, SendTimesOut, OnInput, TransformDrops, TransformPasses, workerVars,
       historyVars, configVars, clockVars
<1>5. CASE DestroyBufferer \/ BeginReload \/ Shutdown \/ Done \/ UNCHANGED vars
  BY <1>2, <1>5 DEF DestroyBufferer, BeginReload, Shutdown, Done, vars, workerVars, historyVars,
       configVars, clockVars
<1>6. CASE OutputRecord \/ OnTick \/ OnStop
  BY <1>6, OutputNumbers, FlushNumbers
<1>7. CASE CompleteReload
  BY <1>7, ReloadNumbers
<1> QED
  BY <1>3, <1>4, <1>5, <1>6, <1>7 DEF Next, Worker

\* A clock once set back has been set back.
LEMMA SetBackStays == [Next]_vars /\ setBack => setBack'
<1> SUFFICES ASSUME [Next]_vars, setBack PROVE setBack'
  OBVIOUS
<1>1. CASE Receive \/ Send \/ SendTimesOut \/ OnInput \/ TransformDrops \/ TransformPasses
  BY <1>1 DEF Receive, Send, SendTimesOut, OnInput, TransformDrops, TransformPasses, clockVars
<1>2. CASE OutputRecord \/ OnTick \/ OnStop \/ DestroyBufferer \/ BeginReload \/ Shutdown
  BY <1>2 DEF OutputRecord, OnTick, OnStop, DestroyBufferer, BeginReload, Shutdown, clockVars
<1>3. CASE CompleteReload \/ ClockTicks \/ Done \/ UNCHANGED vars
  BY <1>3 DEF CompleteReload, ClockTicks, Done, vars, clockVars
<1> QED
  BY <1>1, <1>2, <1>3 DEF Next, Worker

\* Every step.
LEMMA NumbersInvNext == OutputsDoNotGrow /\ NumbersInv /\ [Next]_vars => NumbersInv'
<1> SUFFICES ASSUME OutputsDoNotGrow, NumbersInv, [Next]_vars PROVE NumbersInv'
  OBVIOUS
<1>1. DeliveryInv /\ DeliveryInv'
  BY DeliveryInvNext DEF NumbersInv
<1>2. ASSUME ~setBack' PROVE \E start \in Nat : NumberedSince(start)'
  <2>1. ~setBack
    BY <1>2, SetBackStays
  <2>2. PICK start \in Nat : NumberedSince(start)
    BY <2>1 DEF NumbersInv
  <2> QED
    BY <1>1, <1>2, <2>2, NumbersNext
<1> QED
  BY <1>1, <1>2 DEF NumbersInv

\* What it says of the chunks.
LEMMA NumbersInvSays == NumbersInv => ChunksAreSound
<1> SUFFICES ASSUME NumbersInv PROVE ChunksAreWhole /\ IDsAscend
  BY DEF ChunksAreSound
<1>1. ChunksAreWhole
  BY DEF NumbersInv, DeliveryInv, NothingLost, SoundChunks, SoundChunk, ChunksAreWhole
<1>2. ASSUME ~setBack, NEW n \in OutputNames PROVE Growing(accepted[n])
  <2>1. PICK start \in Nat : NumberedSince(start)
    BY <1>2 DEF NumbersInv
  <2> QED
    BY <2>1 DEF NumberedSince, NumberedFor, Numbered, OfThePast
<1>3. IDsAscend
  BY <1>2 DEF IDsAscend, Growing
<1> QED
  BY <1>1, <1>3

\* Every chunk handed to a bufferer is whole, within the limits of its format, and counts the
\* records written to it; and as long as the clock of the host has not been set back, its ID is
\* greater than all those of its output before it, in this generation and in the earlier ones:
\* messagePacker never repeats an ID then, and file names sort as the chunks were made.  The
\* configurations that may be loaded have no more outputs than the first one: another one makes
\* the allocator panic, which is the end of the agent.
THEOREM ChunksStaySound == OutputsDoNotGrow /\ Spec => []ChunksAreSound
<1> SUFFICES ASSUME OutputsDoNotGrow PROVE Spec => []ChunksAreSound
  OBVIOUS
<1>1. NumbersInv /\ [Next]_vars => NumbersInv'
  BY NumbersInvNext
<1> QED
  BY <1>1, NumbersInvInit, NumbersInvSays, PTL DEF Spec

-----------------------------------------------------------------------------
(* The metrics *)

\* How many of a sequence are of a kind.
NumIn(s, P) == Cardinality({i \in DOMAIN s : s[i] \in P})

\* One more is one more of its kind.
LEMMA OneMoreCounted ==
    ASSUME NEW S, NEW s \in Seq(S), NEW x \in S, NEW P
    PROVE  NumIn(s, P) \in Nat /\ NumIn(Append(s, x), P) = NumIn(s, P) + (IF x \in P THEN 1 ELSE 0)
<1> DEFINE n == Len(s)
           t == Append(s, x)
           A == {i \in DOMAIN s : s[i] \in P}
           B == {i \in DOMAIN t : t[i] \in P}
<1>1. /\ n \in Nat /\ DOMAIN s = 1..n /\ DOMAIN t = 1..(n + 1) /\ t[n + 1] = x
      /\ \A i \in 1..n : t[i] = s[i]
  OBVIOUS
<1>2. IsFiniteSet(A) /\ Cardinality(A) \in Nat
  <2>1. IsFiniteSet(1..n)
    <3> HIDE DEF n, t, A, B
    <3>1. n \in Int /\ 1 \in Int
      BY <1>1
    <3> QED
      BY <3>1, FS_Interval
  <2>2. A \in SUBSET (1..n)
    BY <1>1
  <2>3. IsFiniteSet(A)
    BY <2>1, <2>2, FS_Subset
  <2> QED
    BY <2>3, FS_CardinalityType
<1>3. /\ n + 1 \notin A /\ n + 1 \in 1..(n + 1)
      /\ \A i : i \in 1..(n + 1) <=> i \in 1..n \/ i = n + 1
  BY <1>1
<1> HIDE DEF n
<1>4. B = IF x \in P THEN A \cup {n + 1} ELSE A
  <2>1. \A i \in 1..n : i \in B <=> i \in A
    BY <1>1, <1>3
  <2>2. n + 1 \in B <=> x \in P
    BY <1>1, <1>3
  <2>3. B \subseteq 1..(n + 1) /\ A \subseteq 1..n
    BY <1>1
  <2> HIDE DEF A, B
  <2>4. CASE x \in P
    <3>1. \A i : i \in B <=> i \in A \cup {n + 1}
      BY <1>3, <2>1, <2>2, <2>3, <2>4
    <3>2. B = A \cup {n + 1}
      BY <3>1
    <3> QED
      BY <2>4, <3>2
  <2>5. CASE x \notin P
    <3>1. \A i : i \in B <=> i \in A
      BY <1>3, <2>1, <2>2, <2>3, <2>5
    <3>2. B = A
      BY <3>1
    <3> QED
      BY <2>5, <3>2
  <2> QED
    BY <2>4, <2>5
<1> HIDE DEF A, B, t
<1>5. Cardinality(B) = Cardinality(A) + (IF x \in P THEN 1 ELSE 0)
  <2>1. Cardinality(A \cup {n + 1}) = Cardinality(A) + 1
    BY <1>2, <1>3, FS_AddElement
  <2> QED
    BY <1>2, <1>4, <2>1
<1> QED
  BY <1>2, <1>5 DEF A, B, t, NumIn

\* The outcomes of records, and how many there are of a kind under a key set.
Outcome == {"pass", "drop", "retain"} \X KeySets
CountIn(s, kinds, ks) == Cardinality({i \in DOMAIN s : s[i] \in kinds \X {ks}})

\* One outcome more is one more of its kinds under its own key set.
LEMMA OneMoreOutcome ==
    ASSUME NEW s \in Seq(Outcome), NEW kind \in {"pass", "drop", "retain"}, NEW own \in KeySets,
           NEW kinds, NEW ks
    PROVE  /\ CountIn(s, kinds, ks) \in Nat
           /\ CountIn(Append(s, <<kind, own>>), kinds, ks)
                = CountIn(s, kinds, ks) + (IF kind \in kinds /\ own = ks THEN 1 ELSE 0)
<1>1. <<kind, own>> \in Outcome
  BY DEF Outcome
<1>2. <<kind, own>> \in kinds \X {ks} <=> kind \in kinds /\ own = ks
  OBVIOUS
<1>3. /\ NumIn(s, kinds \X {ks}) \in Nat
      /\ NumIn(Append(s, <<kind, own>>), kinds \X {ks})
           = NumIn(s, kinds \X {ks}) + (IF <<kind, own>> \in kinds \X {ks} THEN 1 ELSE 0)
  <2> SUFFICES ASSUME NEW P, P = kinds \X {ks}, NEW x, x = <<kind, own>>
               PROVE  NumIn(s, P) \in Nat /\ NumIn(Append(s, x), P) = NumIn(s, P) + (IF x \in P THEN 1 ELSE 0)
    OBVIOUS
  <2> QED
    BY <1>1, OneMoreCounted
<1> QED
  BY <1>2, <1>3 DEF CountIn, NumIn

LengthsOf(n, s) == [i \in DOMAIN s |-> EventLength(n, s[i])]

\* The bytes of one log more.
LEMMA OneMoreLength ==
    ASSUME NEW name, NEW s \in Seq(Log), NEW log \in Log
    PROVE  /\ Total(LengthsOf(name, s)) \in Nat /\ EventLength(name, log) \in Nat
           /\ Total(LengthsOf(name, Append(s, log))) = Total(LengthsOf(name, s)) + EventLength(name, log)
<1> DEFINE n == Len(s)
           t == Append(s, log)
           l == LengthsOf(name, s)
           m == LengthsOf(name, t)
<1>1. /\ n \in Nat /\ DOMAIN s = 1..n /\ DOMAIN t = 1..(n + 1) /\ t[n + 1] = log
      /\ \A i \in 1..n : t[i] = s[i] /\ s[i] \in Log
  OBVIOUS
<1>2. \A x \in Log : EventLength(name, x) \in Nat
  BY PipelineAssumption DEF EventLength
<1>3. n + 1 \in 1..(n + 1) /\ \A i \in 1..(n + 1) : i \in 1..n \/ i = n + 1
  BY <1>1
<1> HIDE DEF n, t
<1>4. l = [i \in 1..n |-> l[i]] /\ \A i \in 1..n : l[i] \in Nat
  BY <1>1, <1>2 DEF LengthsOf
<1>5. m = [i \in 1..(n + 1) |-> m[i]] /\ \A i \in 1..(n + 1) : m[i] \in Nat
  BY <1>1, <1>2, <1>3 DEF LengthsOf
<1>6. m[n + 1] = EventLength(name, log) /\ \A i \in 1..n : m[i] = l[i]
  <2>1. \A i \in 1..n : i \in 1..(n + 1)
    BY <1>1
  <2> QED
    BY <1>1, <1>3, <2>1 DEF LengthsOf
<1> HIDE DEF l, m
<1>7. l \in Seq(Nat) /\ Len(l) = n /\ m \in Seq(Nat) /\ Len(m) = n + 1
  <2>1. l \in Seq(Nat) /\ Len(l) = n
    BY <1>1, <1>4, IsSequence
  <2>2. n + 1 \in Nat
    BY <1>1
  <2>3. m \in Seq(Nat) /\ Len(m) = n + 1
    BY <1>5, <2>2, IsSequence
  <2> QED
    BY <2>1, <2>3
<1>8. m = Append(l, EventLength(name, log))
  BY <1>2, <1>6, <1>7, AppendIs
<1> QED
  BY <1>2, <1>7, <1>8, TotalFacts DEF l, m, t

\* What a LogProcessCounterSet is.
CountsType ==
    [pass : [KeySets -> Nat], drop : [KeySets -> Nat], retained : [KeySets -> Nat],
     bytes : [OutputNames -> Nat], chunks : [OutputNames -> Nat]]

\* UpdateMetrics adds what has been counted.
Added(w, a, b) ==
    /\ w \in CountsType
    /\ \A k \in KeySets : w.pass[k] = a.pass[k] + b.pass[k] /\ w.drop[k] = a.drop[k] + b.drop[k]
                           /\ w.retained[k] = a.retained[k] + b.retained[k]
    /\ \A n \in OutputNames : w.bytes[n] = a.bytes[n] + b.bytes[n] /\ w.chunks[n] = a.chunks[n] + b.chunks[n]

\* Adding counts adds each of them.
LEMMA CountsAdded ==
    ASSUME NEW a \in CountsType, NEW b \in CountsType, NEW w, w = AddCounts(a, b)
    PROVE  Added(w, a, b)
<1> DEFINE Sum(f, g) == [x \in DOMAIN f |-> f[x] + g[x]]
<1>1. w = [pass |-> Sum(a.pass, b.pass), drop |-> Sum(a.drop, b.drop), retained |-> Sum(a.retained, b.retained),
           bytes |-> Sum(a.bytes, b.bytes), chunks |-> Sum(a.chunks, b.chunks)]
  BY DEF AddCounts, CountsType
<1>2. ASSUME NEW S, NEW f \in [S -> Nat], NEW g \in [S -> Nat]
      PROVE  Sum(f, g) \in [S -> Nat] /\ \A x \in S : Sum(f, g)[x] = f[x] + g[x]
  OBVIOUS
<1> HIDE DEF Sum
<1>3. /\ a.pass \in [KeySets -> Nat] /\ a.drop \in [KeySets -> Nat] /\ a.retained \in [KeySets -> Nat]
      /\ a.bytes \in [OutputNames -> Nat] /\ a.chunks \in [OutputNames -> Nat]
      /\ b.pass \in [KeySets -> Nat] /\ b.drop \in [KeySets -> Nat] /\ b.retained \in [KeySets -> Nat]
      /\ b.bytes \in [OutputNames -> Nat] /\ b.chunks \in [OutputNames -> Nat]
  BY DEF CountsType
<1>4. /\ w.pass = Sum(a.pass, b.pass) /\ w.drop = Sum(a.drop, b.drop) /\ w.retained = Sum(a.retained, b.retained)
      /\ w.bytes = Sum(a.bytes, b.bytes) /\ w.chunks = Sum(a.chunks, b.chunks)
  BY <1>1
<1>5. /\ Sum(a.pass, b.pass) \in [KeySets -> Nat] /\ Sum(a.drop, b.drop) \in [KeySets -> Nat]
      /\ Sum(a.retained, b.retained) \in [KeySets -> Nat] /\ Sum(a.bytes, b.bytes) \in [OutputNames -> Nat]
      /\ Sum(a.chunks, b.chunks) \in [OutputNames -> Nat]
  BY <1>2, <1>3
<1>6. w \in CountsType
  BY <1>1, <1>5 DEF CountsType
<1>7. /\ \A k \in KeySets : Sum(a.pass, b.pass)[k] = a.pass[k] + b.pass[k]
      /\ \A k \in KeySets : Sum(a.drop, b.drop)[k] = a.drop[k] + b.drop[k]
      /\ \A k \in KeySets : Sum(a.retained, b.retained)[k] = a.retained[k] + b.retained[k]
      /\ \A n \in OutputNames : Sum(a.bytes, b.bytes)[n] = a.bytes[n] + b.bytes[n]
      /\ \A n \in OutputNames : Sum(a.chunks, b.chunks)[n] = a.chunks[n] + b.chunks[n]
  BY <1>2, <1>3
<1> QED
  BY <1>4, <1>6, <1>7 DEF Added

\* A key set of the record in hand is that of its own message: what a transformation may set is not
\* read from another message either.
LEMMA KeySetIsOwn ==
    ASSUME PoolInv, batch # <<>>
    PROVE  KeySetRead = OwnKeySet(config, batch[1][2])
<1> DEFINE o == batch[1][1]
           log == batch[1][2]
           keys == Conf.metricKeys
<1>1. batch[1] \in Records /\ o \in Obj /\ log \in Log /\ alloc \in PoolState
  BY PoolInvFacts
<1>2. Holds(alloc, o, log) /\ Types
  BY <1>1 DEF PoolInv, PoolOK
<1>3. \A f \in ToSet(keys) : f \in ToSet(Conf.fields)
  <2> SUFFICES ASSUME NEW f \in ToSet(keys) PROVE f \in ToSet(Conf.fields)
    OBVIOUS
  <2>1. Conf \in Config /\ ConfigOK(Conf)
    BY <1>2, ConfigFacts DEF Types, Conf
  <2>2. Locate(Conf.fields, f) # 0
    BY <2>1 DEF ConfigOK, MetricKeysOK, AllLocated, MissingFieldLocator
  <2> QED
    BY <2>1, <2>2, LocateFacts DEF ToSet
<1> HIDE DEF o, log
<1>4. \A f : Field(f) = ReadField(alloc, o, Locate(Conf.fields, f))
  BY DEF Field, Record, o
<1>5. ASSUME NEW f \in ToSet(keys) PROVE TextRead(Field(f)) = OwnText(f, log)
  <2>1. CASE f \in Configs[1].inputs
    <3>1. Field(f) = <<f, log>>
      BY <1>1, <1>2, <1>4, <2>1, InputFieldRead
    <3> QED
      BY <2>1, <3>1 DEF TextRead, OwnText
  <2>2. CASE f \notin Configs[1].inputs
    <3>1. Field(f) = <<"", 0>>
      BY <1>1, <1>2, <1>3, <1>4, <2>2, OtherFieldRead
    <3>2. <<"", 0>> \notin DOMAIN TextOf
      <4>1. 0 \notin Log
        BY DEF Log
      <4>2. \A x, y : <<x, y>> \in STRING \X Log => y \in Log
        OBVIOUS
      <4>3. DOMAIN TextOf \subseteq STRING \X Log
        BY PipelineAssumption
      <4> QED
        BY <4>1, <4>2, <4>3
    <3>3. TextRead(<<"", 0>>) = <<>>
      BY <3>2 DEF TextRead
    <3> QED
      BY <2>2, <3>1, <3>3 DEF OwnText
  <2> QED
    BY <2>1, <2>2
<1>6. \A i \in DOMAIN keys : keys[i] \in ToSet(keys)
  BY DEF ToSet
<1>7. \A i \in DOMAIN keys : TextRead(Field(keys[i])) = OwnText(keys[i], log)
  BY <1>5, <1>6
<1> QED
  BY <1>7 DEF KeySetRead, OwnKeySet, Conf, log

\* The key sets of a configuration.
LEMMA KeySetFacts ==
    ASSUME Types, NEW log \in Log
    PROVE  OwnKeySet(config, log) \in KeySets /\ KeysOf(OwnKeySet(config, log)) = Conf.metricKeys
<1>1. config \in DOMAIN Configs /\ Conf.metricKeys \in Seq(STRING)
  BY ConfigFacts DEF Types, Conf, Config
<1>2. OwnKeySet(config, log) \in KeySets
  BY <1>1 DEF KeySets
<1> DEFINE keys == Conf.metricKeys
           own == OwnKeySet(config, log)
<1>3. DOMAIN own = DOMAIN keys /\ \A i \in DOMAIN keys : own[i][1] = keys[i]
  BY DEF OwnKeySet, Conf
<1>4. keys = [i \in DOMAIN keys |-> keys[i]]
  BY <1>1
<1> HIDE DEF own, keys
<1>5. KeysOf(own) = keys
  BY <1>3, <1>4 DEF KeysOf
<1> QED
  BY <1>2, <1>5 DEF own, keys

\* What the counters of a merged key are for: a key set that reads like it.
KeySetsOK ==
    \A m \in DOMAIN keySets :
       keySets[m] \in KeySets /\ KeysOf(keySets[m]) = Conf.metricKeys /\ MergedKey(keySets[m]) = m

\* The counters selected are the record's own, if no other key set reads like it.
LEMMA SelectedIsOwn ==
    ASSUME PoolInv, batch # <<>>, KeySetsOK, NEW own, own = OwnKeySet(config, batch[1][2])
    PROVE  /\ SelectedKeySet \in KeySets /\ own \in KeySets
           /\ \A ks \in KeySets : Unambiguous(ks) => (SelectedKeySet = ks <=> own = ks)
<1>1. Types /\ batch[1][2] \in Log
  BY PoolInvFacts DEF PoolInv
<1>2. own \in KeySets /\ KeysOf(own) = Conf.metricKeys /\ KeySetRead = own
  BY <1>1, KeySetFacts, KeySetIsOwn
<1>3. SelectedKeySet \in KeySets /\ KeysOf(SelectedKeySet) = Conf.metricKeys /\ MergedKey(SelectedKeySet) = MergedKey(own)
  <2>1. CASE MergedKey(own) \in DOMAIN keySets
    <3>1. SelectedKeySet = keySets[MergedKey(own)]
      BY <1>2, <2>1 DEF SelectedKeySet
    <3> QED
      BY <2>1, <3>1 DEF KeySetsOK
  <2>2. CASE MergedKey(own) \notin DOMAIN keySets
    <3>1. SelectedKeySet = own
      BY <1>2, <2>2 DEF SelectedKeySet
    <3> QED
      BY <1>2, <3>1
  <2> QED
    BY <2>1, <2>2
<1>4. \A ks \in KeySets : Unambiguous(ks) => (SelectedKeySet = ks <=> own = ks)
  BY <1>2, <1>3 DEF Unambiguous
<1> QED
  BY <1>2, <1>3, <1>4

\* SelectMetricKeySet adds the record's own, under the texts it joins.
LEMMA KeySetsKept ==
    ASSUME PoolInv, batch # <<>>, KeySetsOK, SelectMetricKeySet, config' = config
    PROVE  KeySetsOK'
<1>1. Types /\ batch[1][2] \in Log
  BY PoolInvFacts DEF PoolInv
<1> DEFINE own == OwnKeySet(config, batch[1][2])
           merged == MergedKey(own)
<1>2. own \in KeySets /\ KeysOf(own) = Conf.metricKeys /\ KeySetRead = own
  BY <1>1, KeySetFacts, KeySetIsOwn
<1> HIDE DEF own
<1>3. /\ DOMAIN keySets' = DOMAIN keySets \cup {merged}
      /\ \A m \in DOMAIN keySets : keySets'[m] = keySets[m]
      /\ merged \notin DOMAIN keySets => keySets'[merged] = own
  BY <1>2 DEF SelectMetricKeySet
<1>4. Conf' = Conf
  BY DEF Conf
<1>5. ASSUME NEW m \in DOMAIN keySets'
      PROVE  keySets'[m] \in KeySets /\ KeysOf(keySets'[m]) = Conf.metricKeys /\ MergedKey(keySets'[m]) = m
  <2>1. CASE m \in DOMAIN keySets
    BY <1>3, <2>1 DEF KeySetsOK
  <2>2. CASE m \notin DOMAIN keySets
    <3>1. m = merged /\ keySets'[m] = own
      BY <1>3, <2>2
    <3> QED
      BY <1>2, <3>1
  <2> QED
    BY <2>1, <2>2
<1> QED
  BY <1>4, <1>5 DEF KeySetsOK

\* The bytes to be counted once the record in hand is serialized.
Ahead(n) == IF InHand(n) THEN EventLength(n, batch[1][2]) ELSE 0

\* What is counted of the records, of those whose key set reads like no other.
RecordsCounted ==
    \A ks \in KeySets : Unambiguous(ks) =>
       /\ written.pass[ks] + unwritten.pass[ks] = CountIn(outcomes, {"pass", "retain"}, ks)
       /\ written.drop[ks] + unwritten.drop[ks] = CountIn(outcomes, {"drop"}, ks)
       /\ written.retained[ks] + unwritten.retained[ks] = CountIn(outcomes, {"retain"}, ks)
BytesCounted ==
    \A n \in OutputNames : (written.bytes[n] + unwritten.bytes[n]) + Ahead(n) = Total(LengthsOf(n, passed[n]))
ChunksCounted ==
    \A n \in OutputNames : written.chunks[n] + unwritten.chunks[n] = Len(accepted[n])

Histories == outcomes \in Seq(Outcome) /\ \A n \in OutputNames : passed[n] \in Seq(Log) /\ accepted[n] \in Seq(Chunk)
AllWritten == pc \in {"stopped", "ended"} => unwritten = ZeroCounts

\* The inductive invariant of MetricsExact: what is written and what is still to be, together.
MetricsInv ==
    /\ DeliveryInv /\ KeySetsOK /\ written \in CountsType /\ unwritten \in CountsType /\ Histories
    /\ RecordsCounted /\ BytesCounted /\ ChunksCounted /\ AllWritten

\* The counts begin at zero.
LEMMA NothingCounted ==
    /\ ZeroCounts \in CountsType
    /\ \A k \in KeySets : ZeroCounts.pass[k] = 0 /\ ZeroCounts.drop[k] = 0 /\ ZeroCounts.retained[k] = 0
    /\ \A n \in OutputNames : ZeroCounts.bytes[n] = 0 /\ ZeroCounts.chunks[n] = 0
  BY DEF ZeroCounts, CountsType

\* Each count is a number.
LEMMA CountTypes ==
    ASSUME NEW a \in CountsType
    PROVE  /\ \A k \in KeySets : a.pass[k] \in Nat /\ a.drop[k] \in Nat /\ a.retained[k] \in Nat
           /\ \A n \in OutputNames : a.bytes[n] \in Nat /\ a.chunks[n] \in Nat
  BY DEF CountsType

\* At the start nothing has been counted.
LEMMA MetricsInvInit == Init => MetricsInv
<1> SUFFICES ASSUME Init PROVE MetricsInv
  OBVIOUS
<1>1. DeliveryInv
  BY DeliveryInvInit
<1>2. /\ unwritten = ZeroCounts /\ written = ZeroCounts /\ outcomes = <<>> /\ pc = "select" /\ keySets = <<>>
      /\ passed = [n \in OutputNames |-> <<>>] /\ accepted = [n \in OutputNames |-> <<>>]
  BY DEF Init
<1>3. \A kinds, ks : CountIn(<<>>, kinds, ks) = 0
  <2>1. \A P : {i \in DOMAIN <<>> : <<>>[i] \in P} = {}
    OBVIOUS
  <2> QED
    BY <2>1, FS_EmptySet DEF CountIn
<1>4. \A n : Total(LengthsOf(n, <<>>)) = 0
  <2>1. \A n : LengthsOf(n, <<>>) = <<>>
    <3>1. DOMAIN <<>> = {} /\ \A n : [i \in {} |-> EventLength(n, <<>>[i])] = <<>>
      OBVIOUS
    <3> QED
      BY <3>1 DEF LengthsOf
  <2> QED
    BY <2>1, TotalFacts
<1>5. \A n : Ahead(n) = 0
  BY <1>2 DEF Ahead, InHand
<1>6. Histories /\ ChunksCounted /\ KeySetsOK
  <2>1. <<>> \in Seq(Log) /\ <<>> \in Seq(Outcome) /\ <<>> \in Seq(Chunk) /\ Len(<<>>) = 0 /\ DOMAIN <<>> = {}
    OBVIOUS
  <2> QED
    BY <1>2, <2>1, NothingCounted DEF Histories, ChunksCounted, KeySetsOK
<1>7. RecordsCounted /\ BytesCounted
  BY <1>2, <1>3, <1>4, <1>5, NothingCounted DEF RecordsCounted, BytesCounted
<1> QED
  BY <1>1, <1>2, <1>6, <1>7, NothingCounted DEF MetricsInv, AllWritten

\* A step that counts nothing.
LEMMA MetricsUnchanged ==
    ASSUME MetricsInv, DeliveryInv', KeySetsOK', UNCHANGED <<unwritten, written, historyVars>>,
           \A n : Ahead(n)' = Ahead(n), pc' \in {"stopped", "ended"} => pc \in {"stopped", "ended"}
    PROVE  MetricsInv'
<1>1. UNCHANGED <<unwritten, written, passed, outcomes, accepted>>
  BY DEF historyVars
<1>2. Histories' /\ RecordsCounted' /\ ChunksCounted' /\ AllWritten'
  BY <1>1 DEF MetricsInv, Histories, RecordsCounted, ChunksCounted, AllWritten
<1>3. BytesCounted'
  BY <1>1 DEF MetricsInv, BytesCounted
<1> QED
  BY <1>1, <1>2, <1>3 DEF MetricsInv

\* A record more is counted under the key set selected.
CountsRecord(u, v, kind, ks) ==
    /\ v \in CountsType /\ v.bytes = u.bytes /\ v.chunks = u.chunks
    /\ \A k \in KeySets :
          /\ v.pass[k] = u.pass[k] + (IF k = ks /\ kind \in {"pass", "retain"} THEN 1 ELSE 0)
          /\ v.drop[k] = u.drop[k] + (IF k = ks /\ kind = "drop" THEN 1 ELSE 0)
          /\ v.retained[k] = u.retained[k] + (IF k = ks /\ kind = "retain" THEN 1 ELSE 0)

\* Counting a record that passes changes its own counts and nothing else.
LEMMA OneMorePassed ==
    \A u, v : \A ks \in KeySets : \A kind \in {"pass", "retain"} :
       u \in CountsType /\ v = [u EXCEPT !.pass[ks] = @ + 1, !.retained[ks] = IF kind = "retain" THEN @ + 1 ELSE @]
          => CountsRecord(u, v, kind, ks)
<1> SUFFICES ASSUME NEW u \in CountsType, NEW ks \in KeySets, NEW kind \in {"pass", "retain"}
             PROVE  CountsRecord(u, [u EXCEPT !.pass[ks] = @ + 1, !.retained[ks] = IF kind = "retain" THEN @ + 1 ELSE @],
                                 kind, ks)
  OBVIOUS
<1>1. /\ u.pass \in [KeySets -> Nat] /\ u.drop \in [KeySets -> Nat] /\ u.retained \in [KeySets -> Nat]
      /\ u.bytes \in [OutputNames -> Nat] /\ u.chunks \in [OutputNames -> Nat]
  BY DEF CountsType
<1> DEFINE p == [u.pass EXCEPT ![ks] = u.pass[ks] + 1]
           l == [u.retained EXCEPT ![ks] = IF kind = "retain" THEN u.retained[ks] + 1 ELSE u.retained[ks]]
<1>2. [u EXCEPT !.pass[ks] = @ + 1, !.retained[ks] = IF kind = "retain" THEN @ + 1 ELSE @]
         = [pass |-> p, drop |-> u.drop, retained |-> l, bytes |-> u.bytes, chunks |-> u.chunks]
  <2> SUFFICES ASSUME NEW v, v = [u EXCEPT !.pass[ks] = @ + 1, !.retained[ks] = IF kind = "retain" THEN @ + 1 ELSE @]
               PROVE  v = [pass |-> p, drop |-> u.drop, retained |-> l, bytes |-> u.bytes, chunks |-> u.chunks]
    OBVIOUS
  <2> QED
    BY DEF CountsType
<1>3. p \in [KeySets -> Nat] /\ l \in [KeySets -> Nat]
  BY <1>1
<1>4. /\ \A k \in KeySets : p[k] = u.pass[k] + (IF k = ks THEN 1 ELSE 0)
      /\ \A k \in KeySets : l[k] = u.retained[k] + (IF k = ks /\ kind = "retain" THEN 1 ELSE 0)
  BY <1>1
<1>5. \A k \in KeySets : u.drop[k] = u.drop[k] + 0
  BY <1>1
<1> HIDE DEF p, l
<1> SUFFICES ASSUME NEW v, v = [pass |-> p, drop |-> u.drop, retained |-> l, bytes |-> u.bytes, chunks |-> u.chunks]
             PROVE  CountsRecord(u, v, kind, ks)
  BY <1>2, Zenon
<1>6. v.pass = p /\ v.drop = u.drop /\ v.retained = l /\ v.bytes = u.bytes /\ v.chunks = u.chunks
  OBVIOUS
<1>7. v \in CountsType
  BY <1>1, <1>3 DEF CountsType
<1> QED
  BY <1>4, <1>5, <1>6, <1>7 DEF CountsRecord

\* The same of a record dropped.
LEMMA OneMoreDropped ==
    \A u, v : \A ks \in KeySets :
       u \in CountsType /\ v = [u EXCEPT !.drop[ks] = @ + 1] => CountsRecord(u, v, "drop", ks)
<1> SUFFICES ASSUME NEW u \in CountsType, NEW ks \in KeySets, NEW v, v = [u EXCEPT !.drop[ks] = @ + 1]
             PROVE  CountsRecord(u, v, "drop", ks)
  OBVIOUS
<1>1. /\ u.pass \in [KeySets -> Nat] /\ u.drop \in [KeySets -> Nat] /\ u.retained \in [KeySets -> Nat]
      /\ u.bytes \in [OutputNames -> Nat] /\ u.chunks \in [OutputNames -> Nat]
  BY DEF CountsType
<1> DEFINE p == [u.drop EXCEPT ![ks] = u.drop[ks] + 1]
<1>2. v = [pass |-> u.pass, drop |-> p, retained |-> u.retained, bytes |-> u.bytes, chunks |-> u.chunks]
  BY DEF CountsType
<1>3. p \in [KeySets -> Nat]
  BY <1>1
<1>4. \A k \in KeySets : p[k] = u.drop[k] + (IF k = ks THEN 1 ELSE 0)
  BY <1>1
<1>5. \A k \in KeySets : u.pass[k] = u.pass[k] + 0 /\ u.retained[k] = u.retained[k] + 0
  BY <1>1
<1> HIDE DEF p
<1>6. v.pass = u.pass /\ v.drop = p /\ v.retained = u.retained /\ v.bytes = u.bytes /\ v.chunks = u.chunks
  BY <1>2
<1>7. v \in CountsType
  BY <1>1, <1>2, <1>3 DEF CountsType
<1> QED
  BY <1>4, <1>5, <1>6, <1>7 DEF CountsRecord

\* A record with its own key set is counted under the one selected.
RecordStep(kind, own, ks) ==
    /\ kind \in {"pass", "drop", "retain"} /\ own \in KeySets /\ ks \in KeySets
    /\ \A k \in KeySets : Unambiguous(k) => (ks = k <=> own = k)
    /\ CountsRecord(unwritten, unwritten', kind, ks) /\ UNCHANGED written
    /\ outcomes' = Append(outcomes, <<kind, own>>)

\* It is counted as its own.
LEMMA RecordMetrics ==
    ASSUME MetricsInv, NEW kind, NEW own, NEW ks, RecordStep(kind, own, ks)
    PROVE  RecordsCounted' /\ outcomes' \in Seq(Outcome)
<1>0. /\ kind \in {"pass", "drop", "retain"} /\ own \in KeySets /\ ks \in KeySets
      /\ \A k \in KeySets : Unambiguous(k) => (ks = k <=> own = k)
      /\ CountsRecord(unwritten, unwritten', kind, ks) /\ UNCHANGED written
      /\ outcomes' = Append(outcomes, <<kind, own>>)
  BY DEF RecordStep
<1>1. outcomes \in Seq(Outcome)
  BY DEF MetricsInv, Histories
<1>2. outcomes' \in Seq(Outcome)
  <2>1. <<kind, own>> \in Outcome
    BY <1>0 DEF Outcome
  <2> QED
    BY <1>0, <1>1, <2>1
<1>3. ASSUME NEW k \in KeySets, Unambiguous(k)
      PROVE  /\ written.pass[k] + unwritten'.pass[k] = CountIn(outcomes', {"pass", "retain"}, k)
             /\ written.drop[k] + unwritten'.drop[k] = CountIn(outcomes', {"drop"}, k)
             /\ written.retained[k] + unwritten'.retained[k] = CountIn(outcomes', {"retain"}, k)
  <2>1. /\ written.pass[k] + unwritten.pass[k] = CountIn(outcomes, {"pass", "retain"}, k)
        /\ written.drop[k] + unwritten.drop[k] = CountIn(outcomes, {"drop"}, k)
        /\ written.retained[k] + unwritten.retained[k] = CountIn(outcomes, {"retain"}, k)
    BY <1>3 DEF MetricsInv, RecordsCounted
  <2>2. /\ written.pass[k] \in Nat /\ written.drop[k] \in Nat /\ written.retained[k] \in Nat
        /\ unwritten.pass[k] \in Nat /\ unwritten.drop[k] \in Nat /\ unwritten.retained[k] \in Nat
    BY CountTypes DEF MetricsInv
  <2>3. \A kinds : CountIn(outcomes', kinds, k)
                     = CountIn(outcomes, kinds, k) + (IF kind \in kinds /\ own = k THEN 1 ELSE 0)
    BY <1>0, <1>1, OneMoreOutcome
  <2>4. /\ unwritten'.pass[k] = unwritten.pass[k] + (IF k = ks /\ kind \in {"pass", "retain"} THEN 1 ELSE 0)
        /\ unwritten'.drop[k] = unwritten.drop[k] + (IF k = ks /\ kind = "drop" THEN 1 ELSE 0)
        /\ unwritten'.retained[k] = unwritten.retained[k] + (IF k = ks /\ kind = "retain" THEN 1 ELSE 0)
    BY <1>0 DEF CountsRecord
  <2>5. k = ks <=> own = k
    BY <1>0, <1>3
  <2>6. \A a, b, c \in Nat : a + (b + c) = (a + b) + c
    OBVIOUS
  <2>7. ASSUME NEW a \in Nat, NEW b \in Nat, NEW c \in Nat, NEW x, NEW y, NEW P, NEW Q,
               a + b = x, c = b + (IF P THEN 1 ELSE 0), y = x + (IF Q THEN 1 ELSE 0), P <=> Q
        PROVE  a + c = y
    BY <2>7
  <2>8. CountIn(outcomes', {"pass", "retain"}, k)
           = CountIn(outcomes, {"pass", "retain"}, k) + (IF k = ks /\ kind \in {"pass", "retain"} THEN 1 ELSE 0)
    BY <2>3, <2>5
  <2>9. CountIn(outcomes', {"drop"}, k) = CountIn(outcomes, {"drop"}, k) + (IF k = ks /\ kind = "drop" THEN 1 ELSE 0)
    BY <2>3, <2>5
  <2>10. CountIn(outcomes', {"retain"}, k)
            = CountIn(outcomes, {"retain"}, k) + (IF k = ks /\ kind = "retain" THEN 1 ELSE 0)
    BY <2>3, <2>5
  <2>11. written.pass[k] + unwritten'.pass[k] = CountIn(outcomes', {"pass", "retain"}, k)
    BY <2>1, <2>2, <2>4, <2>8
  <2>12. written.drop[k] + unwritten'.drop[k] = CountIn(outcomes', {"drop"}, k)
    BY <2>1, <2>2, <2>4, <2>9
  <2>13. written.retained[k] + unwritten'.retained[k] = CountIn(outcomes', {"retain"}, k)
    BY <2>1, <2>2, <2>4, <2>10
  <2> QED
    BY <2>11, <2>12, <2>13
<1> QED
  BY <1>0, <1>2, <1>3 DEF RecordsCounted

\* A record is dropped.
LEMMA DropMetrics ==
    ASSUME MetricsInv, DeliveryInv', TransformDrops
    PROVE  MetricsInv'
<1> SUFFICES ASSUME NEW log, log = batch[1][2], NEW own, own = OwnKeySet(config, log), NEW ks, ks = SelectedKeySet
             PROVE  MetricsInv'
  OBVIOUS
<1>1. PoolInv /\ Types /\ KeySetsOK
  BY DEF MetricsInv, DeliveryInv, PoolInv
<1>2. /\ pc = "transform" /\ pc' \notin {"stopped", "ended", "output"} /\ batch # <<>>
      /\ UNCHANGED <<written, passed, accepted, config>> /\ outcomes' = Append(outcomes, <<"drop", own>>)
      /\ SelectMetricKeySet /\ unwritten' = [unwritten EXCEPT !.drop[ks] = @ + 1]
  BY <1>1 DEF TransformDrops, NextRecord, Types, configVars
<1>3. /\ ks \in KeySets /\ own \in KeySets
      /\ \A k \in KeySets : Unambiguous(k) => (ks = k <=> own = k)
  BY <1>1, <1>2, SelectedIsOwn
<1>4. CountsRecord(unwritten, unwritten', "drop", ks)
  BY <1>2, <1>3, OneMoreDropped DEF MetricsInv
<1>5. RecordsCounted' /\ outcomes' \in Seq(Outcome)
  <2>1. RecordStep("drop", own, ks)
    BY <1>2, <1>3, <1>4 DEF RecordStep
  <2> QED
    BY <2>1, RecordMetrics
<1>6. ChunksCounted' /\ AllWritten'
  BY <1>2, <1>4 DEF MetricsInv, ChunksCounted, AllWritten, CountsRecord
<1>7. BytesCounted'
  <2>1. \A n : Ahead(n)' = Ahead(n)
    BY <1>2 DEF Ahead, InHand
  <2> QED
    BY <1>2, <1>4, <2>1 DEF MetricsInv, BytesCounted, CountsRecord
<1>8. Histories' /\ KeySetsOK'
  BY <1>1, <1>2, <1>5, KeySetsKept DEF MetricsInv, Histories
<1> QED
  BY <1>2, <1>4, <1>5, <1>6, <1>7, <1>8 DEF MetricsInv, CountsRecord

\* A record passes.
LEMMA PassMetrics ==
    ASSUME MetricsInv, DeliveryInv', TransformPasses
    PROVE  MetricsInv'
<1> SUFFICES ASSUME NEW log, log = batch[1][2], NEW own, own = OwnKeySet(config, log), NEW ks, ks = SelectedKeySet,
                    NEW kind, kind = IF DropMatches THEN "retain" ELSE "pass"
             PROVE  MetricsInv'
  OBVIOUS
<1>1. PoolInv /\ Types /\ KeySetsOK
  BY DEF MetricsInv, DeliveryInv, PoolInv
<1>2. /\ pc = "transform" /\ pc' = "output" /\ output' = 1 /\ batch # <<>>
      /\ UNCHANGED <<written, accepted, batch, config>> /\ outcomes' = Append(outcomes, <<kind, own>>)
      /\ passed' = [n \in OutputNames |-> IF IsOutput(n) THEN Append(passed[n], log) ELSE passed[n]]
      /\ SelectMetricKeySet
  BY <1>1 DEF TransformPasses, Types, configVars
<1>3. kind \in {"pass", "retain"}
      /\ unwritten' = [unwritten EXCEPT !.pass[ks] = @ + 1, !.retained[ks] = IF kind = "retain" THEN @ + 1 ELSE @]
  BY DEF TransformPasses
<1>4. /\ ks \in KeySets /\ own \in KeySets /\ log \in Log
      /\ \A k \in KeySets : Unambiguous(k) => (ks = k <=> own = k)
  BY <1>1, <1>2, SelectedIsOwn, PoolInvFacts
<1>5. CountsRecord(unwritten, unwritten', kind, ks)
  BY <1>3, <1>4, OneMorePassed DEF MetricsInv
<1>6. RecordsCounted' /\ outcomes' \in Seq(Outcome)
  <2>1. RecordStep(kind, own, ks)
    BY <1>2, <1>3, <1>4, <1>5 DEF RecordStep
  <2> QED
    BY <2>1, RecordMetrics
<1>7. \A n : (IsOutput(n)' <=> IsOutput(n)) /\ IndexOf(n)' = IndexOf(n)
  BY <1>2, OutputsKept
<1>8. BytesCounted'
  <2> SUFFICES ASSUME NEW n \in OutputNames
               PROVE  (written.bytes[n] + unwritten.bytes[n]) + Ahead(n)' = Total(LengthsOf(n, passed'[n]))
    BY <1>2, <1>5 DEF BytesCounted, LengthsOf, CountsRecord
  <2> DEFINE counted == written.bytes[n] + unwritten.bytes[n]
             size == EventLength(n, log)
  <2>1. counted + Ahead(n) = Total(LengthsOf(n, passed[n])) /\ counted \in Nat
    BY CountTypes DEF MetricsInv, BytesCounted
  <2>2. Ahead(n) = 0
    BY <1>2 DEF Ahead, InHand
  <2>3. Ahead(n)' = IF IsOutput(n) THEN size ELSE 0
    <3>1. IsOutput(n) => IndexOf(n) >= 1
      BY <1>1, OutputFacts
    <3>2. InHand(n)' <=> IsOutput(n)
      BY <1>2, <1>7, <3>1 DEF InHand
    <3> QED
      BY <1>2, <3>2 DEF Ahead
  <2>4. /\ Total(LengthsOf(n, passed[n])) \in Nat /\ size \in Nat
        /\ Total(LengthsOf(n, Append(passed[n], log))) = Total(LengthsOf(n, passed[n])) + size
    BY <1>4, OneMoreLength DEF MetricsInv, Histories
  <2>5. passed'[n] = IF IsOutput(n) THEN Append(passed[n], log) ELSE passed[n]
    BY <1>2
  <2> HIDE DEF counted, size
  <2>6. counted + Ahead(n)' = Total(LengthsOf(n, passed'[n]))
    BY <2>1, <2>2, <2>3, <2>4, <2>5
  <2> QED
    BY <2>6 DEF counted
<1>9. ChunksCounted' /\ AllWritten'
  BY <1>2, <1>5 DEF MetricsInv, ChunksCounted, AllWritten, CountsRecord
<1>10. Histories' /\ KeySetsOK'
  <2>1. \A n \in OutputNames : Append(passed[n], log) \in Seq(Log)
    BY <1>4 DEF MetricsInv, Histories
  <2> QED
    BY <1>1, <1>2, <1>6, <2>1, KeySetsKept DEF MetricsInv, Histories
<1> QED
  BY <1>2, <1>5, <1>6, <1>8, <1>9, <1>10 DEF MetricsInv, CountsRecord

\* A record serialized for an output: what changes of the counters.
CountsOutput(u, v, name, len, num) ==
    /\ v \in CountsType /\ v.pass = u.pass /\ v.drop = u.drop /\ v.retained = u.retained
    /\ \A n \in OutputNames : v.bytes[n] = IF n = name THEN u.bytes[n] + len ELSE u.bytes[n]
    /\ \A n \in OutputNames : v.chunks[n] = IF n = name THEN u.chunks[n] + num ELSE u.chunks[n]

\* Counting an output's stream and chunks changes its own counts and nothing else.
LEMMA OneMoreOutput ==
    \A u, v : \A name \in OutputNames : \A len, num \in Nat :
       u \in CountsType /\ v = [u EXCEPT !.bytes[name] = u.bytes[name] + len, !.chunks[name] = u.chunks[name] + num]
          => CountsOutput(u, v, name, len, num)
<1> SUFFICES ASSUME NEW u \in CountsType, NEW name \in OutputNames, NEW len \in Nat, NEW num \in Nat,
                    NEW v, v = [u EXCEPT !.bytes[name] = u.bytes[name] + len, !.chunks[name] = u.chunks[name] + num]
             PROVE  CountsOutput(u, v, name, len, num)
  OBVIOUS
<1>1. /\ u.pass \in [KeySets -> Nat] /\ u.drop \in [KeySets -> Nat] /\ u.retained \in [KeySets -> Nat]
      /\ u.bytes \in [OutputNames -> Nat] /\ u.chunks \in [OutputNames -> Nat]
  BY DEF CountsType
<1> DEFINE b == [u.bytes EXCEPT ![name] = u.bytes[name] + len]
           c == [u.chunks EXCEPT ![name] = u.chunks[name] + num]
<1>2. v = [pass |-> u.pass, drop |-> u.drop, retained |-> u.retained, bytes |-> b, chunks |-> c]
  BY DEF CountsType
<1>3. b \in [OutputNames -> Nat] /\ c \in [OutputNames -> Nat]
  BY <1>1
<1>4. /\ \A n \in OutputNames : b[n] = IF n = name THEN u.bytes[n] + len ELSE u.bytes[n]
      /\ \A n \in OutputNames : c[n] = IF n = name THEN u.chunks[n] + num ELSE u.chunks[n]
  BY <1>1
<1>5. v.bytes = b
  BY DEF CountsType
<1>6. v.chunks = c
  BY DEF CountsType
<1>7. v.pass = u.pass
  BY DEF CountsType
<1>8. v.drop = u.drop /\ v.retained = u.retained
  BY DEF CountsType
<1> HIDE DEF b, c
<1>9. v \in CountsType
  BY <1>1, <1>2, <1>3 DEF CountsType
<1> QED
  BY <1>4, <1>5, <1>6, <1>7, <1>8, <1>9, Zenon DEF CountsOutput

\* A record is output.
LEMMA OutputMetrics ==
    ASSUME MetricsInv, DeliveryInv', OutputRecord
    PROVE  MetricsInv'
<1> SUFFICES ASSUME NEW log, log = batch[1][2], NEW name, name = NameOf(output), NEW len, len = EventLength(name, log),
                    NEW made, made = Result.chunks, NEW num, num = Len(made)
             PROVE  MetricsInv'
  OBVIOUS
<1>1. PoolInv /\ Types /\ DeliveryInv /\ KeySetsOK
  BY DEF MetricsInv, DeliveryInv, PoolInv
<1>2. /\ pc = "output" /\ batch # <<>> /\ output \in Outputs /\ UNCHANGED <<passed, config>>
      /\ accepted' = [accepted EXCEPT ![name] = accepted[name] \o made]
      /\ IF output < Len(Conf.outputs)
         THEN output' = output + 1 /\ UNCHANGED <<pc, batch>>
         ELSE pc' \in {"select", "transform"}
  BY <1>1, OutputSteps
<1>3. UNCHANGED <<written, outcomes, keySets>>
  BY DEF OutputRecord
<1>4. \A n : (IsOutput(n)' <=> IsOutput(n)) /\ IndexOf(n)' = IndexOf(n)
  BY <1>2, OutputsKept
<1>5. /\ Outputs = 1..Len(Conf.outputs) /\ Len(Conf.outputs) \in Nat
      /\ name \in OutputNames /\ FormatOf(output) \in Formats /\ IsOutput(name) /\ IndexOf(name) = output
      /\ \A n : IsOutput(n) => IndexOf(n) \in Outputs /\ NameOf(IndexOf(n)) = n
  BY <1>1, <1>2, OutputFacts
<1>6. Stream = StreamFor(name, log) /\ Stream \in Stream1 /\ Stream.id = log /\ log \in Log /\ now \in Nat
  <2>1. NameOf(output) \in OutputNames /\ now \in Nat
    BY <1>1, <1>5 DEF Types
  <2> QED
    BY <1>1, <1>2, <2>1, StreamIsOwn
<1>7. Stream.len = len /\ len \in Nat
  BY <1>5, <1>6, StreamParts, TokenFacts
<1>8. made \in Seq(Chunk) /\ num \in Nat
  <2>1. Ready(packers[output], FormatOf(output))
    BY <1>1, <1>2 DEF DeliveryInv, PackersReady
  <2>2. Result = WriteStream(packers[output], Stream, now)
    BY DEF Result
  <2> SUFFICES ASSUME NEW p, p = packers[output], NEW r, r = Result PROVE made \in Seq(Chunk) /\ num \in Nat
    OBVIOUS
  <2>3. Appended(p, r, log) \/ Started(p, r, FormatOf(output), log, now)
    BY <1>5, <1>6, <2>1, <2>2, WriteStreamMakes
  <2>4. made = <<>> \/ FlushedChunk(p, r, FormatOf(output))
    BY <2>3 DEF Appended, Started
  <2>5. made = <<>> \/ \E c \in Chunk : made = <<c>>
    BY <2>4 DEF FlushedChunk, IsChunk
  <2>6. \A c \in Chunk : <<c>> \in Seq(Chunk)
    OBVIOUS
  <2>7. made \in Seq(Chunk)
    <3>1. CASE made = <<>>
      BY <3>1
    <3>2. CASE \E c \in Chunk : made = <<c>>
      BY <2>6, <3>2, Zenon
    <3> QED
      BY <2>5, <3>1, <3>2
  <2> QED
    BY <2>7
<1>9. CountsOutput(unwritten, unwritten', name, len, num)
  <2>1. unwritten' = [unwritten EXCEPT !.bytes[name] = unwritten.bytes[name] + Stream.len,
                                       !.chunks[name] = unwritten.chunks[name] + num]
    BY DEF OutputRecord, Result
  <2> QED
    BY <1>5, <1>7, <1>8, <2>1, OneMoreOutput DEF MetricsInv
<1>10. ASSUME NEW n \in OutputNames
       PROVE  Ahead(n) = (IF n = name THEN len ELSE 0) + Ahead(n)' /\ Ahead(n)' \in Nat
  <2>1. CASE ~IsOutput(n)
    <3>1. n # name
      BY <1>5, <2>1
    <3>2. ~InHand(n) /\ ~InHand(n)'
      BY <1>4, <2>1 DEF InHand
    <3> QED
      BY <3>1, <3>2 DEF Ahead
  <2>2. CASE IsOutput(n)
    <3> DEFINE i == IndexOf(n)
    <3>1. i \in Outputs /\ NameOf(i) = n
      BY <1>5, <2>2
    <3>2. i \in Nat /\ output \in Nat /\ i <= Len(Conf.outputs) /\ output <= Len(Conf.outputs)
      BY <1>2, <1>5, <3>1
    <3>3. i = output <=> n = name
      BY <1>5, <3>1
    <3> SUFFICES ASSUME NEW now2, now2 = InHand(n), NEW then, then = InHand(n)'
                 PROVE  Ahead(n) = (IF n = name THEN len ELSE 0) + Ahead(n)' /\ Ahead(n)' \in Nat
      OBVIOUS
    <3>4. InHand(n) <=> i >= output
      BY <1>2, <2>2 DEF InHand
    <3>5. InHand(n)' <=> i >= output + 1
      <4>1. CASE output < Len(Conf.outputs)
        BY <1>2, <1>4, <2>2, <4>1 DEF InHand
      <4>2. CASE ~(output < Len(Conf.outputs))
        <5>1. ~(i >= output + 1)
          BY <3>2, <4>2
        <5>2. ~InHand(n)'
          BY <1>2, <4>2 DEF InHand
        <5> QED
          BY <5>1, <5>2
      <4> QED
        BY <4>1, <4>2
    <3>6. InHand(n)' => batch' = batch
      BY <1>2 DEF InHand
    <3> DEFINE own == EventLength(n, log)
    <3>7. Ahead(n) = (IF i >= output THEN own ELSE 0) /\ Ahead(n)' = (IF i >= output + 1 THEN own ELSE 0)
      BY <3>4, <3>5, <3>6 DEF Ahead
    <3>8. own \in Nat /\ (n = name => own = len)
      BY <1>6, PipelineAssumption DEF EventLength
    <3> HIDE DEF i, own
    <3> QED
      BY <1>7, <3>2, <3>3, <3>7, <3>8
  <2> QED
    BY <2>1, <2>2
<1>11. BytesCounted'
  <2> SUFFICES ASSUME NEW n \in OutputNames
               PROVE  (written.bytes[n] + unwritten'.bytes[n]) + Ahead(n)' = Total(LengthsOf(n, passed[n]))
    BY <1>2, <1>3 DEF BytesCounted, LengthsOf
  <2>1. (written.bytes[n] + unwritten.bytes[n]) + Ahead(n) = Total(LengthsOf(n, passed[n]))
        /\ written.bytes[n] \in Nat /\ unwritten.bytes[n] \in Nat
    BY CountTypes DEF MetricsInv, BytesCounted
  <2>2. unwritten'.bytes[n] = IF n = name THEN unwritten.bytes[n] + len ELSE unwritten.bytes[n]
    BY <1>9 DEF CountsOutput
  <2>3. Ahead(n) = (IF n = name THEN len ELSE 0) + Ahead(n)' /\ Ahead(n)' \in Nat
    BY <1>10
  <2> QED
    BY <1>7, <2>1, <2>2, <2>3
<1>12. Histories'
  <2>1. \A n \in OutputNames : accepted'[n] \in Seq(Chunk)
    <3>1. \A q \in Seq(Chunk) : q \o made \in Seq(Chunk)
      BY <1>8
    <3>2. \A n \in OutputNames : accepted'[n] = IF n = name THEN accepted[n] \o made ELSE accepted[n]
      BY <1>1, <1>2, <1>5 DEF DeliveryInv
    <3> QED
      BY <3>1, <3>2 DEF MetricsInv, Histories
  <2> QED
    BY <1>2, <1>3, <2>1 DEF MetricsInv, Histories
<1>13. ChunksCounted'
  <2> SUFFICES ASSUME NEW n \in OutputNames PROVE written.chunks[n] + unwritten'.chunks[n] = Len(accepted'[n])
    BY <1>3 DEF ChunksCounted
  <2>1. written.chunks[n] + unwritten.chunks[n] = Len(accepted[n]) /\ accepted[n] \in Seq(Chunk)
        /\ written.chunks[n] \in Nat /\ unwritten.chunks[n] \in Nat
    BY CountTypes DEF MetricsInv, ChunksCounted, Histories
  <2>2. unwritten'.chunks[n] = IF n = name THEN unwritten.chunks[n] + num ELSE unwritten.chunks[n]
    BY <1>9 DEF CountsOutput
  <2>3. accepted'[n] = IF n = name THEN accepted[n] \o made ELSE accepted[n]
    BY <1>1, <1>2, <1>5 DEF DeliveryInv
  <2>4. Len(accepted[n] \o made) = Len(accepted[n]) + num
    BY <1>8, <2>1
  <2>5. CASE n = name
    <3>1. Len(accepted'[n]) = Len(accepted[n]) + num
      BY <2>3, <2>4, <2>5, Zenon
    <3>2. unwritten'.chunks[n] = unwritten.chunks[n] + num
      BY <2>2, <2>5
    <3>3. \A x, y, z \in Nat : x + (y + z) = (x + y) + z
      OBVIOUS
    <3>4. written.chunks[n] + (unwritten.chunks[n] + num) = (written.chunks[n] + unwritten.chunks[n]) + num
      BY <1>8, <2>1, <3>3, Zenon
    <3> QED
      BY <2>1, <3>1, <3>2, <3>4, Zenon
  <2>6. CASE n # name
    <3>1. accepted'[n] = accepted[n] /\ unwritten'.chunks[n] = unwritten.chunks[n]
      BY <2>2, <2>3, <2>6
    <3>2. Len(accepted'[n]) = Len(accepted[n])
      BY <3>1, Zenon
    <3>3. written.chunks[n] + unwritten.chunks[n] = Len(accepted[n])
      BY <2>1
    <3> QED
      BY <3>1, <3>2, <3>3, Zenon
  <2> QED
    BY <2>5, <2>6
<1>14. RecordsCounted' /\ KeySetsOK'
  <2>1. UNCHANGED <<written, outcomes>> /\ unwritten'.drop = unwritten.drop /\ unwritten'.pass = unwritten.pass
        /\ unwritten'.retained = unwritten.retained
    BY <1>3, <1>9 DEF CountsOutput
  <2>2. RecordsCounted
    BY DEF MetricsInv
  <2>3. RecordsCounted'
    BY <2>1, <2>2 DEF RecordsCounted
  <2>4. KeySetsOK'
    BY <1>1, <1>2, <1>3 DEF KeySetsOK, Conf
  <2> QED
    BY <2>3, <2>4
<1>15. AllWritten'
  BY <1>2 DEF AllWritten
<1>16. written' \in CountsType /\ unwritten' \in CountsType
  BY <1>3, <1>9 DEF CountsOutput, MetricsInv
<1> QED
  BY <1>11, <1>12, <1>13, <1>14, <1>15, <1>16 DEF MetricsInv

\* The chunks of a flush, counted.
CountsFlushed(u, v, chunks) ==
    /\ v \in CountsType /\ v.pass = u.pass /\ v.drop = u.drop /\ v.retained = u.retained /\ v.bytes = u.bytes
    /\ \A n \in OutputNames : v.chunks[n] = chunks[n]

\* Counting the flushed chunks changes the chunk counts and nothing else.
LEMMA FlushCounted ==
    \A u, v : \A chunks \in [OutputNames -> Nat] :
       u \in CountsType /\ v = [u EXCEPT !.chunks = chunks] => CountsFlushed(u, v, chunks)
<1> SUFFICES ASSUME NEW u \in CountsType, NEW chunks \in [OutputNames -> Nat], NEW v, v = [u EXCEPT !.chunks = chunks]
             PROVE  CountsFlushed(u, v, chunks)
  OBVIOUS
<1>1. v \in CountsType
  BY DEF CountsType
<1>2. v.pass = u.pass
  BY DEF CountsType
<1>3. v.drop = u.drop /\ v.retained = u.retained
  BY DEF CountsType
<1>4. v.bytes = u.bytes
  BY DEF CountsType
<1>5. v.chunks = chunks
  BY DEF CountsType
<1> QED
  BY <1>1, <1>2, <1>3, <1>4, <1>5, Zenon DEF CountsFlushed

\* A flush: the chunks are counted, and everything counted is written.
LEMMA FlushMetrics ==
    ASSUME MetricsInv, DeliveryInv', OnTick \/ OnStop
    PROVE  MetricsInv'
<1> DEFINE num == [n \in OutputNames |-> unwritten.chunks[n] + Len(ChunksFor(n))]
           counted == [unwritten EXCEPT !.chunks = num]
<1>1. Types /\ DeliveryInv /\ KeySetsOK
  BY DEF MetricsInv, DeliveryInv, PoolInv
<1>2. /\ pc = "select" /\ pc' # "output" /\ UNCHANGED <<passed, outcomes, keySets, config>>
      /\ accepted' = [n \in OutputNames |-> accepted[n] \o ChunksFor(n)]
  BY DEF OnTick, OnStop, FlushChunks, configVars
<1>3. written' = AddCounts(written, counted) /\ unwritten' = ZeroCounts
  BY DEF OnTick, OnStop, FlushChunks
<1>4. \A n \in OutputNames : ChunksFor(n) \in Seq(Chunk)
  <2> SUFFICES ASSUME NEW n \in OutputNames, IsOutput(n), NEW r, r = Flushed(IndexOf(n)) PROVE r.chunks \in Seq(Chunk)
    BY DEF ChunksFor
  <2> SUFFICES ASSUME NEW i, i = IndexOf(n), NEW p, p = packers[i] PROVE r.chunks \in Seq(Chunk)
    OBVIOUS
  <2>1. i \in Outputs /\ FormatOf(i) \in Formats
    BY <1>1, OutputFacts
  <2>2. Ready(p, FormatOf(i)) /\ r = FlushBuffer(p)
    BY <1>1, <2>1 DEF DeliveryInv, PackersReady, Flushed
  <2>3. r.chunks = <<>> \/ FlushedChunk(p, r, FormatOf(i))
    BY <2>1, <2>2, FlushMakes
  <2>4. r.chunks = <<>> \/ \E c \in Chunk : r.chunks = <<c>>
    BY <2>3 DEF FlushedChunk, IsChunk
  <2>5. \A c \in Chunk : <<c>> \in Seq(Chunk)
    OBVIOUS
  <2>6. CASE r.chunks = <<>>
    BY <2>6
  <2>7. CASE \E c \in Chunk : r.chunks = <<c>>
    BY <2>5, <2>7, Zenon
  <2> QED
    BY <2>4, <2>6, <2>7
<1>5. \A n \in OutputNames : Len(ChunksFor(n)) \in Nat /\ unwritten.chunks[n] \in Nat
  BY <1>4, CountTypes DEF MetricsInv
<1>6. num \in [OutputNames -> Nat]
  BY <1>5
<1>7. \A n \in OutputNames : num[n] = unwritten.chunks[n] + Len(ChunksFor(n))
  OBVIOUS
<1> HIDE DEF num
<1>8. CountsFlushed(unwritten, counted, num)
  BY <1>6, FlushCounted DEF MetricsInv
<1> HIDE DEF counted
<1>9. Added(written', written, counted)
  BY <1>3, <1>8, CountsAdded DEF CountsFlushed, MetricsInv
<1>10. written' \in CountsType /\ unwritten' \in CountsType
  BY <1>3, <1>9, NothingCounted DEF Added
<1>11. \A k \in KeySets : /\ written'.pass[k] = written.pass[k] + unwritten.pass[k]
                          /\ written'.drop[k] = written.drop[k] + unwritten.drop[k]
                          /\ written'.retained[k] = written.retained[k] + unwritten.retained[k]
                          /\ unwritten'.pass[k] = 0 /\ unwritten'.drop[k] = 0 /\ unwritten'.retained[k] = 0
  BY <1>3, <1>8, <1>9, NothingCounted DEF Added, CountsFlushed
<1>12. \A n \in OutputNames : /\ written'.bytes[n] = written.bytes[n] + unwritten.bytes[n]
                              /\ written'.chunks[n] = written.chunks[n] + num[n]
                              /\ unwritten'.bytes[n] = 0 /\ unwritten'.chunks[n] = 0
  BY <1>3, <1>8, <1>9, NothingCounted DEF Added, CountsFlushed
<1>13. /\ \A k \in KeySets :
             /\ written.pass[k] \in Nat /\ written.drop[k] \in Nat /\ written.retained[k] \in Nat
             /\ unwritten.pass[k] \in Nat /\ unwritten.drop[k] \in Nat /\ unwritten.retained[k] \in Nat
       /\ \A n \in OutputNames : written.bytes[n] \in Nat /\ written.chunks[n] \in Nat
                                 /\ unwritten.bytes[n] \in Nat /\ unwritten.chunks[n] \in Nat
  BY CountTypes DEF MetricsInv
<1>14. \A x, y \in Nat : (x + y) + 0 = x + y
  OBVIOUS
<1>15. RecordsCounted'
  <2> SUFFICES ASSUME NEW k \in KeySets, Unambiguous(k)
               PROVE  /\ written'.pass[k] + unwritten'.pass[k] = CountIn(outcomes, {"pass", "retain"}, k)
                      /\ written'.drop[k] + unwritten'.drop[k] = CountIn(outcomes, {"drop"}, k)
                      /\ written'.retained[k] + unwritten'.retained[k] = CountIn(outcomes, {"retain"}, k)
    BY <1>2 DEF RecordsCounted
  <2>1. /\ written.pass[k] + unwritten.pass[k] = CountIn(outcomes, {"pass", "retain"}, k)
        /\ written.drop[k] + unwritten.drop[k] = CountIn(outcomes, {"drop"}, k)
        /\ written.retained[k] + unwritten.retained[k] = CountIn(outcomes, {"retain"}, k)
    BY DEF MetricsInv, RecordsCounted
  <2> QED
    BY <1>11, <1>13, <1>14, <2>1
<1>16. KeySetsOK'
  BY <1>1, <1>2 DEF KeySetsOK, Conf
<1>17. BytesCounted'
  <2> SUFFICES ASSUME NEW n \in OutputNames
               PROVE  (written'.bytes[n] + unwritten'.bytes[n]) + Ahead(n)' = Total(LengthsOf(n, passed[n]))
    BY <1>2 DEF BytesCounted, LengthsOf
  <2>1. (written.bytes[n] + unwritten.bytes[n]) + Ahead(n) = Total(LengthsOf(n, passed[n]))
    BY DEF MetricsInv, BytesCounted
  <2>2. Ahead(n) = 0 /\ Ahead(n)' = 0
    BY <1>2 DEF Ahead, InHand
  <2> QED
    BY <1>12, <1>13, <2>1, <2>2
<1>18. Histories'
  <2>1. \A n \in OutputNames : accepted[n] \in Seq(Chunk)
    BY DEF MetricsInv, Histories
  <2>2. \A q, r \in Seq(Chunk) : q \o r \in Seq(Chunk)
    OBVIOUS
  <2>3. \A n \in OutputNames : accepted'[n] \in Seq(Chunk)
    BY <1>2, <1>4, <2>1, <2>2
  <2> QED
    BY <1>2, <2>3 DEF MetricsInv, Histories
<1>19. ChunksCounted'
  <2> SUFFICES ASSUME NEW n \in OutputNames PROVE written'.chunks[n] + unwritten'.chunks[n] = Len(accepted'[n])
    BY DEF ChunksCounted
  <2>1. written.chunks[n] + unwritten.chunks[n] = Len(accepted[n])
    BY DEF MetricsInv, ChunksCounted
  <2>2. accepted[n] \in Seq(Chunk) /\ ChunksFor(n) \in Seq(Chunk)
    BY <1>4 DEF MetricsInv, Histories
  <2>3. Len(accepted[n] \o ChunksFor(n)) = Len(accepted[n]) + Len(ChunksFor(n))
    BY <2>2
  <2>4. Len(accepted'[n]) = Len(accepted[n]) + Len(ChunksFor(n))
    BY <1>2, <2>3
  <2>5. \A a, b, c \in Nat : (a + (b + c)) + 0 = (a + b) + c
    OBVIOUS
  <2>6. (written.chunks[n] + num[n]) + 0 = (written.chunks[n] + unwritten.chunks[n]) + Len(ChunksFor(n))
    <3>1. (written.chunks[n] + (unwritten.chunks[n] + Len(ChunksFor(n)))) + 0
             = (written.chunks[n] + unwritten.chunks[n]) + Len(ChunksFor(n))
      BY <1>5, <1>13, <2>5, Zenon
    <3> QED
      BY <1>7, <3>1, Zenon
  <2>7. written'.chunks[n] + unwritten'.chunks[n] = Len(accepted[n]) + Len(ChunksFor(n))
    BY <1>12, <2>1, <2>6, Zenon
  <2> QED
    BY <2>4, <2>7, Zenon
<1>20. AllWritten'
  BY <1>3 DEF AllWritten
<1> QED
  BY <1>10, <1>15, <1>16, <1>17, <1>18, <1>19, <1>20 DEF MetricsInv

\* Every step.
LEMMA MetricsInvNext == OutputsDoNotGrow /\ MetricsInv /\ [Next]_vars => MetricsInv'
<1> SUFFICES ASSUME OutputsDoNotGrow, MetricsInv, [Next]_vars PROVE MetricsInv'
  OBVIOUS
<1>1. DeliveryInv /\ DeliveryInv'
  BY DeliveryInvNext DEF MetricsInv
<1>0. ASSUME UNCHANGED <<keySets, config>> PROVE KeySetsOK'
  BY <1>0 DEF MetricsInv, KeySetsOK, Conf
<1>2. ASSUME UNCHANGED <<counterVars, historyVars, config, pc, batch, output>> PROVE MetricsInv'
  <2>1. \A n : (IsOutput(n)' <=> IsOutput(n)) /\ IndexOf(n)' = IndexOf(n)
    BY <1>2, OutputsKept
  <2>2. \A n : Ahead(n)' = Ahead(n)
    BY <1>2, <2>1 DEF Ahead, InHand
  <2>3. UNCHANGED <<keySets, unwritten, written>>
    BY <1>2 DEF counterVars
  <2> QED
    BY <1>0, <1>1, <1>2, <2>2, <2>3, MetricsUnchanged
<1>3. ASSUME UNCHANGED <<unwritten, written, historyVars>>, KeySetsOK', pc # "output", pc' # "output",
             pc' \in {"stopped", "ended"} => pc \in {"stopped", "ended"}
      PROVE  MetricsInv'
  <2>1. \A n : Ahead(n)' = Ahead(n)
    BY <1>3 DEF Ahead, InHand
  <2> QED
    BY <1>1, <1>3, <2>1, MetricsUnchanged
<1>4. CASE Receive \/ Send \/ SendTimesOut \/ BeginReload \/ Shutdown \/ ClockTicks \/ Done \/ UNCHANGED vars
  BY <1>2, <1>4 DEF Receive, Send, SendTimesOut, BeginReload, Shutdown, ClockTicks, Done, vars, workerVars, configVars
<1>5. CASE OnInput
  <2>1. UNCHANGED <<keySets, config, unwritten, written, historyVars>> /\ pc = "select" /\ pc' = "transform"
    BY <1>5 DEF OnInput, counterVars, configVars
  <2> QED
    BY <1>0, <1>3, <2>1
<1>6. CASE DestroyBufferer
  <2>1. UNCHANGED <<keySets, config, unwritten, written, historyVars>> /\ pc = "stopped"
        /\ pc' \in {"stopped", "ended"}
    BY <1>6 DEF DestroyBufferer, counterVars, configVars
  <2> QED
    BY <1>0, <1>3, <2>1
<1>7. CASE CompleteReload
  <2>1. UNCHANGED <<unwritten, written, historyVars>> /\ keySets' = <<>> /\ pc = "ended" /\ pc' = "select"
    BY <1>7 DEF CompleteReload
  <2>2. KeySetsOK'
    BY <2>1 DEF KeySetsOK
  <2> QED
    BY <1>3, <2>1, <2>2
<1> QED
  BY <1>1, <1>4, <1>5, <1>6, <1>7, DropMetrics, PassMetrics, OutputMetrics, FlushMetrics DEF Next, Worker

\* Once nothing is left to be written, what is written is all there was to count.
LEMMA MetricsInvSays == MetricsInv => MetricsExact
<1> SUFFICES ASSUME MetricsInv, pc \in {"stopped", "ended"}, unwritten = ZeroCounts
             PROVE  /\ \A ks \in KeySets : Unambiguous(ks) => CountedAsOwn(ks)
                    /\ \A n \in OutputNames : /\ written.bytes[n] = TotalLength(n)
                                              /\ written.chunks[n] = Len(accepted[n])
  BY DEF MetricsInv, AllWritten, MetricsExact
<1>1. \A x \in Nat : x + 0 = x
  OBVIOUS
<1>2. /\ \A k \in KeySets : written.pass[k] \in Nat /\ written.drop[k] \in Nat /\ written.retained[k] \in Nat
      /\ \A n \in OutputNames : written.bytes[n] \in Nat /\ written.chunks[n] \in Nat
  BY CountTypes DEF MetricsInv
<1>3. ASSUME NEW k \in KeySets, Unambiguous(k) PROVE CountedAsOwn(k)
  <2>1. /\ written.pass[k] + unwritten.pass[k] = CountIn(outcomes, {"pass", "retain"}, k)
        /\ written.drop[k] + unwritten.drop[k] = CountIn(outcomes, {"drop"}, k)
        /\ written.retained[k] + unwritten.retained[k] = CountIn(outcomes, {"retain"}, k)
    BY <1>3 DEF MetricsInv, RecordsCounted
  <2>2. /\ written.pass[k] = CountIn(outcomes, {"pass", "retain"}, k)
        /\ written.drop[k] = CountIn(outcomes, {"drop"}, k)
        /\ written.retained[k] = CountIn(outcomes, {"retain"}, k)
    BY <1>1, <1>2, <2>1, NothingCounted
  <2> QED
    BY <2>2 DEF CountedAsOwn, CountOf, CountIn
<1>4. ASSUME NEW n \in OutputNames PROVE written.bytes[n] = TotalLength(n)
  <2>1. (written.bytes[n] + unwritten.bytes[n]) + Ahead(n) = Total(LengthsOf(n, passed[n]))
    BY DEF MetricsInv, BytesCounted
  <2>2. Ahead(n) = 0
    BY DEF Ahead, InHand
  <2>3. written.bytes[n] = Total(LengthsOf(n, passed[n]))
    BY <1>1, <1>2, <2>1, <2>2, NothingCounted
  <2> QED
    BY <2>3 DEF TotalLength, LengthsOf
<1>5. ASSUME NEW n \in OutputNames PROVE written.chunks[n] = Len(accepted[n])
  <2>1. written.chunks[n] + unwritten.chunks[n] = Len(accepted[n])
    BY DEF MetricsInv, ChunksCounted
  <2> QED
    BY <1>1, <1>2, <2>1, NothingCounted
<1> QED
  BY <1>3, <1>4, <1>5

\* When a worker has stopped, the metrics have counted every byte and every chunk once, and every
\* record once as what became of it, under the key set of its own message, unless another key set
\* reads like that one when the texts are joined: LogProcessCounterSet loses nothing between two
\* writings of UpdateMetrics, nor from one generation to the next.
THEOREM MetricsStayExact ==
    OutputsDoNotGrow /\ Spec => []MetricsExact
<1> SUFFICES ASSUME OutputsDoNotGrow PROVE Spec => []MetricsExact
  OBVIOUS
<1>1. MetricsInv /\ [Next]_vars => MetricsInv'
  BY MetricsInvNext
<1> QED
  BY <1>1, MetricsInvInit, MetricsInvSays, PTL DEF Spec
=============================================================================
