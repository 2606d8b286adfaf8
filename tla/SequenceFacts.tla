------------------------------ MODULE SequenceFacts ------------------------------
(***************************************************************************)
(* Facts about sequences of records that the order in which a component     *)
(* delivers rests on: joining sequences keeps what is in them and keeps     *)
(* them in order.                                                           *)
(*                                                                          *)
(* FlattenSeq is a recursive function, and what it computes is proved by    *)
(* induction.  The induction rule of the library is about an operator; this *)
(* one is about a set of numbers, and follows from the order of the         *)
(* numbers being well-founded.                                              *)
(***************************************************************************)
EXTENDS Integers, Sequences, SequencesExt, SequenceTheorems, WellFoundedInduction, TLAPS

\* In a sequence, what comes first is related to what comes later.
Ordered(q, R) == \A i, j \in 1..Len(q) : i < j => <<q[i], q[j]>> \in R

\* The same of two sequences one after the other.
Precedes(q, r, R) == \A a \in Range(q), b \in Range(r) : <<a, b>> \in R

-----------------------------------------------------------------------------
(* Induction *)

\* A set that has 0, and with each number the next, has all numbers.
LEMMA Induction ==
    ASSUME NEW T, 0 \in T, \A n \in Nat : n \in T => n + 1 \in T
    PROVE  Nat \subseteq T
<1> DEFINE R == OpToRel(<, Nat)
           U == Nat \ T
<1>1. IsWellFoundedOn(R, Nat)
  BY NatLessThanWellFounded
<1>2. \A m, n \in Nat : m < n => <<m, n>> \in R
  BY DEF OpToRel
<1> HIDE DEF R
<1>3. SUFFICES ASSUME U # {} PROVE FALSE
  OBVIOUS
<1>4. PICK x \in U : \A y \in U : <<y, x>> \notin R
  <2>1. U \subseteq Nat
    OBVIOUS
  <2> HIDE DEF U
  <2> QED
    BY <1>1, <1>3, <2>1, WFMin
<1>5. x \in Nat /\ x # 0 /\ x - 1 \in Nat /\ x - 1 < x /\ (x - 1) + 1 = x
  BY <1>4
<1>6. x - 1 \notin U
  BY <1>2, <1>4, <1>5
<1>7. x - 1 \in T
  BY <1>5, <1>6
<1>8. x \in T
  BY <1>5, <1>7
<1> QED
  BY <1>4, <1>8

-----------------------------------------------------------------------------
(* Two sequences *)

\* The elements of a sequence.
LEMMA ElementsOf ==
    ASSUME NEW S, NEW q \in Seq(S)
    PROVE  /\ Len(q) \in Nat /\ DOMAIN q = 1..Len(q)
           /\ Range(q) = {q[i] : i \in 1..Len(q)} /\ Range(q) \subseteq S
  BY DEF Range

\* Two sequences joined.
LEMMA JoinedFacts ==
    ASSUME NEW S, NEW q \in Seq(S), NEW r \in Seq(S)
    PROVE  /\ q \o r \in Seq(S)
           /\ Range(q \o r) = Range(q) \cup Range(r)
           /\ \A R : Ordered(q, R) /\ Ordered(r, R) /\ Precedes(q, r, R) => Ordered(q \o r, R)
<1>1. /\ q \o r \in Seq(S) /\ Len(q \o r) = Len(q) + Len(r)
      /\ Len(q) \in Nat /\ Len(r) \in Nat
      /\ \A i \in 1..(Len(q) + Len(r)) : (q \o r)[i] = IF i <= Len(q) THEN q[i] ELSE r[i - Len(q)]
  OBVIOUS
<1> DEFINE t == q \o r
<1>2. /\ DOMAIN q = 1..Len(q) /\ DOMAIN r = 1..Len(r) /\ DOMAIN t = 1..(Len(q) + Len(r))
  BY <1>1
<1>3. \A i \in 1..Len(q) : i \in 1..(Len(q) + Len(r)) /\ t[i] = q[i]
  BY <1>1
<1>4. \A j \in 1..Len(r) : Len(q) + j \in 1..(Len(q) + Len(r)) /\ t[Len(q) + j] = r[j]
  BY <1>1
<1>5. \A i \in 1..(Len(q) + Len(r)) :
        \/ i \in 1..Len(q) /\ t[i] = q[i]
        \/ i \notin 1..Len(q) /\ i - Len(q) \in 1..Len(r) /\ t[i] = r[i - Len(q)]
  BY <1>1
<1>6. Len(t) = Len(q) + Len(r)
  BY <1>1
<1> HIDE DEF t
<1>7. Range(t) = Range(q) \cup Range(r)
  <2>1. Range(t) \subseteq Range(q) \cup Range(r)
    BY <1>2, <1>5 DEF Range
  <2>2. Range(q) \subseteq Range(t)
    BY <1>2, <1>3 DEF Range
  <2>3. Range(r) \subseteq Range(t)
    BY <1>2, <1>4 DEF Range
  <2> QED
    BY <2>1, <2>2, <2>3
<1>8. ASSUME NEW R, Ordered(q, R), Ordered(r, R), Precedes(q, r, R) PROVE Ordered(t, R)
  <2> SUFFICES ASSUME NEW i \in 1..(Len(q) + Len(r)), NEW j \in 1..(Len(q) + Len(r)), i < j
               PROVE  <<t[i], t[j]>> \in R
    BY <1>6 DEF Ordered
  <2>1. CASE i \in 1..Len(q) /\ j \in 1..Len(q)
    BY <1>3, <1>8, <2>1 DEF Ordered
  <2>2. CASE i \in 1..Len(q) /\ j \notin 1..Len(q)
    <3>1. t[i] \in Range(q) /\ t[j] \in Range(r)
      BY <1>2, <1>5, <2>2 DEF Range
    <3> QED
      BY <1>8, <3>1 DEF Precedes
  <2>3. CASE i \notin 1..Len(q)
    <3>1. j \notin 1..Len(q) /\ i - Len(q) < j - Len(q)
      BY <1>1, <2>3
    <3>2. /\ i - Len(q) \in 1..Len(r) /\ t[i] = r[i - Len(q)]
          /\ j - Len(q) \in 1..Len(r) /\ t[j] = r[j - Len(q)]
      BY <1>5, <2>3, <3>1
    <3> QED
      BY <1>8, <3>1, <3>2 DEF Ordered
  <2> QED
    BY <2>1, <2>2, <2>3
<1> QED
  BY <1>1, <1>7, <1>8 DEF t

\* A sequence cut in two.
LEMMA CutFacts ==
    ASSUME NEW S, NEW q \in Seq(S), NEW k \in 0..Len(q)
    PROVE  /\ SubSeq(q, 1, k) \in Seq(S) /\ SubSeq(q, k + 1, Len(q)) \in Seq(S)
           /\ Range(q) = Range(SubSeq(q, 1, k)) \cup Range(SubSeq(q, k + 1, Len(q)))
           /\ \A R : Ordered(q, R) => /\ Ordered(SubSeq(q, 1, k), R)
                                     /\ Ordered(SubSeq(q, k + 1, Len(q)), R)
                                     /\ Precedes(SubSeq(q, 1, k), SubSeq(q, k + 1, Len(q)), R)
<1> DEFINE s == SubSeq(q, 1, k)
           t == SubSeq(q, k + 1, Len(q))
<1>1. Len(q) \in Nat /\ k \in Nat /\ k <= Len(q) /\ DOMAIN q = 1..Len(q)
  OBVIOUS
<1>2. s \in Seq(S) /\ t \in Seq(S)
  BY <1>1
<1>3. Len(s) = k /\ \A i \in 1..k : s[i] = q[i]
  <2>1. 1 \in 1..(Len(q) + 1) /\ k \in (1 - 1)..Len(q) /\ k - 1 + 1 = k
    BY <1>1
  <2>2. \A i \in 1..k : 1 + i - 1 = i
    OBVIOUS
  <2> QED
    BY <2>1, <2>2, SubSeqProperties
<1>4. Len(t) = Len(q) - k /\ \A i \in 1..(Len(q) - k) : t[i] = q[k + i]
  <2>1. k + 1 \in Int /\ Len(q) \in Int /\ \A i \in (k + 1)..Len(q) : q[i] \in S
    BY <1>1
  <2>2. /\ Len(t) = IF k + 1 <= Len(q) THEN Len(q) - (k + 1) + 1 ELSE 0
        /\ \A i \in 1..(Len(q) - (k + 1) + 1) : t[i] = q[k + 1 + i - 1]
    <3> HIDE DEF t
    <3>1. t = SubSeq(q, k + 1, Len(q))
      BY DEF t
    <3> QED
      BY <2>1, <3>1, SubSeqProperties
  <2> HIDE DEF t
  <2>3. Len(q) - (k + 1) + 1 = Len(q) - k /\ (~(k + 1 <= Len(q)) => Len(q) - k = 0)
    <3>1. \A m, j \in Nat : j <= m => m - (j + 1) + 1 = m - j /\ (~(j + 1 <= m) => m - j = 0)
      OBVIOUS
    <3> QED
      BY <1>1, <3>1
  <2>4. \A i \in 1..(Len(q) - k) : k + 1 + i - 1 = k + i
    BY <1>1
  <2> QED
    BY <2>2, <2>3, <2>4
<1>5. /\ \A i \in 1..k : i \in 1..Len(q)
      /\ \A i \in 1..(Len(q) - k) : k + i \in 1..Len(q)
      /\ \A i \in 1..Len(q) : i \in 1..k \/ (i - k \in 1..(Len(q) - k) /\ k + (i - k) = i)
      /\ \A i \in 1..k, j \in 1..(Len(q) - k) : i < k + j
      /\ \A i, j \in 1..(Len(q) - k) : i < j => k + i < k + j
  BY <1>1
<1>6. DOMAIN s = 1..k /\ DOMAIN t = 1..(Len(q) - k)
  BY <1>2, <1>3, <1>4
<1> HIDE DEF s, t
<1>7. Range(q) = Range(s) \cup Range(t)
  <2>1. Range(q) \subseteq Range(s) \cup Range(t)
    <3> SUFFICES ASSUME NEW i \in 1..Len(q) PROVE q[i] \in Range(s) \cup Range(t)
      BY <1>1 DEF Range
    <3>1. CASE i \in 1..k
      BY <1>3, <1>6, <3>1 DEF Range
    <3>2. CASE i - k \in 1..(Len(q) - k) /\ k + (i - k) = i
      <4>1. q[i] = t[i - k] /\ i - k \in DOMAIN t
        BY <1>4, <1>6, <3>2
      <4> QED
        BY <4>1 DEF Range
    <3> QED
      BY <1>5, <3>1, <3>2
  <2>2. ASSUME NEW i \in 1..k PROVE s[i] \in Range(q)
    <3>1. s[i] = q[i] /\ i \in DOMAIN q
      BY <1>1, <1>3, <1>5
    <3> QED
      BY <3>1 DEF Range
  <2>3. ASSUME NEW i \in 1..(Len(q) - k) PROVE t[i] \in Range(q)
    <3>1. t[i] = q[k + i] /\ k + i \in DOMAIN q
      BY <1>1, <1>4, <1>5
    <3> QED
      BY <3>1 DEF Range
  <2>4. Range(s) \subseteq Range(q) /\ Range(t) \subseteq Range(q)
    BY <1>6, <2>2, <2>3 DEF Range
  <2> QED
    BY <2>1, <2>4
<1>8. ASSUME NEW R, Ordered(q, R) PROVE Ordered(s, R) /\ Ordered(t, R) /\ Precedes(s, t, R)
  <2>1. Ordered(s, R)
    BY <1>3, <1>5, <1>8 DEF Ordered
  <2>2. Ordered(t, R)
    BY <1>4, <1>5, <1>8 DEF Ordered
  <2>3. Precedes(s, t, R)
    BY <1>3, <1>4, <1>5, <1>8, <1>6 DEF Ordered, Precedes, Range
  <2> QED
    BY <2>1, <2>2, <2>3
<1> QED
  BY <1>2, <1>7, <1>8 DEF s, t

-----------------------------------------------------------------------------
(* A sequence of sequences *)

\* The recursion of FlattenSeq, as far as n.
Steps(s, f, n) == f = [i \in 1..n |-> IF i = 1 THEN s[i] ELSE f[i - 1] \o s[i]]

Flattening(s) == CHOOSE f : Steps(s, f, Len(s))

\* FlattenSeq takes the last element of the flattening.
LEMMA FlattenDef == \A s : FlattenSeq(s) = IF Len(s) = 0 THEN s ELSE Flattening(s)[Len(s)]
  BY Zenon DEF FlattenSeq, Flattening, Steps

\* There is a function that FlattenSeq may choose.
LEMMA StepsExist == \A s : \A n \in Nat : \E f : Steps(s, f, n)
<1> SUFFICES ASSUME NEW s PROVE \A n \in Nat : \E f : Steps(s, f, n)
  OBVIOUS
<1> DEFINE T == {n \in Nat : \E f : Steps(s, f, n)}
<1>1. 0 \in T
  <2>1. 1..0 = {}
    OBVIOUS
  <2> DEFINE f == [i \in {} |-> {}]
  <2>2. f = [i \in {} |-> IF i = 1 THEN s[i] ELSE f[i - 1] \o s[i]]
    OBVIOUS
  <2>3. Steps(s, f, 0)
    BY <2>1, <2>2 DEF Steps
  <2> QED
    BY <2>3
<1>2. ASSUME NEW n \in Nat, n \in T PROVE n + 1 \in T
  <2>1. PICK f : Steps(s, f, n)
    BY <1>2
  <2> DEFINE x == IF n = 0 THEN s[1] ELSE f[n] \o s[n + 1]
             g == [i \in 1..(n + 1) |-> IF i = n + 1 THEN x ELSE f[i]]
  <2>2. \A i \in 1..n : f[i] = IF i = 1 THEN s[i] ELSE f[i - 1] \o s[i]
    BY <2>1 DEF Steps
  <2> HIDE DEF x
  <2>3. /\ \A i \in 1..n : i \in 1..(n + 1) /\ i # n + 1
        /\ \A i \in 1..n : i # 1 => i - 1 \in 1..n
        /\ n + 1 \in 1..(n + 1) /\ (n + 1) - 1 = n
        /\ n # 0 => n \in 1..n
    OBVIOUS
  <2>4. \A i \in 1..n : g[i] = f[i]
    BY <2>3
  <2>5. ASSUME NEW i \in 1..(n + 1) PROVE g[i] = IF i = 1 THEN s[i] ELSE g[i - 1] \o s[i]
    <3>1. CASE i \in 1..n
      BY <2>2, <2>3, <2>4, <3>1
    <3>2. CASE i = n + 1
      BY <2>3, <2>4, <3>2 DEF x
    <3> QED
      BY <3>1, <3>2
  <2>6. g = [i \in 1..(n + 1) |-> IF i = 1 THEN s[i] ELSE g[i - 1] \o s[i]]
    BY <2>5
  <2>7. Steps(s, g, n + 1)
    BY <2>6 DEF Steps
  <2> QED
    BY <2>7
<1> HIDE DEF T
<1>3. Nat \subseteq T
  BY <1>1, <1>2, Induction
<1> QED
  BY <1>3 DEF T

\* What is in the sequences is in the flat one, and nothing else; and when each of them is in
\* order and they follow each other in order, so is the flat one.
LEMMA FlattenFacts ==
    ASSUME NEW S, NEW s \in Seq(Seq(S))
    PROVE  /\ FlattenSeq(s) \in Seq(S)
           /\ Range(FlattenSeq(s)) = UNION {Range(s[i]) : i \in 1..Len(s)}
           /\ \A R : /\ \A i \in 1..Len(s) : Ordered(s[i], R)
                     /\ \A i, j \in 1..Len(s) : i < j => Precedes(s[i], s[j], R)
                     => Ordered(FlattenSeq(s), R)
<1> DEFINE n == Len(s)
           f == Flattening(s)
           InLine(R) == /\ \A i \in 1..n : Ordered(s[i], R)
                        /\ \A i, j \in 1..n : i < j => Precedes(s[i], s[j], R)
           RangeTo(i) == UNION {Range(s[j]) : j \in 1..i}
           Done(i) == /\ f[i] \in Seq(S) /\ Range(f[i]) = RangeTo(i)
                      /\ \A R : InLine(R) => Ordered(f[i], R)
           T == {i \in Nat : i \in 1..n => Done(i)}
<1>1. n \in Nat /\ \A i \in 1..n : s[i] \in Seq(S)
  OBVIOUS
<1>2. Steps(s, f, n)
  BY <1>1, StepsExist, Zenon DEF Flattening
<1> HIDE DEF f, n
<1>3. \A i \in 1..n : f[i] = IF i = 1 THEN s[i] ELSE f[i - 1] \o s[i]
  BY <1>2 DEF Steps
<1>4. 0 \in T
  BY <1>1
<1>5. ASSUME NEW i \in Nat, i \in T PROVE i + 1 \in T
  <2> SUFFICES ASSUME i + 1 \in 1..n PROVE Done(i + 1)
    OBVIOUS
  <2>1. s[i + 1] \in Seq(S)
    BY <1>1
  <2>2. CASE i = 0
    <3>1. f[1] = s[1] /\ 1 \in 1..n /\ 1..1 = {1}
      BY <1>3, <2>2
    <3>2. Range(f[1]) = RangeTo(1)
      BY <3>1
    <3>3. \A R : InLine(R) => Ordered(f[1], R)
      BY <3>1
    <3> QED
      BY <2>1, <2>2, <3>1, <3>2, <3>3
  <2>3. CASE i # 0
    <3>1. i \in 1..n /\ (i + 1) - 1 = i /\ i + 1 # 1
      BY <1>1, <2>3
    <3>2. Done(i)
      BY <1>5, <3>1
    <3>3. f[i + 1] = f[i] \o s[i + 1]
      BY <1>3, <3>1
    <3>4. RangeTo(i + 1) = RangeTo(i) \cup Range(s[i + 1])
      <4>1. 1..(i + 1) = 1..i \cup {i + 1}
        OBVIOUS
      <4> QED
        BY <4>1
    <3>5. f[i + 1] \in Seq(S) /\ Range(f[i + 1]) = RangeTo(i + 1)
      <4>1. f[i] \in Seq(S) /\ Range(f[i]) = RangeTo(i)
        BY <3>2
      <4>2. f[i + 1] \in Seq(S) /\ Range(f[i + 1]) = Range(f[i]) \cup Range(s[i + 1])
        BY <2>1, <3>3, <4>1, JoinedFacts
      <4> HIDE DEF RangeTo, Done, InLine
      <4> QED
        BY <3>4, <4>1, <4>2, Zenon
    <3>6. ASSUME NEW R, InLine(R) PROVE Ordered(f[i + 1], R)
      <4>1. f[i] \in Seq(S) /\ Ordered(f[i], R) /\ Ordered(s[i + 1], R) /\ Range(f[i]) = RangeTo(i)
        BY <3>2, <3>6
      <4>2. \A j \in 1..i : j \in 1..n /\ j < i + 1
        BY <1>1, <3>1
      <4>3. Precedes(f[i], s[i + 1], R)
        BY <3>6, <4>1, <4>2 DEF Precedes
      <4> HIDE DEF InLine, Done, RangeTo
      <4> QED
        BY <2>1, <3>3, <4>1, <4>3, JoinedFacts
    <3> QED
      BY <3>5, <3>6
  <2> QED
    BY <2>2, <2>3
<1>6. Nat \subseteq T
  <2> HIDE DEF T
  <2> QED
    BY <1>4, <1>5, Induction
<1>7. CASE n = 0
  <2>1. s = <<>> /\ FlattenSeq(s) = s
    BY <1>7, FlattenDef DEF n
  <2>2. 1..n = {} /\ Range(s) = {} /\ s \in Seq(S)
    BY <1>7, <2>1 DEF Range
  <2>3. \A R : Ordered(s, R)
    BY <2>1 DEF Ordered
  <2> QED
    BY <2>1, <2>2, <2>3 DEF n
<1>8. CASE n # 0
  <2>1. n \in 1..n /\ n \in Nat
    BY <1>1, <1>8
  <2>2. Done(n)
    BY <1>6, <2>1
  <2>3. FlattenSeq(s) = f[n]
    BY <1>8, FlattenDef DEF n, f
  <2> QED
    BY <2>2, <2>3 DEF n
<1> QED
  BY <1>7, <1>8

\* A piece more at the end.
LEMMA FlattenAppend ==
    ASSUME NEW S, NEW s \in Seq(Seq(S)), NEW x \in Seq(S)
    PROVE  FlattenSeq(Append(s, x)) = FlattenSeq(s) \o x
<1> DEFINE n == Len(s)
           t == Append(s, x)
           f == Flattening(s)
           g == Flattening(t)
<1>1. n \in Nat /\ Len(t) = n + 1 /\ t[n + 1] = x /\ \A i \in 1..n : t[i] = s[i]
  OBVIOUS
<1>2. Steps(s, f, n) /\ Steps(t, g, n + 1)
  <2>1. \A q : Len(q) \in Nat => Steps(q, Flattening(q), Len(q))
    BY StepsExist, Zenon DEF Flattening
  <2>2. Len(s) \in Nat /\ Len(t) \in Nat
    BY <1>1
  <2>3. Steps(s, f, Len(s)) /\ Steps(t, g, Len(t))
    BY <2>1, <2>2, Zenon
  <2> QED
    BY <1>1, <2>3
<1>3. FlattenSeq(t) = g[n + 1]
  <2>1. Len(t) # 0
    BY <1>1
  <2>2. FlattenSeq(t) = g[Len(t)]
    BY <2>1, FlattenDef, Zenon
  <2> QED
    BY <1>1, <2>2
<1>4. FlattenSeq(s) = IF n = 0 THEN s ELSE f[n]
  BY FlattenDef, Zenon
<1> HIDE DEF f, g, t, n
<1>5. /\ \A i \in 1..n : f[i] = IF i = 1 THEN s[i] ELSE f[i - 1] \o s[i]
      /\ \A i \in 1..(n + 1) : g[i] = IF i = 1 THEN t[i] ELSE g[i - 1] \o t[i]
  BY <1>2 DEF Steps
<1>6. \A i \in 1..n : f[i] = g[i]
  <2> DEFINE T == {i \in Nat : i \in 1..n => f[i] = g[i]}
  <2>1. 0 \in T
    OBVIOUS
  <2>2. ASSUME NEW i \in Nat, i \in T PROVE i + 1 \in T
    <3>1. SUFFICES ASSUME i + 1 \in 1..n PROVE f[i + 1] = g[i + 1]
      OBVIOUS
    <3>2. t[i + 1] = s[i + 1] /\ i + 1 \in 1..(n + 1) /\ (i + 1) - 1 = i
      BY <1>1, <3>1
    <3>3. CASE i = 0
      BY <1>5, <3>1, <3>2, <3>3
    <3>4. CASE i # 0
      <4>1. f[i] = g[i]
        BY <1>1, <2>2, <3>1, <3>4
      <4>2. f[i + 1] = f[i] \o s[i + 1] /\ g[i + 1] = g[i] \o t[i + 1]
        <5>1. i + 1 # 1
          BY <3>4
        <5>2. f[i + 1] = f[(i + 1) - 1] \o s[i + 1] /\ g[i + 1] = g[(i + 1) - 1] \o t[i + 1]
          BY <1>5, <3>1, <3>2, <5>1, Zenon
        <5> QED
          BY <3>2, <5>2
      <4> QED
        BY <3>2, <4>1, <4>2
    <3> QED
      BY <3>3, <3>4
  <2> HIDE DEF T
  <2>3. Nat \subseteq T
    BY <2>1, <2>2, Induction
  <2> QED
    BY <2>3, <1>1 DEF T
<1>7. CASE n = 0
  <2>1. s = <<>>
    BY <1>7 DEF n
  <2>2. <<>> \o x = x
    OBVIOUS
  <2> QED
    BY <1>1, <1>3, <1>4, <1>5, <1>7, <2>1, <2>2 DEF t
<1>8. CASE n # 0
  <2>1. g[n + 1] = g[n] \o t[n + 1] /\ f[n] = g[n]
    <3>1. n + 1 \in 1..(n + 1) /\ n + 1 # 1 /\ (n + 1) - 1 = n /\ n \in 1..n
      BY <1>1, <1>8
    <3>2. g[n + 1] = g[(n + 1) - 1] \o t[n + 1]
      BY <1>5, <3>1, Zenon
    <3> QED
      BY <1>6, <3>1, <3>2
  <2> QED
    BY <1>1, <1>3, <1>4, <1>8, <2>1 DEF t
<1> QED
  BY <1>7, <1>8

-----------------------------------------------------------------------------
(* Parts of a sequence, and folds *)

\* A function that makes of a position and an element of A another one.
KeepsIn(G, A, n) == \A i \in 1..n : \A a \in A : G[<<i, a>>] \in A

\* What folding with it along n positions computes, step by step.
Folding(f, G, A, base, n) ==
    f \in [0..n -> A] /\ f = [i \in 0..n |-> IF i = 0 THEN base ELSE G[<<i, f[i - 1]>>]]

\* There is such a computation: a fold that stays in a set has a value.
LEMMA FoldExists ==
    ASSUME NEW A, NEW G, NEW base \in A, NEW n \in Nat, KeepsIn(G, A, n)
    PROVE  \E f : Folding(f, G, A, base, n)
<1> DEFINE Reaches(f, m) == f \in [0..m -> A] /\ f = [i \in 0..m |-> IF i = 0 THEN base ELSE G[<<i, f[i - 1]>>]]
           T == {m \in Nat : m <= n => \E f : Reaches(f, m)}
<1>1. 0 \in T
  <2> DEFINE f == [i \in 0..0 |-> base]
  <2>1. f \in [0..0 -> A]
    OBVIOUS
  <2>2. f = [i \in 0..0 |-> IF i = 0 THEN base ELSE G[<<i, f[i - 1]>>]]
    <3>1. \A i \in 0..0 : i = 0
      OBVIOUS
    <3> QED
      BY <3>1
  <2> QED
    BY <2>1, <2>2
<1>2. ASSUME NEW m \in Nat, m \in T PROVE m + 1 \in T
  <2> SUFFICES ASSUME m + 1 <= n PROVE \E f : Reaches(f, m + 1)
    OBVIOUS
  <2>1. PICK f : Reaches(f, m)
    BY <1>2
  <2> DEFINE x == G[<<m + 1, f[m]>>]
             g == [i \in 0..(m + 1) |-> IF i = m + 1 THEN x ELSE f[i]]
  <2>2. /\ \A i \in 0..m : i \in 0..(m + 1) /\ i # m + 1
        /\ \A i \in 0..m : i # 0 => i - 1 \in 0..m
        /\ m + 1 \in 0..(m + 1) /\ (m + 1) - 1 = m /\ m \in 0..m /\ m + 1 # 0 /\ m + 1 \in 1..n
        /\ \A i \in 0..(m + 1) : i \in 0..m \/ i = m + 1
    OBVIOUS
  <2>3. f \in [0..m -> A] /\ \A i \in 0..m : f[i] = IF i = 0 THEN base ELSE G[<<i, f[i - 1]>>]
    BY <2>1
  <2>4. x \in A
    BY <2>2, <2>3 DEF KeepsIn
  <2> HIDE DEF x
  <2>5. g \in [0..(m + 1) -> A]
    BY <2>2, <2>3, <2>4
  <2>6. \A i \in 0..m : g[i] = f[i]
    BY <2>2
  <2>7. g[m + 1] = x
    BY <2>2
  <2> HIDE DEF g
  <2>8. ASSUME NEW i \in 0..(m + 1) PROVE g[i] = IF i = 0 THEN base ELSE G[<<i, g[i - 1]>>]
    <3>1. CASE i \in 0..m
      BY <2>2, <2>3, <2>6, <3>1
    <3>2. CASE i = m + 1
      BY <2>2, <2>6, <2>7, <3>2 DEF x
    <3> QED
      BY <2>2, <3>1, <3>2
  <2>9. g = [i \in 0..(m + 1) |-> IF i = 0 THEN base ELSE G[<<i, g[i - 1]>>]]
    BY <2>5, <2>8
  <2> QED
    BY <2>5, <2>9
<1> HIDE DEF T
<1>3. Nat \subseteq T
  BY <1>1, <1>2, Induction
<1>4. n \in T
  BY <1>3
<1> QED
  BY <1>4 DEF T, Folding

\* A sequence joined with nothing, and with all, of another.
LEMMA JoinedNone ==
    ASSUME NEW S, NEW T \in Seq(S), NEW R \in Seq(S)
    PROVE  T \o SubSeq(R, 1, 0) = T /\ T \o SubSeq(R, 1, Len(R)) = T \o R
<1>1. SubSeq(R, 1, 0) = <<>> /\ SubSeq(R, 1, Len(R)) = R /\ T \o <<>> = T
  OBVIOUS
<1> QED
  BY <1>1

\* A sequence joined with one more element of another.
LEMMA JoinedNext ==
    ASSUME NEW S, NEW T \in Seq(S), NEW R \in Seq(S), NEW i \in Nat, i + 1 \in 1..Len(R)
    PROVE  /\ T \o SubSeq(R, 1, i) \in Seq(S)
           /\ T \o SubSeq(R, 1, i + 1) = Append(T \o SubSeq(R, 1, i), R[i + 1])
<1>1. SubSeq(R, 1, i) \in Seq(S) /\ Len(SubSeq(R, 1, i)) = i
  OBVIOUS
<1>2. SubSeq(R, 1, i + 1) = Append(SubSeq(R, 1, i), R[i + 1])
  OBVIOUS
<1>3. R[i + 1] \in S
  OBVIOUS
<1>4. ASSUME NEW Q \in Seq(S), NEW x \in S PROVE T \o Append(Q, x) = Append(T \o Q, x) /\ T \o Q \in Seq(S)
  OBVIOUS
<1> QED
  BY <1>1, <1>2, <1>3, <1>4

\* A part of a sequence, by its positions.
LEMMA Part ==
    ASSUME NEW S, NEW q \in Seq(S), NEW b \in 0..Len(q), NEW p \in 0..b
    PROVE  /\ SubSeq(q, p + 1, b) \in Seq(S) /\ Len(SubSeq(q, p + 1, b)) = b - p
           /\ \A i \in 1..(b - p) : SubSeq(q, p + 1, b)[i] = q[p + i]
<1>1. p \in Nat /\ b \in Nat /\ p <= b /\ b <= Len(q) /\ Len(q) \in Nat
  OBVIOUS
<1>2. \A i \in (p + 1)..b : q[i] \in S
  BY <1>1
<1> DEFINE t == SubSeq(q, p + 1, b)
<1>3. t \in Seq(S)
  BY <1>1
<1>4. /\ Len(t) = IF p + 1 <= b THEN b - (p + 1) + 1 ELSE 0
      /\ \A i \in 1..(b - (p + 1) + 1) : t[i] = q[p + 1 + i - 1]
  <2>1. t = SubSeq(q, p + 1, b)
    BY DEF t
  <2> HIDE DEF t
  <2> QED
    BY <1>1, <1>2, <2>1, SubSeqProperties
<1> HIDE DEF t
<1>5. b - (p + 1) + 1 = b - p /\ (~(p + 1 <= b) => b - p = 0) /\ \A i \in 1..(b - p) : p + 1 + i - 1 = p + i
  BY <1>1
<1>6. Len(t) = b - p /\ \A i \in 1..(b - p) : t[i] = q[p + i]
  BY <1>4, <1>5
<1> QED
  BY <1>3, <1>6 DEF t

\* Two sequences with the same elements are the same.
LEMMA SameSeq ==
    ASSUME NEW S, NEW s \in Seq(S), NEW t \in Seq(S), Len(s) = Len(t), \A i \in 1..Len(s) : s[i] = t[i]
    PROVE  s = t
  OBVIOUS

\* Parts of what follows a position are parts of the whole.
LEMMA PartOfRest ==
    ASSUME NEW S, NEW q \in Seq(S), NEW p \in 0..Len(q), NEW x \in 0..(Len(q) - p)
    PROVE  LET r == SubSeq(q, p + 1, Len(q)) IN
           SubSeq(r, 1, x) = SubSeq(q, p + 1, p + x) /\ SubSeq(r, x + 1, Len(r)) = SubSeq(q, p + x + 1, Len(q))
<1> DEFINE n == Len(q)
           r == SubSeq(q, p + 1, n)
<1>1. n \in Nat /\ p \in Nat /\ x \in Nat /\ p <= n /\ x <= n - p /\ n \in 0..n /\ p \in 0..n /\ p + x \in 0..n
      /\ p \in 0..(p + x)
  OBVIOUS
<1>2. r \in Seq(S) /\ Len(r) = n - p /\ \A i \in 1..(n - p) : r[i] = q[p + i]
  BY <1>1, Part
<1> DEFINE a == SubSeq(r, 1, x)
           b == SubSeq(q, p + 1, p + x)
           c == SubSeq(r, x + 1, Len(r))
           d == SubSeq(q, (p + x) + 1, n)
<1> HIDE DEF r, n
<1>3. a \in Seq(S) /\ Len(a) = x /\ \A i \in 1..x : a[i] = r[i]
  <2>1. 0 \in 0..x /\ x \in 0..Len(r) /\ x - 0 = x /\ 0 + 1 = 1 /\ \A i \in 1..x : 0 + i = i
    BY <1>1, <1>2
  <2>2. /\ SubSeq(r, 0 + 1, x) \in Seq(S) /\ Len(SubSeq(r, 0 + 1, x)) = x - 0
        /\ \A i \in 1..(x - 0) : SubSeq(r, 0 + 1, x)[i] = r[0 + i]
    BY <1>2, <2>1, Part
  <2> QED
    BY <2>1, <2>2
<1>4. b \in Seq(S) /\ Len(b) = x /\ \A i \in 1..x : b[i] = q[p + i]
  <2>1. (p + x) - p = x
    BY <1>1
  <2>2. p + x \in 0..Len(q)
    BY <1>1 DEF n
  <2>3. /\ b \in Seq(S) /\ Len(b) = (p + x) - p
        /\ \A i \in 1..((p + x) - p) : b[i] = q[p + i]
    BY <1>1, <2>2, Part
  <2> QED
    BY <2>1, <2>3
<1>5. c \in Seq(S) /\ Len(c) = (n - p) - x /\ \A i \in 1..((n - p) - x) : c[i] = r[x + i]
  <2>1. x \in 0..Len(r) /\ Len(r) \in 0..Len(r)
    BY <1>1, <1>2
  <2> QED
    BY <1>2, <2>1, Part
<1>6. d \in Seq(S) /\ Len(d) = n - (p + x) /\ \A i \in 1..(n - (p + x)) : d[i] = q[(p + x) + i]
  <2>1. p + x \in 0..n /\ n \in 0..Len(q)
    BY <1>1 DEF n
  <2> QED
    BY <2>1, Part
<1> HIDE DEF a, b, c, d
<1>7. \A i \in 1..x : i \in 1..(n - p)
  BY <1>1
<1>8. a = b
  BY <1>2, <1>3, <1>4, <1>7, SameSeq
<1>9. /\ (n - p) - x = n - (p + x)
      /\ \A i \in 1..((n - p) - x) : x + i \in 1..(n - p) /\ p + (x + i) = (p + x) + i
  BY <1>1
<1>10. \A i \in 1..Len(c) : c[i] = d[i]
  BY <1>2, <1>5, <1>6, <1>9
<1>11. c = d
  BY <1>5, <1>6, <1>9, <1>10, SameSeq
<1> QED
  BY <1>8, <1>11 DEF a, b, c, d, r, n

\* Two parts that follow each other make one.
LEMMA PartNext ==
    ASSUME NEW S, NEW q \in Seq(S), NEW p \in 0..Len(q), NEW m \in (p + 1)..Len(q)
    PROVE  SubSeq(q, 1, m) = SubSeq(q, 1, p) \o Append(SubSeq(q, p + 1, m - 1), q[m])
<1>1. /\ Len(q) \in Nat /\ p \in Nat /\ m \in Nat /\ p <= Len(q) /\ m <= Len(q) /\ p + 1 <= m
      /\ m - 1 \in 0..Len(q) /\ p \in 0..(m - 1) /\ m \in 0..Len(q) /\ 0 \in 0..m /\ 0 \in 0..p /\ q[m] \in S
  OBVIOUS
<1> DEFINE a == SubSeq(q, 1, m)
           b == SubSeq(q, 1, p)
           c == SubSeq(q, p + 1, m - 1)
           d == Append(c, q[m])
<1>2. a \in Seq(S) /\ Len(a) = m /\ \A i \in 1..m : a[i] = q[i]
  <2>1. /\ SubSeq(q, 0 + 1, m) \in Seq(S) /\ Len(SubSeq(q, 0 + 1, m)) = m - 0
        /\ \A i \in 1..(m - 0) : SubSeq(q, 0 + 1, m)[i] = q[0 + i]
    BY <1>1, Part
  <2>2. m - 0 = m /\ 0 + 1 = 1 /\ \A i \in 1..m : 0 + i = i
    BY <1>1
  <2> QED
    BY <2>1, <2>2
<1>3. b \in Seq(S) /\ Len(b) = p /\ \A i \in 1..p : b[i] = q[i]
  <2>1. /\ SubSeq(q, 0 + 1, p) \in Seq(S) /\ Len(SubSeq(q, 0 + 1, p)) = p - 0
        /\ \A i \in 1..(p - 0) : SubSeq(q, 0 + 1, p)[i] = q[0 + i]
    BY <1>1, Part
  <2>2. p - 0 = p /\ 0 + 1 = 1 /\ \A i \in 1..p : 0 + i = i
    BY <1>1
  <2> QED
    BY <2>1, <2>2
<1>4. c \in Seq(S) /\ Len(c) = (m - 1) - p /\ \A i \in 1..((m - 1) - p) : c[i] = q[p + i]
  BY <1>1, Part
<1> HIDE DEF a, b, c
<1>5. d \in Seq(S) /\ Len(d) = m - p /\ \A i \in 1..(m - p) : d[i] = q[p + i]
  <2>1. d \in Seq(S) /\ Len(d) = Len(c) + 1 /\ (\A i \in 1..Len(c) : d[i] = c[i]) /\ d[Len(c) + 1] = q[m]
    BY <1>1, <1>4
  <2>2. Len(c) + 1 = m - p /\ p + (m - p) = m /\ \A i \in 1..(m - p) : i \in 1..((m - 1) - p) \/ i = m - p
    BY <1>1, <1>4
  <2> QED
    BY <1>4, <2>1, <2>2
<1> HIDE DEF d
<1>6. /\ b \o d \in Seq(S) /\ Len(b \o d) = p + (m - p)
      /\ \A i \in 1..(p + (m - p)) : (b \o d)[i] = IF i <= p THEN b[i] ELSE d[i - p]
  <2>1. /\ b \o d \in Seq(S) /\ Len(b \o d) = Len(b) + Len(d)
        /\ \A i \in 1..(Len(b) + Len(d)) : (b \o d)[i] = IF i <= Len(b) THEN b[i] ELSE d[i - Len(b)]
    BY <1>3, <1>5, ConcatProperties
  <2>2. Len(b) = p /\ Len(d) = m - p
    BY <1>3, <1>5
  <2> QED
    BY <2>1, <2>2, Zenon
<1>7. ASSUME NEW i \in 1..m PROVE (b \o d)[i] = a[i]
  <2>1. p + (m - p) = m
    BY <1>1
  <2>2. (b \o d)[i] = IF i <= p THEN b[i] ELSE d[i - p]
    BY <1>6, <2>1
  <2>3. CASE i <= p
    <3>1. (b \o d)[i] = b[i] /\ i \in 1..p
      BY <1>1, <2>2, <2>3
    <3> QED
      BY <1>2, <1>3, <3>1
  <2>4. CASE ~(i <= p)
    <3>1. (b \o d)[i] = d[i - p] /\ i - p \in 1..(m - p) /\ p + (i - p) = i
      BY <1>1, <2>2, <2>4
    <3> QED
      BY <1>2, <1>5, <3>1
  <2> QED
    BY <2>3, <2>4
<1>8. b \o d = a
  <2>1. Len(b \o d) = m
    BY <1>1, <1>6
  <2> QED
    BY <1>2, <1>6, <1>7, <2>1, SameSeq
<1> QED
  BY <1>8 DEF a, b, c, d

\* Among numbers there is a first one.
LEMMA FirstExists ==
    ASSUME NEW E \in SUBSET Nat, E # {}
    PROVE  \E e \in E : \A f \in E : e <= f
<1> DEFINE R == OpToRel(<, Nat)
<1>1. IsWellFoundedOn(R, Nat)
  BY NatLessThanWellFounded
<1>2. \A m, n \in Nat : m < n => <<m, n>> \in R
  BY DEF OpToRel
<1> HIDE DEF R
<1>3. PICK x \in E : \A y \in E : <<y, x>> \notin R
  BY <1>1, WFMin
<1>4. \A y \in E : ~(y < x)
  BY <1>2, <1>3
<1> QED
  BY <1>4

\* A sequence up to a position, joined with the rest.
LEMMA PartsJoin ==
    ASSUME NEW S, NEW q \in Seq(S), NEW b \in 0..Len(q), NEW p \in 0..b
    PROVE  SubSeq(q, 1, p) \o SubSeq(q, p + 1, b) = SubSeq(q, 1, b)
<1> DEFINE x == SubSeq(q, 1, p)
           y == SubSeq(q, p + 1, b)
           z == SubSeq(q, 1, b)
<1>1. b \in Nat /\ p \in Nat /\ p <= b /\ b <= Len(q) /\ 0 \in 0..p /\ 0 \in 0..b /\ p \in 0..Len(q)
      /\ 0 + 1 = 1 /\ p - 0 = p /\ b - 0 = b
  OBVIOUS
<1>2. x \in Seq(S) /\ Len(x) = p /\ \A i \in 1..p : x[i] = q[i]
  <2>1. SubSeq(q, 0 + 1, p) \in Seq(S) /\ Len(SubSeq(q, 0 + 1, p)) = p - 0
        /\ \A i \in 1..(p - 0) : SubSeq(q, 0 + 1, p)[i] = q[0 + i]
    BY <1>1, Part
  <2>2. \A i \in 1..p : 0 + i = i
    OBVIOUS
  <2> QED
    BY <1>1, <2>1, <2>2, Zenon
<1>3. y \in Seq(S) /\ Len(y) = b - p /\ \A i \in 1..(b - p) : y[i] = q[p + i]
  BY Part
<1>4. z \in Seq(S) /\ Len(z) = b /\ \A i \in 1..b : z[i] = q[i]
  <2>1. SubSeq(q, 0 + 1, b) \in Seq(S) /\ Len(SubSeq(q, 0 + 1, b)) = b - 0
        /\ \A i \in 1..(b - 0) : SubSeq(q, 0 + 1, b)[i] = q[0 + i]
    BY <1>1, Part
  <2>2. \A i \in 1..b : 0 + i = i
    OBVIOUS
  <2> QED
    BY <1>1, <2>1, <2>2, Zenon
<1> HIDE DEF x, y, z
<1>5. x \o y \in Seq(S) /\ Len(x \o y) = b
      /\ \A i \in 1..(Len(x) + Len(y)) : (x \o y)[i] = IF i <= Len(x) THEN x[i] ELSE y[i - Len(x)]
  BY <1>1, <1>2, <1>3, ConcatProperties
<1>6. ASSUME NEW i \in 1..b PROVE (x \o y)[i] = z[i]
  <2>1. i \in 1..(Len(x) + Len(y)) /\ (i <= p => i \in 1..p) /\ (~(i <= p) => i - p \in 1..(b - p) /\ p + (i - p) = i)
    BY <1>1, <1>2, <1>3
  <2>2. (x \o y)[i] = IF i <= p THEN x[i] ELSE y[i - p]
    BY <1>2, <1>5, <2>1, Zenon
  <2> QED
    BY <1>2, <1>3, <1>4, <2>1, <2>2, Zenon
<1>7. x \o y = z
  BY <1>4, <1>5, <1>6, SameSeq
<1> QED
  BY <1>7 DEF x, y, z
=============================================================================
