--------------------------- MODULE SyslogInputProofs ---------------------------
(***************************************************************************)
(* Proofs about SyslogInput and its MultiLineReader, for all streams, sizes *)
(* and times of the pieces they arrive in.  The first part is about pieces  *)
(* of a stream; then about what the operations of the reader consume and    *)
(* leave behind, in terms of such pieces; then the invariant of the         *)
(* connection, with the deadlines that make it flush, and what it says.     *)
(* The second part is about where records end: what more bytes and flushes  *)
(* do to the ends defined by the whole of what has been received, that the  *)
(* walk and the flushes of the reader find them, and what follows from it.  *)
(* The third part is about what becomes of a record: how it is counted and  *)
(* listed, how its header is split off, how its message is cleaned, and     *)
(* that the record that is accepted says what its text says.                *)
(***************************************************************************)
EXTENDS SyslogInput, SequenceFacts, FiniteSetTheorems, TLAPS

-----------------------------------------------------------------------------
(* Pieces of a stream *)

\* The bytes of a stream from one position to another, and all there may be.
Piece(s, a, b) == [i \in 1..(b - a + 1) |-> <<a + i - 1, s[a + i - 1]>>]
Byte(s) == {<<p, s[p]>> : p \in Nat}

\* What is known of a piece.
LEMMA PieceFacts ==
    ASSUME NEW s, NEW a \in Nat \ {0}, NEW b \in Nat, a <= b + 1
    PROVE  /\ Piece(s, a, b) \in Seq(Byte(s)) /\ Len(Piece(s, a, b)) = b - a + 1
           /\ \A i \in 1..(b - a + 1) : Piece(s, a, b)[i] = <<a + i - 1, s[a + i - 1]>>
<1> DEFINE n == b - a + 1
           p == Piece(s, a, b)
<1>1. n \in Nat
  OBVIOUS
<1>2. \A i \in 1..n : <<a + i - 1, s[a + i - 1]>> \in Byte(s)
  <2> SUFFICES ASSUME NEW i \in 1..n PROVE <<a + i - 1, s[a + i - 1]>> \in Byte(s)
    OBVIOUS
  <2>1. a + i - 1 \in Nat
    OBVIOUS
  <2> QED
    BY <2>1 DEF Byte
<1>3. p = [i \in 1..n |-> <<a + i - 1, s[a + i - 1]>>]
  BY DEF Piece
<1>4. p \in [1..n -> Byte(s)]
  BY <1>2, <1>3
<1>5. p \in Seq(Byte(s)) /\ Len(p) = n
  <2> HIDE DEF p, n
  <2>1. ASSUME NEW T, NEW q \in [1..n -> T] PROVE q \in Seq(T) /\ Len(q) = n
    BY <1>1, <2>1
  <2> QED
    BY <1>4, <2>1
<1> QED
  BY <1>3, <1>5

\* The parts of a piece are pieces.
Cuts(s, a, b) ==
    \A i \in Nat \ {0}, j \in Nat : i <= j + 1 /\ j <= b - a + 1
        => SubSeq(Piece(s, a, b), i, j) = Piece(s, a + i - 1, a + j - 1)

\* A piece of a piece is one too.
LEMMA PieceCut ==
    ASSUME NEW s, NEW a \in Nat \ {0}, NEW b \in Nat, a <= b + 1
    PROVE  Cuts(s, a, b)
<1> USE DEF Cuts
<1> TAKE i \in Nat \ {0}, j \in Nat
<1> HAVE i <= j + 1 /\ j <= b - a + 1
<1> DEFINE p == Piece(s, a, b)
           q == SubSeq(p, i, j)
           m == j - i + 1
<1>1. /\ m \in Nat /\ \A k \in 1..m : i + k - 1 \in 1..(b - a + 1)
      /\ (a + j - 1) - (a + i - 1) + 1 = m
      /\ \A k \in 1..m : a + (i + k - 1) - 1 = (a + i - 1) + k - 1
  OBVIOUS
<1>2. p \in Seq(Byte(s)) /\ Len(p) = b - a + 1 /\ \A k \in 1..(b - a + 1) : p[k] = <<a + k - 1, s[a + k - 1]>>
  BY PieceFacts
<1>3. q = [k \in 1..m |-> p[i + k - 1]]
  <2> HIDE DEF p
  <2>1. \A k \in 1..m : k + i - 1 = i + k - 1
    OBVIOUS
  <2> QED
    BY <1>2, <2>1
<1>4. \A k \in 1..m : p[i + k - 1] = <<(a + i - 1) + k - 1, s[(a + i - 1) + k - 1]>>
  <2> HIDE DEF p, m
  <2> SUFFICES ASSUME NEW k \in 1..m PROVE p[i + k - 1] = <<(a + i - 1) + k - 1, s[(a + i - 1) + k - 1]>>
    OBVIOUS
  <2>1. p[i + k - 1] = <<a + (i + k - 1) - 1, s[a + (i + k - 1) - 1]>>
    BY <1>1, <1>2, Zenon
  <2> QED
    BY <1>1, <2>1, Zenon
<1>5. Piece(s, a + i - 1, a + j - 1) = [k \in 1..m |-> <<(a + i - 1) + k - 1, s[(a + i - 1) + k - 1]>>]
  BY <1>1, Zenon DEF Piece
<1> HIDE DEF p, q, m
<1>6. q = [k \in 1..m |-> <<(a + i - 1) + k - 1, s[(a + i - 1) + k - 1]>>]
  BY <1>3, <1>4
<1> QED
  BY <1>5, <1>6 DEF q, p

\* Where the elements of two sequences are when they are joined.
LEMMA JoinedParts ==
    ASSUME NEW S, NEW x \in Seq(S), NEW y \in Seq(S), NEW m, m = Len(x), NEW n, n = Len(y)
    PROVE  /\ x \o y \in Seq(S) /\ m \in Nat /\ n \in Nat /\ DOMAIN (x \o y) = 1..(m + n)
           /\ DOMAIN x = 1..m /\ DOMAIN y = 1..n
           /\ \A i \in 1..m : (x \o y)[i] = x[i]
           /\ \A i \in 1..(m + n) : i \notin 1..m => i - m \in 1..n /\ (x \o y)[i] = y[i - m]
  OBVIOUS

\* Two pieces one after the other.
LEMMA PiecesJoined ==
    ASSUME NEW s, NEW a \in Nat \ {0}, NEW b \in Nat, a <= b + 1, NEW c \in Nat, b <= c
    PROVE  Piece(s, a, b) \o Piece(s, b + 1, c) = Piece(s, a, c)
<1> DEFINE p == Piece(s, a, b)
           q == Piece(s, b + 1, c)
           r == Piece(s, a, c)
           m == b - a + 1
           n == c - b
<1>1. /\ m \in Nat /\ n \in Nat /\ c - (b + 1) + 1 = n /\ c - a + 1 = m + n /\ a <= c + 1
      /\ \A k \in 1..(m + n) : k \in 1..m \/ (k - m \in 1..n /\ ~(k <= m) /\ (b + 1) + (k - m) - 1 = a + k - 1)
      /\ \A k \in 1..m : k <= m
  OBVIOUS
<1>2. /\ p \in Seq(Byte(s)) /\ Len(p) = m /\ \A k \in 1..m : p[k] = <<a + k - 1, s[a + k - 1]>>
  BY PieceFacts
<1>3. /\ q \in Seq(Byte(s)) /\ Len(q) = n /\ \A k \in 1..n : q[k] = <<(b + 1) + k - 1, s[(b + 1) + k - 1]>>
  <2>1. b + 1 \in Nat \ {0} /\ b + 1 <= c + 1 /\ c - (b + 1) + 1 = n
    OBVIOUS
  <2> HIDE DEF n
  <2> QED
    BY <2>1, PieceFacts
<1>4. r = [k \in 1..(m + n) |-> <<a + k - 1, s[a + k - 1]>>]
  BY <1>1, Zenon DEF Piece
<1> HIDE DEF p, q, r, m, n
<1>5. /\ p \o q = [k \in 1..(m + n) |-> (p \o q)[k]]
      /\ \A k \in 1..m : (p \o q)[k] = p[k]
      /\ \A k \in 1..(m + n) : k \notin 1..m => k - m \in 1..n /\ (p \o q)[k] = q[k - m]
  <2>1. ASSUME NEW T, NEW z \in Seq(T) PROVE z = [k \in DOMAIN z |-> z[k]]
    OBVIOUS
  <2>2. /\ p \o q \in Seq(Byte(s)) /\ DOMAIN (p \o q) = 1..(m + n)
        /\ \A k \in 1..m : (p \o q)[k] = p[k]
        /\ \A k \in 1..(m + n) : k \notin 1..m => k - m \in 1..n /\ (p \o q)[k] = q[k - m]
    <3>1. p \in Seq(Byte(s)) /\ q \in Seq(Byte(s)) /\ Len(p) = m /\ Len(q) = n
      BY <1>2, <1>3
    <3> QED
      BY <3>1, JoinedParts
  <2>3. p \o q = [k \in DOMAIN (p \o q) |-> (p \o q)[k]]
    BY <2>1, <2>2
  <2> QED
    BY <2>2, <2>3, Zenon
<1>6. ASSUME NEW k \in 1..(m + n) PROVE (p \o q)[k] = <<a + k - 1, s[a + k - 1]>>
  <2>1. CASE k \in 1..m
    BY <1>2, <1>5, <2>1, Zenon
  <2>2. CASE k \notin 1..m
    <3>1. k - m \in 1..n /\ (b + 1) + (k - m) - 1 = a + k - 1
      BY <1>1, <2>2, Zenon
    <3>2. q[k - m] = <<(b + 1) + (k - m) - 1, s[(b + 1) + (k - m) - 1]>>
      BY <1>3, <3>1, Zenon
    <3> QED
      BY <1>5, <2>2, <3>1, <3>2, Zenon
  <2> QED
    BY <2>1, <2>2
<1>7. p \o q = [k \in 1..(m + n) |-> <<a + k - 1, s[a + k - 1]>>]
  BY <1>5, <1>6
<1> QED
  BY <1>4, <1>7 DEF p, q, r

\* A piece that lies after one position and not after another.
IsPiece(s, p, low, high) ==
    \E a, b \in Nat : p = Piece(s, a, b) /\ low < a /\ a <= b + 1 /\ b <= high

\* Pieces in their order, without a byte in common.
PiecesIn(s, q, low, high) ==
    /\ q \in Seq(Seq(Byte(s)))
    /\ \A i \in DOMAIN q : IsPiece(s, q[i], low, high)
    /\ \A i \in DOMAIN q : \A j \in 1..(i - 1) :
          \E m \in Nat : IsPiece(s, q[j], low, m) /\ IsPiece(s, q[i], m, high)

\* It may lie between positions further apart.
LEMMA PieceWithin ==
    ASSUME NEW s, NEW p, NEW low \in Nat, NEW high \in Nat, IsPiece(s, p, low, high),
           NEW l \in Nat, NEW h \in Nat, l <= low, high <= h
    PROVE  IsPiece(s, p, l, h)
<1>1. PICK a \in Nat, b \in Nat : p = Piece(s, a, b) /\ low < a /\ a <= b + 1 /\ b <= high
  BY DEF IsPiece
<1>2. l < a /\ b <= h
  BY <1>1
<1> QED
  BY <1>1, <1>2 DEF IsPiece

\* A piece alone, and none.
LEMMA OnePiece ==
    ASSUME NEW s, NEW low \in Nat, NEW high \in Nat
    PROVE  /\ PiecesIn(s, <<>>, low, high)
           /\ \A p : IsPiece(s, p, low, high) => PiecesIn(s, <<p>>, low, high)
<1>1. PiecesIn(s, <<>>, low, high)
  BY DEF PiecesIn
<1>2. ASSUME NEW p, IsPiece(s, p, low, high) PROVE PiecesIn(s, <<p>>, low, high)
  <2>1. p \in Seq(Byte(s))
    BY <1>2, PieceFacts DEF IsPiece
  <2>2. /\ \A x : <<x>>[1] = x /\ DOMAIN <<x>> = 1..1
        /\ \A T : \A x \in T : <<x>> \in Seq(T)
    OBVIOUS
  <2>3. \A i \in 1..1 : i = 1 /\ 1..(i - 1) = {}
    OBVIOUS
  <2> QED
    BY <1>2, <2>1, <2>2, <2>3, Zenon DEF PiecesIn
<1> QED
  BY <1>1, <1>2

\* Pieces after others.
LEMMA MorePieces ==
    ASSUME NEW s, NEW low \in Nat, NEW mid \in Nat, NEW high \in Nat, low <= mid, mid <= high,
           NEW q, PiecesIn(s, q, low, mid), NEW r, PiecesIn(s, r, mid, high)
    PROVE  PiecesIn(s, q \o r, low, high)
<1> DEFINE t == q \o r
           m == Len(q)
           n == Len(r)
<1>1. q \in Seq(Seq(Byte(s))) /\ r \in Seq(Seq(Byte(s)))
  BY DEF PiecesIn
<1>2. /\ t \in Seq(Seq(Byte(s))) /\ m \in Nat /\ n \in Nat /\ DOMAIN t = 1..(m + n)
      /\ DOMAIN q = 1..m /\ DOMAIN r = 1..n
      /\ \A i \in 1..m : t[i] = q[i]
      /\ \A i \in 1..(m + n) : i \notin 1..m => i - m \in 1..n /\ t[i] = r[i - m]
  BY <1>1, JoinedParts
<1> HIDE DEF t, m, n
<1>3. ASSUME NEW i \in 1..(m + n) PROVE IsPiece(s, t[i], low, high)
  <2>1. CASE i \in 1..m
    <3>1. IsPiece(s, t[i], low, mid)
      BY <1>2, <2>1, Zenon DEF PiecesIn
    <3> QED
      BY <3>1, PieceWithin
  <2>2. CASE i \notin 1..m
    <3>1. IsPiece(s, t[i], mid, high)
      BY <1>2, <2>2, Zenon DEF PiecesIn
    <3> QED
      BY <3>1, PieceWithin
  <2> QED
    BY <2>1, <2>2
<1>4. ASSUME NEW i \in 1..(m + n), NEW j \in 1..(i - 1)
      PROVE  \E k \in Nat : IsPiece(s, t[j], low, k) /\ IsPiece(s, t[i], k, high)
  <2>1. j \in 1..(m + n) /\ (i \in 1..m => j \in 1..m) /\ (j \notin 1..m => j - m \in 1..((i - m) - 1))
    <3>1. m \in Nat /\ n \in Nat
      BY <1>2
    <3> QED
      BY <3>1
  <2>2. CASE i \in 1..m
    <3>1. t[i] = q[i] /\ t[j] = q[j] /\ i \in DOMAIN q
      BY <1>2, <2>1, <2>2
    <3>2. PICK k \in Nat : IsPiece(s, q[j], low, k) /\ IsPiece(s, q[i], k, mid)
      BY <3>1, Zenon DEF PiecesIn
    <3>3. IsPiece(s, q[i], k, high)
      BY <3>2, PieceWithin
    <3> QED
      BY <3>1, <3>2, <3>3
  <2>3. CASE i \notin 1..m /\ j \in 1..m
    <3>1. IsPiece(s, t[j], low, mid) /\ IsPiece(s, t[i], mid, high)
      BY <1>2, <2>3, Zenon DEF PiecesIn
    <3> QED
      BY <3>1
  <2>4. CASE i \notin 1..m /\ j \notin 1..m
    <3>1. t[i] = r[i - m] /\ t[j] = r[j - m] /\ i - m \in DOMAIN r /\ j - m \in 1..((i - m) - 1)
      BY <1>2, <2>1, <2>4
    <3>2. PICK k \in Nat : IsPiece(s, r[j - m], mid, k) /\ IsPiece(s, r[i - m], k, high)
      BY <3>1, Zenon DEF PiecesIn
    <3>3. IsPiece(s, r[j - m], low, k)
      BY <3>2, PieceWithin
    <3> QED
      BY <3>1, <3>2, <3>3
  <2> QED
    BY <2>2, <2>3, <2>4
<1> QED
  BY <1>2, <1>3, <1>4 DEF PiecesIn, t

\* They may lie further apart, too.
LEMMA PiecesWithin ==
    ASSUME NEW s, NEW q, NEW low \in Nat, NEW high \in Nat, PiecesIn(s, q, low, high), NEW h \in Nat, high <= h
    PROVE  PiecesIn(s, q, low, h)
<1>1. \A i \in DOMAIN q : IsPiece(s, q[i], low, h)
  BY PieceWithin DEF PiecesIn
<1>2. ASSUME NEW i \in DOMAIN q, NEW j \in 1..(i - 1)
      PROVE  \E m \in Nat : IsPiece(s, q[j], low, m) /\ IsPiece(s, q[i], m, h)
  <2>1. PICK m \in Nat : IsPiece(s, q[j], low, m) /\ IsPiece(s, q[i], m, high)
    BY DEF PiecesIn
  <2>2. IsPiece(s, q[i], m, h)
    BY <2>1, PieceWithin
  <2> QED
    BY <2>1, <2>2
<1> QED
  BY <1>1, <1>2 DEF PiecesIn

-----------------------------------------------------------------------------
(* The lines of a buffer *)

\* The function that Walk takes its value from.
FirstWalk(search) == [record |-> 0, search |-> search, consumed |-> <<>>]
NextWalk(buffer, walk, e) == IF e \in EndsIn(buffer) THEN NextLine(buffer, walk, e) ELSE walk
Walking(buffer, search, f, n) ==
    f = [e \in search..n |-> IF e = search THEN FirstWalk(search) ELSE NextWalk(buffer, f[e - 1], e)]

\* Walk takes it at the end of the buffer.
LEMMA WalkDef ==
    \A buffer, search : Walk(buffer, search) = (CHOOSE f : Walking(buffer, search, f, Len(buffer)))[Len(buffer)]
  BY Zenon DEF Walk, Walking, FirstWalk, NextWalk

\* There is such a function.
LEMMA WalkExists ==
    ASSUME NEW buffer, NEW search \in Nat
    PROVE  \A n \in Nat : \E f : Walking(buffer, search, f, search + n)
<1> DEFINE T == {n \in Nat : \E f : Walking(buffer, search, f, search + n)}
<1>1. 0 \in T
  <2> DEFINE f == [e \in search..search |-> FirstWalk(search)]
  <2>1. search..(search + 0) = search..search /\ \A e \in search..search : e = search
    OBVIOUS
  <2>2. f = [e \in search..search |-> IF e = search THEN FirstWalk(search) ELSE NextWalk(buffer, f[e - 1], e)]
    BY <2>1
  <2> HIDE DEF f
  <2>3. Walking(buffer, search, f, search + 0)
    BY <2>1, <2>2 DEF Walking
  <2> QED
    BY <2>3
<1>2. ASSUME NEW n \in Nat, n \in T PROVE n + 1 \in T
  <2>1. PICK f : Walking(buffer, search, f, search + n)
    BY <1>2
  <2> DEFINE m == search + n
             x == NextWalk(buffer, f[m], m + 1)
             g == [e \in search..(m + 1) |-> IF e = m + 1 THEN x ELSE f[e]]
  <2>2. \A e \in search..m : f[e] = IF e = search THEN FirstWalk(search) ELSE NextWalk(buffer, f[e - 1], e)
    BY <2>1 DEF Walking
  <2>3. /\ m \in search..m /\ (m + 1) - 1 = m /\ m + 1 # search /\ search + (n + 1) = m + 1
        /\ \A e \in search..(m + 1) : e \in search..m \/ e = m + 1
        /\ \A e \in search..m : e \in search..(m + 1) /\ e # m + 1
        /\ \A e \in search..m : e # search => e - 1 \in search..m
        /\ m + 1 \in search..(m + 1)
    OBVIOUS
  <2> HIDE DEF x, m
  <2>4. \A e \in search..m : g[e] = f[e]
    BY <2>3
  <2>5. g[m + 1] = x
    BY <2>3
  <2>6. ASSUME NEW e \in search..(m + 1)
        PROVE  g[e] = IF e = search THEN FirstWalk(search) ELSE NextWalk(buffer, g[e - 1], e)
    <3> HIDE DEF g
    <3>1. CASE e \in search..m
      <4>1. CASE e = search
        BY <2>2, <2>4, <3>1, <4>1
      <4>2. CASE e # search
        <5>1. e - 1 \in search..m
          BY <2>3, <3>1, <4>2
        <5>2. g[e - 1] = f[e - 1]
          BY <2>4, <5>1
        <5>3. f[e] = NextWalk(buffer, f[e - 1], e)
          BY <2>2, <3>1, <4>2
        <5>4. g[e] = NextWalk(buffer, g[e - 1], e)
          BY <2>4, <3>1, <5>2, <5>3
        <5> QED
          BY <4>2, <5>4
      <4> QED
        BY <4>1, <4>2
    <3>2. CASE e = m + 1
      <4>1. g[e - 1] = f[m]
        BY <2>3, <2>4, <3>2
      <4>2. g[e] = NextWalk(buffer, g[e - 1], e)
        BY <2>5, <3>2, <4>1 DEF x
      <4> QED
        BY <2>3, <3>2, <4>2
    <3> QED
      BY <2>3, <3>1, <3>2
  <2>7. g = [e \in search..(m + 1) |-> IF e = search THEN FirstWalk(search) ELSE NextWalk(buffer, g[e - 1], e)]
    <3>1. g = [e \in search..(m + 1) |-> g[e]]
      OBVIOUS
    <3> HIDE DEF g
    <3> QED
      BY <2>6, <3>1
  <2> HIDE DEF g
  <2>8. Walking(buffer, search, g, m + 1)
    BY <2>7 DEF Walking
  <2>9. Walking(buffer, search, g, search + (n + 1))
    BY <2>3, <2>8
  <2> QED
    BY <2>9
<1>3. Nat \subseteq T
  <2> HIDE DEF T
  <2> QED
    BY <1>1, <1>2, Induction
<1> QED
  BY <1>3

\* Where the walk may be after the line that ends at e, or before e: the records consumed are
\* pieces of the stream before the one it has begun.
WalkedTo(s, a, search, e, walk) ==
    \E record, line, records :
       /\ record \in Nat /\ line \in Nat
       /\ walk = [record |-> record, search |-> line, consumed |-> records]
       /\ (line # 0 => record < line) /\ record <= line /\ search <= line /\ line <= e
       /\ PiecesIn(s, records, a - 1, a - 1 + record)

\* A line that ends there.
LEMMA LineWalked ==
    ASSUME NEW s, NEW a \in Nat \ {0}, NEW b \in Nat, a <= b + 1, NEW buffer, buffer = Piece(s, a, b),
           NEW search \in Nat, NEW e \in Nat, e < b - a + 1, search <= e,
           NEW w, WalkedTo(s, a, search, e, w)
    PROVE  WalkedTo(s, a, search, e + 1, NextLine(buffer, w, e + 1))
<1>1. PICK record, line, records :
         /\ record \in Nat /\ line \in Nat
         /\ w = [record |-> record, search |-> line, consumed |-> records]
         /\ (line # 0 => record < line) /\ record <= line /\ search <= line /\ line <= e
         /\ PiecesIn(s, records, a - 1, a - 1 + record)
  BY DEF WalkedTo
<1>2. w.record = record /\ w.search = line /\ w.consumed = records
  BY <1>1
<1> DEFINE prev == SubSeq(buffer, record + 1, line - 1)
<1>3. CASE NextLine(buffer, w, e + 1) = [w EXCEPT !.search = e + 1]
  <2>1. NextLine(buffer, w, e + 1) = [record |-> record, search |-> e + 1, consumed |-> records]
    BY <1>1, <1>3
  <2>2. e + 1 \in Nat /\ record < e + 1 /\ record <= e + 1 /\ search <= e + 1 /\ e + 1 <= e + 1
    BY <1>1
  <2> QED
    BY <1>1, <2>1, <2>2, Zenon DEF WalkedTo
<1>4. CASE line > 0 /\ NextLine(buffer, w, e + 1) = [record |-> line, search |-> e + 1, consumed |-> Append(records, prev)]
  <2>1. /\ record + 1 \in Nat \ {0} /\ line - 1 \in Nat /\ record + 1 <= (line - 1) + 1 /\ line - 1 <= b - a + 1
        /\ a + (record + 1) - 1 = a + record /\ a + (line - 1) - 1 = a + line - 2
        /\ a + record \in Nat \ {0} /\ a + record \in Nat /\ a + line - 2 \in Nat /\ a - 1 + record < a + record
        /\ a + record <= (a + line - 2) + 1 /\ a + line - 2 <= a - 1 + line
        /\ a - 1 \in Nat /\ a - 1 + record \in Nat /\ a - 1 + line \in Nat
        /\ a - 1 <= a - 1 + record /\ a - 1 + record <= a - 1 + line
        /\ e + 1 \in Nat /\ line < e + 1 /\ line <= e + 1 /\ search <= e + 1 /\ e + 1 <= e + 1
    BY <1>1, <1>4
  <2>2. prev = Piece(s, a + (record + 1) - 1, a + (line - 1) - 1)
    <3>1. \A i \in Nat \ {0}, j \in Nat : i <= j + 1 /\ j <= b - a + 1
             => SubSeq(buffer, i, j) = Piece(s, a + i - 1, a + j - 1)
      <4>1. Cuts(s, a, b)
        BY PieceCut
      <4> QED
        BY <4>1, Zenon DEF Cuts
    <3> QED
      BY <2>1, <3>1, Zenon
  <2>3. prev = Piece(s, a + record, a + line - 2)
    BY <2>1, <2>2
  <2> HIDE DEF prev
  <2>4. IsPiece(s, prev, a - 1 + record, a - 1 + line)
    BY <2>1, <2>3 DEF IsPiece
  <2>5. PiecesIn(s, <<prev>>, a - 1 + record, a - 1 + line)
    BY <2>1, <2>4, OnePiece
  <2>6. PiecesIn(s, records \o <<prev>>, a - 1, a - 1 + line)
    BY <1>1, <2>1, <2>5, MorePieces
  <2>7. Append(records, prev) = records \o <<prev>>
    <3>1. records \in Seq(Seq(Byte(s))) /\ prev \in Seq(Byte(s))
      <4>1. prev \in Seq(Byte(s))
        BY <2>1, <2>3, PieceFacts
      <4> QED
        BY <1>1, <4>1 DEF PiecesIn
    <3>2. ASSUME NEW T, NEW q \in Seq(T), NEW x \in T PROVE Append(q, x) = q \o <<x>>
      OBVIOUS
    <3> QED
      BY <3>1, <3>2
  <2> QED
    BY <1>1, <1>4, <2>1, <2>6, <2>7, Zenon DEF WalkedTo
<1>5. \/ NextLine(buffer, w, e + 1) = [w EXCEPT !.search = e + 1]
      \/ line > 0 /\ NextLine(buffer, w, e + 1) = [record |-> line, search |-> e + 1, consumed |-> Append(records, prev)]
  BY <1>2 DEF NextLine
<1> QED
  BY <1>3, <1>4, <1>5

\* A walk over the whole buffer.
LEMMA WalkDone ==
    ASSUME NEW s, NEW a \in Nat \ {0}, NEW b \in Nat, a <= b + 1, NEW buffer, buffer = Piece(s, a, b),
           NEW search \in 0..(b - a + 1)
    PROVE  WalkedTo(s, a, search, b - a + 1, Walk(buffer, search))
<1> DEFINE n == b - a + 1
           f == CHOOSE f : Walking(buffer, search, f, n)
           W == {k \in Nat : search + k <= n => WalkedTo(s, a, search, search + k, f[search + k])}
<1>1. n \in Nat /\ search \in Nat /\ search <= n /\ n - search \in Nat /\ search + (n - search) = n
  OBVIOUS
<1>2. Len(buffer) = n
  BY PieceFacts
<1>3. Walking(buffer, search, f, n)
  <2>1. \E g : Walking(buffer, search, g, search + (n - search))
    BY <1>1, WalkExists
  <2> QED
    BY <1>1, <2>1, Zenon
<1>4. Walk(buffer, search) = f[n]
  BY <1>2, WalkDef, Zenon
<1> HIDE DEF f, n
<1>5. \A e \in search..n : f[e] = IF e = search THEN FirstWalk(search) ELSE NextWalk(buffer, f[e - 1], e)
  BY <1>3 DEF Walking
<1>6. 0 \in W
  <2>1. f[search + 0] = FirstWalk(search) /\ search + 0 = search
    BY <1>1, <1>5
  <2>2. PiecesIn(s, <<>>, a - 1, a - 1 + 0)
    BY OnePiece
  <2>3. 0 \in Nat /\ (search # 0 => 0 < search) /\ 0 <= search /\ search <= search
    BY <1>1
  <2>4. WalkedTo(s, a, search, search, FirstWalk(search))
    BY <1>1, <2>2, <2>3, Zenon DEF WalkedTo, FirstWalk
  <2> QED
    BY <2>1, <2>4
<1>7. ASSUME NEW k \in Nat, k \in W PROVE k + 1 \in W
  <2> SUFFICES ASSUME search + (k + 1) <= n PROVE WalkedTo(s, a, search, search + (k + 1), f[search + (k + 1)])
    OBVIOUS
  <2> DEFINE e == search + k
  <2>1. /\ e \in Nat /\ e < n /\ search <= e /\ e + 1 = search + (k + 1) /\ e <= n
        /\ e + 1 \in search..n /\ e + 1 # search /\ (e + 1) - 1 = e
    BY <1>1
  <2>2. WalkedTo(s, a, search, e, f[e])
    BY <1>7, <2>1
  <2> HIDE DEF e
  <2>3. f[e + 1] = NextWalk(buffer, f[e], e + 1)
    BY <1>5, <2>1
  <2>4. CASE e + 1 \in EndsIn(buffer)
    <3>1. f[e + 1] = NextLine(buffer, f[e], e + 1)
      BY <2>3, <2>4 DEF NextWalk
    <3>2. e < b - a + 1
      BY <2>1 DEF n
    <3>3. WalkedTo(s, a, search, e + 1, NextLine(buffer, f[e], e + 1))
      BY <1>1, <2>1, <2>2, <3>2, LineWalked
    <3> QED
      BY <2>1, <3>1, <3>3
  <2>5. CASE e + 1 \notin EndsIn(buffer)
    <3>1. f[e + 1] = f[e]
      BY <2>3, <2>5 DEF NextWalk
    <3>2. \A line \in Nat : line <= e => line <= e + 1
      BY <2>1
    <3>3. WalkedTo(s, a, search, e + 1, f[e])
      BY <2>2, <3>2, Zenon DEF WalkedTo
    <3> QED
      BY <2>1, <3>1, <3>3
  <2> QED
    BY <2>4, <2>5
<1>8. Nat \subseteq W
  <2> HIDE DEF W
  <2> QED
    BY <1>6, <1>7, Induction
<1>9. WalkedTo(s, a, search, n, f[n])
  BY <1>1, <1>8
<1> QED
  BY <1>4, <1>9 DEF n

-----------------------------------------------------------------------------
(* What the operations of the reader leave behind *)

\* The reader holds the bytes of a stream after one position up to another, with room for more.
Held(s, c, n, r) ==
    /\ c \in Nat /\ n \in Nat /\ c <= n
    /\ \E k \in 0..(n - c) : r = [buffer |-> Piece(s, c + 1, n), search |-> k]
    /\ BufferSize - (n - c) >= SoftRecordLimit

\* It holds what comes after the records that it has consumed.
Left(s, low, n, res) ==
    \E c \in Nat : low <= c /\ Held(s, c, n, res.reader) /\ PiecesIn(s, res.consumed, low, c)

\* The parts of what is after a position, told from it.
HeldCuts(s, c, n) ==
    \A i \in Nat \ {0}, j \in Nat : i <= j + 1 /\ j <= n - c
        => SubSeq(Piece(s, c + 1, n), i, j) = Piece(s, c + i, c + j)

\* They are pieces, too.
LEMMA HeldCut ==
    ASSUME NEW s, NEW c \in Nat, NEW n \in Nat, c <= n
    PROVE  HeldCuts(s, c, n)
<1> USE DEF HeldCuts
<1> TAKE i \in Nat \ {0}, j \in Nat
<1> HAVE i <= j + 1 /\ j <= n - c
<1>1. /\ c + 1 \in Nat \ {0} /\ c + 1 <= n + 1 /\ n - (c + 1) + 1 = n - c
      /\ (c + 1) + i - 1 = c + i /\ (c + 1) + j - 1 = c + j
  OBVIOUS
<1>2. Cuts(s, c + 1, n)
  BY <1>1, PieceCut
<1>3. j <= n - (c + 1) + 1
  BY <1>1
<1>4. SubSeq(Piece(s, c + 1, n), i, j) = Piece(s, (c + 1) + i - 1, (c + 1) + j - 1)
  BY <1>2, <1>3, Zenon DEF Cuts
<1> QED
  BY <1>1, <1>4, Zenon

\* A record, or nothing when it is not valid.
LEMMA Consumed ==
    ASSUME NEW s, NEW p, NEW low \in Nat, NEW high \in Nat, IsPiece(s, p, low, high)
    PROVE  PiecesIn(s, ConsumeIfStart(p), low, high)
  BY OnePiece DEF ConsumeIfStart

\* An empty reader.
LEMMA NothingHeld ==
    ASSUME NEW s, NEW n \in Nat
    PROVE  Held(s, n, n, NewReader)
<1>1. Piece(s, n + 1, n) = <<>>
  <2>1. n - (n + 1) + 1 = 0
    OBVIOUS
  <2>2. Piece(s, n + 1, n) = [i \in 1..0 |-> <<(n + 1) + i - 1, s[(n + 1) + i - 1]>>]
    BY <2>1, Zenon DEF Piece
  <2>3. 1..0 = {}
    OBVIOUS
  <2>4. ASSUME NEW f, f = [i \in 1..0 |-> <<(n + 1) + i - 1, s[(n + 1) + i - 1]>>] PROVE f = <<>>
    BY <2>3, <2>4
  <2> QED
    BY <2>2, <2>4
<1>2. 0 \in 0..(n - n) /\ n <= n /\ BufferSize - (n - n) >= SoftRecordLimit
  BY ReaderAssumption
<1>3. NewReader = [buffer |-> Piece(s, n + 1, n), search |-> 0]
  BY <1>1 DEF NewReader
<1> QED
  BY <1>2, <1>3, Zenon DEF Held

\* The test for room, in a step of its own.
LEMMA CheckFacts ==
    ASSUME NEW s, NEW low \in Nat, NEW c \in Nat, NEW n \in Nat, low <= c, c <= n, NEW k \in 0..(n - c),
           NEW r, r = [buffer |-> Piece(s, c + 1, n), search |-> k], NEW q, PiecesIn(s, q, low, c)
    PROVE  Left(s, low, n, CheckOverflow(r, q))
<1> DEFINE p == Piece(s, c + 1, n)
           next == SubSeq(p, k + 1, Len(p))
           prev == SubSeq(p, 1, k - 1)
<1>1. r.buffer = p /\ r.search = k
  OBVIOUS
<1>2. Len(p) = n - c
  <2>1. c + 1 \in Nat \ {0} /\ c + 1 <= n + 1 /\ n - (c + 1) + 1 = n - c
    OBVIOUS
  <2>2. Len(p) = n - (c + 1) + 1
    BY <2>1, PieceFacts
  <2> QED
    BY <2>1, <2>2, Zenon
<1>3. CASE BufferSize - (n - c) >= SoftRecordLimit
  <2>1. CheckOverflow(r, q) = [reader |-> r, consumed |-> q, overflow |-> FALSE]
    BY <1>1, <1>2, <1>3, Zenon DEF CheckOverflow
  <2>2. Held(s, c, n, r)
    BY <1>3, Zenon DEF Held
  <2>3. CheckOverflow(r, q).reader = r /\ CheckOverflow(r, q).consumed = q
    BY <2>1
  <2> QED
    BY <2>2, <2>3, Zenon DEF Left
<1>4. CASE ~(BufferSize - (n - c) >= SoftRecordLimit)
  <2> DEFINE more == IF k > 0 /\ IsStart(next) THEN Append(ConsumeIfStart(prev), next) ELSE ConsumeIfStart(p)
  <2>1. CheckOverflow(r, q) = [reader |-> NewReader, consumed |-> q \o more, overflow |-> TRUE]
    BY <1>1, <1>2, <1>4, Zenon DEF CheckOverflow
  <2> HIDE DEF more
  <2>2. CheckOverflow(r, q).reader = NewReader /\ CheckOverflow(r, q).consumed = q \o more
    <3>1. ASSUME NEW t, NEW x, NEW y, NEW z, t = [reader |-> x, consumed |-> y, overflow |-> z]
          PROVE  t.reader = x /\ t.consumed = y
      BY <3>1
    <3> QED
      BY <2>1, <3>1
  <2>3. PiecesIn(s, more, c, n)
    <3> USE DEF more
    <3>1. CASE k > 0 /\ IsStart(next)
      <4>1. HeldCuts(s, c, n)
        BY HeldCut
      <4>2. /\ k \in Nat /\ 1 \in Nat \ {0} /\ k - 1 \in Nat /\ 1 <= (k - 1) + 1 /\ k - 1 <= n - c
            /\ k + 1 \in Nat \ {0} /\ n - c \in Nat /\ k + 1 <= (n - c) + 1 /\ n - c <= n - c
            /\ c + (n - c) = n /\ c + k \in Nat
            /\ c + 1 \in Nat /\ c + (k - 1) \in Nat /\ c < c + 1 /\ c + 1 <= c + (k - 1) + 1 /\ c + (k - 1) <= c + k
            /\ c + (k + 1) \in Nat /\ c + k < c + (k + 1) /\ c + (k + 1) <= n + 1 /\ n <= n
            /\ c <= c + k /\ c + k <= n
        BY <3>1
      <4>3. prev = Piece(s, c + 1, c + (k - 1))
        BY <4>2, <4>1, Zenon DEF HeldCuts
      <4>4. next = Piece(s, c + (k + 1), n)
        <5>1. SubSeq(p, k + 1, n - c) = Piece(s, c + (k + 1), c + (n - c))
          BY <4>1, <4>2, Zenon DEF HeldCuts
        <5> QED
          BY <1>2, <4>2, <5>1, Zenon
      <4> HIDE DEF prev, next, p
      <4>5. IsPiece(s, prev, c, c + k)
        BY <4>2, <4>3, Zenon DEF IsPiece
      <4>6. IsPiece(s, next, c + k, n)
        BY <4>2, <4>4, Zenon DEF IsPiece
      <4>7. PiecesIn(s, ConsumeIfStart(prev), c, c + k) /\ PiecesIn(s, <<next>>, c + k, n)
        BY <4>2, <4>5, <4>6, Consumed, OnePiece
      <4>8. PiecesIn(s, ConsumeIfStart(prev) \o <<next>>, c, n)
        BY <4>2, <4>7, MorePieces
      <4>9. Append(ConsumeIfStart(prev), next) = ConsumeIfStart(prev) \o <<next>>
        <5>1. next \in Seq(Byte(s))
          <6>1. c + (k + 1) \in Nat \ {0}
            BY <4>2
          <6>2. Piece(s, c + (k + 1), n) \in Seq(Byte(s))
            BY <4>2, <6>1, PieceFacts
          <6> QED
            BY <4>4, <6>2, Zenon
        <5>2. ConsumeIfStart(prev) \in Seq(Seq(Byte(s)))
          BY <4>7 DEF PiecesIn
        <5>3. ASSUME NEW T, NEW x \in Seq(T), NEW y \in T PROVE Append(x, y) = x \o <<y>>
          OBVIOUS
        <5> QED
          BY <5>1, <5>2, <5>3
      <4> QED
        BY <3>1, <4>8, <4>9, Zenon
    <3>2. CASE ~(k > 0 /\ IsStart(next))
      <4>1. c + 1 \in Nat /\ c < c + 1 /\ c + 1 <= n + 1 /\ n <= n
        OBVIOUS
      <4>2. IsPiece(s, p, c, n)
        BY <4>1, Zenon DEF IsPiece
      <4> HIDE DEF p, next, prev
      <4>3. PiecesIn(s, ConsumeIfStart(p), c, n)
        BY <4>2, Consumed
      <4> QED
        BY <3>2, <4>3, Zenon
    <3> QED
      BY <3>1, <3>2
  <2> HIDE DEF more
  <2>4. PiecesIn(s, q \o more, low, n)
    BY <2>3, MorePieces
  <2>5. Held(s, n, n, NewReader) /\ low <= n
    BY NothingHeld
  <2> QED
    BY <2>2, <2>4, <2>5, Zenon DEF Left
<1> QED
  BY <1>3, <1>4

\* New bytes are read.
LEMMA ProcessFacts ==
    ASSUME NEW s, NEW low \in Nat, NEW m \in Nat, NEW n \in Nat, m <= n, NEW r, Held(s, low, m, r)
    PROVE  Left(s, low, n, ProcessBuffer(r, Piece(s, m + 1, n)))
<1>1. PICK k \in 0..(m - low) : r = [buffer |-> Piece(s, low + 1, m), search |-> k]
  BY DEF Held
<1>2. low <= m
  BY DEF Held
<1> DEFINE p == Piece(s, low + 1, n)
           walk == Walk(p, k)
<1>3. r.buffer = Piece(s, low + 1, m) /\ r.search = k
  BY <1>1
<1>4. /\ low + 1 \in Nat \ {0} /\ low + 1 <= m + 1 /\ low + 1 <= n + 1 /\ n - (low + 1) + 1 = n - low
      /\ (low + 1) - 1 = low /\ k \in 0..(n - low) /\ low <= n
  BY <1>2
<1>5. r.buffer \o Piece(s, m + 1, n) = p
  <2>1. Piece(s, low + 1, m) \o Piece(s, m + 1, n) = p
    <3>1. low + 1 \in Nat \ {0} /\ low + 1 <= m + 1 /\ m <= n
      BY <1>4
    <3> QED
      BY <3>1, PiecesJoined
  <2> QED
    BY <1>3, <2>1, Zenon
<1>6. ProcessBuffer(r, Piece(s, m + 1, n)) = CheckOverflow(LeftBehind(p, walk), walk.consumed)
  BY <1>3, <1>5, Zenon DEF ProcessBuffer
<1>7. Len(p) = n - low
  <2>1. Len(p) = n - (low + 1) + 1
    BY <1>4, PieceFacts
  <2> QED
    BY <1>4, <2>1, Zenon
<1>8. WalkedTo(s, low + 1, k, n - (low + 1) + 1, walk)
  <2>1. k \in 0..(n - (low + 1) + 1)
    BY <1>4
  <2> QED
    BY <1>4, <2>1, WalkDone
<1>9. PICK record, line, records :
         /\ record \in Nat /\ line \in Nat
         /\ walk = [record |-> record, search |-> line, consumed |-> records]
         /\ (line # 0 => record < line) /\ record <= line /\ k <= line /\ line <= n - (low + 1) + 1
         /\ PiecesIn(s, records, (low + 1) - 1, (low + 1) - 1 + record)
  BY <1>8, Zenon DEF WalkedTo
<1>10. line <= n - low /\ PiecesIn(s, records, low, low + record)
  BY <1>4, <1>9, Zenon
<1>11. walk.record = record /\ walk.search = line /\ walk.consumed = records
  BY <1>9
<1>12. record \in Nat /\ line \in Nat /\ record <= line
  BY <1>9
<1>13. /\ low + record \in Nat /\ low <= low + record /\ low + record <= n
       /\ line - record \in 0..(n - (low + record)) /\ record + 1 \in Nat \ {0} /\ n - low \in Nat
       /\ record + 1 <= (n - low) + 1 /\ n - low <= n - low
       /\ low + (record + 1) = (low + record) + 1 /\ low + (n - low) = n
  BY <1>4, <1>10, <1>12
<1> HIDE DEF walk
<1>14. SubSeq(p, record + 1, n - low) = Piece(s, (low + record) + 1, n)
  <2>1. SubSeq(p, record + 1, n - low) = Piece(s, low + (record + 1), low + (n - low))
    <3>1. HeldCuts(s, low, n)
      BY <1>4, HeldCut
    <3> QED
      BY <1>13, <3>1, Zenon DEF HeldCuts
  <2> QED
    BY <1>13, <2>1, Zenon
<1>15. LeftBehind(p, walk) = [buffer |-> Piece(s, (low + record) + 1, n), search |-> line - record]
  BY <1>7, <1>11, <1>14, Zenon DEF LeftBehind
<1> HIDE DEF p
<1>16. Left(s, low, n, CheckOverflow(LeftBehind(p, walk), records))
  BY <1>10, <1>13, <1>15, CheckFacts
<1> QED
  BY <1>6, <1>11, <1>16, Zenon

\* A set of numbers has a largest one.
LEMMA LastExists ==
    \A n \in Nat : \A E \in SUBSET (1..n) : E # {} => \E e \in E : \A f \in E : f <= e
<1> DEFINE T == {n \in Nat : \A E \in SUBSET (1..n) : E # {} => \E e \in E : \A f \in E : f <= e}
<1>1. 0 \in T
  <2>1. 1..0 = {}
    OBVIOUS
  <2> QED
    BY <2>1
<1>2. ASSUME NEW n \in Nat, n \in T PROVE n + 1 \in T
  <2> SUFFICES ASSUME NEW E \in SUBSET (1..(n + 1)), E # {} PROVE \E e \in E : \A f \in E : f <= e
    OBVIOUS
  <2>1. CASE n + 1 \in E
    BY <2>1
  <2>2. CASE n + 1 \notin E
    <3>1. E \in SUBSET (1..n)
      BY <2>2
    <3> QED
      BY <1>2, <3>1
  <2> QED
    BY <2>1, <2>2
<1>3. Nat \subseteq T
  <2> HIDE DEF T
  <2> QED
    BY <1>1, <1>2, Induction
<1> QED
  BY <1>3

\* The lines that are complete are flushed: none remains.
LEMMA FlushFacts ==
    ASSUME NEW s, NEW c \in Nat, NEW n \in Nat, NEW r, Held(s, c, n, r)
    PROVE  Left(s, c, n, Flush(r)) /\ EndsIn(Flush(r).reader.buffer) = {}
<1>1. PICK k \in 0..(n - c) : r = [buffer |-> Piece(s, c + 1, n), search |-> k]
  BY DEF Held
<1>2. c <= n /\ BufferSize - (n - c) >= SoftRecordLimit
  BY DEF Held
<1> DEFINE p == Piece(s, c + 1, n)
           m == n - c
           ends == EndsIn(p)
           last == CHOOSE e \in ends : \A f \in ends : f <= e
<1>3. r.buffer = p
  BY <1>1
<1>4. c + 1 \in Nat \ {0} /\ c + 1 <= n + 1 /\ n - (c + 1) + 1 = m /\ m \in Nat
  BY <1>2
<1>5. p \in Seq(Byte(s)) /\ Len(p) = m
  BY <1>4, PieceFacts
<1>6. ends \in SUBSET (1..m)
  <2>1. ASSUME NEW T, NEW q \in Seq(T) PROVE DOMAIN q = 1..Len(q)
    OBVIOUS
  <2>2. DOMAIN p = 1..m
    BY <1>5, <2>1
  <2> HIDE DEF p
  <2> QED
    BY <2>2 DEF EndsIn
<1>7. CASE ends = {}
  <2>1. Flush(r) = [reader |-> r, consumed |-> <<>>, overflow |-> FALSE]
    BY <1>3, <1>7, Zenon DEF Flush
  <2>2. Flush(r).reader = r /\ Flush(r).consumed = <<>>
    BY <2>1
  <2>3. PiecesIn(s, <<>>, c, c) /\ c <= c
    BY OnePiece
  <2>4. Left(s, c, n, Flush(r))
    BY <2>2, <2>3, Zenon DEF Left
  <2> QED
    BY <1>3, <1>7, <2>2, <2>4, Zenon
<1>8. CASE ends # {}
  <2>1. last \in ends /\ \A f \in ends : f <= last
    <3>1. \E e \in ends : \A f \in ends : f <= e
      <4> HIDE DEF ends, p
      <4> QED
        BY <1>4, <1>6, <1>8, LastExists
    <3> QED
      BY <3>1, Zenon
  <2> DEFINE rest == SubSeq(p, last + 1, Len(p))
             line == SubSeq(p, 1, last - 1)
  <2>2. Flush(r) = [reader |-> [buffer |-> rest, search |-> 0], consumed |-> ConsumeIfStart(line), overflow |-> FALSE]
    BY <1>3, <1>8, Zenon DEF Flush
  <2> HIDE DEF last, ends
  <2>3. Flush(r).reader = [buffer |-> rest, search |-> 0] /\ Flush(r).consumed = ConsumeIfStart(line)
    BY <2>2
  <2>4. last \in 1..m
    BY <1>6, <2>1
  <2>5. /\ 1 \in Nat \ {0} /\ last - 1 \in Nat /\ 1 <= (last - 1) + 1 /\ last - 1 <= n - c
        /\ last + 1 \in Nat \ {0} /\ last + 1 <= m + 1 /\ m <= n - c
        /\ c + m = n /\ c + (last + 1) = (c + last) + 1
        /\ c + last \in Nat /\ c <= c + last /\ c + last <= n /\ 0 \in 0..(n - (c + last))
        /\ BufferSize - (n - (c + last)) >= SoftRecordLimit
        /\ c + 1 \in Nat /\ c + (last - 1) \in Nat /\ c < c + 1 /\ c + 1 <= c + (last - 1) + 1
        /\ c + (last - 1) <= c + last
    BY <1>2, <1>4, <2>4, ReaderAssumption
  <2>6. HeldCuts(s, c, n)
    BY <1>2, HeldCut
  <2>7. rest = Piece(s, (c + last) + 1, n)
    <3>1. SubSeq(p, last + 1, m) = Piece(s, c + (last + 1), c + m)
      BY <2>6, <1>4, <2>5, Zenon DEF HeldCuts
    <3> QED
      BY <1>5, <2>5, <3>1, Zenon
  <2>8. line = Piece(s, c + 1, c + (last - 1))
    BY <2>6, <1>4, <2>5, Zenon DEF HeldCuts
  <2>9. EndsIn(rest) = {}
    <3>1. ASSUME NEW T, NEW q \in Seq(T), NEW l \in 1..Len(q)
          PROVE  /\ \A i \in DOMAIN SubSeq(q, l + 1, Len(q)) : /\ l + i \in DOMAIN q /\ ~(l + i <= l)
                                                               /\ SubSeq(q, l + 1, Len(q))[i] = q[l + i]
      OBVIOUS
    <3>2. \A i \in DOMAIN rest : last + i \in DOMAIN p /\ ~(last + i <= last) /\ rest[i] = p[last + i]
      BY <1>5, <2>4, <3>1
    <3> HIDE DEF rest, p
    <3>3. ASSUME NEW i \in DOMAIN rest, rest[i][2] = Newline PROVE FALSE
      <4>1. last + i \in ends
        BY <3>2, <3>3 DEF ends, EndsIn
      <4> QED
        BY <2>1, <3>2, <4>1
    <3> QED
      BY <3>3 DEF EndsIn
  <2> HIDE DEF rest, line, p, m
  <2>10. IsPiece(s, line, c, c + last)
    BY <2>5, <2>8, Zenon DEF IsPiece
  <2>11. PiecesIn(s, ConsumeIfStart(line), c, c + last)
    BY <2>5, <2>10, Consumed
  <2>12. Held(s, c + last, n, [buffer |-> rest, search |-> 0])
    BY <2>5, <2>7, Zenon DEF Held
  <2>13. Left(s, c, n, Flush(r))
    BY <2>3, <2>5, <2>11, <2>12, Zenon DEF Left
  <2>14. Flush(r).reader.buffer = rest
    BY <2>3
  <2> QED
    BY <2>9, <2>13, <2>14, Zenon
<1> QED
  BY <1>7, <1>8

\* All that is left is flushed.
LEMMA FlushAllFacts ==
    ASSUME NEW s, NEW c \in Nat, NEW n \in Nat, NEW r, Held(s, c, n, r)
    PROVE  /\ FlushAll(r).reader = NewReader
           /\ Left(s, c, n, FlushAll(r))
<1>1. PICK k \in 0..(n - c) : r = [buffer |-> Piece(s, c + 1, n), search |-> k]
  BY DEF Held
<1>2. c <= n
  BY DEF Held
<1> DEFINE p == Piece(s, c + 1, n)
           m == n - c
           cut == IF m \in EndsIn(p) THEN SubSeq(p, 1, m - 1) ELSE p
<1>3. r.buffer = p
  BY <1>1
<1>4. c + 1 \in Nat \ {0} /\ c + 1 <= n + 1 /\ n - (c + 1) + 1 = m /\ m \in Nat
  BY <1>2
<1>5. p \in Seq(Byte(s)) /\ Len(p) = m
  BY <1>4, PieceFacts
<1>6. FlushAll(r) = [reader |-> NewReader, consumed |-> ConsumeIfStart(cut), overflow |-> FALSE]
  BY <1>3, <1>5, Zenon DEF FlushAll
<1>7. FlushAll(r).reader = NewReader /\ FlushAll(r).consumed = ConsumeIfStart(cut)
  BY <1>6
<1>8. IsPiece(s, cut, c, n)
  <2>1. CASE m \in EndsIn(p)
    <3>1. m \in 1..m
      <4>1. ASSUME NEW T, NEW q \in Seq(T) PROVE DOMAIN q = 1..Len(q)
        OBVIOUS
      <4> QED
        BY <1>5, <2>1, <4>1 DEF EndsIn
    <3>2. /\ 1 \in Nat \ {0} /\ m - 1 \in Nat /\ 1 <= (m - 1) + 1 /\ m - 1 <= n - c
          /\ c + 1 \in Nat /\ c + (m - 1) \in Nat /\ c < c + 1 /\ c + 1 <= c + (m - 1) + 1 /\ c + (m - 1) <= n
      BY <1>4, <3>1
    <3>3. SubSeq(p, 1, m - 1) = Piece(s, c + 1, c + (m - 1))
      <4>1. HeldCuts(s, c, n)
        BY <1>2, HeldCut
      <4> QED
        BY <1>2, <3>2, <4>1, Zenon DEF HeldCuts
    <3>4. cut = SubSeq(p, 1, m - 1)
      BY <2>1, Zenon
    <3> HIDE DEF cut, p, m
    <3> QED
      BY <3>2, <3>3, <3>4, Zenon DEF IsPiece
  <2>2. CASE m \notin EndsIn(p)
    <3>1. c + 1 \in Nat /\ c < c + 1 /\ c + 1 <= n + 1 /\ n <= n
      BY <1>2
    <3>2. cut = Piece(s, c + 1, n)
      BY <2>2, Zenon
    <3> HIDE DEF cut, p
    <3> QED
      BY <3>1, <3>2, Zenon DEF IsPiece
  <2> QED
    BY <2>1, <2>2
<1> HIDE DEF cut
<1>9. PiecesIn(s, ConsumeIfStart(cut), c, n)
  BY <1>8, Consumed
<1>10. Held(s, n, n, NewReader)
  BY NothingHeld
<1>11. Left(s, c, n, FlushAll(r))
  BY <1>2, <1>7, <1>9, <1>10, Zenon DEF Left
<1> QED
  BY <1>7, <1>11

-----------------------------------------------------------------------------
(* The inductive invariant *)

\* No more has been read than is sent.
StreamInv ==
    /\ stream \in Streams /\ stream \in Seq(ToSet(stream))
    /\ received \in Nat /\ received <= Len(stream)

\* What has been received is in the records consumed and in the buffer, in this order.
ReaderInv == \E c \in Nat : Held(stream, c, received, reader) /\ PiecesIn(stream, consumed, 0, c)

\* The deadline is ahead, and not by much.
ClockInv ==
    /\ now \in Nat /\ deadline \in Nat \ {0} /\ prevDeadline \in Nat
    /\ now <= deadline /\ deadline <= now + 2 * FlushInterval

\* A line that waits is met by the deadline in progress, or by the one that comes after it when
\* the one in progress has not been moved yet.
WaitInv ==
    waitingSince # -1 =>
        /\ waitingSince \in 0..now
        /\ prevDeadline # 0
        /\ deadline <= waitingSince + 4 * FlushInterval
        /\ prevDeadline = deadline => deadline <= waitingSince + 2 * FlushInterval

InputInv == StreamInv /\ ReaderInv /\ ClockInv /\ WaitInv

-----------------------------------------------------------------------------
(* Steps *)

\* Some records have been given to the parser.
Accepts(records) ==
    /\ consumed' = consumed \o records
    /\ counts' = FoldAlong(CountRecord, counts, [i \in DOMAIN records |-> Text(records[i])])
    /\ accepted' = FoldAlong(KeepRecord, accepted, [i \in DOMAIN records |-> Text(records[i])])

\* The parser is given the records of a step up to one of them.
LEMMA AcceptedPart ==
    ASSUME NEW T, NEW records \in Seq(T), AcceptAll(records)
    PROVE  \E k \in 0..Len(records) : Accepts(SubSeq(records, 1, k))
<1> DEFINE first == Min(PanicsAt(records))
<1>1. CASE PanicsAt(records) = {}
  <2>1. SubSeq(records, 1, Len(records)) = records /\ Len(records) \in 0..Len(records)
    OBVIOUS
  <2>2. Accepts(records)
    BY <1>1, Zenon DEF AcceptAll, Accepts
  <2> QED
    BY <2>1, <2>2, Zenon
<1>2. CASE PanicsAt(records) # {}
  <2>1. Accepts(SubSeq(records, 1, first - 1))
    BY <1>2, Zenon DEF AcceptAll, Accepts
  <2>2. PanicsAt(records) \in SUBSET Nat /\ DOMAIN records = 1..Len(records) /\ Len(records) \in Nat
    BY DEF PanicsAt
  <2>3. first \in PanicsAt(records)
    <3>1. \E i \in PanicsAt(records) : \A j \in PanicsAt(records) : i <= j
      BY <1>2, <2>2, FirstExists
    <3> QED
      BY <3>1, Zenon DEF Min
  <2>4. first \in DOMAIN records
    BY <2>3, Zenon DEF PanicsAt
  <2> HIDE DEF first
  <2>5. first - 1 \in 0..Len(records)
    BY <2>2, <2>4
  <2> QED
    BY <2>1, <2>5, Zenon
<1> QED
  BY <1>1, <1>2

\* Or all when it does not panic.
LEMMA AcceptedWhole ==
    ASSUME NEW records, AcceptAll(records), ~panicked'
    PROVE  Accepts(records)
<1>1. PanicsAt(records) = {}
  BY Zenon DEF AcceptAll
<1> QED
  BY <1>1, Zenon DEF AcceptAll, Accepts

\* The first of some pieces.
LEMMA FirstPieces ==
    ASSUME NEW s, NEW low \in Nat, NEW high \in Nat, NEW q, PiecesIn(s, q, low, high), NEW k \in 0..Len(q)
    PROVE  PiecesIn(s, SubSeq(q, 1, k), low, high)
<1> DEFINE t == SubSeq(q, 1, k)
           T == Seq(Byte(s))
<1>1. q \in Seq(T)
  BY DEF PiecesIn
<1> HIDE DEF T
<1>2. /\ t \in Seq(T) /\ DOMAIN t = 1..k /\ DOMAIN q = 1..Len(q) /\ 1..k \subseteq 1..Len(q)
      /\ \A i \in 1..k : t[i] = q[i] /\ 1..(i - 1) \subseteq 1..k
  BY <1>1
<1> HIDE DEF t
<1>3. \A i \in DOMAIN t : IsPiece(s, t[i], low, high)
  BY <1>2, Zenon DEF PiecesIn
<1>4. ASSUME NEW i \in DOMAIN t, NEW j \in 1..(i - 1)
      PROVE  \E m \in Nat : IsPiece(s, t[j], low, m) /\ IsPiece(s, t[i], m, high)
  <2>1. i \in DOMAIN q /\ t[i] = q[i] /\ t[j] = q[j]
    BY <1>2, Zenon
  <2>2. \E m \in Nat : IsPiece(s, q[j], low, m) /\ IsPiece(s, q[i], m, high)
    BY <2>1, Zenon DEF PiecesIn
  <2> QED
    BY <2>1, <2>2, Zenon
<1> QED
  BY <1>2, <1>3, <1>4, Zenon DEF PiecesIn, T, t

\* The records consumed after a step are pieces before what the reader holds then.
LEMMA AcceptedPieces ==
    ASSUME NEW s, NEW c \in Nat, NEW n \in Nat, PiecesIn(s, consumed, 0, c), NEW r, NEW records,
           NEW d \in Nat, c <= d, Held(s, d, n, r), PiecesIn(s, records, c, d), AcceptAll(records)
    PROVE  \E e \in Nat : Held(s, e, n, r) /\ PiecesIn(s, consumed', 0, e)
<1>1. records \in Seq(Seq(Byte(s)))
  BY Zenon DEF PiecesIn
<1>2. PICK k \in 0..Len(records) : Accepts(SubSeq(records, 1, k))
  BY <1>1, AcceptedPart, Zenon
<1>3. PiecesIn(s, SubSeq(records, 1, k), c, d)
  BY FirstPieces
<1>4. 0 \in Nat /\ 0 <= c
  OBVIOUS
<1>5. PiecesIn(s, consumed \o SubSeq(records, 1, k), 0, d)
  BY <1>3, <1>4, MorePieces
<1> QED
  BY <1>2, <1>5, Zenon DEF Accepts

\* The bytes that are sent are a piece of the stream.
LEMMA BytesArePieces == \A from, to : Bytes(from, to) = Piece(stream, from, to)
  BY Zenon DEF Bytes, Piece

\* The deadline of the next Read.
LEMMA NextDeadlineFacts ==
    ASSUME ClockInv
    PROVE  /\ NextDeadline(now) \in Nat \ {0} /\ now <= NextDeadline(now)
           /\ NextDeadline(now) <= now + 2 * FlushInterval
           /\ NextDeadline(now) = deadline
                \/ (NextDeadline(now) = now + 2 * FlushInterval /\ NextDeadline(now) # deadline)
  BY InputAssumption DEF ClockInv, NextDeadline

\* The invariant holds at first.
LEMMA InitInv == Init => InputInv
<1> SUFFICES ASSUME Init PROVE InputInv
  OBVIOUS
<1> USE DEF Init
<1>1. StreamInv
  <2>1. stream \in Seq(ToSet(stream))
    BY InputAssumption, Zenon
  <2>2. ASSUME NEW T, NEW q \in Seq(T) PROVE 0 <= Len(q)
    OBVIOUS
  <2> QED
    BY <2>1, <2>2 DEF StreamInv
<1>2. ReaderInv
  <2>1. received = 0 /\ reader = NewReader /\ consumed = <<>> /\ 0 \in Nat
    OBVIOUS
  <2>2. Held(stream, 0, 0, NewReader) /\ PiecesIn(stream, <<>>, 0, 0)
    BY <2>1, NothingHeld, OnePiece
  <2> QED
    BY <2>1, <2>2, Zenon DEF ReaderInv
<1>3. ClockInv
  BY InputAssumption DEF ClockInv
<1>4. WaitInv
  BY Zenon DEF WaitInv
<1> QED
  BY <1>1, <1>2, <1>3, <1>4 DEF InputInv

\* Bytes are read, and the reader is flushed when the deadline was moved before.
LEMMA ReadBytesInv ==
    ASSUME InputInv, NEW n \in Nat, received + n <= Len(stream), ReadBytes(n)
    PROVE  InputInv'
<1> DEFINE read == ProcessBuffer(reader, Bytes(received + 1, received + n))
           flushed == IF FlushIsDue THEN Flush(read.reader) ELSE [read EXCEPT !.consumed = <<>>]
           m == received + n
<1>1. /\ received' = m /\ reader' = flushed.reader
      /\ AcceptAll(read.consumed \o flushed.consumed)
      /\ waitingSince' = Waiting(flushed.reader, read.consumed \o flushed.consumed)
      /\ prevDeadline' = deadline /\ deadline' = NextDeadline(now)
      /\ stream' = stream /\ now' = now
  BY Zenon DEF ReadBytes
<1>2. StreamInv /\ ReaderInv /\ ClockInv /\ WaitInv
  BY DEF InputInv
<1>3. received \in Nat /\ m \in Nat /\ received <= m
  BY <1>2 DEF StreamInv
<1>4. StreamInv'
  BY <1>1, <1>2, <1>3 DEF StreamInv
<1>5. PICK c \in Nat : Held(stream, c, received, reader) /\ PiecesIn(stream, consumed, 0, c)
  BY <1>2 DEF ReaderInv
<1>6. Left(stream, c, m, read)
  <2>1. Left(stream, c, m, ProcessBuffer(reader, Piece(stream, received + 1, m)))
    BY <1>3, <1>5, ProcessFacts
  <2> QED
    BY <2>1, BytesArePieces, Zenon
<1> HIDE DEF read, m
<1>7. PICK d \in Nat : c <= d /\ Held(stream, d, m, read.reader) /\ PiecesIn(stream, read.consumed, c, d)
  BY <1>6 DEF Left
<1>8. /\ Left(stream, d, m, flushed)
      /\ FlushIsDue => EndsIn(flushed.reader.buffer) = {}
  <2>1. CASE FlushIsDue
    <3>1. flushed = Flush(read.reader)
      BY <2>1, Zenon
    <3>2. Left(stream, d, m, Flush(read.reader)) /\ EndsIn(Flush(read.reader).reader.buffer) = {}
      BY <1>3, <1>7, FlushFacts
    <3> QED
      BY <3>1, <3>2, Zenon
  <2>2. CASE ~FlushIsDue
    <3>1. flushed = [read EXCEPT !.consumed = <<>>]
      BY <2>2, Zenon
    <3>2. \E x, y, z : read = [reader |-> x, consumed |-> y, overflow |-> z]
      BY Zenon DEF read, ProcessBuffer, CheckOverflow
    <3>3. ASSUME NEW x, NEW y, NEW z, NEW t, t = [reader |-> x, consumed |-> y, overflow |-> z]
          PROVE  [t EXCEPT !.consumed = <<>>].reader = t.reader /\ [t EXCEPT !.consumed = <<>>].consumed = <<>>
      BY <3>3
    <3>4. flushed.reader = read.reader /\ flushed.consumed = <<>>
      BY <3>1, <3>2, <3>3
    <3>5. PiecesIn(stream, <<>>, d, d) /\ d <= d
      BY OnePiece
    <3> QED
      BY <1>7, <2>2, <3>4, <3>5, Zenon DEF Left
  <2> QED
    BY <2>1, <2>2
<1> HIDE DEF flushed
<1>9. ReaderInv'
  <2>1. PICK e \in Nat : d <= e /\ Held(stream, e, m, flushed.reader) /\ PiecesIn(stream, flushed.consumed, d, e)
    BY <1>8 DEF Left
  <2>2. PiecesIn(stream, read.consumed \o flushed.consumed, c, e) /\ c <= e
    BY <1>7, <2>1, MorePieces
  <2>3. AcceptAll(read.consumed \o flushed.consumed)
    BY <1>1, Zenon
  <2>4. \E g \in Nat : Held(stream, g, m, flushed.reader) /\ PiecesIn(stream, consumed', 0, g)
    BY <1>3, <1>5, <2>1, <2>2, <2>3, AcceptedPieces
  <2>5. stream' = stream /\ received' = m /\ reader' = flushed.reader
    BY <1>1
  <2> QED
    BY <2>4, <2>5 DEF ReaderInv
<1>10. ClockInv'
  BY <1>1, <1>2, NextDeadlineFacts DEF ClockInv
<1>11. WaitInv'
  <2> SUFFICES ASSUME waitingSince' # -1
               PROVE  /\ waitingSince' \in 0..now'
                      /\ prevDeadline' # 0
                      /\ deadline' <= waitingSince' + 4 * FlushInterval
                      /\ prevDeadline' = deadline' => deadline' <= waitingSince' + 2 * FlushInterval
    BY Zenon DEF WaitInv
  <2>1. EndsIn(flushed.reader.buffer) # {}
    BY <1>1, Zenon DEF Waiting
  <2>2. ~FlushIsDue
    BY <1>8, <2>1
  <2>3. waitingSince' = now \/ (waitingSince' = waitingSince /\ waitingSince # -1)
    BY <1>1, <2>1, Zenon DEF Waiting
  <2>4. CASE waitingSince' = now
    BY <1>1, <1>2, <2>4, NextDeadlineFacts, InputAssumption DEF ClockInv
  <2>5. CASE waitingSince' = waitingSince /\ waitingSince # -1
    <3>1. /\ waitingSince \in 0..now /\ prevDeadline # 0
          /\ prevDeadline = deadline => deadline <= waitingSince + 2 * FlushInterval
      BY <1>2, <2>5 DEF WaitInv
    <3>2. prevDeadline = deadline
      BY <2>2, <3>1 DEF FlushIsDue
    <3> QED
      BY <1>1, <1>2, <2>5, <3>1, <3>2, NextDeadlineFacts, InputAssumption DEF ClockInv
  <2> QED
    BY <2>3, <2>4, <2>5
<1> QED
  BY <1>4, <1>9, <1>10, <1>11 DEF InputInv

\* As many bytes are read as there are and as fit.
LEMMA ReadFits ==
    ASSUME InputInv, ReadInput
    PROVE  \E n \in Nat : received + n <= Len(stream) /\ ReadBytes(n)
<1>1. StreamInv
  BY DEF InputInv
<1>2. received \in Nat /\ Len(stream) \in Nat
  <2>1. ASSUME NEW T, NEW q \in Seq(T) PROVE Len(q) \in Nat
    OBVIOUS
  <2> QED
    BY <1>1, <2>1 DEF StreamInv
<1>3. PICK c \in Nat : Held(stream, c, received, reader)
  BY DEF InputInv, ReaderInv
<1>4. Len(reader.buffer) \in Nat
  <2>1. PICK k : reader = [buffer |-> Piece(stream, c + 1, received), search |-> k]
    BY <1>3 DEF Held
  <2>2. c + 1 \in Nat \ {0} /\ c + 1 <= received + 1 /\ received - (c + 1) + 1 \in Nat
    BY <1>2, <1>3 DEF Held
  <2>3. Len(Piece(stream, c + 1, received)) = received - (c + 1) + 1
    BY <1>2, <2>2, PieceFacts
  <2>4. reader.buffer = Piece(stream, c + 1, received)
    BY <2>1
  <2> QED
    BY <2>2, <2>3, <2>4, Zenon
<1> DEFINE room == BufferSize - Len(reader.buffer)
           left == Len(stream) - received
           most == IF left < room THEN left ELSE room
<1>5. PICK n \in {k \in PieceSizes \cup {most} : k > 0 /\ k <= most} : ReadBytes(n)
  BY Zenon DEF ReadInput
<1>6. most \in Int /\ most <= left
  BY <1>2, <1>4, ReaderAssumption
<1> HIDE DEF most
<1>7. n \in Nat /\ n <= most
  BY <1>5, <1>6, InputAssumption
<1>8. received + n <= Len(stream)
  BY <1>2, <1>6, <1>7
<1> QED
  BY <1>5, <1>7, <1>8

\* They are read.
LEMMA ReadInputInv ==
    ASSUME InputInv, ReadInput
    PROVE  InputInv'
  BY ReadFits, ReadBytesInv

\* A flush leaves no complete line behind.
LEMMA ReadTimesOutInv ==
    ASSUME InputInv, ReadTimesOut
    PROVE  InputInv'
<1> DEFINE flushed == Flush(reader)
<1>1. /\ reader' = flushed.reader /\ AcceptAll(flushed.consumed)
      /\ waitingSince' = Waiting(flushed.reader, flushed.consumed)
      /\ deadline' = NextDeadline(now)
      /\ stream' = stream /\ received' = received /\ now' = now /\ prevDeadline' = prevDeadline
  BY Zenon DEF ReadTimesOut
<1>2. StreamInv /\ ReaderInv /\ ClockInv
  BY DEF InputInv
<1>3. received \in Nat
  BY <1>2 DEF StreamInv
<1>4. PICK c \in Nat : Held(stream, c, received, reader) /\ PiecesIn(stream, consumed, 0, c)
  BY <1>2 DEF ReaderInv
<1>5. Left(stream, c, received, flushed) /\ EndsIn(flushed.reader.buffer) = {}
  BY <1>3, <1>4, FlushFacts
<1> HIDE DEF flushed
<1>6. PICK d \in Nat : c <= d /\ Held(stream, d, received, flushed.reader) /\ PiecesIn(stream, flushed.consumed, c, d)
  BY <1>5 DEF Left
<1>7. AcceptAll(flushed.consumed)
  BY <1>1, Zenon
<1>8. \E g \in Nat : Held(stream, g, received, flushed.reader) /\ PiecesIn(stream, consumed', 0, g)
  BY <1>3, <1>4, <1>6, <1>7, AcceptedPieces
<1>9. ReaderInv'
  BY <1>1, <1>8 DEF ReaderInv
<1>10. WaitInv'
  BY <1>1, <1>5, Zenon DEF WaitInv, Waiting
<1>11. StreamInv'
  BY <1>1, <1>2 DEF StreamInv
<1>12. ClockInv'
  BY <1>1, <1>2, NextDeadlineFacts DEF ClockInv
<1> QED
  BY <1>9, <1>10, <1>11, <1>12 DEF InputInv

\* A connection that is closed leaves an empty reader behind.
LEMMA ReadFailsInv ==
    ASSUME InputInv, ReadFails
    PROVE  InputInv'
<1> DEFINE flushed == FlushAll(reader)
<1>1. /\ reader' = flushed.reader /\ AcceptAll(flushed.consumed) /\ waitingSince' = -1
      /\ stream' = stream /\ received' = received /\ now' = now
      /\ deadline' = deadline /\ prevDeadline' = prevDeadline
  BY Zenon DEF ReadFails
<1>2. StreamInv /\ ReaderInv /\ ClockInv
  BY DEF InputInv
<1>3. received \in Nat
  BY <1>2 DEF StreamInv
<1>4. PICK c \in Nat : Held(stream, c, received, reader) /\ PiecesIn(stream, consumed, 0, c)
  BY <1>2 DEF ReaderInv
<1>5. Left(stream, c, received, flushed)
  BY <1>3, <1>4, FlushAllFacts
<1> HIDE DEF flushed
<1>6. PICK d \in Nat : c <= d /\ Held(stream, d, received, flushed.reader) /\ PiecesIn(stream, flushed.consumed, c, d)
  BY <1>5 DEF Left
<1>7. AcceptAll(flushed.consumed)
  BY <1>1, Zenon
<1>8. \E g \in Nat : Held(stream, g, received, flushed.reader) /\ PiecesIn(stream, consumed', 0, g)
  BY <1>3, <1>4, <1>6, <1>7, AcceptedPieces
<1>9. ReaderInv'
  BY <1>1, <1>8 DEF ReaderInv
<1>10. StreamInv' /\ ClockInv' /\ WaitInv'
  BY <1>1, <1>2 DEF StreamInv, ClockInv, WaitInv
<1> QED
  BY <1>9, <1>10 DEF InputInv

\* Time passes, up to the deadline.
LEMMA ClockTicksInv ==
    ASSUME InputInv, ClockTicks
    PROVE  InputInv'
<1>1. /\ now' = now + 1 /\ now < deadline
      /\ stream' = stream /\ received' = received /\ reader' = reader /\ consumed' = consumed
      /\ deadline' = deadline /\ prevDeadline' = prevDeadline /\ waitingSince' = waitingSince
  BY DEF ClockTicks
<1>2. StreamInv /\ ReaderInv /\ ClockInv /\ WaitInv
  BY DEF InputInv
<1>3. StreamInv' /\ ReaderInv'
  BY <1>1, <1>2 DEF StreamInv, ReaderInv
<1>4. ClockInv'
  BY <1>1, <1>2, InputAssumption DEF ClockInv
<1>5. WaitInv'
  BY <1>1, <1>2 DEF WaitInv, ClockInv
<1> QED
  BY <1>3, <1>4, <1>5 DEF InputInv

\* The invariant is kept by every step.
LEMMA NextInv == InputInv /\ [Next]_vars => InputInv'
<1> SUFFICES ASSUME InputInv, [Next]_vars PROVE InputInv'
  OBVIOUS
<1>1. CASE ReadInput
  BY <1>1, ReadInputInv
<1>2. CASE ReadTimesOut
  BY <1>2, ReadTimesOutInv
<1>3. CASE ReadFails
  BY <1>3, ReadFailsInv
<1>4. CASE ClockTicks
  BY <1>4, ClockTicksInv
<1>5. CASE UNCHANGED vars
  <2>1. /\ stream' = stream /\ received' = received /\ reader' = reader /\ consumed' = consumed
        /\ now' = now /\ deadline' = deadline /\ prevDeadline' = prevDeadline /\ waitingSince' = waitingSince
    BY <1>5 DEF vars
  <2> QED
    BY <2>1 DEF InputInv, StreamInv, ReaderInv, ClockInv, WaitInv
<1> QED
  BY <1>1, <1>2, <1>3, <1>4, <1>5 DEF Next, Done

\* It holds of every state that is reached.
LEMMA InvHolds == Spec => []InputInv
  BY InitInv, NextInv, PTL DEF Spec

-----------------------------------------------------------------------------
(* What it says *)

\* The positions of the bytes of a piece.
LEMMA PiecePositions ==
    ASSUME NEW s, NEW p, NEW low \in Nat, NEW high \in Nat, IsPiece(s, p, low, high)
    PROVE  /\ \A k \in DOMAIN p : p[k][1] \in Nat /\ low < p[k][1] /\ p[k][1] <= high
           /\ p # <<>> => p = Piece(s, p[1][1], p[Len(p)][1])
<1>1. PICK a \in Nat, b \in Nat : p = Piece(s, a, b) /\ low < a /\ a <= b + 1 /\ b <= high
  BY DEF IsPiece
<1> DEFINE n == b - a + 1
<1>2. a \in Nat \ {0} /\ n \in Nat
  BY <1>1
<1>3. /\ p \in Seq(Byte(s)) /\ Len(p) = n
      /\ \A i \in 1..n : p[i] = <<a + i - 1, s[a + i - 1]>>
  BY <1>1, <1>2, PieceFacts
<1>4. \A x, y : <<x, y>>[1] = x
  OBVIOUS
<1>5. DOMAIN p = 1..n
  <2>1. ASSUME NEW T, NEW q \in Seq(T) PROVE DOMAIN q = 1..Len(q)
    OBVIOUS
  <2> QED
    BY <1>3, <2>1
<1>6. \A i \in 1..n : p[i][1] = a + i - 1
  BY <1>3, <1>4, Zenon
<1>7. ASSUME NEW k \in DOMAIN p PROVE p[k][1] \in Nat /\ low < p[k][1] /\ p[k][1] <= high
  <2>1. k \in 1..n
    BY <1>5
  <2>2. a + k - 1 \in Nat /\ low < a + k - 1 /\ a + k - 1 <= high
    BY <1>1, <2>1
  <2> QED
    BY <1>6, <2>1, <2>2
<1>8. ASSUME p # <<>> PROVE p = Piece(s, p[1][1], p[Len(p)][1])
  <2>1. n # 0
    <3>1. ASSUME NEW T, NEW q \in Seq(T), Len(q) = 0 PROVE q = <<>>
      BY <3>1
    <3> QED
      BY <1>3, <1>8, <3>1
  <2>2. 1 \in 1..n /\ n \in 1..n /\ a + 1 - 1 = a /\ a + n - 1 = b
    BY <1>1, <1>2, <2>1
  <2> HIDE DEF n
  <2>3. p[1][1] = a /\ p[n][1] = b
    BY <1>6, <2>2
  <2> QED
    BY <1>1, <1>3, <2>3
<1> QED
  BY <1>7, <1>8

\* RecordsArePieces follows.
LEMMA PiecesFollow == InputInv => RecordsArePieces
<1> SUFFICES ASSUME InputInv PROVE RecordsArePieces
  OBVIOUS
<1>1. PICK c \in Nat : Held(stream, c, received, reader) /\ PiecesIn(stream, consumed, 0, c)
  BY DEF InputInv, ReaderInv
<1>2. ASSUME NEW i \in DOMAIN consumed, consumed[i] # <<>>
      PROVE  consumed[i] = Bytes(consumed[i][1][1], consumed[i][Len(consumed[i])][1])
  <2>1. IsPiece(stream, consumed[i], 0, c)
    BY <1>1 DEF PiecesIn
  <2>2. consumed[i] = Piece(stream, consumed[i][1][1], consumed[i][Len(consumed[i])][1])
    BY <1>2, <2>1, PiecePositions
  <2> QED
    BY <2>2, BytesArePieces, Zenon
<1>3. ASSUME NEW i \in DOMAIN consumed, NEW j \in 1..(i - 1),
             NEW x \in DOMAIN consumed[j], NEW k \in DOMAIN consumed[i]
      PROVE  consumed[j][x][1] < consumed[i][k][1]
  <2>1. PICK m \in Nat : IsPiece(stream, consumed[j], 0, m) /\ IsPiece(stream, consumed[i], m, c)
    BY <1>1, Zenon DEF PiecesIn
  <2>2. consumed[j][x][1] \in Nat /\ consumed[j][x][1] <= m
    BY <2>1, PiecePositions
  <2>3. consumed[i][k][1] \in Nat /\ m < consumed[i][k][1]
    BY <2>1, PiecePositions
  <2> QED
    BY <2>2, <2>3
<1>4. BufferSize - Len(reader.buffer) >= SoftRecordLimit
  <2>1. PICK k : reader = [buffer |-> Piece(stream, c + 1, received), search |-> k]
    BY <1>1 DEF Held
  <2>2. /\ c + 1 \in Nat \ {0} /\ received \in Nat /\ c + 1 <= received + 1
        /\ received - (c + 1) + 1 = received - c /\ BufferSize - (received - c) >= SoftRecordLimit
    BY <1>1 DEF Held
  <2>3. Len(Piece(stream, c + 1, received)) = received - (c + 1) + 1
    BY <2>2, PieceFacts
  <2>4. reader.buffer = Piece(stream, c + 1, received)
    BY <2>1
  <2> QED
    BY <2>2, <2>3, <2>4, Zenon
<1> QED
  BY <1>2, <1>3, <1>4, Zenon DEF RecordsArePieces

\* Whatever the sizes and times of the reads, and whether or not the buffer overflows, the
\* records that the reader consumes are pieces of the stream in their order, no byte is in two
\* of them, and another record of the maximum length always fits into the buffer.
THEOREM RecordsStayPieces == Spec => []RecordsArePieces
  BY InvHolds, PiecesFollow, PTL

\* FlushedInTime follows.
LEMMA InTimeFollows == InputInv => FlushedInTime
<1> SUFFICES ASSUME InputInv, waitingSince # -1 PROVE now - waitingSince <= 4 * FlushInterval
  BY DEF FlushedInTime
<1>1. ClockInv /\ waitingSince \in 0..now /\ deadline <= waitingSince + 4 * FlushInterval
  BY DEF InputInv, WaitInv
<1> QED
  BY <1>1, InputAssumption DEF ClockInv

\* However the pieces of the stream are timed, no complete line waits in the buffer for more
\* than four flush intervals: the moving of the deadline of Read is enough to flush it.
THEOREM LinesAreFlushedInTime == Spec => []FlushedInTime
  BY InvHolds, InTimeFollows, PTL

-----------------------------------------------------------------------------
(* Records that are cut at the ends of lines *)

\* An element appended to the second of two sequences.
AppendsLater(T, q, r, x) == Append(r, x) \in Seq(T) /\ Append(q \o r, x) = q \o Append(r, x)

\* It is appended to both.
LEMMA AppendLater ==
    ASSUME NEW T, NEW q \in Seq(T), NEW r \in Seq(T), NEW x \in T
    PROVE  AppendsLater(T, q, r, x)
<1>1. PICK y : y = <<x>>
  OBVIOUS
<1>2. q \o r \in Seq(T) /\ Append(r, x) \in Seq(T) /\ y \in Seq(T)
  BY <1>1
<1>3. Append(q \o r, x) = (q \o r) \o y /\ Append(r, x) = r \o y
  BY <1>1, <1>2, AppendIsConcat
<1>4. ASSUME NEW z, z \in Seq(T) PROVE (q \o r) \o z = q \o (r \o z)
  BY <1>4, ConcatAssociative
<1>5. (q \o r) \o y = q \o (r \o y)
  BY <1>2, <1>4
<1> QED
  BY <1>2, <1>3, <1>5 DEF AppendsLater

\* The first byte of a record that ends at e, when E are the ends of records.
StartAt(E, e) == 1 + LastOf({f \in E : f < e}, 0)

\* The records that end in V, in their order, up to every position.
Cutting(s, E, V, g, n) ==
    g = [e \in 0..n |-> IF e = 0 THEN <<>>
                        ELSE IF e \in V THEN Append(g[e - 1], Piece(s, StartAt(E, e), e - 1)) ELSE g[e - 1]]
Cut(s, E, V, n, q) == \E g : Cutting(s, E, V, g, n) /\ g[n] = q

\* None end at 0.
LEMMA CutNone == \A s, E, V : Cut(s, E, V, 0, <<>>)
<1> SUFFICES ASSUME NEW s, NEW E, NEW V PROVE Cut(s, E, V, 0, <<>>)
  OBVIOUS
<1> DEFINE g == [e \in 0..0 |-> <<>>]
<1>1. \A e \in 0..0 : e = 0
  OBVIOUS
<1>2. g = [e \in 0..0 |-> IF e = 0 THEN <<>>
                          ELSE IF e \in V THEN Append(g[e - 1], Piece(s, StartAt(E, e), e - 1)) ELSE g[e - 1]]
  BY <1>1
<1>3. g[0] = <<>>
  OBVIOUS
<1> HIDE DEF g
<1> QED
  BY <1>2, <1>3, Zenon DEF Cut, Cutting

\* One position further.
LEMMA CutNext ==
    ASSUME NEW s, NEW E, NEW V, NEW n \in Nat, NEW q, Cut(s, E, V, n, q), NEW m, m = n + 1
    PROVE  /\ m \in V => Cut(s, E, V, m, Append(q, Piece(s, StartAt(E, m), n)))
           /\ m \notin V => Cut(s, E, V, m, q)
<1>1. PICK g : Cutting(s, E, V, g, n) /\ g[n] = q
  BY DEF Cut
<1> DEFINE B(h, e) == IF e = 0 THEN <<>>
                      ELSE IF e \in V THEN Append(h[e - 1], Piece(s, StartAt(E, e), e - 1)) ELSE h[e - 1]
           x == IF m \in V THEN Append(q, Piece(s, StartAt(E, m), n)) ELSE q
           h == [e \in 0..m |-> IF e = m THEN x ELSE g[e]]
<1>2. /\ m \in Nat /\ n \in 0..n /\ m - 1 = n /\ m # 0 /\ m \in 0..m
      /\ \A e \in 0..m : e \in 0..n \/ e = m
      /\ \A e \in 0..n : e \in 0..m /\ e # m /\ (e # 0 => e - 1 \in 0..n)
  OBVIOUS
<1>3. \A e \in 0..n : g[e] = B(g, e)
  BY <1>1 DEF Cutting
<1> HIDE DEF x
<1>4. h[m] = x /\ \A e \in 0..n : h[e] = g[e]
  BY <1>2
<1>5. h = [e \in 0..m |-> h[e]]
  OBVIOUS
<1> HIDE DEF h
<1>6. ASSUME NEW e \in 0..m PROVE h[e] = B(h, e)
  <2>1. CASE e \in 0..n
    <3>1. CASE e = 0
      BY <1>3, <1>4, <2>1, <3>1
    <3>2. CASE e # 0
      <4>1. h[e] = B(g, e) /\ h[e - 1] = g[e - 1]
        BY <1>2, <1>3, <1>4, <2>1, <3>2
      <4> QED
        BY <3>2, <4>1
    <3> QED
      BY <3>1, <3>2
  <2>2. CASE e = m
    <3>1. h[m - 1] = q
      BY <1>1, <1>2, <1>4
    <3>2. B(h, m) = x
      BY <1>2, <3>1 DEF x
    <3> QED
      BY <1>4, <2>2, <3>2
  <2> QED
    BY <1>2, <2>1, <2>2
<1>7. h = [e \in 0..m |-> B(h, e)]
  BY <1>5, <1>6
<1>8. Cutting(s, E, V, h, m)
  BY <1>7 DEF Cutting
<1>9. Cut(s, E, V, m, x)
  BY <1>4, <1>8 DEF Cut
<1> QED
  BY <1>9 DEF x

\* A stretch where no record ends.
LEMMA CutOver ==
    ASSUME NEW s, NEW E, NEW V, NEW n \in Nat, NEW q, Cut(s, E, V, n, q), NEW m \in Nat, n <= m,
           \A e \in (n + 1)..m : e \notin V
    PROVE  Cut(s, E, V, m, q)
<1> DEFINE T == {k \in Nat : n + k <= m => Cut(s, E, V, n + k, q)}
<1>1. 0 \in T
  <2>1. n + 0 = n
    OBVIOUS
  <2> QED
    BY <2>1
<1>2. ASSUME NEW k \in Nat, k \in T PROVE k + 1 \in T
  <2> SUFFICES ASSUME n + (k + 1) <= m PROVE Cut(s, E, V, n + (k + 1), q)
    OBVIOUS
  <2>1. Cut(s, E, V, n + k, q)
    BY <1>2
  <2>2. n + k \in Nat /\ n + (k + 1) = (n + k) + 1 /\ n + (k + 1) \notin V
    OBVIOUS
  <2> QED
    BY <2>1, <2>2, CutNext
<1>3. Nat \subseteq T
  <2> HIDE DEF T
  <2> QED
    BY <1>1, <1>2, Induction
<1>4. m - n \in Nat /\ n + (m - n) = m /\ m <= m
  OBVIOUS
<1>5. m - n \in T
  BY <1>3, <1>4
<1> QED
  BY <1>4, <1>5

\* There is one way to cut.
LEMMA CutIsUnique ==
    ASSUME NEW s, NEW E, NEW V, NEW n \in Nat, NEW g, NEW h, Cutting(s, E, V, g, n), Cutting(s, E, V, h, n)
    PROVE  g[n] = h[n]
<1> DEFINE B(f, e) == IF e = 0 THEN <<>>
                      ELSE IF e \in V THEN Append(f[e - 1], Piece(s, StartAt(E, e), e - 1)) ELSE f[e - 1]
           T == {k \in Nat : k <= n => g[k] = h[k]}
<1>1. (\A e \in 0..n : g[e] = B(g, e)) /\ \A e \in 0..n : h[e] = B(h, e)
  BY DEF Cutting
<1>2. 0 \in T
  <2>1. 0 \in 0..n
    OBVIOUS
  <2>2. g[0] = B(g, 0) /\ h[0] = B(h, 0)
    BY <1>1, <2>1
  <2> QED
    BY <2>2
<1>3. ASSUME NEW k \in Nat, k \in T PROVE k + 1 \in T
  <2> SUFFICES ASSUME k + 1 <= n PROVE g[k + 1] = h[k + 1]
    OBVIOUS
  <2>1. k + 1 \in 0..n /\ k + 1 # 0 /\ (k + 1) - 1 = k /\ k <= n
    OBVIOUS
  <2>2. g[k] = h[k]
    BY <1>3, <2>1
  <2>3. g[k + 1] = B(g, k + 1) /\ h[k + 1] = B(h, k + 1)
    BY <1>1, <2>1
  <2> QED
    BY <2>1, <2>2, <2>3
<1>4. Nat \subseteq T
  <2> HIDE DEF T
  <2> QED
    BY <1>2, <1>3, Induction
<1> QED
  BY <1>4

\* What is cut up to a position depends on the ends up to there.
LEMMA CutSame ==
    ASSUME NEW s, NEW n \in Nat, NEW E, NEW V, NEW D, NEW W, NEW q, Cut(s, E, V, n, q),
           \A e \in 1..n : e \in V <=> e \in W,
           \A e \in 1..n : StartAt(E, e) = StartAt(D, e)
    PROVE  Cut(s, D, W, n, q)
<1>1. PICK g : Cutting(s, E, V, g, n) /\ g[n] = q
  BY DEF Cut
<1>2. ASSUME NEW e \in 0..n
      PROVE  (IF e = 0 THEN <<>> ELSE IF e \in V THEN Append(g[e - 1], Piece(s, StartAt(E, e), e - 1)) ELSE g[e - 1])
                = IF e = 0 THEN <<>> ELSE IF e \in W THEN Append(g[e - 1], Piece(s, StartAt(D, e), e - 1)) ELSE g[e - 1]
  <2>1. e = 0 \/ e \in 1..n
    OBVIOUS
  <2> QED
    BY <2>1
<1>3. g = [e \in 0..n |-> IF e = 0 THEN <<>>
                          ELSE IF e \in W THEN Append(g[e - 1], Piece(s, StartAt(D, e), e - 1)) ELSE g[e - 1]]
  BY <1>1, <1>2 DEF Cutting
<1> QED
  BY <1>1, <1>3 DEF Cut, Cutting

\* No record ends between two positions, and one does at the first of them.
NoneBetween(E, c, e) ==
    /\ c = 0 \/ c \in E
    /\ E \subseteq Nat \ {0}
    /\ \A f \in E : f <= c \/ f >= e

\* Where the last end before a position is.
LEMMA StartIsAfter ==
    ASSUME NEW E, NEW c \in Nat, NEW e \in Nat, c < e, NoneBetween(E, c, e)
    PROVE  StartAt(E, e) = c + 1
<1> USE DEF NoneBetween
<1> DEFINE S == {f \in E : f < e}
<1>1. CASE c = 0
  <2>1. ASSUME NEW f \in S PROVE FALSE
    <3>1. f \in Nat \ {0} /\ f < e /\ (f <= c \/ f >= e)
      OBVIOUS
    <3> QED
      BY <1>1, <3>1
  <2>2. S = {}
    BY <2>1
  <2> HIDE DEF S
  <2>3. LastOf(S, 0) = 0
    BY <2>2 DEF LastOf
  <2> QED
    BY <1>1, <2>3 DEF StartAt, S
<1>2. CASE c # 0
  <2>1. c \in S /\ \A f \in S : c >= f
    BY <1>2
  <2>2. Max(S) \in S /\ \A f \in S : Max(S) >= f
    BY <2>1, Zenon DEF Max
  <2>3. Max(S) = c
    <3>1. S \subseteq Nat
      OBVIOUS
    <3> HIDE DEF S
    <3>2. Max(S) \in Nat /\ Max(S) >= c /\ c >= Max(S)
      BY <2>1, <2>2, <3>1
    <3> QED
      BY <3>2
  <2> HIDE DEF S
  <2>4. S # {}
    BY <2>1
  <2>5. LastOf(S, 0) = c
    BY <2>3, <2>4 DEF LastOf
  <2> QED
    BY <2>5 DEF StartAt, S
<1> QED
  BY <1>1, <1>2

\* Two sets of numbers agree up to one.
Agree(E, D, n) ==
    /\ E \subseteq Nat \ {0} /\ D \subseteq Nat \ {0}
    /\ \A e \in 1..n : e \in E <=> e \in D

\* Ends that agree up to a position give the same starts.
LEMMA SameStarts ==
    ASSUME NEW n \in Nat, NEW E, NEW D, Agree(E, D, n), NEW m \in Nat, m <= n + 1
    PROVE  StartAt(E, m) = StartAt(D, m)
<1>1. ASSUME NEW f \in Nat \ {0}, f < m PROVE f \in E <=> f \in D
  BY <1>1 DEF Agree
<1>2. {f \in E : f < m} = {f \in D : f < m}
  BY <1>1 DEF Agree
<1> QED
  BY <1>2, Zenon DEF StartAt

-----------------------------------------------------------------------------
(* Where records end in the first n bytes of a stream *)

\* The definitions of SyslogInput, for any stream, length and flushes.
EndsOf(s, n, o) ==
    {e \in 1..n : s[e] = Newline} \cup (IF ~o /\ n > 0 /\ s[n] # Newline THEN {n + 1} ELSE {})
Flushed(s, n, F, o, e) ==
    \/ \E p \in F : e <= p /\ \A f \in EndsOf(s, n, o) : e < f => p < f
    \/ ~o /\ \A f \in EndsOf(s, n, o) : f <= e
Starts(s, n, o, e) ==
    \E f \in EndsOf(s, n, o) :
        /\ e < f /\ f <= n /\ \A g \in EndsOf(s, n, o) : e < g => f <= g
        /\ TestRecordStart(SubSeq(s, e + 1, f - 1))
Over(s, n, F, o) == {e \in EndsOf(s, n, o) : Flushed(s, n, F, o, e) \/ Starts(s, n, o, e)}
Valid(s, E, e) == TestRecordStart(SubSeq(s, StartAt(E, e), e - 1))
Taken(s, n, F, o) == {e \in Over(s, n, F, o) : Flushed(s, n, F, o, e) => Valid(s, Over(s, n, F, o), e)}

\* While the connection is open: c is the end of the last record, c + k that of the last line.
Split(s, n, F, c, k, q) ==
    /\ c \in Nat /\ n \in Nat /\ c <= n /\ k \in Nat /\ c + k <= n /\ F \subseteq 0..n
    /\ c = 0 \/ c \in Over(s, n, F, TRUE)
    /\ \A e \in Over(s, n, F, TRUE) : e <= c
    /\ k = 0 \/ s[c + k] = Newline
    /\ \A e \in (c + k + 1)..n : s[e] # Newline
    /\ q \in Seq(Seq(Byte(s)))
    /\ Cut(s, Over(s, n, F, TRUE), Taken(s, n, F, TRUE), c, q)

\* The ends of lines are numbers.
LEMMA EndsAreNumbers ==
    ASSUME NEW s, NEW n \in Nat, NEW o
    PROVE  EndsOf(s, n, o) \subseteq 1..(n + 1)
  BY DEF EndsOf

\* So are those of records, which are ends of lines.
LEMMA OverAreNumbers ==
    ASSUME NEW s, NEW n \in Nat, NEW F, NEW o
    PROVE  /\ Over(s, n, F, o) \subseteq Nat \ {0} /\ Taken(s, n, F, o) \subseteq Nat \ {0}
           /\ Over(s, n, F, o) \subseteq EndsOf(s, n, o) /\ Taken(s, n, F, o) \subseteq Over(s, n, F, o)
<1>1. 1..(n + 1) \subseteq Nat \ {0}
  OBVIOUS
<1> QED
  BY <1>1, EndsAreNumbers DEF Over, Taken

\* While the connection is open, they are the newlines.
LEMMA OpenEnds ==
    ASSUME NEW s, NEW n
    PROVE  EndsOf(s, n, TRUE) = {e \in 1..n : s[e] = Newline}
  BY DEF EndsOf

\* What has been flushed stays so, and nothing else does, while more is read.
LEMMA FlushedSame ==
    ASSUME NEW s, NEW n \in Nat, NEW m \in Nat, n <= m, NEW F, F \subseteq 0..n, NEW e \in Nat
    PROVE  /\ Flushed(s, m, F, TRUE, e) <=> Flushed(s, n, F, TRUE, e)
           /\ Flushed(s, n, F, TRUE, e) => e <= n
<1>1. \A p \in F : p \in Nat /\ p <= n
  OBVIOUS
<1>2. ASSUME NEW p \in F
      PROVE  (\A f \in EndsOf(s, n, TRUE) : e < f => p < f) <=> (\A f \in EndsOf(s, m, TRUE) : e < f => p < f)
  <2>1. \A f \in 1..m : f \in 1..n \/ p < f
    BY <1>1
  <2>2. \A f \in 1..n : f \in 1..m
    OBVIOUS
  <2> QED
    BY <2>1, <2>2, OpenEnds
<1>3. ASSUME Flushed(s, n, F, TRUE, e) PROVE e <= n
  <2>1. PICK p \in F : e <= p
    BY <1>3, Zenon DEF Flushed
  <2> QED
    BY <1>1, <2>1
<1> QED
  BY <1>2, <1>3 DEF Flushed

\* The next line is the same one.
LEMMA StartsOn ==
    ASSUME NEW s, NEW n \in Nat, NEW m \in Nat, n <= m, NEW e \in Nat
    PROVE  /\ Starts(s, n, TRUE, e) => Starts(s, m, TRUE, e)
           /\ Starts(s, m, TRUE, e) /\ (\E g \in EndsOf(s, n, TRUE) : e < g) => Starts(s, n, TRUE, e)
<1>1. /\ \A f \in EndsOf(s, n, TRUE) : f \in EndsOf(s, m, TRUE) /\ f \in Nat /\ f <= n
      /\ \A f \in EndsOf(s, m, TRUE) : f \in Nat /\ f <= m /\ (f <= n => f \in EndsOf(s, n, TRUE))
  <2>1. \A f \in 1..n : f \in 1..m /\ f \in Nat /\ f <= n
    OBVIOUS
  <2>2. \A f \in 1..m : f \in Nat /\ f <= m /\ (f <= n => f \in 1..n)
    OBVIOUS
  <2> QED
    BY <2>1, <2>2, OpenEnds
<1>2. ASSUME Starts(s, n, TRUE, e) PROVE Starts(s, m, TRUE, e)
  <2>1. PICK f \in EndsOf(s, n, TRUE) :
          /\ e < f /\ f <= n /\ \A g \in EndsOf(s, n, TRUE) : e < g => f <= g
          /\ TestRecordStart(SubSeq(s, e + 1, f - 1))
    BY <1>2 DEF Starts
  <2>2. f \in EndsOf(s, m, TRUE) /\ f <= m
    BY <1>1
  <2>3. ASSUME NEW g \in EndsOf(s, m, TRUE), e < g PROVE f <= g
    <3>1. g \in Nat /\ f \in Nat /\ (g <= n => g \in EndsOf(s, n, TRUE))
      BY <1>1
    <3>2. CASE g <= n
      BY <2>1, <2>3, <3>1, <3>2
    <3>3. CASE ~(g <= n)
      BY <2>1, <3>1, <3>3
    <3> QED
      BY <3>2, <3>3
  <2> QED
    BY <2>1, <2>2, <2>3, Zenon DEF Starts
<1>3. ASSUME Starts(s, m, TRUE, e), NEW h \in EndsOf(s, n, TRUE), e < h PROVE Starts(s, n, TRUE, e)
  <2>1. PICK f \in EndsOf(s, m, TRUE) :
          /\ e < f /\ f <= m /\ \A g \in EndsOf(s, m, TRUE) : e < g => f <= g
          /\ TestRecordStart(SubSeq(s, e + 1, f - 1))
    BY <1>3 DEF Starts
  <2>2. f <= n /\ f \in EndsOf(s, n, TRUE)
    <3>1. h \in EndsOf(s, m, TRUE) /\ h \in Nat /\ h <= n /\ f \in Nat
      BY <1>1
    <3>2. f <= h
      BY <1>3, <2>1, <3>1
    <3>3. f <= n
      BY <3>1, <3>2
    <3> QED
      BY <1>1, <3>3
  <2> QED
    BY <1>1, <2>1, <2>2, Zenon DEF Starts
<1> QED
  BY <1>2, <1>3

\* What is known when more is read, before it is looked at.
ReadOn(s, n, F, E, V, c, k, q) ==
    /\ c = 0 \/ c \in E
    /\ \A e \in E : e <= c \/ e >= c + k
    /\ \A e \in Nat : e > c => ~Flushed(s, n, F, TRUE, e) \/ e \notin E
    /\ \A e \in E : e > c => Starts(s, n, TRUE, e) /\ e \in V
    /\ Cut(s, E, V, c, q)

\* The records that have ended stay as they are.
LEMMA ReadOnHolds ==
    ASSUME NEW s, NEW n \in Nat, NEW F, NEW c, NEW k, NEW q, Split(s, n, F, c, k, q), NEW m \in Nat, n <= m
    PROVE  ReadOn(s, m, F, Over(s, m, F, TRUE), Taken(s, m, F, TRUE), c, k, q)
<1> DEFINE E == Over(s, n, F, TRUE)
           V == Taken(s, n, F, TRUE)
           D == Over(s, m, F, TRUE)
           W == Taken(s, m, F, TRUE)
           A == EndsOf(s, n, TRUE)
           B == EndsOf(s, m, TRUE)
<1>1. /\ c \in Nat /\ c <= n /\ k \in Nat /\ c + k <= n /\ F \subseteq 0..n
      /\ c = 0 \/ c \in E
      /\ \A e \in E : e <= c
      /\ k = 0 \/ s[c + k] = Newline
      /\ Cut(s, E, V, c, q)
  BY DEF Split
<1>2. /\ \A e \in A : e \in B /\ e \in Nat \ {0} /\ e <= n
      /\ \A e \in B : e \in Nat \ {0} /\ (e <= n => e \in A)
      /\ \A e \in 1..n : s[e] = Newline => e \in A
  <2>1. \A f \in 1..n : f \in 1..m /\ f \in Nat \ {0} /\ f <= n
    OBVIOUS
  <2>2. \A f \in 1..m : f \in Nat \ {0} /\ (f <= n => f \in 1..n)
    OBVIOUS
  <2> QED
    BY <2>1, <2>2, OpenEnds
<1>3. \A e \in Nat : Flushed(s, m, F, TRUE, e) <=> Flushed(s, n, F, TRUE, e)
  BY <1>1, FlushedSame
<1>4. \A e \in Nat : Flushed(s, n, F, TRUE, e) => e <= n
  BY <1>1, FlushedSame
<1>5. \A e \in Nat : Starts(s, n, TRUE, e) => Starts(s, m, TRUE, e)
  BY StartsOn
<1>6. \A e \in Nat : Starts(s, m, TRUE, e) /\ (\E g \in A : e < g) => Starts(s, n, TRUE, e)
  BY StartsOn
<1> HIDE DEF A, B
<1>7. \A e : e \in E <=> e \in A /\ (Flushed(s, n, F, TRUE, e) \/ Starts(s, n, TRUE, e))
  BY DEF Over, A
<1>8. \A e : e \in D <=> e \in B /\ (Flushed(s, m, F, TRUE, e) \/ Starts(s, m, TRUE, e))
  BY DEF Over, B
<1>9. \A e : e \in V <=> e \in E /\ (Flushed(s, n, F, TRUE, e) => Valid(s, E, e))
  BY DEF Taken
<1>10. \A e : e \in W <=> e \in D /\ (Flushed(s, m, F, TRUE, e) => Valid(s, D, e))
  BY DEF Taken
<1> HIDE DEF E, D, V, W
<1>11. \A e \in E : e \in D
  BY <1>2, <1>3, <1>5, <1>7, <1>8, Zenon
<1>12. \A e \in D : e \in Nat \ {0} /\ e \in Nat
  BY <1>2, <1>8
<1>13. \A e \in E : e \in Nat \ {0} /\ e \in Nat
  BY <1>2, <1>7
<1>14. c # 0 => c \in A
  BY <1>1, <1>7
<1>15. ASSUME NEW e \in 1..c PROVE e \in E <=> e \in D
  <2>1. e \in Nat /\ e <= n /\ (e < c \/ e = c) /\ c # 0
    BY <1>1
  <2>2. CASE e = c
    BY <1>1, <1>11, <2>1, <2>2
  <2>3. CASE e < c
    <3>1. e \in D => e \in A
      BY <1>2, <1>8, <2>1
    <3>2. Starts(s, m, TRUE, e) => Starts(s, n, TRUE, e)
      BY <1>6, <1>14, <2>1, <2>3
    <3>3. e \in D => e \in E
      BY <1>3, <1>7, <1>8, <2>1, <3>1, <3>2
    <3> QED
      BY <1>11, <3>3
  <2> QED
    BY <2>1, <2>2, <2>3
<1>16. E \subseteq Nat \ {0} /\ D \subseteq Nat \ {0}
  BY <1>12, <1>13
<1>17. Agree(E, D, c)
  BY <1>15, <1>16, Zenon DEF Agree
<1>18. ASSUME NEW e \in 1..c PROVE StartAt(E, e) = StartAt(D, e)
  <2>1. c \in Nat /\ e \in Nat /\ e <= c + 1
    BY <1>1
  <2> QED
    BY <1>17, <2>1, SameStarts
<1>19. \A e \in 1..c : Valid(s, E, e) <=> Valid(s, D, e)
  BY <1>18, Zenon DEF Valid
<1>20. \A e \in 1..c : e \in V <=> e \in W
  <2>1. \A e \in 1..c : e \in Nat
    BY <1>1
  <2> QED
    BY <1>3, <1>9, <1>10, <1>15, <1>19, <2>1
<1>21. Cut(s, D, W, c, q)
  BY <1>1, <1>18, <1>20, CutSame
<1>22. ASSUME NEW e \in Nat, e > c, e \in D PROVE ~Flushed(s, m, F, TRUE, e)
  <2> SUFFICES ASSUME Flushed(s, m, F, TRUE, e) PROVE FALSE
    OBVIOUS
  <2>1. Flushed(s, n, F, TRUE, e) /\ e <= n
    BY <1>3, <1>4
  <2>2. e \in A
    BY <1>2, <1>8, <1>22, <2>1
  <2>3. e \in E
    BY <1>7, <2>1, <2>2
  <2> QED
    BY <1>1, <1>22, <2>3
<1>23. ASSUME NEW e \in D, e > c PROVE Starts(s, m, TRUE, e) /\ e \in W
  BY <1>8, <1>10, <1>12, <1>22, <1>23
<1>24. ASSUME NEW e \in D, e > c, ~(e >= c + k) PROVE FALSE
  <2>1. e \in Nat /\ k # 0 /\ c + k \in 1..n /\ e < c + k /\ e <= n
    BY <1>1, <1>12, <1>24
  <2>2. c + k \in A /\ e \in A
    BY <1>1, <1>2, <1>8, <2>1
  <2>3. Starts(s, n, TRUE, e)
    BY <1>6, <1>23, <1>24, <2>1, <2>2
  <2>4. e \in E
    BY <1>7, <2>2, <2>3
  <2> QED
    BY <1>1, <1>24, <2>1, <2>4
<1>25. \A e \in D : e <= c \/ e >= c + k
  BY <1>1, <1>12, <1>24
<1>26. c = 0 \/ c \in D
  BY <1>1, <1>11
<1> QED
  BY <1>21, <1>22, <1>23, <1>25, <1>26 DEF ReadOn, D, W

-----------------------------------------------------------------------------
(* The walk finds them *)

\* The text of a piece.
LEMMA PieceText ==
    ASSUME NEW S, NEW s \in Seq(S), NEW a \in Nat \ {0}, NEW b \in Nat, a <= b + 1, b <= Len(s)
    PROVE  /\ IsStart(Piece(s, a, b)) <=> TestRecordStart(SubSeq(s, a, b))
           /\ IsStart(Piece(s, a, b)) => Piece(s, a, b) # <<>>
<1> DEFINE p == Piece(s, a, b)
           n == b - a + 1
           t == [i \in 1..n |-> s[a + i - 1]]
<1>1. n \in Nat
  OBVIOUS
<1>2. p \in Seq(Byte(s)) /\ Len(p) = n /\ \A i \in 1..n : p[i] = <<a + i - 1, s[a + i - 1]>>
  BY PieceFacts
<1>3. SubSeq(s, a, b) = t
  <2>1. \A i \in 1..n : i + a - 1 = a + i - 1
    BY <1>1
  <2> QED
    BY <2>1
<1> HIDE DEF p, n
<1>4. DOMAIN p = 1..n
  BY <1>2, ElementsOf
<1>5. \A z, x, y : z = <<x, y>> => z[2] = y
  OBVIOUS
<1>6. \A i \in 1..n : p[i][2] = s[a + i - 1]
  <2> SUFFICES ASSUME NEW i \in 1..n PROVE p[i][2] = s[a + i - 1]
    OBVIOUS
  <2>1. p[i] = <<a + i - 1, s[a + i - 1]>>
    BY <1>2, Zenon
  <2> QED
    BY <1>5, <2>1, Zenon
<1>7. Text(p) = t
  BY <1>4, <1>6 DEF Text
<1>8. IsStart(p) <=> TestRecordStart(t)
  BY <1>7, Zenon DEF IsStart
<1>9. TestRecordStart(t) => n # 0
  <2>1. Len(t) = n
    BY <1>1
  <2> HIDE DEF t
  <2> QED
    BY <2>1, ReaderAssumption DEF TestRecordStart
<1>10. n # 0 => p # <<>>
  BY <1>2
<1> QED
  BY <1>3, <1>8, <1>9, <1>10 DEF p

\* The ends of lines in a piece.
LEMMA PieceEnds ==
    ASSUME NEW s, NEW a \in Nat \ {0}, NEW b \in Nat, a <= b + 1, NEW e
    PROVE  e \in EndsIn(Piece(s, a, b)) <=> e \in 1..(b - a + 1) /\ s[a + e - 1] = Newline
<1> DEFINE p == Piece(s, a, b)
           n == b - a + 1
<1>1. p \in Seq(Byte(s)) /\ Len(p) = n /\ \A i \in 1..n : p[i] = <<a + i - 1, s[a + i - 1]>>
  BY PieceFacts
<1> HIDE DEF p, n
<1>2. DOMAIN p = 1..n
  BY <1>1, ElementsOf
<1>3. \A z, x, y : z = <<x, y>> => z[2] = y
  OBVIOUS
<1>4. \A i \in 1..n : p[i][2] = s[a + i - 1]
  <2> SUFFICES ASSUME NEW i \in 1..n PROVE p[i][2] = s[a + i - 1]
    OBVIOUS
  <2>1. p[i] = <<a + i - 1, s[a + i - 1]>>
    BY <1>1, Zenon
  <2> QED
    BY <1>3, <2>1, Zenon
<1>5. e \in EndsIn(p) <=> e \in 1..n /\ s[a + e - 1] = Newline
  BY <1>2, <1>4 DEF EndsIn
<1> QED
  BY <1>5 DEF p, n

\* A line that is followed by another one.
LEMMA NextStarts ==
    ASSUME NEW s, NEW m \in Nat, NEW p \in Nat, NEW x \in 1..m, p < x, s[x] = Newline,
           \A f \in (p + 1)..(x - 1) : s[f] # Newline
    PROVE  Starts(s, m, TRUE, p) <=> TestRecordStart(SubSeq(s, p + 1, x - 1))
<1> DEFINE A == EndsOf(s, m, TRUE)
<1>1. A = {e \in 1..m : s[e] = Newline}
  BY OpenEnds, Zenon
<1> HIDE DEF A
<1>2. x \in A /\ x <= m
  BY <1>1
<1>3. ASSUME NEW f \in A, p < f PROVE x <= f
  <2>1. f \in 1..m /\ s[f] = Newline
    BY <1>1
  <2>2. f \in (p + 1)..(x - 1) \/ x <= f
    BY <1>3, <2>1
  <2> QED
    BY <2>1, <2>2
<1>4. A \subseteq Nat
  BY <1>1
<1>5. ASSUME NEW f \in A, p < f, \A g \in A : p < g => f <= g PROVE f = x
  BY <1>2, <1>3, <1>4, <1>5
<1>6. Starts(s, m, TRUE, p) => TestRecordStart(SubSeq(s, p + 1, x - 1))
  BY <1>5, Zenon DEF Starts, A
<1>7. TestRecordStart(SubSeq(s, p + 1, x - 1)) => Starts(s, m, TRUE, p)
  BY <1>2, <1>3, Zenon DEF Starts, A
<1> QED
  BY <1>6, <1>7

\* No line follows.
LEMMA NoneStarts ==
    ASSUME NEW s, NEW m \in Nat, NEW p \in Nat, \A f \in (p + 1)..m : s[f] # Newline
    PROVE  ~Starts(s, m, TRUE, p)
<1>1. \A f \in EndsOf(s, m, TRUE) : ~(p < f)
  <2>1. \A f \in 1..m : p < f => f \in (p + 1)..m
    OBVIOUS
  <2> QED
    BY <2>1, OpenEnds
<1> QED
  BY <1>1, Zenon DEF Starts

\* Where the walk is after the line that ends at e, told of the ends of records.
SplitTo(s, E, V, c, q, e, w) ==
    \E record, line, records :
       /\ record \in Nat /\ line \in Nat
       /\ w = [record |-> record, search |-> line, consumed |-> records]
       /\ (line # 0 => record < line) /\ record <= line /\ line <= e
       /\ c + record = 0 \/ c + record \in E
       /\ \A f \in E : f <= c + record \/ f >= c + line
       /\ line = 0 \/ s[c + line] = Newline
       /\ \A f \in (c + line + 1)..(c + e) : s[f] # Newline
       /\ records \in Seq(Seq(Byte(s)))
       /\ Cut(s, E, V, c + record, q \o records)

\* The next line either ends the record before it or goes on with it.
LEMMA LineSplit ==
    ASSUME NEW S, NEW s \in Seq(S), NEW m \in Nat, m <= Len(s), NEW F, NEW c \in Nat, c <= m, NEW k, NEW p,
           NEW E, E = Over(s, m, F, TRUE), NEW V, V \subseteq E,
           ReadOn(s, m, F, E, V, c, k, p),
           NEW q \in Seq(Seq(Byte(s))), NEW buffer, buffer = Piece(s, c + 1, m),
           NEW e \in Nat, c + e < m, s[c + (e + 1)] = Newline,
           NEW w, SplitTo(s, E, V, c, q, e, w)
    PROVE  SplitTo(s, E, V, c, q, e + 1, NextLine(buffer, w, e + 1))
<1>1. PICK record, line, records :
       /\ record \in Nat /\ line \in Nat
       /\ w = [record |-> record, search |-> line, consumed |-> records]
       /\ (line # 0 => record < line) /\ record <= line /\ line <= e
       /\ c + record = 0 \/ c + record \in E
       /\ \A f \in E : f <= c + record \/ f >= c + line
       /\ line = 0 \/ s[c + line] = Newline
       /\ \A f \in (c + line + 1)..(c + e) : s[f] # Newline
       /\ records \in Seq(Seq(Byte(s)))
       /\ Cut(s, E, V, c + record, q \o records)
  BY DEF SplitTo
<1>2. w.record = record /\ w.search = line /\ w.consumed = records
  BY <1>1
<1> DEFINE x == c + (e + 1)
           l == c + line
           next == SubSeq(buffer, line + 1, (e + 1) - 1)
           prev == SubSeq(buffer, record + 1, line - 1)
           more == [record |-> line, search |-> e + 1, consumed |-> Append(records, prev)]
           same == [record |-> record, search |-> e + 1, consumed |-> records]
<1>3. /\ x \in 1..m /\ l \in Nat /\ l < x /\ x - 1 = c + e /\ e + 1 \in Nat /\ (e + 1) - 1 = e
      /\ s[x] = Newline /\ c + record \in Nat /\ c + record <= l /\ l \in 0..m
  BY <1>1
<1>4. \A f \in (l + 1)..(x - 1) : s[f] # Newline
  BY <1>1, <1>3
<1>5. /\ E \subseteq Nat \ {0} /\ V \subseteq Nat
      /\ \A f \in E : f \in 1..m /\ s[f] = Newline /\ (Flushed(s, m, F, TRUE, f) \/ Starts(s, m, TRUE, f))
      /\ \A f \in 1..m : s[f] = Newline /\ Starts(s, m, TRUE, f) => f \in E
  <2>1. EndsOf(s, m, TRUE) = {f \in 1..m : s[f] = Newline}
    BY OpenEnds, Zenon
  <2>2. \A f : f \in E <=> f \in EndsOf(s, m, TRUE) /\ (Flushed(s, m, F, TRUE, f) \/ Starts(s, m, TRUE, f))
    BY DEF Over
  <2>3. \A f \in 1..m : f \in Nat \ {0}
    OBVIOUS
  <2>4. \A f : f \in E <=> f \in 1..m /\ s[f] = Newline /\ (Flushed(s, m, F, TRUE, f) \/ Starts(s, m, TRUE, f))
    BY <2>1, <2>2
  <2>5. E \subseteq Nat \ {0}
    BY <2>3, <2>4
  <2> QED
    BY <2>4, <2>5
<1>6. Starts(s, m, TRUE, l) <=> TestRecordStart(SubSeq(s, l + 1, x - 1))
  BY <1>3, <1>4, NextStarts
<1>7. HeldCuts(s, c, m)
  BY HeldCut
<1>8. next = Piece(s, l + 1, x - 1)
  <2>1. /\ line + 1 \in Nat \ {0} /\ e \in Nat /\ line + 1 <= e + 1 /\ e <= m - c
        /\ c + (line + 1) = l + 1 /\ c + e = x - 1 /\ (e + 1) - 1 = e
    BY <1>1, <1>3
  <2>2. SubSeq(Piece(s, c + 1, m), line + 1, e) = Piece(s, c + (line + 1), c + e)
    BY <1>7, <2>1, Zenon DEF HeldCuts
  <2> QED
    BY <2>1, <2>2, Zenon
<1>9. /\ IsStart(next) <=> Starts(s, m, TRUE, l)
      /\ IsStart(next) => next # <<>>
  <2>1. l + 1 \in Nat \ {0} /\ x - 1 \in Nat /\ l + 1 <= (x - 1) + 1 /\ x - 1 <= Len(s)
    BY <1>3, ElementsOf
  <2> HIDE DEF l, x, next
  <2>2. /\ IsStart(next) <=> TestRecordStart(SubSeq(s, l + 1, x - 1))
        /\ IsStart(next) => next # <<>>
    BY <1>8, <2>1, PieceText
  <2> QED
    BY <1>6, <2>2
<1> HIDE DEF next, prev
<1>10. NextLine(buffer, w, e + 1) = IF line > 0 /\ IsStart(next) THEN more ELSE same
  <2>1. CASE line > 0 /\ IsStart(next)
    BY <1>2, <1>9, <2>1 DEF NextLine, next, prev
  <2>2. CASE ~(line > 0 /\ IsStart(next))
    <3>1. NextLine(buffer, w, e + 1) = [w EXCEPT !.search = e + 1]
      BY <1>2, <2>2, Zenon DEF NextLine, next
    <3>2. ASSUME NEW t, NEW a, NEW b, NEW d, NEW z, t = [record |-> a, search |-> b, consumed |-> d]
          PROVE  [t EXCEPT !.search = z] = [record |-> a, search |-> z, consumed |-> d]
      BY <3>2
    <3>3. [w EXCEPT !.search = e + 1] = same
      BY <1>1, <3>2
    <3> QED
      BY <2>2, <3>1, <3>3, Zenon
  <2> QED
    BY <2>1, <2>2
<1>11. \A f \in (c + (e + 1) + 1)..(c + (e + 1)) : s[f] # Newline
  BY <1>3
<1>12. CASE line > 0 /\ IsStart(next)
  <2>1. /\ l \in 1..m /\ s[l] = Newline /\ l \in Nat \ {0} /\ line \in Nat
        /\ record < line /\ line < e + 1 /\ line <= e + 1 /\ e + 1 <= e + 1 /\ c + record < l
        /\ l - 1 \in Nat /\ c + record <= l - 1 /\ l = (l - 1) + 1
    BY <1>1, <1>3, <1>12
  <2>2. l \in E
    BY <1>5, <1>9, <1>12, <2>1
  <2>3. \A f \in E : f <= l \/ f >= x
    <3> SUFFICES ASSUME NEW f \in E PROVE f <= l \/ f >= x
      OBVIOUS
    <3>1. f \in 1..m /\ s[f] = Newline
      BY <1>5
    <3>2. f <= l \/ f \in (l + 1)..(x - 1) \/ f >= x
      BY <1>3, <3>1
    <3> QED
      BY <1>4, <3>1, <3>2
  <2>4. l \in V
    <3>1. l > c
      BY <1>12, <2>1
    <3> QED
      BY <2>2, <3>1 DEF ReadOn
  <2>5. \A f \in (c + record + 1)..(l - 1) : f \notin V
    <3> SUFFICES ASSUME NEW f \in (c + record + 1)..(l - 1), f \in E PROVE FALSE
      OBVIOUS
    <3>1. f \in Nat /\ ~(f <= c + record) /\ ~(f >= l)
      BY <1>3, <2>1
    <3> QED
      BY <1>1, <3>1
  <2>6. Cut(s, E, V, l - 1, q \o records)
    BY <1>1, <1>3, <2>1, <2>5, CutOver
  <2>7. Cut(s, E, V, l, Append(q \o records, Piece(s, StartAt(E, l), l - 1)))
    BY <2>1, <2>4, <2>6, CutNext
  <2>8. StartAt(E, l) = (c + record) + 1
    <3>1. NoneBetween(E, c + record, l)
      BY <1>1, <1>5, Zenon DEF NoneBetween
    <3>2. c + record \in Nat /\ l \in Nat /\ c + record < l
      BY <1>3, <2>1
    <3> HIDE DEF l
    <3> QED
      BY <3>1, <3>2, StartIsAfter
  <2>9. prev = Piece(s, (c + record) + 1, l - 1)
    <3>1. /\ record + 1 \in Nat \ {0} /\ line - 1 \in Nat /\ record + 1 <= (line - 1) + 1 /\ line - 1 <= m - c
          /\ c + (record + 1) = (c + record) + 1 /\ c + (line - 1) = l - 1
      BY <1>1, <1>3, <2>1
    <3>2. SubSeq(Piece(s, c + 1, m), record + 1, line - 1) = Piece(s, c + (record + 1), c + (line - 1))
      BY <1>7, <3>1, Zenon DEF HeldCuts
    <3> QED
      BY <3>1, <3>2, Zenon DEF prev
  <2>10. prev \in Seq(Byte(s))
    <3>1. (c + record) + 1 \in Nat \ {0} /\ l - 1 \in Nat /\ (c + record) + 1 <= (l - 1) + 1
      BY <1>3, <2>1
    <3> QED
      BY <2>9, <3>1, PieceFacts
  <2>11. Append(records, prev) \in Seq(Seq(Byte(s))) /\ Append(q \o records, prev) = q \o Append(records, prev)
    <3>1. records \in Seq(Seq(Byte(s)))
      BY <1>1
    <3>2. AppendsLater(Seq(Byte(s)), q, records, prev)
      BY <2>10, <3>1, AppendLater
    <3> QED
      BY <3>2, Zenon DEF AppendsLater
  <2>12. Cut(s, E, V, c + line, q \o Append(records, prev))
    BY <2>7, <2>8, <2>9, <2>11
  <2>13. SplitTo(s, E, V, c, q, e + 1, more)
    <3>1. /\ line \in Nat /\ e + 1 \in Nat
          /\ (e + 1 # 0 => line < e + 1) /\ line <= e + 1 /\ e + 1 <= e + 1
      BY <2>1
    <3>2. /\ more = [record |-> line, search |-> e + 1, consumed |-> Append(records, prev)]
          /\ c + line = 0 \/ c + line \in E
          /\ \A f \in E : f <= c + line \/ f >= c + (e + 1)
      BY <2>2, <2>3, Zenon
    <3> HIDE DEF more
    <3> QED
      BY <1>11, <2>11, <2>12, <3>1, <3>2, Zenon DEF SplitTo
  <2> QED
    BY <1>10, <1>12, <2>13, Zenon
<1>13. CASE ~(line > 0 /\ IsStart(next))
  <2>1. \A f \in E : f <= c + record \/ f >= x
    <3> SUFFICES ASSUME NEW f \in E, ~(f <= c + record), ~(f >= x) PROVE FALSE
      OBVIOUS
    <3>1. f \in 1..m /\ s[f] = Newline /\ f \in Nat /\ f > c /\ f >= l
      <4>1. f >= l
        BY <1>1
      <4>2. f \in 1..m /\ s[f] = Newline
        BY <1>5
      <4>3. record \in Nat
        BY <1>1
      <4> QED
        BY <4>1, <4>2, <4>3
    <3>2. f = l
      BY <1>3, <1>4, <3>1
    <3>3. line > 0
      BY <1>1, <3>1, <3>2
    <3>4. Starts(s, m, TRUE, l)
      BY <3>1, <3>2 DEF ReadOn
    <3> QED
      BY <1>9, <1>13, <3>3, <3>4
  <2>2. /\ record \in Nat /\ e + 1 \in Nat
        /\ (e + 1 # 0 => record < e + 1) /\ record <= e + 1 /\ e + 1 <= e + 1
    BY <1>1
  <2>3. /\ same = [record |-> record, search |-> e + 1, consumed |-> records]
        /\ \A f \in E : f <= c + record \/ f >= c + (e + 1)
    BY <2>1, Zenon
  <2> HIDE DEF same
  <2>4. SplitTo(s, E, V, c, q, e + 1, same)
    BY <1>1, <1>11, <2>2, <2>3, Zenon DEF SplitTo
  <2> QED
    BY <1>10, <1>13, <2>4, Zenon
<1> QED
  BY <1>12, <1>13

\* All lines up to a position.
LEMMA WalkSplit ==
    ASSUME NEW S, NEW s \in Seq(S), NEW n, NEW F, NEW c, NEW k, NEW q, Split(s, n, F, c, k, q),
           NEW m \in Nat, n <= m, m <= Len(s)
    PROVE  SplitTo(s, Over(s, m, F, TRUE), Taken(s, m, F, TRUE), c, q, m - c, Walk(Piece(s, c + 1, m), k))
<1> DEFINE E == Over(s, m, F, TRUE)
           V == Taken(s, m, F, TRUE)
           buffer == Piece(s, c + 1, m)
           l == m - c
           f == CHOOSE f : Walking(buffer, k, f, l)
           W == {j \in Nat : k + j <= l => SplitTo(s, E, V, c, q, k + j, f[k + j])}
<1>1. /\ n \in Nat /\ c \in Nat /\ c <= n /\ k \in Nat /\ c + k <= n
      /\ k = 0 \/ s[c + k] = Newline
      /\ q \in Seq(Seq(Byte(s)))
  BY DEF Split
<1>2. ReadOn(s, m, F, E, V, c, k, q)
  BY <1>1, ReadOnHolds
<1>3. V \subseteq E
  BY OverAreNumbers
<1>4. l \in Nat /\ k <= l /\ l - k \in Nat /\ k + (l - k) = l /\ c <= m /\ l <= l
  BY <1>1
<1>5. Len(buffer) = l
  <2>1. c + 1 \in Nat \ {0} /\ c + 1 <= m + 1 /\ m - (c + 1) + 1 = l
    BY <1>1, <1>4
  <2>2. Len(buffer) = m - (c + 1) + 1
    BY <2>1, PieceFacts
  <2> QED
    BY <2>1, <2>2, Zenon
<1> HIDE DEF E, V
<1>6. Walking(buffer, k, f, l)
  <2>1. \E g : Walking(buffer, k, g, k + (l - k))
    BY <1>1, <1>4, WalkExists
  <2> QED
    BY <1>4, <2>1, Zenon
<1>7. Walk(buffer, k) = f[l]
  BY <1>5, WalkDef, Zenon
<1> HIDE DEF f, l, buffer
<1>8. \A e \in k..l : f[e] = IF e = k THEN FirstWalk(k) ELSE NextWalk(buffer, f[e - 1], e)
  BY <1>6 DEF Walking
<1>9. 0 \in W
  <2>1. f[k + 0] = FirstWalk(k) /\ k + 0 = k
    BY <1>1, <1>4, <1>8
  <2>2. /\ 0 \in Nat /\ (k # 0 => 0 < k) /\ 0 <= k /\ k <= k /\ c + 0 = c
        /\ \A e \in (c + k + 1)..(c + k) : s[e] # Newline
    BY <1>1
  <2>3. q \o <<>> = q /\ <<>> \in Seq(Seq(Byte(s)))
    <3>1. ASSUME NEW T, NEW z \in Seq(T) PROVE z \o <<>> = z
      OBVIOUS
    <3> QED
      BY <1>1, <3>1
  <2>4. /\ c + 0 = 0 \/ c + 0 \in E
        /\ \A e \in E : e <= c + 0 \/ e >= c + k
        /\ Cut(s, E, V, c + 0, q \o <<>>)
    BY <1>2, <2>2, <2>3 DEF ReadOn
  <2>5. SplitTo(s, E, V, c, q, k, FirstWalk(k))
    BY <1>1, <2>2, <2>3, <2>4, Zenon DEF SplitTo, FirstWalk
  <2> QED
    BY <2>1, <2>5
<1>10. ASSUME NEW j \in Nat, j \in W PROVE j + 1 \in W
  <2> SUFFICES ASSUME k + (j + 1) <= l PROVE SplitTo(s, E, V, c, q, k + (j + 1), f[k + (j + 1)])
    OBVIOUS
  <2> DEFINE e == k + j
  <2>1. /\ e \in Nat /\ e < l /\ e + 1 = k + (j + 1) /\ e <= l
        /\ e + 1 \in k..l /\ e + 1 # k /\ (e + 1) - 1 = e /\ e + 1 \in 1..l
    BY <1>1, <1>4
  <2>2. SplitTo(s, E, V, c, q, e, f[e])
    BY <1>10, <2>1
  <2>3. c + e < m /\ c + 1 \in Nat \ {0} /\ c + 1 <= m + 1 /\ m - (c + 1) + 1 = l /\ (c + 1) + (e + 1) - 1 = c + (e + 1)
    BY <1>1, <1>4, <2>1 DEF l
  <2>4. e + 1 \in EndsIn(buffer) <=> s[c + (e + 1)] = Newline
    <3>1. e + 1 \in EndsIn(buffer) <=> e + 1 \in 1..(m - (c + 1) + 1) /\ s[(c + 1) + (e + 1) - 1] = Newline
      <4> HIDE DEF e
      <4> QED
        BY <2>3, PieceEnds DEF buffer
    <3> QED
      BY <2>1, <2>3, <3>1, Zenon
  <2> HIDE DEF e
  <2>5. f[e + 1] = NextWalk(buffer, f[e], e + 1)
    BY <1>8, <2>1
  <2>6. CASE s[c + (e + 1)] = Newline
    <3>1. f[e + 1] = NextLine(buffer, f[e], e + 1)
      BY <2>4, <2>5, <2>6 DEF NextWalk
    <3>2. SplitTo(s, E, V, c, q, e + 1, NextLine(buffer, f[e], e + 1))
      BY <1>1, <1>2, <1>3, <1>4, <2>1, <2>2, <2>3, <2>6, LineSplit DEF buffer, E
    <3> QED
      BY <2>1, <3>1, <3>2
  <2>7. CASE s[c + (e + 1)] # Newline
    <3>1. f[e + 1] = f[e]
      BY <2>4, <2>5, <2>7 DEF NextWalk
    <3>2. /\ \A line \in Nat : line <= e => line <= e + 1
          /\ \A line \in Nat : \A x \in (c + line + 1)..(c + (e + 1)) : x \in (c + line + 1)..(c + e) \/ x = c + (e + 1)
      BY <1>1, <2>1
    <3>3. SplitTo(s, E, V, c, q, e + 1, f[e])
      BY <2>2, <2>7, <3>2, Zenon DEF SplitTo
    <3> QED
      BY <2>1, <3>1, <3>3
  <2> QED
    BY <2>6, <2>7
<1>11. Nat \subseteq W
  <2> HIDE DEF W
  <2> QED
    BY <1>9, <1>10, Induction
<1>12. SplitTo(s, E, V, c, q, l, f[l])
  BY <1>4, <1>11
<1> QED
  BY <1>7, <1>12 DEF l, E, V, buffer

\* The reader holds what comes after the last record that has ended.
HeldSplit(s, n, F, r, q) ==
    \E c, k : r = [buffer |-> Piece(s, c + 1, n), search |-> k] /\ Split(s, n, F, c, k, q)

\* After the walk it is so again.
LEMMA LeftSplit ==
    ASSUME NEW S, NEW s \in Seq(S), NEW n, NEW F, NEW c, NEW k, NEW q, Split(s, n, F, c, k, q),
           NEW m \in Nat, n <= m, m <= Len(s), NEW p, p = Piece(s, c + 1, m), NEW w, w = Walk(p, k)
    PROVE  HeldSplit(s, m, F, LeftBehind(p, w), q \o w.consumed)
<1> DEFINE E == Over(s, m, F, TRUE)
           V == Taken(s, m, F, TRUE)
<1>1. /\ n \in Nat /\ c \in Nat /\ c <= n /\ k \in Nat /\ c + k <= n /\ F \subseteq 0..n
      /\ q \in Seq(Seq(Byte(s)))
  BY DEF Split
<1>2. ReadOn(s, m, F, E, V, c, k, q)
  BY <1>1, ReadOnHolds
<1>3. SplitTo(s, E, V, c, q, m - c, w)
  BY WalkSplit
<1>4. E \subseteq Nat \ {0} /\ \A e \in E : e \in 1..m /\ s[e] = Newline
  <2>1. EndsOf(s, m, TRUE) = {e \in 1..m : s[e] = Newline}
    BY OpenEnds, Zenon
  <2>2. E \subseteq EndsOf(s, m, TRUE)
    BY DEF Over
  <2>3. 1..m \subseteq Nat \ {0}
    OBVIOUS
  <2> HIDE DEF E
  <2> QED
    BY <2>1, <2>2, <2>3
<1> HIDE DEF E, V
<1>5. PICK record, line, records :
       /\ record \in Nat /\ line \in Nat
       /\ w = [record |-> record, search |-> line, consumed |-> records]
       /\ (line # 0 => record < line) /\ record <= line /\ line <= m - c
       /\ c + record = 0 \/ c + record \in E
       /\ \A f \in E : f <= c + record \/ f >= c + line
       /\ line = 0 \/ s[c + line] = Newline
       /\ \A f \in (c + line + 1)..(c + (m - c)) : s[f] # Newline
       /\ records \in Seq(Seq(Byte(s)))
       /\ Cut(s, E, V, c + record, q \o records)
  BY <1>3, Zenon DEF SplitTo
<1>6. record \in Nat /\ line \in Nat /\ record <= line /\ line <= m - c /\ (line # 0 => record < line)
  BY <1>5, Zenon
<1>7. w.record = record /\ w.search = line /\ w.consumed = records
  BY <1>5
<1> DEFINE d == c + record
           l == line - record
<1>8. /\ d \in Nat /\ d <= m /\ l \in Nat /\ d + l <= m /\ d + l = c + line /\ c + (m - c) = m
      /\ record + 1 \in Nat \ {0} /\ m - c \in Nat /\ record + 1 <= (m - c) + 1 /\ m - c <= m - c
      /\ c + (record + 1) = d + 1 /\ c <= d /\ c <= m
  BY <1>1, <1>6
<1>9. F \subseteq 0..m
  BY <1>1
<1>10. \A e \in E : e <= d
  <2> SUFFICES ASSUME NEW e \in E, ~(e <= d) PROVE FALSE
    OBVIOUS
  <2>1. e \in 1..m /\ s[e] = Newline /\ e \in Nat
    BY <1>4
  <2>2. e >= c + line
    BY <1>5
  <2>3. e \notin (c + line + 1)..m
    BY <1>5, <1>8, <2>1
  <2>4. e = c + line /\ e > c
    <3>1. e \in Nat /\ e <= m /\ ~(e <= c + record)
      BY <2>1
    <3> QED
      BY <1>1, <1>6, <2>2, <2>3, <3>1
  <2>5. Starts(s, m, TRUE, e)
    BY <1>2, <2>4 DEF ReadOn
  <2>6. \A f \in (e + 1)..m : s[f] # Newline
    BY <1>5, <1>8, <2>4
  <2> QED
    BY <2>1, <2>5, <2>6, NoneStarts
<1>11. l = 0 \/ s[d + l] = Newline
  <2>1. line = 0 => l = 0
    BY <1>6
  <2> QED
    BY <1>5, <1>8, <2>1
<1>12. \A e \in (d + l + 1)..m : s[e] # Newline
  BY <1>5, <1>8
<1>13. q \o records \in Seq(Seq(Byte(s)))
  <2>1. ASSUME NEW T, NEW x \in Seq(T), NEW y \in Seq(T) PROVE x \o y \in Seq(T)
    OBVIOUS
  <2>2. records \in Seq(Seq(Byte(s)))
    BY <1>5
  <2> QED
    BY <1>1, <2>1, <2>2
<1>14. Cut(s, E, V, d, q \o records) /\ (d = 0 \/ d \in E)
  BY <1>5
<1> HIDE DEF d, l
<1>15. Split(s, m, F, d, l, q \o records)
  BY <1>8, <1>9, <1>10, <1>11, <1>12, <1>13, <1>14, Zenon DEF Split, E, V
<1>16. Len(p) = m - c
  <2>1. c + 1 \in Nat \ {0} /\ c + 1 <= m + 1 /\ m - (c + 1) + 1 = m - c
    BY <1>1, <1>8
  <2>2. Len(p) = m - (c + 1) + 1
    BY <2>1, PieceFacts
  <2> QED
    BY <2>1, <2>2, Zenon
<1>17. SubSeq(p, record + 1, m - c) = Piece(s, d + 1, m)
  <2>1. SubSeq(p, record + 1, m - c) = Piece(s, c + (record + 1), c + (m - c))
    <3>1. HeldCuts(s, c, m)
      BY <1>1, <1>8, HeldCut
    <3> QED
      BY <1>8, <3>1, Zenon DEF HeldCuts
  <2> QED
    BY <1>8, <2>1, Zenon
<1>18. LeftBehind(p, w) = [buffer |-> Piece(s, d + 1, m), search |-> l]
  BY <1>7, <1>16, <1>17, Zenon DEF LeftBehind, l
<1> QED
  BY <1>7, <1>15, <1>18, Zenon DEF HeldSplit

\* New bytes are read, and fit.
LEMMA ProcessSplit ==
    ASSUME NEW S, NEW s \in Seq(S), NEW n \in Nat, NEW F, NEW r, NEW q, HeldSplit(s, n, F, r, q),
           NEW m \in Nat, n <= m, m <= Len(s), NEW res, res = ProcessBuffer(r, Piece(s, n + 1, m)), ~res.overflow
    PROVE  HeldSplit(s, m, F, res.reader, q \o res.consumed)
<1>1. PICK c, k : r = [buffer |-> Piece(s, c + 1, n), search |-> k] /\ Split(s, n, F, c, k, q)
  BY DEF HeldSplit
<1> DEFINE p == Piece(s, c + 1, m)
           w == Walk(p, k)
<1>2. r.buffer = Piece(s, c + 1, n) /\ r.search = k
  BY <1>1
<1>3. c \in Nat /\ c <= n
  BY <1>1 DEF Split
<1>4. r.buffer \o Piece(s, n + 1, m) = p
  <2>1. c + 1 \in Nat \ {0} /\ c + 1 <= n + 1 /\ n <= m
    BY <1>3
  <2>2. Piece(s, c + 1, n) \o Piece(s, n + 1, m) = p
    BY <2>1, PiecesJoined
  <2> QED
    BY <1>2, <2>2, Zenon
<1>5. res = CheckOverflow(LeftBehind(p, w), w.consumed)
  BY <1>2, <1>4, Zenon DEF ProcessBuffer
<1>6. HeldSplit(s, m, F, LeftBehind(p, w), q \o w.consumed)
  BY <1>1, LeftSplit
<1> HIDE DEF w, p
<1> DEFINE left == LeftBehind(p, w)
<1> HIDE DEF left
<1>7. \/ res = [reader |-> left, consumed |-> w.consumed, overflow |-> FALSE]
      \/ \E x, y : res = [reader |-> x, consumed |-> y, overflow |-> TRUE]
  BY <1>5, Zenon DEF CheckOverflow, left
<1>8. res.reader = left /\ res.consumed = w.consumed
  <2>1. ASSUME NEW t, NEW x, NEW y, NEW z, t = [reader |-> x, consumed |-> y, overflow |-> z]
        PROVE  t.reader = x /\ t.consumed = y /\ t.overflow = z
    BY <2>1
  <2>2. CASE res = [reader |-> left, consumed |-> w.consumed, overflow |-> FALSE]
    BY <2>1, <2>2
  <2>3. ASSUME NEW x, NEW y, res = [reader |-> x, consumed |-> y, overflow |-> TRUE] PROVE FALSE
    <3>1. res.overflow = TRUE
      BY <2>1, <2>3
    <3> QED
      BY <3>1
  <2> QED
    BY <1>7, <2>2, <2>3
<1> QED
  BY <1>6, <1>8, Zenon DEF left

-----------------------------------------------------------------------------
(* Flushes *)

\* One more record ends.
LEMMA CutAfter ==
    ASSUME NEW s, NEW c \in Nat, NEW x \in Nat, c < x, NEW q \in Seq(Seq(Byte(s))),
           NEW E, NEW V, NEW D, NEW W, Cut(s, E, V, c, q), Agree(E, D, c),
           \A e \in 1..c : e \in V <=> e \in W, W \subseteq D, NoneBetween(D, c, x),
           x \in W <=> IsStart(Piece(s, c + 1, x - 1))
    PROVE  /\ Cut(s, D, W, x, q \o ConsumeIfStart(Piece(s, c + 1, x - 1)))
           /\ q \o ConsumeIfStart(Piece(s, c + 1, x - 1)) \in Seq(Seq(Byte(s)))
<1> DEFINE p == Piece(s, c + 1, x - 1)
<1>1. ASSUME NEW e \in 1..c PROVE StartAt(E, e) = StartAt(D, e)
  <2>1. e \in Nat /\ e <= c + 1
    OBVIOUS
  <2> QED
    BY <2>1, SameStarts
<1>2. Cut(s, D, W, c, q)
  BY <1>1, CutSame
<1>3. /\ x - 1 \in Nat /\ c <= x - 1 /\ (x - 1) + 1 = x
      /\ c + 1 \in Nat \ {0} /\ c + 1 <= (x - 1) + 1
  OBVIOUS
<1>4. \A e \in (c + 1)..(x - 1) : e \notin W
  <2> SUFFICES ASSUME NEW e \in (c + 1)..(x - 1), e \in D PROVE FALSE
    OBVIOUS
  <2>1. e <= c \/ e >= x
    BY DEF NoneBetween
  <2> QED
    BY <2>1
<1>5. Cut(s, D, W, x - 1, q)
  BY <1>2, <1>3, <1>4, CutOver
<1>6. /\ x \in W => Cut(s, D, W, x, Append(q, Piece(s, StartAt(D, x), x - 1)))
      /\ x \notin W => Cut(s, D, W, x, q)
  BY <1>3, <1>5, CutNext
<1>7. StartAt(D, x) = c + 1
  BY StartIsAfter
<1>8. p \in Seq(Byte(s))
  BY <1>3, PieceFacts
<1>9. x \in W <=> IsStart(p)
  OBVIOUS
<1>10. x \in W => Cut(s, D, W, x, Append(q, p))
  BY <1>6, <1>7
<1> HIDE DEF p
<1>11. CASE IsStart(p)
  <2>1. ConsumeIfStart(p) = <<p>>
    BY <1>11 DEF ConsumeIfStart
  <2>2. Append(q, p) = q \o <<p>> /\ Append(q, p) \in Seq(Seq(Byte(s)))
    BY <1>8, AppendIsConcat
  <2> QED
    BY <1>9, <1>10, <1>11, <2>1, <2>2 DEF p
<1>12. CASE ~IsStart(p)
  <2>1. ConsumeIfStart(p) = <<>>
    BY <1>12 DEF ConsumeIfStart
  <2>2. q \o <<>> = q
    OBVIOUS
  <2>3. Cut(s, D, W, x, q)
    BY <1>6, <1>9, <1>12
  <2> QED
    BY <2>1, <2>2, <2>3 DEF p
<1> QED
  BY <1>11, <1>12

\* What a flush, or the end, makes of the ends of records: there is another one.
EndsAt(s, n, F, G, o, x) ==
    /\ \A e \in Nat : e \in Over(s, n, G, o) <=> e \in Over(s, n, F, TRUE) \/ e = x
    /\ \A e \in Over(s, n, F, TRUE) : Flushed(s, n, G, o, e) <=> Flushed(s, n, F, TRUE, e)
    /\ Flushed(s, n, G, o, x)

\* The record that ends then.
LEMMA EndAt ==
    ASSUME NEW S, NEW s \in Seq(S), NEW n \in Nat, n <= Len(s), NEW F, NEW c, NEW k, NEW q, Split(s, n, F, c, k, q),
           NEW G, NEW o, NEW x \in Nat, c < x, x <= n + 1, EndsAt(s, n, F, G, o, x)
    PROVE  /\ Cut(s, Over(s, n, G, o), Taken(s, n, G, o), x, q \o ConsumeIfStart(Piece(s, c + 1, x - 1)))
           /\ q \o ConsumeIfStart(Piece(s, c + 1, x - 1)) \in Seq(Seq(Byte(s)))
           /\ \A e \in Over(s, n, G, o) : e <= x
           /\ x \in Over(s, n, G, o)
<1> DEFINE E == Over(s, n, F, TRUE)
           V == Taken(s, n, F, TRUE)
           D == Over(s, n, G, o)
           W == Taken(s, n, G, o)
<1>1. /\ c \in Nat /\ (c = 0 \/ c \in E)
      /\ \A e \in E : e <= c
      /\ q \in Seq(Seq(Byte(s))) /\ Cut(s, E, V, c, q)
  BY DEF Split
<1>2. E \subseteq Nat \ {0} /\ D \subseteq Nat \ {0} /\ W \subseteq D /\ V \subseteq E
  BY OverAreNumbers
<1>3. /\ \A e \in Nat : e \in D <=> e \in E \/ e = x
      /\ \A e \in E : Flushed(s, n, G, o, e) <=> Flushed(s, n, F, TRUE, e)
      /\ Flushed(s, n, G, o, x)
  BY Zenon DEF EndsAt
<1>4. \A e : e \in V <=> e \in E /\ (Flushed(s, n, F, TRUE, e) => Valid(s, E, e))
  BY DEF Taken
<1>5. \A e : e \in W <=> e \in D /\ (Flushed(s, n, G, o, e) => Valid(s, D, e))
  BY DEF Taken
<1> HIDE DEF E, V, D, W
<1>6. Agree(E, D, c)
  <2>1. \A e \in 1..c : e \in Nat /\ e # x
    BY <1>1
  <2>2. \A e \in 1..c : e \in E <=> e \in D
    BY <1>3, <2>1
  <2> QED
    BY <1>2, <2>2, Zenon DEF Agree
<1>7. NoneBetween(D, c, x)
  <2>1. c = 0 \/ c \in D
    BY <1>1, <1>3
  <2>2. ASSUME NEW e \in D PROVE e <= c \/ e >= x
    <3>1. e \in Nat
      BY <1>2
    <3>2. e \in E \/ e = x
      BY <1>3, <3>1
    <3> QED
      BY <1>1, <3>1, <3>2
  <2> QED
    BY <1>2, <2>1, <2>2, Zenon DEF NoneBetween
<1>8. \A e \in 1..c : e \in V <=> e \in W
  <2> SUFFICES ASSUME NEW e \in 1..c PROVE e \in V <=> e \in W
    OBVIOUS
  <2>1. e \in Nat /\ e # x /\ e <= c + 1
    BY <1>1
  <2>2. StartAt(E, e) = StartAt(D, e)
    BY <1>1, <1>6, <2>1, SameStarts
  <2>3. Valid(s, E, e) <=> Valid(s, D, e)
    BY <2>2, Zenon DEF Valid
  <2> QED
    BY <1>3, <1>4, <1>5, <2>1, <2>3
<1>9. x \in D
  BY <1>3
<1>10. x \in W <=> IsStart(Piece(s, c + 1, x - 1))
  <2>1. StartAt(D, x) = c + 1
    BY <1>1, <1>7, StartIsAfter
  <2>2. x \in W <=> TestRecordStart(SubSeq(s, c + 1, x - 1))
    BY <1>3, <1>5, <1>9, <2>1 DEF Valid
  <2>3. c + 1 \in Nat \ {0} /\ x - 1 \in Nat /\ c + 1 <= (x - 1) + 1 /\ x - 1 <= Len(s)
    BY <1>1, ElementsOf
  <2>4. IsStart(Piece(s, c + 1, x - 1)) <=> TestRecordStart(SubSeq(s, c + 1, x - 1))
    BY <2>3, PieceText
  <2> QED
    BY <2>2, <2>4
<1>11. \A e \in D : e <= x
  <2> SUFFICES ASSUME NEW e \in D PROVE e <= x
    OBVIOUS
  <2>1. e \in Nat
    BY <1>2
  <2> QED
    BY <1>1, <1>3, <2>1
<1>12. /\ Cut(s, D, W, x, q \o ConsumeIfStart(Piece(s, c + 1, x - 1)))
       /\ q \o ConsumeIfStart(Piece(s, c + 1, x - 1)) \in Seq(Seq(Byte(s)))
  BY <1>1, <1>2, <1>6, <1>7, <1>8, <1>10, CutAfter
<1> QED
  BY <1>9, <1>11, <1>12 DEF D, W

\* Or there is none.
LEMMA SameEnds ==
    ASSUME NEW s, NEW n, NEW F, NEW G, NEW o,
           \A e : e \in EndsOf(s, n, o) <=> e \in EndsOf(s, n, TRUE),
           \A e \in EndsOf(s, n, TRUE) : Flushed(s, n, G, o, e) <=> Flushed(s, n, F, TRUE, e),
           \A e \in EndsOf(s, n, TRUE) : Starts(s, n, o, e) <=> Starts(s, n, TRUE, e)
    PROVE  Over(s, n, G, o) = Over(s, n, F, TRUE) /\ Taken(s, n, G, o) = Taken(s, n, F, TRUE)
<1> DEFINE E == Over(s, n, F, TRUE)
           D == Over(s, n, G, o)
<1>1. D = E
  BY DEF Over
<1>2. E \subseteq EndsOf(s, n, TRUE)
  BY DEF Over
<1> HIDE DEF D, E
<1>3. {e \in D : Flushed(s, n, G, o, e) => Valid(s, D, e)} = {e \in E : Flushed(s, n, F, TRUE, e) => Valid(s, E, e)}
  BY <1>1, <1>2
<1> QED
  BY <1>1, <1>3, Zenon DEF Taken, D, E

\* What is known of the lines after the last record.
LinesAfter(s, n, F, c, k) ==
    /\ c \in Nat /\ n \in Nat /\ c <= n /\ k \in Nat /\ c + k <= n /\ F \subseteq 0..n
    /\ k # 0 => c + k \in EndsOf(s, n, TRUE)
    /\ \A e \in EndsOf(s, n, TRUE) : e \in 1..n /\ e \in Nat /\ s[e] = Newline /\ e <= c + k
    /\ \A e \in 1..n : s[e] = Newline => e \in EndsOf(s, n, TRUE)
    /\ c # 0 => c \in EndsOf(s, n, TRUE)
    /\ k = 0 /\ c # 0 => Flushed(s, n, F, TRUE, c)
    /\ \A e \in Over(s, n, F, TRUE) : e \in EndsOf(s, n, TRUE) /\ e <= c

\* The last line has been flushed when there is nothing after it.
LEMMA LinesFacts ==
    ASSUME NEW s, NEW n, NEW F, NEW c, NEW k, NEW q, Split(s, n, F, c, k, q)
    PROVE  LinesAfter(s, n, F, c, k)
<1> DEFINE A == EndsOf(s, n, TRUE)
           E == Over(s, n, F, TRUE)
<1>1. /\ c \in Nat /\ n \in Nat /\ c <= n /\ k \in Nat /\ c + k <= n /\ F \subseteq 0..n
      /\ c = 0 \/ c \in E
      /\ \A e \in E : e <= c
      /\ k = 0 \/ s[c + k] = Newline
      /\ \A e \in (c + k + 1)..n : s[e] # Newline
  BY DEF Split
<1>2. A = {e \in 1..n : s[e] = Newline}
  BY OpenEnds, Zenon
<1>3. \A e : e \in E <=> e \in A /\ (Flushed(s, n, F, TRUE, e) \/ Starts(s, n, TRUE, e))
  BY DEF Over
<1> HIDE DEF A, E
<1>4. k # 0 => c + k \in A
  BY <1>1, <1>2
<1>5. ASSUME NEW e \in A PROVE e \in 1..n /\ e \in Nat /\ s[e] = Newline /\ e <= c + k
  <2>1. e \in 1..n /\ s[e] = Newline
    BY <1>2
  <2> QED
    BY <1>1, <2>1
<1>6. c # 0 => c \in A
  BY <1>1, <1>3
<1>7. k = 0 /\ c # 0 => Flushed(s, n, F, TRUE, c)
  <2> SUFFICES ASSUME k = 0, c # 0 PROVE Flushed(s, n, F, TRUE, c)
    OBVIOUS
  <2>1. \A f \in (c + 1)..n : s[f] # Newline
    BY <1>1
  <2>2. ~Starts(s, n, TRUE, c)
    BY <1>1, <2>1, NoneStarts
  <2> QED
    BY <1>1, <1>3, <2>2
<1>8. \A e \in E : e \in A /\ e <= c
  BY <1>1, <1>3
<1>9. \A e \in 1..n : s[e] = Newline => e \in A
  BY <1>2
<1> QED
  BY <1>1, <1>4, <1>5, <1>6, <1>7, <1>8, <1>9, Zenon DEF LinesAfter, A, E

\* A flush where no line waits.
LEMMA NothingFlushed ==
    ASSUME NEW s, NEW n, NEW F, NEW c, NEW q, Split(s, n, F, c, 0, q)
    PROVE  Split(s, n, F \cup {n}, c, 0, q)
<1> DEFINE G == F \cup {n}
<1>1. LinesAfter(s, n, F, c, 0)
  BY LinesFacts
<1>2. ASSUME NEW e \in EndsOf(s, n, TRUE)
      PROVE  Flushed(s, n, G, TRUE, e) <=> Flushed(s, n, F, TRUE, e)
  <2>1. Flushed(s, n, F, TRUE, e) => Flushed(s, n, G, TRUE, e)
    BY DEF Flushed
  <2>2. ASSUME \A f \in EndsOf(s, n, TRUE) : e < f => n < f PROVE Flushed(s, n, F, TRUE, e)
    <3>1. /\ e \in 1..n /\ e <= c + 0 /\ c \in Nat /\ n \in Nat /\ c <= n
          /\ c # 0 => c \in EndsOf(s, n, TRUE) /\ Flushed(s, n, F, TRUE, c)
      BY <1>1, Zenon DEF LinesAfter
    <3>2. c # 0 /\ e <= c /\ ~(n < c)
      BY <3>1
    <3>3. ~(e < c)
      BY <2>2, <3>1, <3>2, Zenon
    <3>4. e = c
      BY <3>1, <3>2, <3>3
    <3> QED
      BY <3>1, <3>2, <3>4, Zenon
  <2>3. Flushed(s, n, G, TRUE, e) => Flushed(s, n, F, TRUE, e)
    BY <2>2, Zenon DEF Flushed
  <2> QED
    BY <2>1, <2>3
<1> HIDE DEF G
<1>3. Over(s, n, G, TRUE) = Over(s, n, F, TRUE) /\ Taken(s, n, G, TRUE) = Taken(s, n, F, TRUE)
  BY <1>2, SameEnds
<1>4. G \subseteq 0..n
  BY <1>1 DEF LinesAfter, G
<1> QED
  BY <1>3, <1>4 DEF Split, G

\* A flush where lines wait, up to the last of them.
LEMMA LinesFlushed ==
    ASSUME NEW S, NEW s \in Seq(S), NEW n, n <= Len(s), NEW F, NEW c, NEW k, k # 0, NEW q, Split(s, n, F, c, k, q)
    PROVE  Split(s, n, F \cup {n}, c + k, 0, q \o ConsumeIfStart(Piece(s, c + 1, (c + k) - 1)))
<1> DEFINE G == F \cup {n}
           x == c + k
           A == EndsOf(s, n, TRUE)
           E == Over(s, n, F, TRUE)
           p == q \o ConsumeIfStart(Piece(s, c + 1, x - 1))
<1>1. LinesAfter(s, n, F, c, k)
  BY LinesFacts
<1>2. /\ n \in Nat /\ c \in Nat /\ x \in Nat /\ c < x /\ x <= n /\ x <= n + 1 /\ x + 0 = x /\ x + 0 <= n /\ 0 \in Nat
      /\ G \subseteq 0..n
  BY <1>1 DEF LinesAfter
<1>3. x \in A /\ \A e \in A : e \in 1..n /\ e <= x
  BY <1>1, Zenon DEF LinesAfter
<1>4. \A e \in E : e \in A /\ e <= c
  BY <1>1, Zenon DEF LinesAfter
<1> HIDE DEF x, A, G, E
<1>5. Flushed(s, n, G, TRUE, x)
  <2>1. \A f \in A : ~(x < f)
    BY <1>2, <1>3
  <2>2. n \in G
    BY DEF G
  <2> QED
    BY <1>2, <2>1, <2>2, Zenon DEF Flushed, A
<1>6. ASSUME NEW e \in A, e # x PROVE Flushed(s, n, G, TRUE, e) <=> Flushed(s, n, F, TRUE, e)
  <2>1. Flushed(s, n, F, TRUE, e) => Flushed(s, n, G, TRUE, e)
    BY DEF Flushed, G
  <2>2. ~(\A f \in EndsOf(s, n, TRUE) : e < f => n < f)
    <3>1. e < x /\ ~(n < x)
      BY <1>2, <1>3, <1>6
    <3> QED
      BY <1>3, <3>1, Zenon DEF A
  <2>3. Flushed(s, n, G, TRUE, e) => Flushed(s, n, F, TRUE, e)
    BY <2>2, Zenon DEF Flushed, G
  <2> QED
    BY <2>1, <2>3
<1>7. EndsAt(s, n, F, G, TRUE, x)
  <2>1. \A e : e \in Over(s, n, F, TRUE) <=> e \in A /\ (Flushed(s, n, F, TRUE, e) \/ Starts(s, n, TRUE, e))
    BY DEF Over, A
  <2>2. \A e : e \in Over(s, n, G, TRUE) <=> e \in A /\ (Flushed(s, n, G, TRUE, e) \/ Starts(s, n, TRUE, e))
    BY DEF Over, A
  <2>3. \A e \in E : e # x
    BY <1>2, <1>4
  <2> QED
    BY <1>3, <1>5, <1>6, <2>1, <2>2, <2>3, Zenon DEF EndsAt, E
<1>8. /\ Cut(s, Over(s, n, G, TRUE), Taken(s, n, G, TRUE), x, p)
      /\ p \in Seq(Seq(Byte(s)))
      /\ \A e \in Over(s, n, G, TRUE) : e <= x
      /\ x \in Over(s, n, G, TRUE)
  BY <1>2, <1>7, EndAt
<1>9. \A e \in (x + 0 + 1)..n : s[e] # Newline
  <2> SUFFICES ASSUME NEW e \in (x + 0 + 1)..n, s[e] = Newline PROVE FALSE
    OBVIOUS
  <2>1. e \in 1..n /\ ~(e <= x)
    BY <1>2
  <2>2. e \in A
    BY <1>1, <2>1 DEF LinesAfter, A
  <2> QED
    BY <1>3, <2>1, <2>2
<1> HIDE DEF p
<1>10. Split(s, n, G, x, 0, p)
  BY <1>2, <1>8, <1>9, Zenon DEF Split
<1>11. p = q \o ConsumeIfStart(Piece(s, c + 1, x - 1))
  BY DEF p
<1>12. x = c + k /\ x - 1 = (c + k) - 1 /\ G = F \cup {n}
  BY DEF G, x
<1> QED
  BY <1>10, <1>11, <1>12, Zenon

\* The reader is flushed.
LEMMA FlushSplit ==
    ASSUME NEW S, NEW s \in Seq(S), NEW n \in Nat, n <= Len(s), NEW F, NEW r, NEW q, HeldSplit(s, n, F, r, q)
    PROVE  HeldSplit(s, n, F \cup {n}, Flush(r).reader, q \o Flush(r).consumed)
<1>1. PICK c, k : r = [buffer |-> Piece(s, c + 1, n), search |-> k] /\ Split(s, n, F, c, k, q)
  BY DEF HeldSplit
<1> DEFINE p == Piece(s, c + 1, n)
           ends == EndsIn(p)
           last == CHOOSE e \in ends : \A f \in ends : f <= e
<1>2. r.buffer = p
  BY <1>1
<1>3. LinesAfter(s, n, F, c, k)
  BY <1>1, LinesFacts
<1>4. /\ c \in Nat /\ c <= n /\ k \in Nat /\ c + k <= n
      /\ c + 1 \in Nat \ {0} /\ c + 1 <= n + 1 /\ n - (c + 1) + 1 = n - c /\ c + (n - c) = n
  BY <1>3 DEF LinesAfter
<1>5. q \in Seq(Seq(Byte(s)))
  BY <1>1 DEF Split
<1>6. Len(p) = n - c
  BY <1>4, PieceFacts
<1>7. \A e : e \in ends <=> e \in 1..(n - c) /\ c + e \in EndsOf(s, n, TRUE)
  <2> TAKE e
  <2>1. e \in ends <=> e \in 1..(n - (c + 1) + 1) /\ s[(c + 1) + e - 1] = Newline
    BY <1>4, PieceEnds
  <2>2. e \in 1..(n - c) => (c + 1) + e - 1 = c + e /\ c + e \in 1..n
    BY <1>4
  <2>3. \A f \in 1..n : f \in EndsOf(s, n, TRUE) <=> s[f] = Newline
    BY <1>3 DEF LinesAfter
  <2> HIDE DEF ends
  <2> QED
    BY <1>4, <2>1, <2>2, <2>3
<1> HIDE DEF ends
<1>8. CASE k = 0
  <2>1. ends = {}
    <3> SUFFICES ASSUME NEW e \in ends PROVE FALSE
      OBVIOUS
    <3>1. e \in 1..(n - c) /\ c + e <= c + k
      BY <1>3, <1>7 DEF LinesAfter
    <3> QED
      BY <1>4, <1>8, <3>1
  <2>2. Flush(r) = [reader |-> r, consumed |-> <<>>, overflow |-> FALSE]
    BY <1>2, <2>1, Zenon DEF Flush, ends
  <2>3. Flush(r).reader = r /\ Flush(r).consumed = <<>>
    BY <2>2
  <2>4. q \o <<>> = q
    BY <1>5
  <2>5. Split(s, n, F \cup {n}, c, 0, q)
    BY <1>1, <1>8, NothingFlushed
  <2> QED
    BY <1>1, <1>8, <2>3, <2>4, <2>5, Zenon DEF HeldSplit
<1>9. CASE k # 0
  <2>1. k \in ends
    <3>1. k \in 1..(n - c)
      BY <1>4, <1>9
    <3>2. c + k \in EndsOf(s, n, TRUE)
      BY <1>3, <1>9, Zenon DEF LinesAfter
    <3> QED
      BY <1>7, <3>1, <3>2
  <2>2. \A f \in ends : f \in Nat /\ f <= k
    <3> SUFFICES ASSUME NEW f \in ends PROVE f \in Nat /\ f <= k
      OBVIOUS
    <3>1. f \in 1..(n - c) /\ c + f <= c + k
      BY <1>3, <1>7 DEF LinesAfter
    <3> QED
      BY <1>4, <3>1
  <2>3. last \in ends /\ \A f \in ends : f <= last
    BY <2>1, <2>2, Zenon
  <2> HIDE DEF last
  <2>4. last = k
    BY <1>4, <2>1, <2>2, <2>3
  <2> DEFINE rest == SubSeq(p, k + 1, Len(p))
             line == SubSeq(p, 1, k - 1)
  <2>5. Flush(r) = [reader |-> [buffer |-> rest, search |-> 0], consumed |-> ConsumeIfStart(line), overflow |-> FALSE]
    BY <1>2, <2>1, <2>4, Zenon DEF Flush, ends, last
  <2>6. Flush(r).reader = [buffer |-> rest, search |-> 0] /\ Flush(r).consumed = ConsumeIfStart(line)
    BY <2>5
  <2>7. /\ 1 \in Nat \ {0} /\ k - 1 \in Nat /\ 1 <= (k - 1) + 1 /\ k - 1 <= n - c
        /\ k + 1 \in Nat \ {0} /\ n - c \in Nat /\ k + 1 <= (n - c) + 1 /\ n - c <= n - c
        /\ c + (k + 1) = (c + k) + 1 /\ c + (k - 1) = (c + k) - 1
    BY <1>4, <1>9
  <2>8. HeldCuts(s, c, n)
    BY <1>4, HeldCut
  <2>9. rest = Piece(s, (c + k) + 1, n)
    <3>1. SubSeq(p, k + 1, n - c) = Piece(s, c + (k + 1), c + (n - c))
      BY <2>7, <2>8, Zenon DEF HeldCuts
    <3> QED
      BY <1>4, <1>6, <2>7, <3>1, Zenon
  <2>10. line = Piece(s, c + 1, (c + k) - 1)
    <3>1. line = Piece(s, c + 1, c + (k - 1))
      BY <2>7, <2>8, Zenon DEF HeldCuts
    <3> QED
      BY <2>7, <3>1, Zenon
  <2>11. Split(s, n, F \cup {n}, c + k, 0, q \o ConsumeIfStart(Piece(s, c + 1, (c + k) - 1)))
    BY <1>1, <1>9, LinesFlushed
  <2> HIDE DEF rest, line
  <2> QED
    BY <2>6, <2>9, <2>10, <2>11, Zenon DEF HeldSplit
<1> QED
  BY <1>8, <1>9

\* The end of the stream where nothing is held.
LEMMA NothingClosed ==
    ASSUME NEW s, NEW n, NEW F, NEW q, Split(s, n, F, n, 0, q), n # 0 => s[n] = Newline
    PROVE  Cut(s, Over(s, n, F, FALSE), Taken(s, n, F, FALSE), n + 1, q)
<1> DEFINE A == EndsOf(s, n, TRUE)
           E == Over(s, n, F, TRUE)
           V == Taken(s, n, F, TRUE)
<1>1. LinesAfter(s, n, F, n, 0)
  BY LinesFacts
<1>2. /\ n \in Nat /\ (\A e \in A : e \in 1..n)
      /\ n # 0 => Flushed(s, n, F, TRUE, n)
  BY <1>1, Zenon DEF LinesAfter
<1>3. EndsOf(s, n, FALSE) = A
  <2>1. A = {e \in 1..n : s[e] = Newline}
    BY OpenEnds, Zenon
  <2>2. ~(n > 0 /\ s[n] # Newline)
    BY <1>2
  <2>3. EndsOf(s, n, FALSE) = {e \in 1..n : s[e] = Newline} \cup {}
    BY <2>2, Zenon DEF EndsOf
  <2> QED
    BY <2>1, <2>3
<1> HIDE DEF A
<1>4. ASSUME NEW e \in A PROVE Flushed(s, n, F, FALSE, e) <=> Flushed(s, n, F, TRUE, e)
  <2>1. Flushed(s, n, F, TRUE, e) => Flushed(s, n, F, FALSE, e)
    BY <1>3 DEF Flushed, A
  <2>2. ASSUME \A f \in A : f <= e PROVE Flushed(s, n, F, TRUE, e)
    <3>1. e \in 1..n /\ n # 0
      BY <1>2
    <3>2. n \in A
      BY <1>1, <3>1, Zenon DEF LinesAfter, A
    <3>3. e = n
      BY <1>2, <2>2, <3>1, <3>2
    <3> QED
      BY <1>2, <3>1, <3>3
  <2>3. Flushed(s, n, F, FALSE, e) => Flushed(s, n, F, TRUE, e)
    BY <1>3, <2>2, Zenon DEF Flushed, A
  <2> QED
    BY <2>1, <2>3
<1>5. \A e \in A : Starts(s, n, FALSE, e) <=> Starts(s, n, TRUE, e)
  BY <1>3, Zenon DEF Starts, A
<1>6. Over(s, n, F, FALSE) = E /\ Taken(s, n, F, FALSE) = V
  BY <1>3, <1>4, <1>5, SameEnds DEF A
<1>7. Cut(s, E, V, n, q) /\ \A e \in E : e <= n
  BY DEF Split
<1>8. V \subseteq E /\ E \subseteq Nat \ {0}
  BY <1>2, OverAreNumbers
<1> HIDE DEF E, V
<1>9. /\ n + 1 \in Nat /\ n <= n + 1
      /\ \A e \in (n + 1)..(n + 1) : e \notin V
  BY <1>2, <1>7, <1>8
<1>10. Cut(s, E, V, n + 1, q)
  BY <1>2, <1>7, <1>9, CutOver
<1> QED
  BY <1>6, <1>10 DEF E, V

\* The end of the stream after a line.
LEMMA LineClosed ==
    ASSUME NEW S, NEW s \in Seq(S), NEW n, n <= Len(s), NEW F, NEW c, NEW k, NEW q, Split(s, n, F, c, k, q),
           c < n, s[n] = Newline
    PROVE  Cut(s, Over(s, n, F, FALSE), Taken(s, n, F, FALSE), n + 1, q \o ConsumeIfStart(Piece(s, c + 1, n - 1)))
<1> DEFINE A == EndsOf(s, n, TRUE)
           E == Over(s, n, F, TRUE)
           D == Over(s, n, F, FALSE)
           W == Taken(s, n, F, FALSE)
<1>1. LinesAfter(s, n, F, c, k)
  BY LinesFacts
<1>2. /\ n \in Nat /\ c \in Nat /\ \A e \in A : e \in 1..n
  BY <1>1, Zenon DEF LinesAfter
<1>3. n \in A
  <2>1. n \in 1..n
    BY <1>2
  <2> QED
    BY <1>1, <2>1, Zenon DEF LinesAfter
<1>4. \A e \in E : e \in A /\ e <= c
  BY <1>1, Zenon DEF LinesAfter
<1>5. EndsOf(s, n, FALSE) = A
  <2>1. A = {e \in 1..n : s[e] = Newline}
    BY OpenEnds, Zenon
  <2>2. EndsOf(s, n, FALSE) = {e \in 1..n : s[e] = Newline} \cup {}
    BY Zenon DEF EndsOf
  <2> QED
    BY <2>1, <2>2
<1>6. \A e : e \in E <=> e \in A /\ (Flushed(s, n, F, TRUE, e) \/ Starts(s, n, TRUE, e))
  BY DEF Over
<1>7. \A e : e \in D <=> e \in A /\ (Flushed(s, n, F, FALSE, e) \/ Starts(s, n, FALSE, e))
  BY <1>5 DEF Over
<1> HIDE DEF A, E, D
<1>8. \A e \in A : Starts(s, n, FALSE, e) <=> Starts(s, n, TRUE, e)
  BY <1>5, Zenon DEF Starts, A
<1>9. Flushed(s, n, F, FALSE, n)
  <2>1. \A e \in A : e <= n
    BY <1>2
  <2> QED
    BY <1>5, <2>1, Zenon DEF Flushed
<1>10. ASSUME NEW e \in A, e # n PROVE Flushed(s, n, F, FALSE, e) <=> Flushed(s, n, F, TRUE, e)
  <2>1. Flushed(s, n, F, TRUE, e) => Flushed(s, n, F, FALSE, e)
    BY <1>5 DEF Flushed, A
  <2>2. ~(\A f \in A : f <= e)
    <3>1. ~(n <= e)
      BY <1>2, <1>10
    <3> QED
      BY <1>3, <3>1
  <2>3. Flushed(s, n, F, FALSE, e) => Flushed(s, n, F, TRUE, e)
    BY <1>5, <2>2, Zenon DEF Flushed, A
  <2> QED
    BY <2>1, <2>3
<1>11. EndsAt(s, n, F, F, FALSE, n)
  <2>1. \A e \in E : e # n
    BY <1>2, <1>4
  <2>2. \A e \in Nat : e \in D <=> e \in E \/ e = n
    BY <1>3, <1>6, <1>7, <1>8, <1>9, <1>10
  <2>3. \A e \in E : Flushed(s, n, F, FALSE, e) <=> Flushed(s, n, F, TRUE, e)
    BY <1>4, <1>10, <2>1
  <2> QED
    BY <1>9, <2>2, <2>3, Zenon DEF EndsAt, D, E
<1>12. n <= n + 1 /\ n + 1 \in Nat
  BY <1>2
<1> DEFINE p == q \o ConsumeIfStart(Piece(s, c + 1, n - 1))
<1>13. /\ Cut(s, Over(s, n, F, FALSE), Taken(s, n, F, FALSE), n, p)
       /\ \A e \in Over(s, n, F, FALSE) : e <= n
  BY <1>2, <1>11, <1>12, EndAt
<1>14. W \subseteq D /\ D \subseteq Nat \ {0}
  BY <1>2, OverAreNumbers DEF D
<1> HIDE DEF W, p
<1>15. \A e \in (n + 1)..(n + 1) : e \notin W
  <2>1. \A e \in D : e <= n
    BY <1>13, Zenon DEF D
  <2> QED
    BY <1>2, <1>14, <2>1
<1>16. Cut(s, D, W, n, p)
  BY <1>13 DEF D, W
<1>17. Cut(s, D, W, n + 1, p)
  BY <1>2, <1>12, <1>15, <1>16, CutOver
<1> QED
  BY <1>17 DEF D, W, p

\* The end of the stream within a line.
LEMMA RestClosed ==
    ASSUME NEW S, NEW s \in Seq(S), NEW n, n <= Len(s), NEW F, NEW c, NEW k, NEW q, Split(s, n, F, c, k, q),
           c < n, s[n] # Newline
    PROVE  Cut(s, Over(s, n, F, FALSE), Taken(s, n, F, FALSE), n + 1, q \o ConsumeIfStart(Piece(s, c + 1, n)))
<1> DEFINE A == EndsOf(s, n, TRUE)
           B == EndsOf(s, n, FALSE)
           E == Over(s, n, F, TRUE)
           D == Over(s, n, F, FALSE)
           x == n + 1
<1>1. LinesAfter(s, n, F, c, k)
  BY LinesFacts
<1>2. /\ n \in Nat /\ c \in Nat /\ F \subseteq 0..n /\ \A e \in A : e \in 1..n
  BY <1>1, Zenon DEF LinesAfter
<1>3. \A e \in E : e \in A /\ e <= c
  BY <1>1, Zenon DEF LinesAfter
<1>4. B = A \cup {x}
  <2>1. A = {e \in 1..n : s[e] = Newline}
    BY OpenEnds, Zenon
  <2>2. n > 0
    BY <1>2
  <2>3. B = {e \in 1..n : s[e] = Newline} \cup {x}
    BY <2>2, Zenon DEF EndsOf
  <2> QED
    BY <2>1, <2>3
<1>5. \A e : e \in E <=> e \in A /\ (Flushed(s, n, F, TRUE, e) \/ Starts(s, n, TRUE, e))
  BY DEF Over
<1>6. \A e : e \in D <=> e \in B /\ (Flushed(s, n, F, FALSE, e) \/ Starts(s, n, FALSE, e))
  BY DEF Over
<1> HIDE DEF A, B, E, D
<1>7. \A e \in A : e \in Nat /\ e <= n /\ ~(x <= e) /\ e # x /\ e <= x
  BY <1>2
<1>8. x \in Nat /\ c < x /\ x <= n + 1 /\ x - 1 = n /\ ~(x <= n)
  BY <1>2
<1> HIDE DEF x
<1>9. ASSUME NEW e \in A PROVE Starts(s, n, FALSE, e) <=> Starts(s, n, TRUE, e)
  <2>1. ASSUME NEW f \in A
        PROVE  (\A g \in B : e < g => f <= g) <=> (\A g \in A : e < g => f <= g)
    BY <1>4, <1>7
  <2>2. \A f \in B : f <= n => f \in A
    BY <1>4, <1>8
  <2>3. \A f \in A : f \in B
    BY <1>4
  <2> QED
    BY <2>1, <2>2, <2>3, Zenon DEF Starts, A, B
<1>10. Flushed(s, n, F, FALSE, x)
  <2>1. \A e \in B : e <= x
    BY <1>4, <1>7, <1>8
  <2> QED
    BY <2>1, Zenon DEF Flushed, B
<1>11. ASSUME NEW e \in A PROVE Flushed(s, n, F, FALSE, e) <=> Flushed(s, n, F, TRUE, e)
  <2>1. ASSUME NEW p \in F
        PROVE  (\A f \in B : e < f => p < f) <=> (\A f \in A : e < f => p < f)
    <3>1. p < x
      BY <1>2 DEF x
    <3> QED
      BY <1>4, <3>1
  <2>2. ~(\A f \in B : f <= e)
    BY <1>4, <1>7
  <2> QED
    BY <2>1, <2>2, Zenon DEF Flushed, A, B
<1>12. EndsAt(s, n, F, F, FALSE, x)
  <2>1. \A e \in Nat : e \in D <=> e \in E \/ e = x
    BY <1>4, <1>5, <1>6, <1>7, <1>9, <1>10, <1>11
  <2>2. \A e \in E : Flushed(s, n, F, FALSE, e) <=> Flushed(s, n, F, TRUE, e)
    BY <1>3, <1>11
  <2> QED
    BY <1>10, <2>1, <2>2, Zenon DEF EndsAt, D, E
<1>13. Cut(s, Over(s, n, F, FALSE), Taken(s, n, F, FALSE), x, q \o ConsumeIfStart(Piece(s, c + 1, x - 1)))
  BY <1>2, <1>8, <1>12, EndAt
<1> QED
  BY <1>8, <1>13 DEF x

\* All that is left is flushed.
LEMMA CloseSplit ==
    ASSUME NEW S, NEW s \in Seq(S), NEW n \in Nat, n <= Len(s), NEW F, NEW r, NEW q, HeldSplit(s, n, F, r, q)
    PROVE  Cut(s, Over(s, n, F, FALSE), Taken(s, n, F, FALSE), n + 1, q \o FlushAll(r).consumed)
<1>1. PICK c, k : r = [buffer |-> Piece(s, c + 1, n), search |-> k] /\ Split(s, n, F, c, k, q)
  BY DEF HeldSplit
<1> DEFINE p == Piece(s, c + 1, n)
           m == n - c
           cut == IF m \in EndsIn(p) THEN SubSeq(p, 1, m - 1) ELSE p
<1>2. r.buffer = p
  BY <1>1
<1>3. LinesAfter(s, n, F, c, k)
  BY <1>1, LinesFacts
<1>4. c \in Nat /\ c <= n /\ k \in Nat /\ c + k <= n /\ q \in Seq(Seq(Byte(s)))
  <2>1. q \in Seq(Seq(Byte(s)))
    BY <1>1 DEF Split
  <2> QED
    BY <1>3, <2>1, Zenon DEF LinesAfter
<1>5. c + 1 \in Nat \ {0} /\ c + 1 <= n + 1 /\ n - (c + 1) + 1 = m /\ m \in Nat
  BY <1>4
<1>6. p \in Seq(Byte(s)) /\ Len(p) = m
  BY <1>5, PieceFacts
<1>7. FlushAll(r) = [reader |-> NewReader, consumed |-> ConsumeIfStart(cut), overflow |-> FALSE]
  BY <1>2, <1>6, Zenon DEF FlushAll
<1>8. FlushAll(r).consumed = ConsumeIfStart(cut)
  BY <1>7
<1>9. m \in EndsIn(p) <=> m # 0 /\ s[n] = Newline
  <2>1. m \in EndsIn(p) <=> m \in 1..(n - (c + 1) + 1) /\ s[(c + 1) + m - 1] = Newline
    BY <1>5, PieceEnds
  <2>2. (m \in 1..m <=> m # 0) /\ (c + 1) + m - 1 = n
    BY <1>4, <1>5
  <2> QED
    BY <1>5, <2>1, <2>2
<1>10. CASE c = n
  <2>1. m = 0 /\ k = 0
    BY <1>4, <1>10
  <2>2. p = <<>>
    <3> HIDE DEF p
    <3> QED
      BY <1>6, <2>1
  <2>3. cut = p
    BY <1>9, <2>1
  <2>4. ConsumeIfStart(<<>>) = <<>>
    <3>1. c + 1 <= Len(s) + 1 /\ c <= Len(s)
      BY <1>10
    <3>2. IsStart(p) => p # <<>>
      BY <1>5, PieceText
    <3> QED
      BY <2>2, <3>2 DEF ConsumeIfStart
  <2>5. q \o <<>> = q
    BY <1>4
  <2>6. n # 0 => s[n] = Newline
    <3>1. c # 0 => c \in EndsOf(s, n, TRUE)
      BY <1>3, Zenon DEF LinesAfter
    <3>2. \A e \in EndsOf(s, n, TRUE) : s[e] = Newline
      BY <1>3, Zenon DEF LinesAfter
    <3> QED
      BY <1>10, <3>1, <3>2
  <2>7. Split(s, n, F, n, 0, q)
    BY <1>1, <1>10, <2>1
  <2>8. Cut(s, Over(s, n, F, FALSE), Taken(s, n, F, FALSE), n + 1, q)
    BY <2>6, <2>7, NothingClosed
  <2> QED
    BY <1>8, <2>2, <2>3, <2>4, <2>5, <2>8, Zenon
<1>11. CASE c # n /\ s[n] = Newline
  <2>1. m # 0 /\ c < n
    BY <1>4, <1>11
  <2>2. cut = SubSeq(p, 1, m - 1)
    BY <1>9, <1>11, <2>1, Zenon
  <2>3. /\ 1 \in Nat \ {0} /\ m - 1 \in Nat /\ 1 <= (m - 1) + 1 /\ m - 1 <= n - c
        /\ c + (m - 1) = n - 1
    BY <1>4, <1>5, <2>1
  <2>4. SubSeq(p, 1, m - 1) = Piece(s, c + 1, c + (m - 1))
    <3>1. HeldCuts(s, c, n)
      BY <1>4, HeldCut
    <3> HIDE DEF m
    <3> QED
      BY <2>3, <3>1, Zenon DEF HeldCuts
  <2>5. Cut(s, Over(s, n, F, FALSE), Taken(s, n, F, FALSE), n + 1, q \o ConsumeIfStart(Piece(s, c + 1, n - 1)))
    BY <1>1, <1>11, <2>1, LineClosed
  <2> HIDE DEF cut, p, m
  <2> QED
    BY <1>8, <2>2, <2>3, <2>4, <2>5, Zenon
<1>12. CASE c # n /\ s[n] # Newline
  <2>1. c < n
    BY <1>4, <1>12
  <2>2. cut = p
    BY <1>9, <1>12, Zenon
  <2>3. Cut(s, Over(s, n, F, FALSE), Taken(s, n, F, FALSE), n + 1, q \o ConsumeIfStart(p))
    BY <1>1, <1>12, <2>1, RestClosed
  <2> HIDE DEF cut, p
  <2> QED
    BY <1>8, <2>2, <2>3, Zenon
<1> QED
  BY <1>10, <1>11, <1>12

-----------------------------------------------------------------------------
(* The records of a connection *)

\* Three sequences can be joined in two ways.
JoinsAlike(q, r, t) == (q \o r) \o t = q \o (r \o t)

\* They are the same.
LEMMA JoinedAlike ==
    ASSUME NEW T, NEW q \in Seq(T), NEW r \in Seq(T), NEW t \in Seq(T)
    PROVE  JoinsAlike(q, r, t)
  BY ConcatAssociative DEF JoinsAlike

\* The definitions of SyslogInput are those above.
LEMMA EndsAreThese ==
    /\ LineEnds = EndsOf(stream, received, open)
    /\ RecordEnds = Over(stream, received, flushes, open)
    /\ \A e : StartOfRecord(e) = StartAt(RecordEnds, e)
    /\ \A e : IsConsumed(e) <=> e \in Taken(stream, received, flushes, open)
<1>1. LineEnds = EndsOf(stream, received, open)
  BY Zenon DEF LineEnds, EndsOf
<1>2. \A e : FlushedAfter(e) <=> Flushed(stream, received, flushes, open, e)
  BY <1>1, Zenon DEF FlushedAfter, Flushed
<1>3. \A e : StartsAfter(e) <=> Starts(stream, received, open, e)
  BY <1>1, Zenon DEF StartsAfter, Starts
<1>4. RecordEnds = Over(stream, received, flushes, open)
  BY <1>1, <1>2, <1>3 DEF RecordEnds, Over
<1>5. \A e : StartOfRecord(e) = StartAt(RecordEnds, e)
  BY Zenon DEF StartOfRecord, StartAt
<1>6. ASSUME NEW e PROVE IsConsumed(e) <=> e \in Taken(stream, received, flushes, open)
  <2>1. e \in Taken(stream, received, flushes, open) <=>
          /\ e \in Over(stream, received, flushes, open)
          /\ Flushed(stream, received, flushes, open, e) => Valid(stream, Over(stream, received, flushes, open), e)
    BY Zenon DEF Taken
  <2> QED
    BY <1>2, <1>4, <1>5, <2>1, Zenon DEF IsConsumed, Valid
<1> QED
  BY <1>1, <1>4, <1>5, <1>6

\* The function that ExpectedRecords takes its value from.
Expecting(f) ==
    f = [e \in 0..(received + 1) |->
            IF e = 0 THEN <<>>
            ELSE IF IsConsumed(e) THEN Append(f[e - 1], Bytes(StartOfRecord(e), e - 1)) ELSE f[e - 1]]

\* The records that are cut in this way are those expected.
LEMMA ExpectedIsCut ==
    ASSUME received \in Nat, NEW q,
           Cut(stream, RecordEnds, Taken(stream, received, flushes, open), received + 1, q)
    PROVE  q = ExpectedRecords
<1> DEFINE V == Taken(stream, received, flushes, open)
           n == received + 1
           A(f, e) == IF e = 0 THEN <<>>
                      ELSE IF IsConsumed(e) THEN Append(f[e - 1], Bytes(StartOfRecord(e), e - 1)) ELSE f[e - 1]
           B(f, e) == IF e = 0 THEN <<>>
                      ELSE IF e \in V THEN Append(f[e - 1], Piece(stream, StartAt(RecordEnds, e), e - 1)) ELSE f[e - 1]
<1>1. ExpectedRecords = (CHOOSE f : Expecting(f))[n]
  BY Zenon DEF ExpectedRecords, Expecting
<1>2. ASSUME NEW f, NEW e PROVE A(f, e) = B(f, e)
  <2>1. IsConsumed(e) <=> e \in V
    BY EndsAreThese
  <2>2. Bytes(StartOfRecord(e), e - 1) = Piece(stream, StartAt(RecordEnds, e), e - 1)
    <3>1. StartOfRecord(e) = StartAt(RecordEnds, e)
      BY EndsAreThese
    <3> QED
      BY <3>1, BytesArePieces, Zenon
  <2> QED
    BY <2>1, <2>2, Zenon
<1> HIDE DEF V
<1>3. ASSUME NEW f PROVE Expecting(f) <=> Cutting(stream, RecordEnds, V, f, n)
  <2>1. [e \in 0..n |-> A(f, e)] = [e \in 0..n |-> B(f, e)]
    <3>1. \A e \in 0..n : A(f, e) = B(f, e)
      BY <1>2
    <3> HIDE DEF A, B
    <3> QED
      BY <3>1
  <2> QED
    BY <2>1, Zenon DEF Expecting, Cutting
<1>4. PICK g : Cutting(stream, RecordEnds, V, g, n) /\ g[n] = q
  BY DEF Cut, V
<1> DEFINE f == CHOOSE f : Expecting(f)
<1>5. Expecting(f)
  <2>1. \E h : Expecting(h)
    BY <1>3, <1>4
  <2> QED
    BY <2>1, Zenon
<1> HIDE DEF f
<1>6. Cutting(stream, RecordEnds, V, f, n)
  BY <1>3, <1>5
<1>7. f[n] = g[n]
  <2>1. n \in Nat
    OBVIOUS
  <2> HIDE DEF n
  <2> QED
    BY <1>4, <1>6, <2>1, CutIsUnique
<1> QED
  BY <1>1, <1>4, <1>7, Zenon DEF f

\* Unless the buffer has overflowed, what has been consumed are the records that have ended.
SplitInv ==
    /\ open \in BOOLEAN
    /\ ~overflowed /\ ~panicked =>
          IF open THEN HeldSplit(stream, received, flushes, reader, consumed)
          ELSE Cut(stream, Over(stream, received, flushes, FALSE), Taken(stream, received, flushes, FALSE),
                   received + 1, consumed)

\* Nothing has at first.
LEMMA InitSplit == Init => SplitInv
<1> SUFFICES ASSUME Init PROVE SplitInv
  OBVIOUS
<1>1. received = 0 /\ reader = NewReader /\ open = TRUE /\ consumed = <<>> /\ flushes = {}
  BY DEF Init
<1>2. Held(stream, 0, 0, NewReader)
  BY NothingHeld
<1>3. NewReader = [buffer |-> Piece(stream, 0 + 1, 0), search |-> 0]
  <2>1. PICK k \in 0..(0 - 0) : NewReader = [buffer |-> Piece(stream, 0 + 1, 0), search |-> k]
    BY <1>2, Zenon DEF Held
  <2>2. k = 0
    OBVIOUS
  <2> QED
    BY <2>1, <2>2
<1>4. Split(stream, 0, {}, 0, 0, <<>>)
  <2>1. EndsOf(stream, 0, TRUE) = {}
    <3>1. EndsOf(stream, 0, TRUE) = {e \in 1..0 : stream[e] = Newline}
      BY OpenEnds, Zenon
    <3>2. 1..0 = {}
      OBVIOUS
    <3> QED
      BY <3>1, <3>2
  <2>2. \A e : e \notin Over(stream, 0, {}, TRUE)
    BY <2>1, Zenon DEF Over
  <2>3. /\ 0 \in Nat /\ 0 <= 0 /\ 0 + 0 <= 0 /\ {} \subseteq 0..0
        /\ \A e \in (0 + 0 + 1)..0 : stream[e] # Newline
        /\ <<>> \in Seq(Seq(Byte(stream)))
    OBVIOUS
  <2>4. Cut(stream, Over(stream, 0, {}, TRUE), Taken(stream, 0, {}, TRUE), 0, <<>>)
    BY CutNone, Zenon
  <2> QED
    BY <2>2, <2>3, <2>4, Zenon DEF Split
<1>5. HeldSplit(stream, 0, {}, NewReader, <<>>)
  BY <1>3, <1>4, Zenon DEF HeldSplit
<1> QED
  BY <1>1, <1>5 DEF SplitInv

\* Bytes are read.
LEMMA ReadBytesSplit ==
    ASSUME InputInv, SplitInv, NEW n \in Nat, received + n <= Len(stream), ReadBytes(n), ~panicked'
    PROVE  SplitInv'
<1> DEFINE read == ProcessBuffer(reader, Bytes(received + 1, received + n))
           flushed == IF FlushIsDue THEN Flush(read.reader) ELSE [read EXCEPT !.consumed = <<>>]
           m == received + n
<1>1. /\ received' = m /\ reader' = flushed.reader
      /\ consumed' = consumed \o (read.consumed \o flushed.consumed)
      /\ flushes' = IF FlushIsDue THEN flushes \cup {m} ELSE flushes
      /\ overflowed' = (overflowed \/ read.overflow)
      /\ stream' = stream /\ open' = open /\ open /\ ~panicked
  <2>1. AcceptAll(read.consumed \o flushed.consumed)
    BY Zenon DEF ReadBytes
  <2> HIDE DEF read, flushed
  <2>2. consumed' = consumed \o (read.consumed \o flushed.consumed)
    BY <2>1, AcceptedWhole, Zenon DEF Accepts
  <2> QED
    BY <2>2, Zenon DEF ReadBytes, read, flushed
<1>2. stream \in Seq(ToSet(stream)) /\ received \in Nat /\ m \in Nat /\ received <= m /\ m <= Len(stream)
  BY DEF InputInv, StreamInv
<1> SUFFICES ASSUME ~overflowed' PROVE HeldSplit(stream, m, flushes', flushed.reader, consumed')
  <2>1. open = TRUE
    BY <1>1 DEF SplitInv
  <2> HIDE DEF flushed, m
  <2> QED
    BY <1>1, <2>1, Zenon DEF SplitInv
<1>3. ~overflowed /\ ~read.overflow
  BY <1>1, Zenon
<1>4. HeldSplit(stream, received, flushes, reader, consumed)
  BY <1>1, <1>3, Zenon DEF SplitInv
<1>5. PICK c \in Nat : Held(stream, c, received, reader) /\ PiecesIn(stream, consumed, 0, c)
  BY DEF InputInv, ReaderInv
<1>6. read = ProcessBuffer(reader, Piece(stream, received + 1, m))
  BY BytesArePieces, Zenon
<1> HIDE DEF read, m
<1>7. Left(stream, c, m, read)
  BY <1>2, <1>5, <1>6, ProcessFacts
<1>8. PICK d \in Nat : Held(stream, d, m, read.reader) /\ PiecesIn(stream, read.consumed, c, d)
  BY <1>7 DEF Left
<1>9. HeldSplit(stream, m, flushes, read.reader, consumed \o read.consumed)
  BY <1>2, <1>3, <1>4, <1>6, ProcessSplit
<1>10. consumed \in Seq(Seq(Byte(stream))) /\ read.consumed \in Seq(Seq(Byte(stream)))
  BY <1>5, <1>8, Zenon DEF PiecesIn
<1>11. CASE FlushIsDue
  <2>1. flushed = Flush(read.reader) /\ flushes' = flushes \cup {m}
    BY <1>1, <1>11, Zenon
  <2>2. HeldSplit(stream, m, flushes \cup {m}, Flush(read.reader).reader,
                  (consumed \o read.consumed) \o Flush(read.reader).consumed)
    BY <1>2, <1>9, FlushSplit
  <2>3. Flush(read.reader).consumed \in Seq(Seq(Byte(stream)))
    <3>1. Left(stream, d, m, Flush(read.reader))
      BY <1>2, <1>8, FlushFacts
    <3> QED
      BY <3>1, Zenon DEF Left, PiecesIn
  <2>4. JoinsAlike(consumed, read.consumed, Flush(read.reader).consumed)
    BY <1>10, <2>3, JoinedAlike
  <2> HIDE DEF flushed
  <2> QED
    BY <1>1, <2>1, <2>2, <2>4, Zenon DEF JoinsAlike
<1>12. CASE ~FlushIsDue
  <2>1. flushed = [read EXCEPT !.consumed = <<>>] /\ flushes' = flushes
    BY <1>1, <1>12, Zenon
  <2>2. \E x, y, z : read = [reader |-> x, consumed |-> y, overflow |-> z]
    BY Zenon DEF read, ProcessBuffer, CheckOverflow
  <2>3. ASSUME NEW x, NEW y, NEW z, NEW t, t = [reader |-> x, consumed |-> y, overflow |-> z]
        PROVE  [t EXCEPT !.consumed = <<>>].reader = t.reader /\ [t EXCEPT !.consumed = <<>>].consumed = <<>>
    BY <2>3
  <2>4. flushed.reader = read.reader /\ flushed.consumed = <<>>
    BY <2>1, <2>2, <2>3
  <2> HIDE DEF flushed
  <2>5. read.consumed \o <<>> = read.consumed
    BY <1>10
  <2> QED
    BY <1>1, <1>9, <2>1, <2>4, <2>5, Zenon
<1> QED
  BY <1>11, <1>12

\* The deadline passes.
LEMMA ReadTimesOutSplit ==
    ASSUME InputInv, SplitInv, ReadTimesOut, ~panicked'
    PROVE  SplitInv'
<1>1. /\ reader' = Flush(reader).reader /\ consumed' = consumed \o Flush(reader).consumed
      /\ flushes' = flushes \cup {received}
      /\ stream' = stream /\ received' = received /\ open' = open /\ open /\ overflowed' = overflowed
      /\ ~panicked
  <2>1. consumed' = consumed \o Flush(reader).consumed
    BY AcceptedWhole, Zenon DEF ReadTimesOut, Accepts
  <2> QED
    BY <2>1, Zenon DEF ReadTimesOut
<1>2. stream \in Seq(ToSet(stream)) /\ received \in Nat /\ received <= Len(stream)
  BY DEF InputInv, StreamInv
<1>3. open = TRUE
  BY <1>1 DEF SplitInv
<1> SUFFICES ASSUME ~overflowed PROVE HeldSplit(stream, received, flushes', reader', consumed')
  BY <1>1, <1>3, Zenon DEF SplitInv
<1>4. HeldSplit(stream, received, flushes, reader, consumed)
  BY <1>1, Zenon DEF SplitInv
<1>5. HeldSplit(stream, received, flushes \cup {received}, Flush(reader).reader, consumed \o Flush(reader).consumed)
  BY <1>2, <1>4, FlushSplit
<1> QED
  BY <1>1, <1>5, Zenon

\* The connection is closed.
LEMMA ReadFailsSplit ==
    ASSUME InputInv, SplitInv, ReadFails, ~panicked'
    PROVE  SplitInv'
<1>1. /\ consumed' = consumed \o FlushAll(reader).consumed /\ flushes' = flushes
      /\ stream' = stream /\ received' = received /\ open' = FALSE /\ open /\ overflowed' = overflowed
      /\ ~panicked
  <2>1. consumed' = consumed \o FlushAll(reader).consumed
    BY AcceptedWhole, Zenon DEF ReadFails, Accepts
  <2> QED
    BY <2>1, Zenon DEF ReadFails
<1>2. stream \in Seq(ToSet(stream)) /\ received \in Nat /\ received <= Len(stream)
  BY DEF InputInv, StreamInv
<1> SUFFICES ASSUME ~overflowed
             PROVE  Cut(stream, Over(stream, received, flushes, FALSE), Taken(stream, received, flushes, FALSE),
                        received + 1, consumed \o FlushAll(reader).consumed)
  BY <1>1, Zenon DEF SplitInv
<1>3. HeldSplit(stream, received, flushes, reader, consumed)
  BY <1>1, Zenon DEF SplitInv
<1> QED
  BY <1>2, <1>3, CloseSplit

\* It is kept by every step.
LEMMA NextSplit == InputInv /\ SplitInv /\ [Next]_vars => SplitInv'
<1> SUFFICES ASSUME InputInv, SplitInv, [Next]_vars PROVE SplitInv'
  OBVIOUS
<1>0. CASE panicked'
  <2>1. open' = open \/ open' = FALSE
    BY DEF Next, ReadInput, ReadBytes, ReadTimesOut, ReadFails, ClockTicks, Done, vars
  <2>2. open' \in BOOLEAN
    BY <2>1 DEF SplitInv
  <2> QED
    BY <1>0, <2>2, Zenon DEF SplitInv
<1> SUFFICES ASSUME ~panicked' PROVE SplitInv'
  BY <1>0
<1>1. CASE ReadInput
  <2>1. PICK n \in Nat : received + n <= Len(stream) /\ ReadBytes(n)
    BY <1>1, ReadFits
  <2> QED
    BY <2>1, ReadBytesSplit
<1>2. CASE ReadTimesOut
  BY <1>2, ReadTimesOutSplit
<1>3. CASE ReadFails
  BY <1>3, ReadFailsSplit
<1>4. CASE ClockTicks
  <2>1. /\ stream' = stream /\ received' = received /\ reader' = reader /\ consumed' = consumed
        /\ flushes' = flushes /\ open' = open /\ overflowed' = overflowed /\ panicked' = panicked
    BY <1>4 DEF ClockTicks
  <2> QED
    BY <2>1, Zenon DEF SplitInv
<1>5. CASE UNCHANGED vars
  <2>1. /\ stream' = stream /\ received' = received /\ reader' = reader /\ consumed' = consumed
        /\ flushes' = flushes /\ open' = open /\ overflowed' = overflowed /\ panicked' = panicked
    BY <1>5 DEF vars
  <2> QED
    BY <2>1, Zenon DEF SplitInv
<1> QED
  BY <1>1, <1>2, <1>3, <1>4, <1>5 DEF Next, Done

\* It holds of every state that is reached.
LEMMA SplitHolds == Spec => [](InputInv /\ SplitInv)
  BY InitInv, InitSplit, NextInv, NextSplit, PTL DEF Spec

\* SplitAsDefined follows.
LEMMA SplitFollows == InputInv /\ SplitInv => SplitAsDefined
<1> SUFFICES ASSUME InputInv, SplitInv PROVE SplitAsDefined
  OBVIOUS
<1>1. received \in Nat
  BY DEF InputInv, StreamInv
<1>2. ASSUME ~overflowed, ~panicked PROVE consumed = ExpectedRecords
  <2>1. RecordEnds = Over(stream, received, flushes, open)
    BY EndsAreThese
  <2>2. CASE open = TRUE
    <3>1. PICK c, k : Split(stream, received, flushes, c, k, consumed)
      BY <1>2, <2>2, Zenon DEF SplitInv, HeldSplit
    <3>2. /\ c \in Nat /\ c <= received
          /\ \A e \in Over(stream, received, flushes, TRUE) : e <= c
          /\ Cut(stream, Over(stream, received, flushes, TRUE), Taken(stream, received, flushes, TRUE), c, consumed)
      BY <3>1, Zenon DEF Split
    <3>3. /\ Over(stream, received, flushes, TRUE) \subseteq Nat \ {0}
          /\ Taken(stream, received, flushes, TRUE) \subseteq Over(stream, received, flushes, TRUE)
      BY <1>1, OverAreNumbers
    <3>4. \A e \in (c + 1)..(received + 1) : e \notin Taken(stream, received, flushes, TRUE)
      <4> DEFINE E == Over(stream, received, flushes, TRUE)
      <4> HIDE DEF E
      <4>1. E \subseteq Nat \ {0} /\ \A e \in E : e <= c
        BY <3>2, <3>3, Zenon DEF E
      <4>2. \A e \in (c + 1)..(received + 1) : e \notin E
        BY <3>2, <4>1
      <4> QED
        BY <3>3, <4>2 DEF E
    <3>5. received + 1 \in Nat /\ c <= received + 1
      BY <1>1, <3>2
    <3>6. Cut(stream, Over(stream, received, flushes, TRUE), Taken(stream, received, flushes, TRUE),
              received + 1, consumed)
      BY <3>2, <3>4, <3>5, CutOver
    <3> QED
      BY <1>1, <2>1, <2>2, <3>6, ExpectedIsCut
  <2>3. CASE open = FALSE
    <3>1. Cut(stream, Over(stream, received, flushes, FALSE), Taken(stream, received, flushes, FALSE),
              received + 1, consumed)
      BY <1>2, <2>3, Zenon DEF SplitInv
    <3> QED
      BY <1>1, <2>1, <2>3, <3>1, ExpectedIsCut
  <2> QED
    BY <2>2, <2>3 DEF SplitInv
<1> QED
  BY <1>2, PiecesFollow, Zenon DEF SplitAsDefined

\* However the bytes of a stream arrive, and whenever the reader is flushed or the connection is
\* closed, the records it has consumed are exactly those that the lines received and the flushes
\* make, unless the buffer has overflowed or the parser has panicked.
THEOREM RecordsAreSplit == Spec => []SplitAsDefined
  BY SplitHolds, SplitFollows, PTL

-----------------------------------------------------------------------------
(* Counting and listing records *)

\* What counting a sequence of texts computes.
CountSteps(f, c, t) == f = [i \in 0..Len(t) |-> IF i = 0 THEN c ELSE CountRecord(f[i - 1], t[i])]
Counting(c, t) == CHOOSE f : CountSteps(f, c, t)

\* The counters are the last value of it.
LEMMA CountDef == \A c, t : FoldAlong(CountRecord, c, t) = Counting(c, t)[Len(t)]
  BY Zenon DEF FoldAlong, Counting, CountSteps

\* What making a text valid computes.
ValidSteps(f, t) == f = [i \in 0..Len(Indexes(t)) |-> IF i = 0 THEN <<>> ELSE
    IF IsWhole(t, Indexes(t)[i]) THEN Append(f[i - 1], t[Indexes(t)[i]]) ELSE f[i - 1]]
Validating(t) == CHOOSE f : ValidSteps(f, t)

\* The valid text is the last value of it.
LEMMA ValidDef == \A t : ToValidUTF8(t) = Validating(t)[Len(Indexes(t))]
  BY Zenon DEF FoldAlong, Validating, ValidSteps, ToValidUTF8

\* The counters of a connection.
Counts == [pass : Nat, passBytes : Nat, drop : Nat, dropBytes : Nat, overflow : Nat]
CountsAre(c, p, pb, d, db) ==
    c \in Counts /\ c.pass = p /\ c.passBytes = pb /\ c.drop = d /\ c.dropBytes = db

\* The counters have values.
LEMMA CountsOf ==
    ASSUME NEW c, c \in Counts
    PROVE  \E p, pb, d, db \in Nat : CountsAre(c, p, pb, d, db)
  BY DEF Counts, CountsAre

\* One more record counts as passed or as dropped.
LEMMA CountRecordFacts ==
    ASSUME NEW V, NEW t \in Seq(V), NEW c, NEW p \in Nat, NEW pb \in Nat, NEW d \in Nat, NEW db \in Nat,
           CountsAre(c, p, pb, d, db)
    PROVE  /\ Parse(t).ok => CountsAre(CountRecord(c, t), p + 1, pb + Len(t), d, db)
           /\ ~Parse(t).ok => CountsAre(CountRecord(c, t), p, pb, d + 1, db + Len(t))
<1>1. Len(t) \in Nat
  OBVIOUS
<1>2. PICK o \in Nat : c = [pass |-> p, passBytes |-> pb, drop |-> d, dropBytes |-> db, overflow |-> o]
  BY DEF CountsAre, Counts
<1>3. ASSUME NEW n \in Nat, NEW x \in Nat, NEW e,
             e = [pass |-> p + 1, passBytes |-> pb + n, drop |-> d, dropBytes |-> db, overflow |-> x]
      PROVE  CountsAre(e, p + 1, pb + n, d, db)
  BY <1>3 DEF CountsAre, Counts
<1>4. ASSUME NEW n \in Nat, NEW e,
             e = [pass |-> p, passBytes |-> pb, drop |-> d + 1, dropBytes |-> db + n, overflow |-> o]
      PROVE  CountsAre(e, p, pb, d + 1, db + n)
  BY <1>4 DEF CountsAre, Counts
<1>5. ASSUME NEW n \in Nat, NEW x \in Nat
      PROVE  CountsAre([c EXCEPT !.pass = @ + 1, !.passBytes = @ + n, !.overflow = x], p + 1, pb + n, d, db)
  <2> DEFINE e == [c EXCEPT !.pass = @ + 1, !.passBytes = @ + n, !.overflow = x]
  <2> DEFINE e1 == [c EXCEPT !.pass = p + 1]
             e2 == [e1 EXCEPT !.passBytes = pb + n]
  <2>1. e1 = [pass |-> p + 1, passBytes |-> pb, drop |-> d, dropBytes |-> db, overflow |-> o]
    BY <1>2
  <2> HIDE DEF e1
  <2>2. e2 = [pass |-> p + 1, passBytes |-> pb + n, drop |-> d, dropBytes |-> db, overflow |-> o]
    BY <2>1
  <2> HIDE DEF e2
  <2>3. [e2 EXCEPT !.overflow = x] = [pass |-> p + 1, passBytes |-> pb + n, drop |-> d, dropBytes |-> db, overflow |-> x]
    BY <2>2
  <2>4. c.pass = p /\ c.passBytes = pb
    BY <1>2
  <2>5. e = [e2 EXCEPT !.overflow = x]
    BY <2>4 DEF e1, e2
  <2>6. e = [pass |-> p + 1, passBytes |-> pb + n, drop |-> d, dropBytes |-> db, overflow |-> x]
    BY <2>3, <2>5, Zenon
  <2> HIDE DEF e
  <2>7. CountsAre(e, p + 1, pb + n, d, db)
    BY <1>3, <2>6
  <2> QED
    BY <2>7 DEF e
<1>6. ASSUME NEW n \in Nat
      PROVE  CountsAre([c EXCEPT !.drop = @ + 1, !.dropBytes = @ + n], p, pb, d + 1, db + n)
  <2> DEFINE e == [c EXCEPT !.drop = @ + 1, !.dropBytes = @ + n]
  <2> DEFINE e1 == [c EXCEPT !.drop = d + 1]
  <2>1. e1 = [pass |-> p, passBytes |-> pb, drop |-> d + 1, dropBytes |-> db, overflow |-> o]
    BY <1>2
  <2> HIDE DEF e1
  <2>2. [e1 EXCEPT !.dropBytes = db + n] = [pass |-> p, passBytes |-> pb, drop |-> d + 1, dropBytes |-> db + n, overflow |-> o]
    BY <2>1
  <2>3. c.drop = d /\ c.dropBytes = db
    BY <1>2
  <2>4. e = [e1 EXCEPT !.dropBytes = db + n]
    BY <2>3 DEF e1
  <2>5. e = [pass |-> p, passBytes |-> pb, drop |-> d + 1, dropBytes |-> db + n, overflow |-> o]
    BY <2>2, <2>4, Zenon
  <2> HIDE DEF e
  <2>6. CountsAre(e, p, pb, d + 1, db + n)
    BY <1>4, <2>5
  <2> QED
    BY <2>6 DEF e
<1>7. c.overflow \in Nat /\ c.overflow + 1 \in Nat
  BY <1>2
<1> DEFINE x == IF Parse(t).overflow THEN c.overflow + 1 ELSE c.overflow
<1>8. x \in Nat
  BY <1>7, Zenon
<1>9. CASE Parse(t).ok
  <2>1. CountRecord(c, t) = [c EXCEPT !.pass = @ + 1, !.passBytes = @ + Len(t), !.overflow = x]
    BY <1>9, Zenon DEF CountRecord
  <2> HIDE DEF x
  <2>2. CountsAre([c EXCEPT !.pass = @ + 1, !.passBytes = @ + Len(t), !.overflow = x], p + 1, pb + Len(t), d, db)
    BY <1>1, <1>5, <1>8, Zenon
  <2> QED
    BY <1>9, <2>1, <2>2, Zenon
<1>10. CASE ~Parse(t).ok
  <2>1. CountRecord(c, t) = [c EXCEPT !.drop = @ + 1, !.dropBytes = @ + Len(t)]
    BY <1>10, Zenon DEF CountRecord
  <2>2. CountsAre([c EXCEPT !.drop = @ + 1, !.dropBytes = @ + Len(t)], p, pb, d + 1, db + Len(t))
    BY <1>1, <1>6, Zenon
  <2> QED
    BY <1>10, <2>1, <2>2, Zenon
<1> QED
  BY <1>9, <1>10, Zenon

\* Positions in a sequence, and one more: how many there are up to each of them.
LEMMA OnePosition ==
    ASSUME NEW n \in Nat, NEW K \in SUBSET (1..n)
    PROVE  /\ IsFiniteSet(K) /\ Cardinality(K) \in Nat /\ Cardinality(K) <= n
           /\ IsFiniteSet(K \cup {n + 1}) /\ Cardinality(K \cup {n + 1}) = Cardinality(K) + 1
           /\ \A i \in K : /\ {k \in K \cup {n + 1} : k <= i} = {k \in K : k <= i}
                           /\ Cardinality({k \in K : k <= i}) \in 1..Cardinality(K)
           /\ {k \in K \cup {n + 1} : k <= n + 1} = K \cup {n + 1}
<1>1. IsFiniteSet(1..n) /\ Cardinality(1..n) = n
  BY FS_Interval
<1>2. IsFiniteSet(K) /\ Cardinality(K) <= n
  BY <1>1, FS_Subset
<1>3. Cardinality(K) \in Nat
  BY <1>2, FS_CardinalityType
<1>4. n + 1 \notin K
  OBVIOUS
<1>5. IsFiniteSet(K \cup {n + 1}) /\ Cardinality(K \cup {n + 1}) = Cardinality(K) + 1
  BY <1>2, <1>4, FS_AddElement
<1>6. ASSUME NEW i \in K
      PROVE  /\ {k \in K \cup {n + 1} : k <= i} = {k \in K : k <= i}
             /\ Cardinality({k \in K : k <= i}) \in 1..Cardinality(K)
  <2> DEFINE L == {k \in K : k <= i}
  <2>1. {k \in K \cup {n + 1} : k <= i} = L
    OBVIOUS
  <2>2. L \in SUBSET K /\ i \in L
    OBVIOUS
  <2> HIDE DEF L
  <2>3. IsFiniteSet(L) /\ Cardinality(L) <= Cardinality(K)
    BY <1>2, <2>2, FS_Subset
  <2>4. Cardinality(L) \in Nat
    BY <2>3, FS_CardinalityType
  <2>5. Cardinality(L) # 0
    BY <2>2, <2>3, FS_EmptySet
  <2>6. Cardinality(L) \in 1..Cardinality(K)
    BY <1>3, <2>3, <2>4, <2>5
  <2> QED
    BY <2>1, <2>6 DEF L
<1>7. {k \in K \cup {n + 1} : k <= n + 1} = K \cup {n + 1}
  <2>1. n + 1 <= n + 1 /\ \A k \in K : k <= n + 1
    OBVIOUS
  <2> QED
    BY <2>1, Zenon
<1> QED
  BY <1>2, <1>3, <1>5, <1>6, <1>7

\* Where among the texts the ones are that can be parsed, and the ones that are extracted.
OkAt(T) == {i \in DOMAIN T : Parse(T[i]).ok}
KeptAt(T) == {i \in DOMAIN T : IsExtracted(Parse(T[i]))}

\* The counters of a connection that has consumed the texts T.
Counted(T, c) ==
    \E pb, db \in Nat :
        /\ CountsAre(c, Cardinality(OkAt(T)), pb, Len(T) - Cardinality(OkAt(T)), db)
        /\ pb + db = Len(FlattenSeq(T))

\* One more record keeps the counters right.
LEMMA CountStep ==
    ASSUME NEW V, NEW T \in Seq(Seq(V)), NEW t \in Seq(V), NEW c, Counted(T, c)
    PROVE  Counted(Append(T, t), CountRecord(c, t))
<1> DEFINE n == Len(T)
           K == OkAt(T)
           U == Append(T, t)
           l == Len(t)
           f == Len(FlattenSeq(T))
<1>1. /\ n \in Nat /\ DOMAIN T = 1..n /\ U \in Seq(Seq(V)) /\ Len(U) = n + 1 /\ DOMAIN U = 1..(n + 1)
      /\ \A i \in 1..n : U[i] = T[i]
      /\ U[n + 1] = t /\ l \in Nat
  OBVIOUS
<1>2. OkAt(U) = IF Parse(t).ok THEN K \cup {n + 1} ELSE K
  <2>1. 1..(n + 1) = (1..n) \cup {n + 1} /\ n + 1 \notin 1..n
    BY <1>1
  <2> HIDE DEF U, n
  <2>2. OkAt(U) = {i \in (1..n) \cup {n + 1} : Parse(U[i]).ok} /\ K = {i \in 1..n : Parse(T[i]).ok}
    BY <1>1, <2>1, Zenon DEF OkAt
  <2> QED
    BY <1>1, <2>1, <2>2
<1>3. K \in SUBSET (1..n)
  BY <1>1 DEF OkAt
<1>4. Cardinality(K) \in Nat /\ Cardinality(K) <= n /\ Cardinality(K \cup {n + 1}) = Cardinality(K) + 1
  BY <1>1, <1>3, OnePosition
<1>5. Len(FlattenSeq(U)) = f + l /\ f \in Nat
  <2>1. FlattenSeq(U) = FlattenSeq(T) \o t
    BY FlattenAppend, Zenon
  <2>2. FlattenSeq(T) \in Seq(V)
    BY FlattenFacts, Zenon
  <2> QED
    BY <2>1, <2>2
<1>6. PICK pb \in Nat, db \in Nat : CountsAre(c, Cardinality(K), pb, n - Cardinality(K), db) /\ pb + db = f
  BY Zenon DEF Counted
<1> HIDE DEF n, K, U, l, f
<1> DEFINE x == Cardinality(K)
<1> HIDE DEF x
<1>7. x \in Nat /\ n \in Nat /\ x <= n /\ l \in Nat /\ f \in Nat /\ pb + db = f
  BY <1>1, <1>4, <1>5, <1>6, Zenon DEF x
<1>8. n - x \in Nat /\ (n + 1) - (x + 1) = n - x /\ (n + 1) - x = (n - x) + 1 /\ pb + l \in Nat /\ db + l \in Nat
      /\ (pb + l) + db = f + l /\ pb + (db + l) = f + l
  BY <1>7
<1>9. CountsAre(c, x, pb, n - x, db)
  BY <1>6, Zenon DEF x
<1>10. /\ Parse(t).ok => CountsAre(CountRecord(c, t), x + 1, pb + l, n - x, db)
       /\ ~Parse(t).ok => CountsAre(CountRecord(c, t), x, pb, (n - x) + 1, db + l)
  BY <1>7, <1>8, <1>9, CountRecordFacts, Zenon DEF l
<1>11. Len(U) = n + 1 /\ Len(FlattenSeq(U)) = f + l
  BY <1>1, <1>5, Zenon
<1>12. CASE Parse(t).ok
  <2>1. Cardinality(OkAt(U)) = x + 1
    BY <1>2, <1>4, <1>12, Zenon DEF x
  <2>2. CountsAre(CountRecord(c, t), Cardinality(OkAt(U)), pb + l, Len(U) - Cardinality(OkAt(U)), db)
    BY <1>8, <1>10, <1>11, <1>12, <2>1, Zenon
  <2> QED
    BY <1>7, <1>8, <1>11, <2>2, Zenon DEF Counted, U
<1>13. CASE ~Parse(t).ok
  <2>1. Cardinality(OkAt(U)) = x
    BY <1>2, <1>13, Zenon DEF x
  <2>2. CountsAre(CountRecord(c, t), Cardinality(OkAt(U)), pb, Len(U) - Cardinality(OkAt(U)), db + l)
    BY <1>8, <1>10, <1>11, <1>13, <2>1, Zenon
  <2> QED
    BY <1>7, <1>8, <1>11, <2>2, Zenon DEF Counted, U
<1> QED
  BY <1>12, <1>13, Zenon

\* Counting a sequence of texts has a value.
LEMMA CountExists ==
    ASSUME NEW V, NEW R \in Seq(Seq(V)), NEW c \in Counts
    PROVE  CountSteps(Counting(c, R), c, R)
<1> DEFINE n == Len(R)
           G == [z \in (1..n) \X Counts |-> CountRecord(z[2], R[z[1]])]
<1>1. n \in Nat /\ \A i \in 1..n : R[i] \in Seq(V)
  OBVIOUS
<1>2. ASSUME NEW a \in Counts, NEW t \in Seq(V) PROVE CountRecord(a, t) \in Counts
  <2>1. PICK p, pb, d, db \in Nat : CountsAre(a, p, pb, d, db)
    BY CountsOf
  <2>2. \E q, qb, e, eb : CountsAre(CountRecord(a, t), q, qb, e, eb)
    BY <2>1, CountRecordFacts, Zenon
  <2> QED
    BY <2>2, Zenon DEF CountsAre
<1>3. \A i \in 1..n, a \in Counts : G[<<i, a>>] = CountRecord(a, R[i])
  <2> HIDE DEF n
  <2> QED
    OBVIOUS
<1> HIDE DEF G, n
<1>4. \A i \in 1..n : \A a \in Counts : G[<<i, a>>] \in Counts
  BY <1>1, <1>2, <1>3
<1>5. PICK f : Folding(f, G, Counts, c, n)
  BY <1>1, <1>4, FoldExists, Zenon DEF KeepsIn
<1>6. \A i \in 0..n : i # 0 => i \in 1..n /\ i - 1 \in 0..n
  BY <1>1
<1>7. \A i \in 0..n : i # 0 => f[i - 1] \in Counts
  BY <1>5, <1>6 DEF Folding
<1>8. \A i \in 0..n : i # 0 => G[<<i, f[i - 1]>>] = CountRecord(f[i - 1], R[i])
  BY <1>3, <1>6, <1>7, Zenon
<1>9. f = [i \in 0..n |-> IF i = 0 THEN c ELSE CountRecord(f[i - 1], R[i])]
  <2>1. [i \in 0..n |-> IF i = 0 THEN c ELSE G[<<i, f[i - 1]>>]] = [i \in 0..n |-> IF i = 0 THEN c ELSE CountRecord(f[i - 1], R[i])]
    BY <1>8, Zenon
  <2> QED
    BY <1>5, <2>1, Zenon DEF Folding
<1>10. CountSteps(f, c, R)
  BY <1>9, Zenon DEF CountSteps, n
<1> QED
  BY <1>10, Zenon DEF Counting

\* Counting the records consumed in one step keeps the counters right.
LEMMA CountAll ==
    ASSUME NEW V, NEW T \in Seq(Seq(V)), NEW R \in Seq(Seq(V)), NEW c, Counted(T, c)
    PROVE  Counted(T \o R, FoldAlong(CountRecord, c, R))
<1> DEFINE n == Len(R)
           f == Counting(c, R)
           I == {i \in Nat : i \in 0..n => Counted(T \o SubSeq(R, 1, i), f[i])}
<1>1. n \in Nat /\ \A i \in 1..n : R[i] \in Seq(V)
  OBVIOUS
<1>2. c \in Counts
  BY Zenon DEF Counted, CountsAre
<1>3. f = [i \in 0..n |-> IF i = 0 THEN c ELSE CountRecord(f[i - 1], R[i])]
  BY <1>2, CountExists, Zenon DEF CountSteps
<1> HIDE DEF f
<1>4. f[0] = c /\ \A i \in Nat : i + 1 \in 1..n => f[i + 1] = CountRecord(f[i], R[i + 1])
  <2>1. 0 \in 0..n /\ \A i \in Nat : i + 1 \in 1..n => i + 1 \in 0..n /\ i + 1 # 0 /\ (i + 1) - 1 = i
    BY <1>1
  <2> HIDE DEF n
  <2>2. \A i \in 0..n : f[i] = IF i = 0 THEN c ELSE CountRecord(f[i - 1], R[i])
    BY <1>3, Zenon
  <2> QED
    BY <2>1, <2>2, Zenon
<1>5. 0 \in I
  <2>1. T \o SubSeq(R, 1, 0) = T
    BY JoinedNone, Zenon
  <2> QED
    BY <1>4, <2>1
<1>6. ASSUME NEW i \in Nat, i \in I PROVE i + 1 \in I
  <2> SUFFICES ASSUME i + 1 \in 0..n PROVE Counted(T \o SubSeq(R, 1, i + 1), f[i + 1])
    OBVIOUS
  <2>1. i + 1 \in 1..n /\ i \in 0..n
    BY <1>1
  <2>2. T \o SubSeq(R, 1, i) \in Seq(Seq(V)) /\ T \o SubSeq(R, 1, i + 1) = Append(T \o SubSeq(R, 1, i), R[i + 1])
    BY <2>1, JoinedNext, Zenon
  <2>3. R[i + 1] \in Seq(V)
    BY <1>1, <2>1
  <2>4. Counted(T \o SubSeq(R, 1, i), f[i])
    BY <1>6, <2>1
  <2> HIDE DEF I
  <2>5. Counted(Append(T \o SubSeq(R, 1, i), R[i + 1]), CountRecord(f[i], R[i + 1]))
    BY <2>2, <2>3, <2>4, CountStep, Zenon
  <2> QED
    BY <1>4, <2>1, <2>2, <2>5, Zenon
<1> HIDE DEF I
<1>7. Nat \subseteq I
  BY <1>5, <1>6, Induction
<1>8. Counted(T \o SubSeq(R, 1, n), f[n])
  BY <1>1, <1>7 DEF I
<1>9. T \o SubSeq(R, 1, n) = T \o R
  BY JoinedNone, Zenon
<1> QED
  BY <1>8, <1>9, CountDef, Zenon DEF f

\* What texts are parsed into, and the list of records accepted of the texts T.
Parsed(V) == {Parse(t) : t \in Seq(V)}
Listed(V, T, a) ==
    /\ a \in Seq(Parsed(V)) /\ Len(a) = Cardinality(KeptAt(T))
    /\ \A i \in KeptAt(T) : a[Cardinality({k \in KeptAt(T) : k <= i})] = Parse(T[i])

\* One more record keeps the list right.
LEMMA KeepStep ==
    ASSUME NEW V, NEW T \in Seq(Seq(V)), NEW t \in Seq(V), NEW a, Listed(V, T, a)
    PROVE  Listed(V, Append(T, t), KeepRecord(a, t))
<1> DEFINE n == Len(T)
           K == KeptAt(T)
           U == Append(T, t)
           r == Parse(t)
           b == KeepRecord(a, t)
<1>1. /\ n \in Nat /\ DOMAIN T = 1..n /\ U \in Seq(Seq(V)) /\ Len(U) = n + 1 /\ DOMAIN U = 1..(n + 1)
      /\ \A i \in 1..n : U[i] = T[i]
      /\ U[n + 1] = t
  OBVIOUS
<1>2. KeptAt(U) = IF IsExtracted(r) THEN K \cup {n + 1} ELSE K
  <2>1. 1..(n + 1) = (1..n) \cup {n + 1} /\ n + 1 \notin 1..n
    BY <1>1
  <2> HIDE DEF U, n
  <2>2. KeptAt(U) = {i \in (1..n) \cup {n + 1} : IsExtracted(Parse(U[i]))} /\ K = {i \in 1..n : IsExtracted(Parse(T[i]))}
    BY <1>1, <2>1, Zenon DEF KeptAt
  <2> HIDE DEF K
  <2>3. \A i \in 1..n : Parse(U[i]) = Parse(T[i])
    BY <1>1, Zenon
  <2>4. \A i : i \in KeptAt(U) <=> i \in K \/ (i = n + 1 /\ IsExtracted(r))
    BY <1>1, <2>1, <2>2, <2>3, Zenon
  <2> HIDE DEF r
  <2> QED
    BY <2>4
<1>3. K \in SUBSET (1..n)
  BY <1>1 DEF KeptAt
<1>4. /\ IsFiniteSet(K) /\ Cardinality(K) \in Nat /\ Cardinality(K) <= n
      /\ IsFiniteSet(K \cup {n + 1}) /\ Cardinality(K \cup {n + 1}) = Cardinality(K) + 1
      /\ \A i \in K : /\ {k \in K \cup {n + 1} : k <= i} = {k \in K : k <= i}
                      /\ Cardinality({k \in K : k <= i}) \in 1..Cardinality(K)
      /\ {k \in K \cup {n + 1} : k <= n + 1} = K \cup {n + 1}
  BY <1>1, <1>3, OnePosition
<1>5. /\ a \in Seq(Parsed(V)) /\ Len(a) = Cardinality(K)
      /\ \A i \in K : a[Cardinality({k \in K : k <= i})] = Parse(T[i])
  BY Zenon DEF Listed
<1>6. r \in Parsed(V)
  BY Zenon DEF Parsed
<1>7. \A i \in K : U[i] = T[i]
  BY <1>1, <1>3
<1> HIDE DEF n, K, U, r, b
<1>8. CASE IsExtracted(r)
  <2>1. b = Append(a, r)
    BY <1>8, Zenon DEF b, r, KeepRecord
  <2>2. /\ b \in Seq(Parsed(V)) /\ Len(b) = Cardinality(K) + 1 /\ b[Cardinality(K) + 1] = r
        /\ \A j \in 1..Cardinality(K) : b[j] = a[j]
    BY <1>4, <1>5, <1>6, <2>1
  <2>3. KeptAt(U) = K \cup {n + 1}
    BY <1>2, <1>8, Zenon
  <2>4. Len(b) = Cardinality(KeptAt(U))
    BY <1>4, <2>2, <2>3, Zenon
  <2>5. ASSUME NEW i \in K PROVE b[Cardinality({k \in K \cup {n + 1} : k <= i})] = Parse(U[i])
    BY <1>4, <1>5, <1>7, <2>2, Zenon
  <2>6. b[Cardinality({k \in K \cup {n + 1} : k <= n + 1})] = Parse(U[n + 1])
    BY <1>1, <1>4, <2>2, Zenon DEF r
  <2>7. ASSUME NEW i \in KeptAt(U) PROVE b[Cardinality({k \in KeptAt(U) : k <= i})] = Parse(U[i])
    <3>1. i \in K \/ i = n + 1
      BY <2>3
    <3> QED
      BY <2>3, <2>5, <2>6, <3>1, Zenon
  <2> QED
    BY <2>2, <2>4, <2>7, Zenon DEF Listed, U, b
<1>9. CASE ~IsExtracted(r)
  <2>1. b = a
    BY <1>9, Zenon DEF b, r, KeepRecord
  <2>2. KeptAt(U) = K
    BY <1>2, <1>9, Zenon
  <2>3. ASSUME NEW i \in KeptAt(U) PROVE b[Cardinality({k \in KeptAt(U) : k <= i})] = Parse(U[i])
    BY <1>5, <1>7, <2>1, <2>2, Zenon
  <2> QED
    BY <1>5, <2>1, <2>2, <2>3, Zenon DEF Listed, U, b
<1> QED
  BY <1>8, <1>9, Zenon

\* What keeping the records of a sequence of texts computes.
KeepSteps(f, a, t) == f = [i \in 0..Len(t) |-> IF i = 0 THEN a ELSE KeepRecord(f[i - 1], t[i])]
Keeping(a, t) == CHOOSE f : KeepSteps(f, a, t)

\* The list is the last value of it.
LEMMA KeepDef == \A a, t : FoldAlong(KeepRecord, a, t) = Keeping(a, t)[Len(t)]
  BY Zenon DEF FoldAlong, Keeping, KeepSteps

\* Keeping the records of a sequence of texts has a value.
LEMMA KeepExists ==
    ASSUME NEW V, NEW R \in Seq(Seq(V)), NEW a \in Seq(Parsed(V))
    PROVE  KeepSteps(Keeping(a, R), a, R)
<1> DEFINE n == Len(R)
           A == Seq(Parsed(V))
           G == [z \in (1..n) \X A |-> KeepRecord(z[2], R[z[1]])]
<1>1. n \in Nat /\ \A i \in 1..n : R[i] \in Seq(V)
  OBVIOUS
<1>2. ASSUME NEW q \in A, NEW t \in Seq(V) PROVE KeepRecord(q, t) \in A
  <2>1. Parse(t) \in Parsed(V)
    BY Zenon DEF Parsed
  <2> DEFINE r == Parse(t)
  <2> HIDE DEF r
  <2>2. Append(q, r) \in A
    BY <2>1 DEF r
  <2>3. KeepRecord(q, t) = Append(q, r) \/ KeepRecord(q, t) = q
    BY Zenon DEF KeepRecord, r
  <2> QED
    BY <2>2, <2>3, Zenon
<1> HIDE DEF A
<1>3. \A i \in 1..n, q \in A : G[<<i, q>>] = KeepRecord(q, R[i])
  <2> HIDE DEF n
  <2> QED
    OBVIOUS
<1> HIDE DEF G, n
<1>4. \A i \in 1..n : \A q \in A : G[<<i, q>>] \in A
  BY <1>1, <1>2, <1>3
<1>5. PICK f : Folding(f, G, A, a, n)
  BY <1>1, <1>4, FoldExists, Zenon DEF KeepsIn, A
<1>6. \A i \in 0..n : i # 0 => i \in 1..n /\ i - 1 \in 0..n
  BY <1>1
<1>7. \A i \in 0..n : i # 0 => f[i - 1] \in A
  BY <1>5, <1>6 DEF Folding
<1>8. \A i \in 0..n : i # 0 => G[<<i, f[i - 1]>>] = KeepRecord(f[i - 1], R[i])
  BY <1>3, <1>6, <1>7, Zenon
<1>9. f = [i \in 0..n |-> IF i = 0 THEN a ELSE KeepRecord(f[i - 1], R[i])]
  <2>1. [i \in 0..n |-> IF i = 0 THEN a ELSE G[<<i, f[i - 1]>>]] = [i \in 0..n |-> IF i = 0 THEN a ELSE KeepRecord(f[i - 1], R[i])]
    BY <1>8, Zenon
  <2> QED
    BY <1>5, <2>1, Zenon DEF Folding
<1>10. KeepSteps(f, a, R)
  BY <1>9, Zenon DEF KeepSteps, n
<1> QED
  BY <1>10, Zenon DEF Keeping

\* Keeping the records consumed in one step keeps the list right.
LEMMA KeepAll ==
    ASSUME NEW V, NEW T \in Seq(Seq(V)), NEW R \in Seq(Seq(V)), NEW a, Listed(V, T, a)
    PROVE  Listed(V, T \o R, FoldAlong(KeepRecord, a, R))
<1> DEFINE n == Len(R)
           f == Keeping(a, R)
           I == {i \in Nat : i \in 0..n => Listed(V, T \o SubSeq(R, 1, i), f[i])}
<1>1. n \in Nat /\ \A i \in 1..n : R[i] \in Seq(V)
  OBVIOUS
<1>2. a \in Seq(Parsed(V))
  BY Zenon DEF Listed
<1>3. f = [i \in 0..n |-> IF i = 0 THEN a ELSE KeepRecord(f[i - 1], R[i])]
  <2>1. KeepSteps(Keeping(a, R), a, R)
    BY <1>2, KeepExists, Zenon
  <2> QED
    BY <2>1, Zenon DEF KeepSteps
<1> HIDE DEF f
<1>4. f[0] = a /\ \A i \in Nat : i + 1 \in 1..n => f[i + 1] = KeepRecord(f[i], R[i + 1])
  <2>1. 0 \in 0..n /\ \A i \in Nat : i + 1 \in 1..n => i + 1 \in 0..n /\ i + 1 # 0 /\ (i + 1) - 1 = i
    BY <1>1
  <2> HIDE DEF n
  <2>2. \A i \in 0..n : f[i] = IF i = 0 THEN a ELSE KeepRecord(f[i - 1], R[i])
    BY <1>3, Zenon
  <2> QED
    BY <2>1, <2>2, Zenon
<1>5. 0 \in I
  <2>1. T \o SubSeq(R, 1, 0) = T
    BY JoinedNone, Zenon
  <2> QED
    BY <1>4, <2>1
<1>6. ASSUME NEW i \in Nat, i \in I PROVE i + 1 \in I
  <2> SUFFICES ASSUME i + 1 \in 0..n PROVE Listed(V, T \o SubSeq(R, 1, i + 1), f[i + 1])
    OBVIOUS
  <2>1. i + 1 \in 1..n /\ i \in 0..n
    BY <1>1
  <2>2. T \o SubSeq(R, 1, i) \in Seq(Seq(V)) /\ T \o SubSeq(R, 1, i + 1) = Append(T \o SubSeq(R, 1, i), R[i + 1])
    BY <2>1, JoinedNext, Zenon
  <2>3. R[i + 1] \in Seq(V)
    BY <1>1, <2>1
  <2>4. Listed(V, T \o SubSeq(R, 1, i), f[i])
    BY <1>6, <2>1
  <2> HIDE DEF I
  <2>5. Listed(V, Append(T \o SubSeq(R, 1, i), R[i + 1]), KeepRecord(f[i], R[i + 1]))
    BY <2>2, <2>3, <2>4, KeepStep, Zenon
  <2> QED
    BY <1>4, <2>1, <2>2, <2>5, Zenon
<1> HIDE DEF I
<1>7. Nat \subseteq I
  BY <1>5, <1>6, Induction
<1>8. Listed(V, T \o SubSeq(R, 1, n), f[n])
  BY <1>1, <1>7 DEF I
<1>9. T \o SubSeq(R, 1, n) = T \o R
  BY JoinedNone, Zenon
<1> QED
  BY <1>8, <1>9, KeepDef, Zenon DEF f

-----------------------------------------------------------------------------
(* The header of a record *)

\* The spaces of a text up to a position.
SpacesTo(text, p) == {i \in SpacesIn(text) : i <= p}

\* What follows p in the text is r, and its first field ends at the space m.
FieldEndsAt(text, p, r, m) ==
    /\ text[m] = " " /\ FieldOf(r) = SubSeq(text, p + 1, m - 1) /\ AfterField(r) = SubSeq(text, m + 1, Len(text))
    /\ SpacesTo(text, m) = SpacesTo(text, p) \cup {m}

\* A field ends at the next space, and no field is left when there is none.
LEMMA FieldFacts ==
    ASSUME NEW V, NEW text \in Seq(V), NEW p \in 0..Len(text), NEW r, r = SubSeq(text, p + 1, Len(text))
    PROVE  /\ HasField(r) => \E m \in (p + 1)..Len(text) : FieldEndsAt(text, p, r, m)
           /\ ~HasField(r) => SpacesIn(text) = SpacesTo(text, p)
<1> DEFINE n == Len(text)
<1>1. n \in Nat /\ p \in Nat /\ p <= n /\ DOMAIN text = 1..n /\ n \in 0..n /\ p \in 0..n
  OBVIOUS
<1>2. r \in Seq(V) /\ Len(r) = n - p /\ \A i \in 1..(n - p) : r[i] = text[p + i]
  BY <1>1, Part
<1>3. DOMAIN r = 1..(n - p)
  BY <1>2
<1>4. SpacesIn(r) = {i \in 1..(n - p) : r[i] = " "} /\ SpacesIn(text) = {i \in 1..n : text[i] = " "}
  BY <1>1, <1>3, Zenon DEF SpacesIn
<1>5. Len(text) = n
  OBVIOUS
<1> HIDE DEF n
<1>6. ASSUME HasField(r) PROVE \E m \in (p + 1)..Len(text) : FieldEndsAt(text, p, r, m)
  <2>1. \A i \in 1..(n - p) : i \in Nat
    BY <1>1
  <2>2. SpacesIn(r) \in SUBSET Nat /\ SpacesIn(r) # {}
    BY <1>4, <1>6, <2>1, Zenon DEF HasField
  <2>3. \E x \in SpacesIn(r) : \A j \in SpacesIn(r) : x <= j
    BY <2>2, FirstExists
  <2> DEFINE x == FirstSpace(r)
  <2>4. x \in SpacesIn(r) /\ \A j \in SpacesIn(r) : x <= j
    BY <2>3, Zenon DEF FirstSpace
  <2> HIDE DEF x
  <2>5. x \in 1..(n - p)
    BY <1>4, <2>4, Zenon
  <2>6. r[x] = " "
    BY <1>4, <2>4, Zenon
  <2>7. ASSUME NEW j \in 1..(x - 1) PROVE r[j] # " "
    <3>1. j \in 1..(n - p) /\ ~(x <= j)
      BY <1>1, <2>5
    <3> QED
      BY <1>4, <2>4, <3>1, Zenon
  <2>8. /\ x - 1 \in 0..(n - p) /\ x \in 0..(n - p) /\ p + x \in (p + 1)..n /\ p + (x - 1) = (p + x) - 1
        /\ p + x \in 1..n
    BY <1>1, <2>5
  <2>9. SubSeq(r, 1, x - 1) = SubSeq(text, p + 1, p + (x - 1))
    BY <1>5, <2>8, PartOfRest
  <2>10. SubSeq(r, x + 1, Len(r)) = SubSeq(text, p + x + 1, Len(text))
    BY <1>5, <2>8, PartOfRest
  <2>11. FieldOf(r) = SubSeq(text, p + 1, (p + x) - 1) /\ AfterField(r) = SubSeq(text, (p + x) + 1, Len(text))
    BY <2>8, <2>9, <2>10 DEF FieldOf, AfterField, x
  <2>12. text[p + x] = " "
    BY <1>2, <2>5, <2>6
  <2>13. ASSUME NEW i \in 1..n, text[i] = " ", i <= p + x PROVE i <= p \/ i = p + x
    <3> SUFFICES ASSUME ~(i <= p), i # p + x PROVE FALSE
      OBVIOUS
    <3>1. i <= p + x
      BY <2>13, Zenon
    <3>2. i - p \in 1..(x - 1) /\ i - p \in 1..(n - p) /\ p + (i - p) = i
      BY <1>1, <2>5, <3>1
    <3> QED
      BY <1>2, <2>7, <2>13, <3>2
  <2>14. SpacesTo(text, p + x) = SpacesTo(text, p) \cup {p + x}
    <3>1. \A i \in SpacesTo(text, p + x) : i \in SpacesTo(text, p) \cup {p + x}
      BY <1>4, <2>13 DEF SpacesTo
    <3>2. (\A i \in 1..n : i <= p => i <= p + x) /\ p + x <= p + x
      BY <1>1, <2>5
    <3>3. \A i \in SpacesTo(text, p) : i \in SpacesTo(text, p + x)
      BY <1>4, <3>2, Zenon DEF SpacesTo
    <3>4. p + x \in SpacesTo(text, p + x)
      BY <1>4, <2>8, <2>12, <3>2, Zenon DEF SpacesTo
    <3> QED
      BY <3>1, <3>3, <3>4
  <2>15. FieldEndsAt(text, p, r, p + x)
    BY <2>11, <2>12, <2>14, Zenon DEF FieldEndsAt
  <2> QED
    BY <1>5, <2>8, <2>15, Zenon
<1>7. ASSUME ~HasField(r) PROVE SpacesIn(text) = SpacesTo(text, p)
  <2>1. SpacesIn(r) = {}
    BY <1>7 DEF HasField
  <2>2. ASSUME NEW i \in SpacesIn(text) PROVE i <= p
    <3> SUFFICES ASSUME ~(i <= p) PROVE FALSE
      OBVIOUS
    <3>1. i \in 1..n
      BY <1>4, Zenon
    <3>2. text[i] = " "
      BY <1>4, Zenon
    <3>3. i - p \in 1..(n - p) /\ p + (i - p) = i
      BY <1>1, <3>1
    <3>4. r[i - p] = " "
      BY <1>2, <3>2, <3>3
    <3>5. i - p \in SpacesIn(r)
      BY <1>4, <3>3, <3>4, Zenon
    <3> QED
      BY <2>1, <3>5
  <2> QED
    BY <2>2 DEF SpacesTo
<1> QED
  BY <1>6, <1>7

\* The header of a text, as far as it has been split, and what it consists of.
Splits(V) == [ok : BOOLEAN, fields : Seq(Seq(V)), remaining : Seq(V)]
SplitIs(V, s, ok, f, r) == s \in Splits(V) /\ s.ok = ok /\ s.fields = f /\ s.remaining = r

\* A header is of some fields and a remaining text.
LEMMA SplitOf ==
    ASSUME NEW V, NEW s \in Splits(V)
    PROVE  \E ok \in BOOLEAN, f \in Seq(Seq(V)), r \in Seq(V) : SplitIs(V, s, ok, f, r)
  BY DEF Splits, SplitIs

\* Nothing has been split at first.
LEMMA FirstSplit ==
    ASSUME NEW V, NEW text \in Seq(V)
    PROVE  SplitIs(V, [ok |-> TRUE, fields |-> <<>>, remaining |-> text], TRUE, <<>>, text)
<1>1. <<>> \in Seq(Seq(V))
  OBVIOUS
<1> QED
  BY <1>1 DEF Splits, SplitIs

\* A header written as a record.
SplitRecord(s, ok, f, r) == s = [ok |-> ok, fields |-> f, remaining |-> r]

\* Its mark changed.
LEMMA OkChanged ==
    ASSUME NEW a, NEW b, NEW f, NEW r, NEW s, SplitRecord(s, a, f, r)
    PROVE  SplitRecord([s EXCEPT !.ok = b], b, f, r)
  BY DEF SplitRecord

\* One more field, or none is left.
LEMMA NextFieldFacts ==
    ASSUME NEW V, NEW s, NEW k, NEW ok \in BOOLEAN, NEW f \in Seq(Seq(V)), NEW r \in Seq(V), SplitIs(V, s, ok, f, r),
           HasField(r) => FieldOf(r) \in Seq(V) /\ AfterField(r) \in Seq(V)
    PROVE  /\ ok /\ HasField(r) => SplitIs(V, NextField(s, k), TRUE, Append(f, FieldOf(r)), AfterField(r))
           /\ ~(ok /\ HasField(r)) => SplitIs(V, NextField(s, k), FALSE, f, r)
<1>1. s.ok = ok /\ s.fields = f /\ s.remaining = r
  BY Zenon DEF SplitIs
<1>2. ASSUME ok, HasField(r)
      PROVE SplitIs(V, NextField(s, k), TRUE, Append(f, FieldOf(r)), AfterField(r))
  <2>1. NextField(s, k) = [ok |-> TRUE, fields |-> Append(f, FieldOf(r)), remaining |-> AfterField(r)]
    BY <1>1, <1>2, Zenon DEF NextField
  <2>2. Append(f, FieldOf(r)) \in Seq(Seq(V)) /\ AfterField(r) \in Seq(V)
    BY <1>2
  <2> ASSUME NEW g \in Seq(Seq(V)), NEW q \in Seq(V), NEW z, z = [ok |-> TRUE, fields |-> g, remaining |-> q]
      PROVE  SplitIs(V, z, TRUE, g, q)
    BY DEF Splits, SplitIs
  <2> QED
    BY <2>1, <2>2, Zenon
<1>3. ASSUME ~(ok /\ HasField(r)) PROVE SplitIs(V, NextField(s, k), FALSE, f, r)
  <2>1. NextField(s, k) = [s EXCEPT !.ok = FALSE]
    BY <1>1, <1>3, Zenon DEF NextField
  <2>2. SplitRecord(s, ok, f, r)
    BY <1>1 DEF SplitIs, Splits, SplitRecord
  <2>3. SplitRecord([s EXCEPT !.ok = FALSE], FALSE, f, r)
    BY <2>2, OkChanged, Zenon
  <2>4. ASSUME NEW z, SplitRecord(z, FALSE, f, r) PROVE SplitIs(V, z, FALSE, f, r)
    BY <2>4 DEF Splits, SplitIs, SplitRecord
  <2> QED
    BY <2>1, <2>3, <2>4, Zenon
<1> QED
  BY <1>2, <1>3

\* Fields with a space after each, and the text of a header.
Spaced(q, z) == [i \in DOMAIN q |-> Append(q[i], z)]
Header(f, z) == Append(f[1], z) \o FlattenSeq(Spaced(Tail(f), z))

\* The text of the fields and of one more.
SpacedAlike(V, q, x, z) ==
    /\ FlattenSeq(Spaced(q, z)) \in Seq(V)
    /\ FlattenSeq(Spaced(Append(q, x), z)) = FlattenSeq(Spaced(q, z)) \o Append(x, z)

\* One more field with its space follows the others.
LEMMA SpacedFacts ==
    ASSUME NEW V, NEW z \in V, NEW q \in Seq(Seq(V)), NEW x \in Seq(V)
    PROVE  /\ Spaced(q, z) \in Seq(Seq(V)) /\ Len(Spaced(q, z)) = Len(q)
           /\ Spaced(Append(q, x), z) = Append(Spaced(q, z), Append(x, z))
           /\ SpacedAlike(V, q, x, z)
<1> DEFINE n == Len(q)
           Q == Append(q, x)
<1>1. \A y \in Seq(V) : Append(y, z) \in Seq(V)
  OBVIOUS
<1>2. n \in Nat /\ DOMAIN q = 1..n /\ (\A i \in 1..n : q[i] \in Seq(V))
  OBVIOUS
<1>3. DOMAIN Q = 1..(n + 1) /\ Q[n + 1] = x /\ \A i \in 1..n : Q[i] = q[i]
  OBVIOUS
<1>4. Spaced(q, z) = [i \in 1..n |-> Append(q[i], z)] /\ Spaced(Q, z) = [i \in 1..(n + 1) |-> Append(Q[i], z)]
  BY <1>2, <1>3, Zenon DEF Spaced
<1> DEFINE p == [i \in 1..n |-> Append(q[i], z)]
<1> HIDE DEF n, Q
<1>5. p \in Seq(Seq(V)) /\ Len(p) = n
  BY <1>1, <1>2
<1>6. [i \in 1..(n + 1) |-> Append(Q[i], z)] = Append(p, Append(x, z))
  <2>1. Append(x, z) \in Seq(V)
    BY <1>1
  <2> DEFINE y == Append(x, z)
             P == [i \in 1..(n + 1) |-> Append(Q[i], z)]
  <2>2. P[n + 1] = y /\ \A i \in 1..n : P[i] = p[i]
    <3>1. n + 1 \in 1..(n + 1) /\ \A i \in 1..n : i \in 1..(n + 1)
      BY <1>2
    <3> QED
      BY <1>3, <3>1, Zenon
  <2>3. DOMAIN P = 1..(n + 1) /\ \A i \in 1..(n + 1) : i \in 1..n \/ i = n + 1
    BY <1>2
  <2> HIDE DEF p, y
  <2>4. Append(p, y) \in [1..(n + 1) -> Seq(V)] /\ Append(p, y)[n + 1] = y /\ \A i \in 1..n : Append(p, y)[i] = p[i]
    <3>1. y \in Seq(V)
      BY <2>1 DEF y
    <3>2. /\ Append(p, y) \in Seq(Seq(V)) /\ Len(Append(p, y)) = Len(p) + 1
          /\ \A i \in 1..Len(p) : Append(p, y)[i] = p[i]
          /\ Append(p, y)[Len(p) + 1] = y
      BY <1>5, <3>1, AppendProperties
    <3> DEFINE r == Append(p, y)
    <3> HIDE DEF r
    <3>3. r \in [1..Len(r) -> Seq(V)] /\ Len(r) = n + 1
      BY <1>5, <3>2, LenProperties DEF r
    <3> QED
      BY <1>5, <3>2, <3>3, Zenon DEF r
  <2>5. \A i \in 1..(n + 1) : P[i] = Append(p, y)[i]
    BY <2>2, <2>3, <2>4, Zenon
  <2>6. P = [i \in 1..(n + 1) |-> P[i]]
    OBVIOUS
  <2> HIDE DEF P
  <2>7. Append(p, y) = [i \in 1..(n + 1) |-> Append(p, y)[i]]
    BY <2>4
  <2>8. P = Append(p, y)
    BY <2>5, <2>6, <2>7, Zenon
  <2> QED
    BY <2>8, Zenon DEF P, y
<1>7. Spaced(q, z) \in Seq(Seq(V)) /\ Len(Spaced(q, z)) = n /\ Spaced(Q, z) = Append(Spaced(q, z), Append(x, z))
  BY <1>4, <1>5, <1>6, Zenon
<1>8. FlattenSeq(Spaced(q, z)) \in Seq(V)
  BY <1>7, FlattenFacts, Zenon
<1>9. FlattenSeq(Append(Spaced(q, z), Append(x, z))) = FlattenSeq(Spaced(q, z)) \o Append(x, z)
  <2>1. Append(x, z) \in Seq(V)
    BY <1>1
  <2> QED
    BY <1>7, <2>1, FlattenAppend, Zenon
<1> QED
  BY <1>7, <1>8, <1>9, Zenon DEF n, Q, SpacedAlike

\* The header of a single field.
LEMMA HeaderFirst ==
    ASSUME NEW V, NEW z \in V, NEW x \in Seq(V)
    PROVE  Header(<<x>>, z) = Append(x, z)
<1>1. Tail(<<x>>) = <<>> /\ <<x>>[1] = x
  OBVIOUS
<1>2. FlattenSeq(Spaced(<<>>, z)) = <<>>
  <2>1. Spaced(<<>>, z) = <<>>
    BY DEF Spaced
  <2>2. Len(<<>>) = 0
    OBVIOUS
  <2> QED
    BY <2>1, <2>2, FlattenDef, Zenon
<1>3. Append(x, z) \o <<>> = Append(x, z)
  <2>1. Append(x, z) \in Seq(V)
    OBVIOUS
  <2> DEFINE y == Append(x, z)
  <2> HIDE DEF y
  <2>2. y \o <<>> = y
    BY <2>1 DEF y
  <2> QED
    BY <2>2, Zenon DEF y
<1> QED
  BY <1>1, <1>2, <1>3, Zenon DEF Header

\* The header of one more field.
LEMMA HeaderNext ==
    ASSUME NEW V, NEW z \in V, NEW f \in Seq(Seq(V)), f # <<>>, NEW x \in Seq(V)
    PROVE  Header(f, z) \in Seq(V) /\ Header(Append(f, x), z) = Header(f, z) \o Append(x, z)
<1> DEFINE a == Append(f[1], z)
           b == FlattenSeq(Spaced(Tail(f), z))
           c == Append(x, z)
<1>1. /\ Tail(f) \in Seq(Seq(V)) /\ f[1] \in Seq(V) /\ Append(f, x)[1] = f[1]
      /\ Tail(Append(f, x)) = Append(Tail(f), x)
  OBVIOUS
<1>2. b \in Seq(V) /\ FlattenSeq(Spaced(Append(Tail(f), x), z)) = b \o c
  <2> DEFINE t == Tail(f)
  <2> HIDE DEF t
  <2>1. t \in Seq(Seq(V))
    BY <1>1, Zenon DEF t
  <2>2. SpacedAlike(V, t, x, z)
    BY <2>1, SpacedFacts, Zenon
  <2> QED
    BY <2>2, Zenon DEF t, SpacedAlike
<1>3. a \in Seq(V) /\ c \in Seq(V)
  <2>1. z \in V
    OBVIOUS
  <2> QED
    BY <1>1, <2>1
<1> HIDE DEF a, b, c
<1>4. a \o (b \o c) = (a \o b) \o c /\ a \o b \in Seq(V)
  <2>1. a \in Seq(V) /\ b \in Seq(V) /\ c \in Seq(V)
    BY <1>2, <1>3, Zenon
  <2>2. (a \o b) \o c = a \o (b \o c)
    <3>1. JoinsAlike(a, b, c)
      BY <2>1, JoinedAlike, Zenon
    <3> QED
      BY <3>1, Zenon DEF JoinsAlike
  <2>3. a \o b \in Seq(V)
    BY <2>1, ConcatProperties, Zenon
  <2> QED
    BY <2>2, <2>3, Zenon
<1>5. Header(f, z) = a \o b
  BY Zenon DEF Header, a, b
<1>6. Header(Append(f, x), z) = a \o (b \o c)
  BY <1>1, <1>2, Zenon DEF Header, a
<1> QED
  BY <1>4, <1>5, <1>6, Zenon DEF c

\* The first k fields f of a text have been split off, up to the space at p; r is left.
ReadTo(V, text, k, f, r, p) ==
    /\ f \in Seq(Seq(V)) /\ Len(f) = k /\ f[1] = FieldOf(text)
    /\ r = SubSeq(text, p + 1, Len(text)) /\ text[p] = " "
    /\ Cardinality(SpacesTo(text, p)) = k /\ SubSeq(text, 1, p) = Header(f, text[p])

\* The spaces of a text can be counted.
LEMMA SpacesCounted ==
    ASSUME NEW V, NEW text \in Seq(V), NEW p
    PROVE  /\ IsFiniteSet(SpacesIn(text)) /\ IsFiniteSet(SpacesTo(text, p))
           /\ Cardinality(SpacesTo(text, p)) \in Nat /\ Cardinality(SpacesIn(text)) \in Nat
           /\ Cardinality(SpacesTo(text, p)) <= Cardinality(SpacesIn(text))
<1>1. Len(text) \in Nat /\ DOMAIN text = 1..Len(text)
  OBVIOUS
<1>2. IsFiniteSet(1..Len(text))
  BY <1>1, FS_Interval
<1>3. SpacesIn(text) \in SUBSET (1..Len(text)) /\ SpacesTo(text, p) \in SUBSET SpacesIn(text)
  BY <1>1, Zenon DEF SpacesIn, SpacesTo
<1>4. IsFiniteSet(SpacesIn(text))
  BY <1>2, <1>3, FS_Subset
<1>5. IsFiniteSet(SpacesTo(text, p)) /\ Cardinality(SpacesTo(text, p)) <= Cardinality(SpacesIn(text))
  BY <1>3, <1>4, FS_Subset
<1> QED
  BY <1>4, <1>5, FS_CardinalityType

\* The first field is split off.
LEMMA FirstRead ==
    ASSUME NEW V, NEW text \in Seq(V), HasField(text)
    PROVE  /\ FieldOf(text) \in Seq(V) /\ AfterField(text) \in Seq(V)
           /\ \E p \in 1..Len(text) : ReadTo(V, text, 1, <<FieldOf(text)>>, AfterField(text), p)
<1> DEFINE n == Len(text)
           x == FieldOf(text)
<1>1. n \in Nat /\ 0 \in 0..n /\ text = SubSeq(text, 0 + 1, n)
  OBVIOUS
<1>2. PICK m \in (0 + 1)..n : FieldEndsAt(text, 0, text, m)
  BY <1>1, FieldFacts
<1>3. m \in 1..n /\ m - 1 \in 0..n /\ 0 \in 0..(m - 1) /\ m \in 0..n /\ n \in 0..n
  BY <1>1
<1>4. x = SubSeq(text, 0 + 1, m - 1) /\ AfterField(text) = SubSeq(text, m + 1, n) /\ text[m] = " "
      /\ SpacesTo(text, m) = SpacesTo(text, 0) \cup {m}
  BY <1>2, Zenon DEF FieldEndsAt
<1>5. x \in Seq(V) /\ AfterField(text) \in Seq(V)
  <2>1. SubSeq(text, 0 + 1, m - 1) \in Seq(V) /\ SubSeq(text, m + 1, n) \in Seq(V)
    BY <1>3, Part
  <2> QED
    BY <1>4, <2>1, Zenon
<1>6. text[m] \in V
  BY <1>3
<1> HIDE DEF x
<1>7. SubSeq(text, 1, m) = Append(x, text[m])
  <2>1. SubSeq(text, 1, m) = SubSeq(text, 1, 0) \o Append(SubSeq(text, 0 + 1, m - 1), text[m])
    BY <1>1, <1>2, PartNext
  <2>2. SubSeq(text, 1, 0) = <<>>
    OBVIOUS
  <2>3. <<>> \o Append(x, text[m]) = Append(x, text[m])
    <3>1. Append(x, text[m]) \in Seq(V)
      BY <1>5, <1>6, AppendProperties
    <3> DEFINE y == Append(x, text[m])
    <3> HIDE DEF y
    <3>2. <<>> \o y = y
      BY <3>1 DEF y
    <3> QED
      BY <3>2, Zenon DEF y
  <2> QED
    BY <1>4, <2>1, <2>2, <2>3, Zenon
<1>8. Header(<<x>>, text[m]) = Append(x, text[m])
  BY <1>5, <1>6, HeaderFirst, Zenon
<1>9. SpacesTo(text, 0) = {} /\ Cardinality(SpacesTo(text, m)) = 1
  <2>1. \A i \in DOMAIN text : ~(i <= 0)
    BY <1>1
  <2>2. SpacesTo(text, 0) = {}
    BY <2>1, Zenon DEF SpacesTo, SpacesIn
  <2>3. SpacesTo(text, m) = {m}
    BY <1>4, <2>2, Zenon
  <2>4. Cardinality({m}) = 1
    BY FS_Singleton
  <2> QED
    BY <2>2, <2>3, <2>4, Zenon
<1>10. <<x>> \in Seq(Seq(V)) /\ Len(<<x>>) = 1 /\ <<x>>[1] = x
  BY <1>5
<1>11. ReadTo(V, text, 1, <<x>>, AfterField(text), m)
  BY <1>4, <1>7, <1>8, <1>9, <1>10, Zenon DEF ReadTo, x
<1> QED
  BY <1>3, <1>5, <1>11, Zenon DEF x

\* One more field is split off.
LEMMA NextRead ==
    ASSUME NEW V, NEW text \in Seq(V), NEW k \in Nat, k # 0, NEW f, NEW r, NEW p \in 1..Len(text),
           ReadTo(V, text, k, f, r, p), HasField(r)
    PROVE  /\ FieldOf(r) \in Seq(V) /\ AfterField(r) \in Seq(V)
           /\ \E m \in 1..Len(text) : ReadTo(V, text, k + 1, Append(f, FieldOf(r)), AfterField(r), m)
<1> DEFINE n == Len(text)
           x == FieldOf(r)
<1>1. n \in Nat /\ p \in 0..n /\ n \in 0..n
  OBVIOUS
<1>2. /\ f \in Seq(Seq(V)) /\ Len(f) = k /\ f[1] = FieldOf(text)
      /\ r = SubSeq(text, p + 1, Len(text)) /\ text[p] = " "
      /\ Cardinality(SpacesTo(text, p)) = k /\ SubSeq(text, 1, p) = Header(f, text[p])
  BY Zenon DEF ReadTo
<1>3. \E m \in (p + 1)..n : FieldEndsAt(text, p, r, m)
  <2>1. r = SubSeq(text, p + 1, Len(text))
    BY <1>2, Zenon
  <2> QED
    BY <1>1, <2>1, FieldFacts
<1>4. PICK m \in (p + 1)..n : FieldEndsAt(text, p, r, m)
  BY <1>3, Zenon
<1>5. m \in 1..n /\ m - 1 \in 0..n /\ p \in 0..(m - 1) /\ m \in 0..n /\ ~(m <= p)
  BY <1>1
<1>6. x = SubSeq(text, p + 1, m - 1) /\ AfterField(r) = SubSeq(text, m + 1, n) /\ text[m] = text[p] /\ text[m] = " "
      /\ SpacesTo(text, m) = SpacesTo(text, p) \cup {m}
  BY <1>2, <1>4, Zenon DEF FieldEndsAt
<1>7. x \in Seq(V) /\ AfterField(r) \in Seq(V)
  <2>1. SubSeq(text, p + 1, m - 1) \in Seq(V) /\ SubSeq(text, m + 1, n) \in Seq(V)
    BY <1>1, <1>5, Part
  <2> QED
    BY <1>6, <2>1, Zenon
<1>8. text[m] \in V
  BY <1>5
<1> HIDE DEF x
<1>9. SubSeq(text, 1, m) = SubSeq(text, 1, p) \o Append(x, text[m])
  <2>1. SubSeq(text, 1, m) = SubSeq(text, 1, p) \o Append(SubSeq(text, p + 1, m - 1), text[m])
    BY <1>1, <1>4, PartNext
  <2> QED
    BY <1>6, <2>1, Zenon
<1>10. Header(Append(f, x), text[m]) = Header(f, text[m]) \o Append(x, text[m])
  <2>1. f # <<>>
    <3>1. Len(f) # 0
      BY <1>2, Zenon
    <3>2. Len(<<>>) = 0
      OBVIOUS
    <3> QED
      BY <3>1, <3>2, Zenon
  <2> DEFINE z == text[m]
  <2> HIDE DEF z
  <2>2. Header(Append(f, x), z) = Header(f, z) \o Append(x, z)
    BY <1>2, <1>7, <1>8, <2>1, HeaderNext, Zenon DEF z
  <2> QED
    BY <2>2, Zenon DEF z
<1>11. SubSeq(text, 1, m) = Header(Append(f, x), text[m])
  BY <1>2, <1>6, <1>9, <1>10, Zenon
<1>12. Cardinality(SpacesTo(text, m)) = k + 1
  <2>1. m \notin SpacesTo(text, p)
    BY <1>5, Zenon DEF SpacesTo
  <2>2. IsFiniteSet(SpacesTo(text, p))
    BY SpacesCounted, Zenon
  <2>3. Cardinality(SpacesTo(text, p) \cup {m}) = Cardinality(SpacesTo(text, p)) + 1
    BY <2>1, <2>2, FS_AddElement
  <2> QED
    BY <1>2, <1>6, <2>3, Zenon
<1>13. Append(f, x) \in Seq(Seq(V)) /\ Len(Append(f, x)) = k + 1 /\ Append(f, x)[1] = f[1]
  <2>1. f \in Seq(Seq(V)) /\ Len(f) = k
    BY <1>2, Zenon
  <2> QED
    BY <1>7, <2>1
<1>14. ReadTo(V, text, k + 1, Append(f, x), AfterField(r), m)
  BY <1>2, <1>6, <1>11, <1>12, <1>13, Zenon DEF ReadTo
<1> QED
  BY <1>5, <1>7, <1>14, Zenon DEF x

\* The text before anything has been split off.
Whole(text) == [ok |-> TRUE, fields |-> <<>>, remaining |-> text]

\* After k fields: they have been split off, or the text has fewer than k spaces.
HeaderAt(V, text, k, s) ==
    \E ok \in BOOLEAN, f \in Seq(Seq(V)), r \in Seq(V) :
        /\ SplitIs(V, s, ok, f, r)
        /\ ok => \E p \in 1..Len(text) : ReadTo(V, text, k, f, r, p)
        /\ ~ok => Cardinality(SpacesIn(text)) < k

\* It is so after the first field.
LEMMA HeaderStart ==
    ASSUME NEW V, NEW text \in Seq(V), NEW i
    PROVE  HeaderAt(V, text, 1, NextField(Whole(text), i))
<1> DEFINE s == NextField(Whole(text), i)
<1>1. SplitIs(V, Whole(text), TRUE, <<>>, text)
  BY FirstSplit, Zenon DEF Whole
<1>2. <<>> \in Seq(Seq(V)) /\ TRUE \in BOOLEAN /\ FALSE \in BOOLEAN
  OBVIOUS
<1>3. HasField(text) => FieldOf(text) \in Seq(V) /\ AfterField(text) \in Seq(V)
  BY FirstRead, Zenon
<1>4. /\ HasField(text) => SplitIs(V, s, TRUE, Append(<<>>, FieldOf(text)), AfterField(text))
      /\ ~HasField(text) => SplitIs(V, s, FALSE, <<>>, text)
  BY <1>1, <1>2, <1>3, NextFieldFacts, Zenon
<1> HIDE DEF s
<1>5. CASE HasField(text)
  <2>1. Append(<<>>, FieldOf(text)) = <<FieldOf(text)>> /\ <<FieldOf(text)>> \in Seq(Seq(V))
    BY <1>3, <1>5
  <2>2. \E p \in 1..Len(text) : ReadTo(V, text, 1, <<FieldOf(text)>>, AfterField(text), p)
    BY <1>5, FirstRead, Zenon
  <2>3. SplitIs(V, s, TRUE, <<FieldOf(text)>>, AfterField(text))
    BY <1>4, <1>5, <2>1, Zenon
  <2> QED
    BY <1>2, <1>3, <1>5, <2>1, <2>2, <2>3, Zenon DEF HeaderAt, s
<1>6. CASE ~HasField(text)
  <2>1. Cardinality(SpacesIn(text)) < 1
    <3>1. SpacesIn(text) = {}
      BY <1>6, Zenon DEF HasField
    <3>2. Cardinality(SpacesIn(text)) = 0
      BY <3>1, FS_EmptySet, Zenon
    <3> QED
      BY <3>2
  <2> QED
    BY <1>2, <1>4, <1>6, <2>1, Zenon DEF HeaderAt, s
<1> QED
  BY <1>5, <1>6, Zenon

\* It stays so with each further one.
LEMMA HeaderOn ==
    ASSUME NEW V, NEW text \in Seq(V), NEW k \in Nat, k # 0, NEW i, NEW s, HeaderAt(V, text, k, s)
    PROVE  HeaderAt(V, text, k + 1, NextField(s, i))
<1> DEFINE t == NextField(s, i)
<1>1. PICK ok \in BOOLEAN, f \in Seq(Seq(V)), r \in Seq(V) :
          /\ SplitIs(V, s, ok, f, r)
          /\ ok => \E p \in 1..Len(text) : ReadTo(V, text, k, f, r, p)
          /\ ~ok => Cardinality(SpacesIn(text)) < k
  BY Zenon DEF HeaderAt
<1>2. HasField(r) => FieldOf(r) \in Seq(V) /\ AfterField(r) \in Seq(V)
  BY FirstRead, Zenon
<1>3. /\ ok /\ HasField(r) => SplitIs(V, t, TRUE, Append(f, FieldOf(r)), AfterField(r))
      /\ ~(ok /\ HasField(r)) => SplitIs(V, t, FALSE, f, r)
  BY <1>1, <1>2, NextFieldFacts, Zenon
<1>4. TRUE \in BOOLEAN /\ FALSE \in BOOLEAN
  OBVIOUS
<1> HIDE DEF t
<1>5. CASE ok /\ HasField(r)
  <2>1. PICK p \in 1..Len(text) : ReadTo(V, text, k, f, r, p)
    BY <1>1, <1>5, Zenon
  <2>2. \E m \in 1..Len(text) : ReadTo(V, text, k + 1, Append(f, FieldOf(r)), AfterField(r), m)
    BY <1>5, <2>1, NextRead, Zenon
  <2>3. Append(f, FieldOf(r)) \in Seq(Seq(V)) /\ AfterField(r) \in Seq(V)
    BY <1>2, <1>5, AppendProperties
  <2>4. SplitIs(V, t, TRUE, Append(f, FieldOf(r)), AfterField(r))
    BY <1>3, <1>5, Zenon
  <2> QED
    BY <1>4, <2>2, <2>3, <2>4, Zenon DEF HeaderAt, t
<1>6. CASE ~(ok /\ HasField(r))
  <2>1. Cardinality(SpacesIn(text)) < k + 1
    <3>1. CASE ~ok
      <4>1. Cardinality(SpacesIn(text)) < k
        BY <1>1, <3>1, Zenon
      <4>2. Cardinality(SpacesIn(text)) \in Nat
        BY SpacesCounted, Zenon
      <4> QED
        BY <4>1, <4>2
    <3>2. CASE ok
      <4>1. ~HasField(r)
        BY <1>6, <3>2, Zenon
      <4>2. PICK p \in 1..Len(text) : ReadTo(V, text, k, f, r, p)
        BY <1>1, <3>2, Zenon
      <4>3. r = SubSeq(text, p + 1, Len(text)) /\ Cardinality(SpacesTo(text, p)) = k
        BY <4>2, Zenon DEF ReadTo
      <4>4. p \in 0..Len(text)
        OBVIOUS
      <4>5. SpacesIn(text) = SpacesTo(text, p)
        BY <4>1, <4>3, <4>4, FieldFacts, Zenon
      <4>6. Cardinality(SpacesIn(text)) = k
        BY <4>3, <4>5, Zenon
      <4> QED
        BY <4>6
    <3> QED
      BY <3>1, <3>2, Zenon
  <2> QED
    BY <1>3, <1>4, <1>6, <2>1, Zenon DEF HeaderAt, t
<1> QED
  BY <1>5, <1>6, Zenon

\* What is split further is of the same kind.
LEMMA SplitsOn ==
    ASSUME NEW V, NEW s \in Splits(V), NEW i
    PROVE  NextField(s, i) \in Splits(V)
<1>1. PICK ok \in BOOLEAN, f \in Seq(Seq(V)), r \in Seq(V) : SplitIs(V, s, ok, f, r)
  BY SplitOf
<1>2. HasField(r) => FieldOf(r) \in Seq(V) /\ AfterField(r) \in Seq(V)
  BY FirstRead, Zenon
<1>3. /\ ok /\ HasField(r) => SplitIs(V, NextField(s, i), TRUE, Append(f, FieldOf(r)), AfterField(r))
      /\ ~(ok /\ HasField(r)) => SplitIs(V, NextField(s, i), FALSE, f, r)
  BY <1>1, <1>2, NextFieldFacts, Zenon
<1> QED
  BY <1>3, Zenon DEF SplitIs

\* What splitting the header of a text computes.
Numbers(n) == [k \in 1..n |-> k]
HeaderSteps(f, text, n) ==
    f = [i \in 0..Len(Numbers(n)) |-> IF i = 0 THEN Whole(text) ELSE NextField(f[i - 1], Numbers(n)[i])]
Splitting(text, n) == CHOOSE f : HeaderSteps(f, text, n)

\* The header is the last value of it.
LEMMA HeaderDef == \A text, n : SplitHeader(text, n) = Splitting(text, n)[Len(Numbers(n))]
  BY Zenon DEF FoldAlong, SplitHeader, Splitting, HeaderSteps, Numbers, Whole

\* Splitting a header has a value.
LEMMA HeaderExists ==
    ASSUME NEW V, NEW text \in Seq(V), NEW n \in Nat
    PROVE  /\ HeaderSteps(Splitting(text, n), text, n) /\ Len(Numbers(n)) = n
           /\ \A i \in 1..n : Numbers(n)[i] = i
<1> DEFINE A == Splits(V)
           G == [z \in (1..n) \X A |-> NextField(z[2], Numbers(n)[z[1]])]
           w == Whole(text)
<1>1. Len(Numbers(n)) = n /\ \A i \in 1..n : Numbers(n)[i] = i
  BY DEF Numbers
<1>2. w \in A
  BY FirstSplit, Zenon DEF SplitIs, Whole
<1>3. ASSUME NEW s \in A, NEW i PROVE NextField(s, i) \in A
  BY SplitsOn
<1> HIDE DEF A, w
<1>4. \A i \in 1..n, s \in A : G[<<i, s>>] = NextField(s, Numbers(n)[i])
  OBVIOUS
<1> HIDE DEF G
<1>5. \A i \in 1..n : \A s \in A : G[<<i, s>>] \in A
  BY <1>3, <1>4, Zenon
<1>6. PICK f : Folding(f, G, A, w, n)
  BY <1>2, <1>5, FoldExists, Zenon DEF KeepsIn
<1>7. \A i \in 0..n : i # 0 => i \in 1..n /\ i - 1 \in 0..n
  OBVIOUS
<1>8. \A i \in 0..n : i # 0 => f[i - 1] \in A
  BY <1>6, <1>7 DEF Folding
<1>9. \A i \in 0..n : i # 0 => G[<<i, f[i - 1]>>] = NextField(f[i - 1], Numbers(n)[i])
  BY <1>4, <1>7, <1>8, Zenon
<1>10. f = [i \in 0..n |-> IF i = 0 THEN w ELSE NextField(f[i - 1], Numbers(n)[i])]
  <2>1. [i \in 0..n |-> IF i = 0 THEN w ELSE G[<<i, f[i - 1]>>]] = [i \in 0..n |-> IF i = 0 THEN w ELSE NextField(f[i - 1], Numbers(n)[i])]
    BY <1>9, Zenon
  <2> QED
    BY <1>6, <2>1, Zenon DEF Folding
<1>11. HeaderSteps(f, text, n)
  BY <1>1, <1>10, Zenon DEF HeaderSteps, w
<1> QED
  BY <1>1, <1>11, Zenon DEF Splitting

\* SplitHeader takes off the first n fields, or there are fewer than n spaces.
LEMMA HeaderIsSplit ==
    ASSUME NEW V, NEW text \in Seq(V), NEW n \in Nat, n # 0
    PROVE  HeaderAt(V, text, n, SplitHeader(text, n))
<1> DEFINE f == Splitting(text, n)
           I == {k \in Nat : k + 1 <= n => HeaderAt(V, text, k + 1, f[k + 1])}
<1>1. Len(Numbers(n)) = n /\ \A i \in 1..n : Numbers(n)[i] = i
  BY HeaderExists, Zenon
<1>2. HeaderSteps(f, text, n)
  BY HeaderExists, Zenon
<1> HIDE DEF f
<1>3. \A i \in 0..n : f[i] = IF i = 0 THEN Whole(text) ELSE NextField(f[i - 1], Numbers(n)[i])
  BY <1>1, <1>2, Zenon DEF HeaderSteps
<1>4. /\ 0 \in 0..n /\ 1 \in 0..n /\ 1 # 0 /\ 1 - 1 = 0
      /\ \A k \in Nat : k + 1 <= n => k + 1 \in 0..n /\ k + 1 # 0 /\ (k + 1) - 1 = k
  OBVIOUS
<1>5. 0 \in I
  <2>1. f[1] = NextField(Whole(text), Numbers(n)[1])
    BY <1>3, <1>4, Zenon
  <2>2. HeaderAt(V, text, 1, f[1])
    BY <2>1, HeaderStart, Zenon
  <2> QED
    BY <2>2
<1>6. ASSUME NEW k \in Nat, k \in I PROVE k + 1 \in I
  <2> SUFFICES ASSUME (k + 1) + 1 <= n PROVE HeaderAt(V, text, (k + 1) + 1, f[(k + 1) + 1])
    OBVIOUS
  <2>1. k + 1 <= n /\ k + 1 \in Nat /\ k + 1 # 0
    OBVIOUS
  <2>2. HeaderAt(V, text, k + 1, f[k + 1])
    BY <1>6, <2>1
  <2>3. f[(k + 1) + 1] = NextField(f[k + 1], Numbers(n)[(k + 1) + 1])
    BY <1>3, <1>4, <2>1, Zenon
  <2> HIDE DEF I
  <2> QED
    BY <2>1, <2>2, <2>3, HeaderOn, Zenon
<1> HIDE DEF I
<1>7. Nat \subseteq I
  BY <1>5, <1>6, Induction
<1>8. n - 1 \in Nat /\ (n - 1) + 1 = n /\ (n - 1) + 1 <= n
  OBVIOUS
<1>9. HeaderAt(V, text, n, f[n])
  BY <1>7, <1>8 DEF I
<1> QED
  BY <1>1, <1>9, HeaderDef, Zenon DEF f

-----------------------------------------------------------------------------
(* UTF-8 *)

\* UTF-8, with the bytes of a character outside ASCII as parameters.
WholeIn(t, i, u, v) ==
    (t[i] = u => i < Len(t) /\ t[i + 1] = v) /\ (t[i] = v => i > 1 /\ t[i - 1] = u)
CutIn(t, u, v) == \A i \in 1..Len(t) : WholeIn(t, i, u, v) \/ (i = Len(t) /\ t[i] = u)
ValidIn(t, u, v) == \A i \in 1..Len(t) : WholeIn(t, i, u, v)

\* It is what IsWhole says.
LEMMA WholeDef == \A t, i : IsWhole(t, i) <=> WholeIn(t, i, "u", "v")
<1> SUFFICES ASSUME NEW t, NEW i PROVE IsWhole(t, i) <=> WholeIn(t, i, "u", "v")
  OBVIOUS
<1>1. "u" # "v"
  OBVIOUS
<1>2. CASE t[i] = "u"
  <2>1. t[i] # "v"
    BY <1>1, <1>2, Zenon
  <2>2. IsWhole(t, i) <=> i < Len(t) /\ t[i + 1] = "v"
    BY <1>2, <2>1 DEF IsWhole
  <2> QED
    BY <1>2, <2>1, <2>2, Zenon DEF WholeIn
<1>3. CASE t[i] = "v"
  <2>1. t[i] # "u"
    BY <1>1, <1>3, Zenon
  <2>2. IsWhole(t, i) <=> i > 1 /\ t[i - 1] = "u"
    BY <1>3, <2>1 DEF IsWhole
  <2> QED
    BY <1>3, <2>1, <2>2, Zenon DEF WholeIn
<1>4. CASE t[i] # "u" /\ t[i] # "v"
  <2>1. IsWhole(t, i)
    BY <1>4 DEF IsWhole
  <2> QED
    BY <1>4, <2>1, Zenon DEF WholeIn
<1> QED
  BY <1>2, <1>3, <1>4, Zenon

\* It is what CutUTF8 and ValidUTF8 say.
LEMMA CutDef ==
    ASSUME NEW V, NEW t \in Seq(V)
    PROVE  (CutUTF8(t) <=> CutIn(t, "u", "v")) /\ (ValidUTF8(t) <=> ValidIn(t, "u", "v"))
<1>1. DOMAIN t = 1..Len(t)
  OBVIOUS
<1> QED
  BY <1>1, WholeDef, Zenon DEF CutUTF8, ValidUTF8, CutIn, ValidIn

\* A part of a text that is valid but for its end is so too, unless it begins within a character.
LEMMA CutPart ==
    ASSUME NEW V, NEW t \in Seq(V), NEW u, NEW v, NEW b \in 0..Len(t), NEW p \in 0..b,
           CutIn(t, u, v), p = 0 \/ t[p] # u
    PROVE  CutIn(SubSeq(t, p + 1, b), u, v)
<1> DEFINE s == SubSeq(t, p + 1, b)
<1>1. b \in Nat /\ p \in Nat /\ p <= b /\ b <= Len(t) /\ Len(t) \in Nat
  OBVIOUS
<1>2. Len(s) = b - p /\ \A i \in 1..(b - p) : s[i] = t[p + i]
  BY Part
<1> HIDE DEF s
<1>3. ASSUME NEW i \in 1..(b - p), s[i] = u, i # b - p PROVE i < b - p /\ s[i + 1] = v
  <2>1. i + 1 \in 1..(b - p) /\ p + i \in 1..Len(t) /\ p + i # Len(t) /\ p + (i + 1) = (p + i) + 1 /\ i < b - p
    BY <1>1, <1>3
  <2>2. t[p + i] = u
    BY <1>2, <1>3, Zenon
  <2>3. t[(p + i) + 1] = v
    BY <2>1, <2>2, Zenon DEF CutIn, WholeIn
  <2> QED
    BY <1>2, <2>1, <2>3, Zenon
<1>4. ASSUME NEW i \in 1..(b - p), s[i] = v, ~(i = b - p /\ s[i] = u) PROVE i > 1 /\ s[i - 1] = u
  <2>1. p + i \in 1..Len(t) /\ (p + i) - 1 = p + (i - 1) /\ (i # 1 => i > 1 /\ i - 1 \in 1..(b - p))
        /\ (i = 1 => (p + i) - 1 = p) /\ (p = 0 /\ i = 1 => ~(p + i > 1))
    BY <1>1
  <2>2. t[p + i] = v
    BY <1>2, <1>4, Zenon
  <2>3. p + i > 1 /\ t[(p + i) - 1] = u
    <3>1. CASE WholeIn(t, p + i, u, v)
      BY <2>2, <3>1, Zenon DEF WholeIn
    <3>2. CASE p + i = Len(t) /\ t[p + i] = u
      <4>1. p + i = b
        BY <1>1, <3>2
      <4>2. i = b - p
        BY <1>1, <4>1
      <4>3. s[i] = u
        BY <1>2, <3>2, Zenon
      <4> QED
        BY <1>4, <4>2, <4>3, Zenon
    <3> QED
      BY <2>1, <3>1, <3>2, Zenon DEF CutIn
  <2>4. i # 1
    <3> SUFFICES ASSUME i = 1 PROVE FALSE
      OBVIOUS
    <3>1. t[p] = u /\ p # 0
      BY <2>1, <2>3, Zenon
    <3> QED
      BY <3>1, Zenon
  <2>5. s[i - 1] = t[p + (i - 1)]
    BY <1>2, <2>1, <2>4, Zenon
  <2> QED
    BY <2>1, <2>3, <2>4, <2>5, Zenon
<1>5. ASSUME NEW i \in 1..Len(s) PROVE WholeIn(s, i, u, v) \/ (i = Len(s) /\ s[i] = u)
  <2>1. i \in 1..(b - p)
    BY <1>2, Zenon
  <2> QED
    BY <1>2, <1>3, <1>4, <2>1, Zenon DEF WholeIn
<1> QED
  BY <1>5, Zenon DEF CutIn, s

\* Without half a character at its end, such a text is valid.
LEMMA CutEnd ==
    ASSUME NEW V, NEW t \in Seq(V), NEW u, NEW v, u # v, CutIn(t, u, v)
    PROVE  /\ t = <<>> \/ t[Len(t)] # u => ValidIn(t, u, v)
           /\ t # <<>> /\ t[Len(t)] = u => ValidIn(SubSeq(t, 1, Len(t) - 1), u, v)
<1> DEFINE n == Len(t)
           s == SubSeq(t, 1, n - 1)
<1>1. n \in Nat /\ (t = <<>> => n = 0) /\ (t # <<>> => n # 0)
  OBVIOUS
<1>2. ASSUME t = <<>> \/ t[n] # u PROVE ValidIn(t, u, v)
  <2> SUFFICES ASSUME NEW i \in 1..n PROVE WholeIn(t, i, u, v)
    BY Zenon DEF ValidIn
  <2>1. t # <<>>
    BY <1>1
  <2> QED
    BY <1>2, <2>1, Zenon DEF CutIn
<1>3. ASSUME t # <<>>, t[n] = u PROVE ValidIn(s, u, v)
  <2>1. n - 1 \in 0..n /\ 0 \in 0..(n - 1) /\ n \in 1..n /\ (n - 1) - 0 = n - 1 /\ 0 + 1 = 1
    BY <1>1, <1>3
  <2>2. Len(s) = n - 1 /\ \A i \in 1..(n - 1) : s[i] = t[i]
    <3>1. /\ Len(SubSeq(t, 0 + 1, n - 1)) = (n - 1) - 0
          /\ \A i \in 1..((n - 1) - 0) : SubSeq(t, 0 + 1, n - 1)[i] = t[0 + i]
      BY <2>1, Part
    <3>2. \A i \in 1..(n - 1) : 0 + i = i
      BY <1>1
    <3> QED
      BY <2>1, <3>1, <3>2, Zenon
  <2> HIDE DEF s
  <2>3. ASSUME NEW i \in 1..(n - 1) PROVE WholeIn(s, i, u, v)
    <3>1. i \in 1..n /\ i # n /\ (i + 1 # n => i + 1 \in 1..(n - 1) /\ i < n - 1) /\ (i > 1 => i - 1 \in 1..(n - 1))
      BY <1>1
    <3>2. WholeIn(t, i, u, v)
      BY <3>1, Zenon DEF CutIn
    <3>3. ASSUME s[i] = u PROVE i < Len(s) /\ s[i + 1] = v
      <4>1. t[i + 1] = v
        BY <2>2, <3>2, <3>3, Zenon DEF WholeIn
      <4>2. i + 1 # n
        BY <1>3, <4>1, Zenon
      <4> QED
        BY <2>2, <3>1, <4>1, <4>2, Zenon
    <3>4. ASSUME s[i] = v PROVE i > 1 /\ s[i - 1] = u
      <4>1. i > 1 /\ t[i - 1] = u
        BY <2>2, <3>2, <3>4, Zenon DEF WholeIn
      <4> QED
        BY <2>2, <3>1, <4>1, Zenon
    <3> QED
      BY <3>3, <3>4, Zenon DEF WholeIn
  <2> QED
    BY <2>2, <2>3, Zenon DEF ValidIn
<1> QED
  BY <1>2, <1>3, Zenon

\* Making a text valid has a value, by its bytes.
LEMMA ValidExists ==
    ASSUME NEW V, NEW t \in Seq(V)
    PROVE  /\ Len(Indexes(t)) = Len(t)
           /\ \A i \in 0..Len(t) :
                 /\ Validating(t)[i] \in Seq(V)
                 /\ Validating(t)[i] = IF i = 0 THEN <<>>
                                       ELSE IF IsWhole(t, i) THEN Append(Validating(t)[i - 1], t[i]) ELSE Validating(t)[i - 1]
<1> DEFINE n == Len(t)
           A == Seq(V)
           x == Indexes(t)
           Next1(i, a) == IF IsWhole(t, x[i]) THEN Append(a, t[x[i]]) ELSE a
           G == [z \in (1..n) \X A |-> Next1(z[1], z[2])]
<1>1. n \in Nat /\ \A i \in 1..n : t[i] \in V
  OBVIOUS
<1>2. Len(x) = n /\ \A i \in 1..n : x[i] = i
  BY DEF Indexes
<1> HIDE DEF x
<1>3. ASSUME NEW i \in 1..n, NEW a \in A PROVE Next1(i, a) \in A
  <2>1. t[x[i]] \in V
    BY <1>1, <1>2, Zenon
  <2>2. Append(a, t[x[i]]) \in A
    BY <2>1
  <2> QED
    BY <2>2, Zenon
<1>4. \A i \in 1..n, a \in A : G[<<i, a>>] = Next1(i, a)
  <2> HIDE DEF n, A, Next1
  <2> QED
    OBVIOUS
<1>5. <<>> \in A
  OBVIOUS
<1> HIDE DEF G, n, A, Next1
<1>6. \A i \in 1..n : \A a \in A : G[<<i, a>>] \in A
  BY <1>3, <1>4, Zenon
<1>7. PICK f : Folding(f, G, A, <<>>, n)
  BY <1>1, <1>5, <1>6, FoldExists, Zenon DEF KeepsIn
<1>8. \A i \in 0..n : i # 0 => i \in 1..n /\ i - 1 \in 0..n
  BY <1>1
<1>9. \A i \in 0..n : i # 0 => f[i - 1] \in A
  BY <1>7, <1>8 DEF Folding
<1>10. \A i \in 0..n : i # 0 => G[<<i, f[i - 1]>>] = Next1(i, f[i - 1])
  BY <1>4, <1>8, <1>9, Zenon
<1>11. f = [i \in 0..n |-> IF i = 0 THEN <<>> ELSE Next1(i, f[i - 1])]
  <2>1. [i \in 0..n |-> IF i = 0 THEN <<>> ELSE G[<<i, f[i - 1]>>]] = [i \in 0..n |-> IF i = 0 THEN <<>> ELSE Next1(i, f[i - 1])]
    BY <1>10, Zenon
  <2> QED
    BY <1>7, <2>1, Zenon DEF Folding
<1>12. ValidSteps(f, t)
  BY <1>2, <1>11, Zenon DEF ValidSteps, x, Next1
<1> DEFINE g == Validating(t)
<1>13. ValidSteps(g, t)
  BY <1>12, Zenon DEF Validating
<1> HIDE DEF g
<1>14. g = [i \in 0..n |-> IF i = 0 THEN <<>> ELSE Next1(i, g[i - 1])]
  BY <1>2, <1>13, Zenon DEF ValidSteps, x, Next1
<1>15. \A i \in 0..n : g[i] = IF i = 0 THEN <<>> ELSE Next1(i, g[i - 1])
  BY <1>14, Zenon
<1> DEFINE I == {i \in Nat : i \in 0..n => g[i] \in A}
<1>16. 0 \in I
  BY <1>5, <1>15
<1>17. ASSUME NEW i \in Nat, i \in I PROVE i + 1 \in I
  <2> SUFFICES ASSUME i + 1 \in 0..n PROVE g[i + 1] \in A
    OBVIOUS
  <2>1. i \in 0..n /\ i + 1 \in 1..n /\ i + 1 # 0 /\ (i + 1) - 1 = i
    BY <1>1
  <2>2. g[i] \in A
    BY <1>17, <2>1
  <2>3. g[i + 1] = Next1(i + 1, g[i])
    BY <1>15, <2>1, Zenon
  <2> HIDE DEF I
  <2>4. Next1(i + 1, g[i]) \in A
    BY <1>3, <2>1, <2>2, Zenon
  <2> QED
    BY <2>3, <2>4, Zenon
<1> HIDE DEF I
<1>18. Nat \subseteq I
  BY <1>16, <1>17, Induction
<1>19. \A i \in 0..n : g[i] \in A
  <2>1. \A i \in 0..n : i \in Nat
    OBVIOUS
  <2> QED
    BY <1>18, <2>1 DEF I
<1>20. ASSUME NEW i \in 0..n
       PROVE  g[i] = IF i = 0 THEN <<>> ELSE IF IsWhole(t, i) THEN Append(g[i - 1], t[i]) ELSE g[i - 1]
  <2>1. CASE i = 0
    BY <1>15, <2>1, Zenon
  <2>2. CASE i # 0
    <3>1. x[i] = i
      BY <1>2, <1>8, <2>2, Zenon
    <3>2. g[i] = Next1(i, g[i - 1])
      BY <1>15, <2>2, Zenon
    <3> QED
      BY <2>2, <3>1, <3>2, Zenon DEF Next1
  <2> QED
    BY <2>1, <2>2, Zenon
<1> QED
  BY <1>2, <1>19, <1>20, Zenon DEF g, n, A, x

\* It only leaves bytes out, none of a text of whole characters, and half a character at the end.
LEMMA ValidText ==
    ASSUME NEW V, NEW t \in Seq(V)
    PROVE  /\ ToValidUTF8(t) \in Seq(V) /\ Len(ToValidUTF8(t)) <= Len(t)
           /\ Len(ToValidUTF8(t)) = Len(t) => ToValidUTF8(t) = t
           /\ (\A j \in 1..Len(t) : IsWhole(t, j)) => ToValidUTF8(t) = t
           /\ Len(t) # 0 /\ ~IsWhole(t, Len(t)) /\ (\A j \in 1..(Len(t) - 1) : IsWhole(t, j))
                 => ToValidUTF8(t) = SubSeq(t, 1, Len(t) - 1)
<1> DEFINE g == Validating(t)
           n == Len(t)
           P(i) == /\ Len(g[i]) <= i
                   /\ Len(g[i]) = i => g[i] = SubSeq(t, 1, i)
                   /\ (\A j \in 1..i : IsWhole(t, j)) => Len(g[i]) = i
           I == {i \in Nat : i \in 0..n => P(i)}
<1>1. ToValidUTF8(t) = g[n]
  BY ValidDef, ValidExists, Zenon
<1>2. \A i \in 0..n : g[i] \in Seq(V)
  BY ValidExists, Zenon
<1>3. \A i \in 0..n : g[i] = IF i = 0 THEN <<>> ELSE IF IsWhole(t, i) THEN Append(g[i - 1], t[i]) ELSE g[i - 1]
  BY ValidExists, Zenon
<1>4. n \in Nat /\ n \in 0..n /\ \A i \in 1..n : t[i] \in V
  OBVIOUS
<1>5. /\ SubSeq(t, 1, n) = t /\ SubSeq(t, 1, 0) = <<>>
      /\ \A i \in 0..n : i + 1 \in 1..n => SubSeq(t, 1, i + 1) = Append(SubSeq(t, 1, i), t[i + 1])
  <2>1. SubSeq(t, 1, n) = t /\ SubSeq(t, 1, 0) = <<>>
    OBVIOUS
  <2>2. ASSUME NEW i \in 0..n, i + 1 \in 1..n PROVE SubSeq(t, 1, i + 1) = Append(SubSeq(t, 1, i), t[i + 1])
    BY <2>2
  <2> QED
    BY <2>1, <2>2
<1> HIDE DEF g, n
<1>6. 0 \in I
  <2>1. g[0] = <<>>
    BY <1>3, <1>4
  <2>2. Len(g[0]) = 0 /\ 0 <= 0
    BY <2>1
  <2> QED
    BY <1>5, <2>1, <2>2, Zenon
<1>7. ASSUME NEW i \in Nat, i \in I PROVE i + 1 \in I
  <2> SUFFICES ASSUME i + 1 \in 0..n PROVE P(i + 1)
    OBVIOUS
  <2>1. i \in 0..n /\ i + 1 \in 1..n /\ i + 1 # 0 /\ (i + 1) - 1 = i /\ \A j \in 1..i : j \in 1..(i + 1)
        /\ i + 1 \in 1..(i + 1)
    BY <1>4
  <2>2. P(i)
    BY <1>7, <2>1
  <2>3. g[i + 1] = IF IsWhole(t, i + 1) THEN Append(g[i], t[i + 1]) ELSE g[i]
    BY <1>3, <2>1, Zenon
  <2>4. g[i] \in Seq(V) /\ t[i + 1] \in V
    BY <1>2, <1>4, <2>1, Zenon
  <2>5. Len(g[i]) \in Nat /\ Len(Append(g[i], t[i + 1])) = Len(g[i]) + 1
    BY <2>4, AppendProperties
  <2>6. CASE IsWhole(t, i + 1)
    <3>1. g[i + 1] = Append(g[i], t[i + 1])
      BY <2>3, <2>6, Zenon
    <3>2. Len(g[i + 1]) = Len(g[i]) + 1
      BY <2>5, <3>1, Zenon
    <3>3. Len(g[i + 1]) <= i + 1 /\ (Len(g[i + 1]) = i + 1 <=> Len(g[i]) = i)
      BY <2>2, <2>5, <3>2
    <3>4. Len(g[i]) = i => g[i + 1] = SubSeq(t, 1, i + 1)
      BY <1>5, <2>1, <2>2, <3>1, Zenon
    <3>5. (\A j \in 1..(i + 1) : IsWhole(t, j)) => Len(g[i]) = i
      BY <2>1, <2>2, Zenon
    <3> QED
      BY <3>3, <3>4, <3>5, Zenon
  <2>7. CASE ~IsWhole(t, i + 1)
    <3>1. g[i + 1] = g[i]
      BY <2>3, <2>7, Zenon
    <3>2. Len(g[i]) <= i + 1 /\ Len(g[i]) # i + 1
      BY <2>2, <2>5
    <3>3. Len(g[i + 1]) <= i + 1 /\ Len(g[i + 1]) # i + 1
      BY <3>1, <3>2, Zenon
    <3>4. ~(\A j \in 1..(i + 1) : IsWhole(t, j))
      <4>1. i + 1 \in 1..(i + 1)
        BY <2>1
      <4> QED
        BY <2>7, <4>1
    <3> QED
      BY <3>3, <3>4, Zenon
  <2> QED
    BY <2>6, <2>7
<1> HIDE DEF I
<1>8. Nat \subseteq I
  BY <1>6, <1>7, Induction
<1>9. \A i \in 0..n : P(i)
  <2>1. \A i \in 0..n : i \in Nat
    OBVIOUS
  <2> QED
    BY <1>8, <2>1 DEF I
<1>10. ASSUME n # 0, ~IsWhole(t, n), \A j \in 1..(n - 1) : IsWhole(t, j) PROVE g[n] = SubSeq(t, 1, n - 1)
  <2>1. n - 1 \in 0..n
    BY <1>4, <1>10
  <2>2. g[n] = g[n - 1]
    BY <1>3, <1>4, <1>10, Zenon
  <2>3. Len(g[n - 1]) = n - 1
    BY <1>9, <1>10, <2>1, Zenon
  <2> QED
    BY <1>9, <2>1, <2>2, <2>3, Zenon
<1>11. g[n] \in Seq(V) /\ Len(g[n]) <= n /\ (Len(g[n]) = n => g[n] = t) /\ ((\A j \in 1..n : IsWhole(t, j)) => g[n] = t)
  BY <1>2, <1>4, <1>5, <1>9, Zenon
<1> QED
  BY <1>1, <1>10, <1>11, Zenon DEF n

\* The last of some positions.
LEMMA LastIs ==
    ASSUME NEW n \in Nat, NEW E \in SUBSET (1..n)
    PROVE  IF E = {} THEN LastOf(E, 0) = 0 ELSE LastOf(E, 0) \in E
<1>1. CASE E = {}
  BY <1>1 DEF LastOf
<1>2. CASE E # {}
  <2>1. PICK e \in E : \A f \in E : f <= e
    BY <1>2, LastExists
  <2>2. \A f \in E : e >= f
    <3>1. \A f \in E : f \in Nat /\ e \in Nat
      OBVIOUS
    <3> QED
      BY <2>1, <3>1
  <2>3. LastOf(E, 0) = CHOOSE x \in E : \A y \in E : x >= y
    BY <1>2, Zenon DEF LastOf, Max
  <2> QED
    BY <1>2, <2>2, <2>3, Zenon
<1> QED
  BY <1>1, <1>2

\* The lesser of two numbers.
LEMMA LeastOfTwo ==
    ASSUME NEW a \in Nat, NEW b \in Nat, a <= b
    PROVE  Min({a, b}) = a
<1>1. \A y \in {a, b} : a <= y
  OBVIOUS
<1>2. \A x \in {a, b} : (\A y \in {a, b} : x <= y) => x = a
  OBVIOUS
<1>3. Min({a, b}) = CHOOSE x \in {a, b} : \A y \in {a, b} : x <= y
  BY Zenon DEF Min
<1> DEFINE P(x) == x \in {a, b} /\ \A y \in {a, b} : x <= y
<1>4. P(a) /\ \A x : P(x) => x = a
  BY <1>1, <1>2
<1>5. Min({a, b}) = CHOOSE x : P(x)
  BY <1>3
<1> HIDE DEF P
<1> QED
  BY <1>4, <1>5

\* Where the last ASCII byte is.
LEMMA ASCIIEnd ==
    ASSUME NEW V, NEW t \in Seq(V)
    PROVE  /\ LastEndOfASCII(t) \in 0..Len(t)
           /\ LastEndOfASCII(t) = 0 \/ t[LastEndOfASCII(t)] \notin {"u", "v"}
<1> DEFINE E == {i \in DOMAIN t : t[i] \notin {"u", "v"}}
<1>1. Len(t) \in Nat /\ DOMAIN t = 1..Len(t) /\ 0 \in 0..Len(t) /\ \A i \in 1..Len(t) : i \in 0..Len(t)
  OBVIOUS
<1>2. LastEndOfASCII(t) = LastOf(E, 0)
  BY Zenon DEF LastEndOfASCII
<1>3. E \in SUBSET (1..Len(t)) /\ \A i \in E : t[i] \notin {"u", "v"}
  BY <1>1, Zenon
<1> HIDE DEF E
<1>4. IF E = {} THEN LastOf(E, 0) = 0 ELSE LastOf(E, 0) \in E
  BY <1>1, <1>3, LastIs
<1> QED
  BY <1>1, <1>2, <1>3, <1>4, Zenon

\* Overwriting with no more than there is room for puts it after the first bytes.
LEMMA OverwriteFacts ==
    ASSUME NEW V, NEW t \in Seq(V), NEW e \in 0..Len(t), NEW r \in Seq(V), Len(r) <= Len(t) - e
    PROVE  /\ Edited(OverwriteNTruncate(t, e, r)) = SubSeq(t, 1, e) \o r
           /\ SubSeq(t, 1, e) \in Seq(V) /\ Len(SubSeq(t, 1, e)) = e
<1> DEFINE n == Len(r)
           a == SubSeq(t, 1, e)
           b == SubSeq(t, e + n + 1, Len(t))
           m == (a \o r) \o b
<1>1. Len(t) \in Nat /\ e \in Nat /\ n \in Nat /\ e + n <= Len(t) /\ 0 \in 0..e /\ e - 0 = e /\ 0 + 1 = 1
      /\ Len(t) - e \in Nat /\ Len(t) \in 0..Len(t) /\ e + n \in 0..Len(t)
  OBVIOUS
<1>2. a \in Seq(V) /\ Len(a) = e
  <2>1. SubSeq(t, 0 + 1, e) \in Seq(V) /\ Len(SubSeq(t, 0 + 1, e)) = e - 0
    BY <1>1, Part
  <2> QED
    BY <1>1, <2>1, Zenon
<1>3. b \in Seq(V)
  <2>1. SubSeq(t, (e + n) + 1, Len(t)) \in Seq(V)
    BY <1>1, Part
  <2> QED
    BY <2>1
<1>4. Min({Len(r), Len(t) - e}) = n
  BY <1>1, LeastOfTwo
<1>5. SubSeq(r, 1, n) = r
  OBVIOUS
<1>6. OverwriteNTruncate(t, e, r) = [memory |-> m, length |-> e + n]
  <2> HIDE DEF n
  <2>1. OverwriteNTruncate(t, e, r) = [memory |-> a \o SubSeq(r, 1, n) \o b, length |-> e + n]
    BY <1>4, Zenon DEF OverwriteNTruncate, Upto, From
  <2> QED
    BY <1>5, <2>1, Zenon
<1>7. SubSeq(m, 1, e + n) = a \o r
  <2>1. a \o r \in Seq(V) /\ Len(a \o r) = e + n
    BY <1>2, ConcatProperties
  <2>2. ASSUME NEW x \in Seq(V), NEW y \in Seq(V) PROVE SubSeq(x \o y, 1, Len(x)) = x
    OBVIOUS
  <2> HIDE DEF a, b, n
  <2>3. SubSeq((a \o r) \o b, 1, Len(a \o r)) = a \o r
    BY <1>3, <2>1, <2>2, Zenon
  <2> QED
    BY <2>1, <2>3, Zenon
<1> HIDE DEF m, a, b, n
<1>8. OverwriteNTruncate(t, e, r).memory = m /\ OverwriteNTruncate(t, e, r).length = e + n
  BY <1>6
<1>9. Edited(OverwriteNTruncate(t, e, r)) = a \o r
  BY <1>7, <1>8, Zenon DEF Edited, Upto
<1> QED
  BY <1>2, <1>9, Zenon DEF a

\* Cleaning a text makes what follows the last ASCII byte valid.
LEMMA CleanDef ==
    ASSUME NEW V, NEW t \in Seq(V)
    PROVE  LET e == LastEndOfASCII(t)
               s == SubSeq(t, e + 1, Len(t))
           IN  /\ s \in Seq(V) /\ Len(s) = Len(t) - e /\ SubSeq(t, 1, e) \in Seq(V) /\ Len(SubSeq(t, 1, e)) = e
               /\ Edited(CleanUTF8(t)) = SubSeq(t, 1, e) \o ToValidUTF8(s)
<1> DEFINE e == LastEndOfASCII(t)
           s == SubSeq(t, e + 1, Len(t))
<1>1. e \in 0..Len(t)
  BY ASCIIEnd, Zenon
<1>2. CleanUTF8(t) = OverwriteNTruncate(t, e, ToValidUTF8(s))
  BY Zenon DEF CleanUTF8, From
<1> HIDE DEF e
<1>3. Len(t) \in 0..Len(t) /\ e \in 0..Len(t) /\ e \in 0..Len(t)
  BY <1>1
<1>4. s \in Seq(V) /\ Len(s) = Len(t) - e
  BY <1>3, Part
<1> HIDE DEF s
<1>5. ToValidUTF8(s) \in Seq(V) /\ Len(ToValidUTF8(s)) <= Len(s)
  BY <1>4, ValidText, Zenon
<1> DEFINE r == ToValidUTF8(s)
<1> HIDE DEF r
<1>6. r \in Seq(V) /\ Len(r) <= Len(t) - e
  BY <1>4, <1>5, Zenon DEF r
<1>7. /\ Edited(OverwriteNTruncate(t, e, r)) = SubSeq(t, 1, e) \o r
      /\ SubSeq(t, 1, e) \in Seq(V) /\ Len(SubSeq(t, 1, e)) = e
  BY <1>1, <1>6, OverwriteFacts, Zenon
<1> QED
  BY <1>2, <1>4, <1>7, Zenon DEF e, s, r

\* Of a text that is valid but for its end, ToValidUTF8 leaves the longest valid beginning.
LEMMA ValidCut ==
    ASSUME NEW V, NEW t \in Seq(V), CutUTF8(t)
    PROVE  \E m \in 0..Len(t) :
              /\ ToValidUTF8(t) = SubSeq(t, 1, m) /\ ValidUTF8(SubSeq(t, 1, m))
<1> DEFINE n == Len(t)
<1>1. n \in Nat /\ DOMAIN t = 1..n /\ n \in 0..n /\ SubSeq(t, 1, n) = t
      /\ (n # 0 => n \in 1..n /\ n - 1 \in 0..n /\ t # <<>> /\ 0 \in 0..(n - 1) /\ 0 + 1 = 1)
      /\ \A j \in 1..(n - 1) : j \in 1..n /\ j # n
  OBVIOUS
<1> HIDE DEF n
<1>2. \A i \in 1..n : IsWhole(t, i) \/ (i = n /\ t[i] = "u")
  BY <1>1, Zenon DEF CutUTF8, n
<1>3. CASE \A i \in 1..n : IsWhole(t, i)
  <2>1. ToValidUTF8(t) = t
    BY <1>3, ValidText, Zenon DEF n
  <2>2. ValidUTF8(t)
    BY <1>1, <1>3, Zenon DEF ValidUTF8
  <2> QED
    BY <1>1, <2>1, <2>2, Zenon DEF n
<1>4. CASE \E i \in 1..n : ~IsWhole(t, i)
  <2>1. ~IsWhole(t, n) /\ t[n] = "u" /\ \A j \in 1..(n - 1) : IsWhole(t, j)
    BY <1>1, <1>2, <1>4, Zenon
  <2>2. n # 0
    <3>1. 1..0 = {}
      OBVIOUS
    <3> QED
      BY <1>4, <3>1
  <2>3. ToValidUTF8(t) = SubSeq(t, 1, n - 1)
    BY <2>1, <2>2, ValidText, Zenon DEF n
  <2>4. CutIn(t, "u", "v")
    BY CutDef, Zenon
  <2>5. "u" # "v"
    OBVIOUS
  <2>6. ValidIn(SubSeq(t, 1, n - 1), "u", "v")
    BY <1>1, <2>1, <2>2, <2>4, <2>5, CutEnd, Zenon DEF n
  <2>7. SubSeq(t, 1, n - 1) \in Seq(V)
    <3>1. n - 1 \in 0..Len(t) /\ 0 \in 0..(n - 1) /\ 0 + 1 = 1
      BY <1>1, <2>2, Zenon DEF n
    <3>2. SubSeq(t, 0 + 1, n - 1) \in Seq(V)
      BY <3>1, Part
    <3> QED
      BY <3>1, <3>2, Zenon
  <2>8. ValidUTF8(SubSeq(t, 1, n - 1))
    BY <2>6, <2>7, CutDef, Zenon
  <2> QED
    BY <1>1, <2>2, <2>3, <2>8, Zenon DEF n
<1> QED
  BY <1>3, <1>4, Zenon

\* Cleaning makes no text longer, and of one that is valid but for its end a valid beginning.
LEMMA CleanFacts ==
    ASSUME NEW V, NEW t \in Seq(V)
    PROVE  LET c == Edited(CleanUTF8(t)) IN
           /\ c \in Seq(V) /\ Len(c) <= Len(t) /\ (Len(c) = Len(t) => c = t)
           /\ CutUTF8(t) => (\E m \in 0..Len(t) : c = SubSeq(t, 1, m)) /\ ValidUTF8(c)
<1> DEFINE n == Len(t)
           e == LastEndOfASCII(t)
           s == SubSeq(t, e + 1, n)
           a == SubSeq(t, 1, e)
           c == Edited(CleanUTF8(t))
           r == ToValidUTF8(s)
<1>1. e \in 0..n /\ (e = 0 \/ t[e] \notin {"u", "v"})
  BY ASCIIEnd, Zenon
<1>2. s \in Seq(V) /\ Len(s) = n - e /\ a \in Seq(V) /\ Len(a) = e /\ c = a \o r
  BY CleanDef, Zenon
<1>3. n \in Nat /\ n \in 0..n
  OBVIOUS
<1>4. a \o s = t
  <2>1. SubSeq(t, 1, e) \o SubSeq(t, e + 1, n) = SubSeq(t, 1, n)
    BY <1>1, <1>3, PartsJoin
  <2>2. SubSeq(t, 1, n) = t
    OBVIOUS
  <2> QED
    BY <2>1, <2>2
<1>5. r \in Seq(V) /\ Len(r) <= n - e /\ (Len(r) = n - e => r = s)
  <2> HIDE DEF s, n
  <2> QED
    BY <1>2, ValidText, Zenon
<1> HIDE DEF c, r
<1>6. c \in Seq(V) /\ Len(c) <= n /\ (Len(c) = n => c = t)
  <2>1. a \o r \in Seq(V) /\ Len(a \o r) = e + Len(r)
    BY <1>2, <1>5, ConcatProperties
  <2> HIDE DEF a, s, e, n
  <2>2. c \in Seq(V) /\ Len(c) = e + Len(r)
    BY <1>2, <2>1, Zenon
  <2>3. Len(c) <= n /\ (Len(c) = n => Len(r) = n - e)
    <3>1. Len(r) \in Nat /\ e \in Nat
      BY <1>1, <1>5
    <3> QED
      BY <1>1, <1>3, <1>5, <2>2, <3>1
  <2> QED
    BY <1>2, <1>4, <1>5, <2>2, <2>3, Zenon
<1>7. ASSUME CutUTF8(t) PROVE (\E m \in 0..n : c = SubSeq(t, 1, m)) /\ ValidUTF8(c)
  <2>1. CutIn(t, "u", "v")
    BY <1>7, CutDef, Zenon
  <2>2. t[e] # "u" \/ e = 0
    BY <1>1
  <2>3. CutIn(s, "u", "v")
    <3> HIDE DEF e
    <3> QED
      BY <1>1, <1>3, <2>1, <2>2, CutPart, Zenon DEF s
  <2> HIDE DEF s
  <2>4. CutUTF8(s)
    BY <1>2, <2>3, CutDef, Zenon
  <2>5. PICK m \in 0..Len(s) : r = SubSeq(s, 1, m) /\ ValidUTF8(SubSeq(s, 1, m))
    BY <1>2, <2>4, ValidCut, Zenon DEF r
  <2>6. e \in Nat /\ m \in Nat /\ m \in 0..(n - e) /\ e + m \in 0..n /\ e \in 0..(e + m) /\ 0 \in 0..(e + m) /\ 0 + 1 = 1
        /\ e <= n
    <3> HIDE DEF n, e
    <3>1. e \in 0..n /\ m \in 0..(n - e)
      BY <1>1, <1>2, <2>5, Zenon
    <3> QED
      BY <1>3, <3>1
  <2>7. r = SubSeq(t, e + 1, e + m)
    <3> HIDE DEF e
    <3>1. SubSeq(s, 1, m) = SubSeq(t, e + 1, e + m)
      BY <1>1, <2>6, PartOfRest DEF s
    <3> QED
      BY <2>5, <3>1, Zenon
  <2>8. c = SubSeq(t, 1, e + m)
    <3> HIDE DEF e
    <3>1. SubSeq(t, 1, e) \o SubSeq(t, e + 1, e + m) = SubSeq(t, 1, e + m)
      BY <2>6, PartsJoin
    <3> QED
      BY <1>2, <2>7, <3>1, Zenon
  <2>9. ValidUTF8(c)
    <3> DEFINE k == e + m
               d == SubSeq(t, 1, k)
    <3>1. CutIn(SubSeq(t, 0 + 1, k), "u", "v")
      <4> HIDE DEF k
      <4>1. k \in 0..Len(t) /\ 0 \in 0..k
        BY <2>6 DEF k
      <4> QED
        BY <2>1, <4>1, CutPart
    <3>2. CutIn(d, "u", "v")
      BY <2>6, <3>1, Zenon
    <3>3. d \in Seq(V) /\ Len(d) = k /\ \A i \in 1..k : d[i] = t[i]
      <4> HIDE DEF k
      <4>1. k \in 0..Len(t) /\ 0 \in 0..k /\ k - 0 = k /\ \A i \in 1..k : 0 + i = i
        BY <2>6 DEF k
      <4>2. SubSeq(t, 0 + 1, k) \in Seq(V) /\ Len(SubSeq(t, 0 + 1, k)) = k - 0
            /\ \A i \in 1..(k - 0) : SubSeq(t, 0 + 1, k)[i] = t[0 + i]
        BY <4>1, Part
      <4> QED
        BY <2>6, <4>1, <4>2, Zenon
    <3> DEFINE noHalf == d = <<>> \/ d[Len(d)] # "u"
    <3>4. noHalf
      <4>1. CASE m = 0
        <5>1. k = e
          BY <2>6, <4>1
        <5>2. CASE e = 0
          <6>1. Len(d) = 0
            BY <3>3, <5>1, <5>2, Zenon
          <6> QED
            BY <3>3, <6>1
        <5>3. CASE e # 0
          <6>1. e \in 1..e
            BY <2>6, <5>3
          <6>2. d[Len(d)] = t[e]
            BY <3>3, <5>1, <6>1, Zenon
          <6> QED
            BY <2>2, <5>3, <6>2, Zenon
        <5> QED
          BY <5>2, <5>3
      <4>2. CASE m # 0
        <5>1. k \in 1..k /\ m \in 1..m /\ m \in 1..Len(t)
          BY <2>6, <4>2
        <5>2. Len(r) = m /\ r[m] = t[k]
          <6> HIDE DEF n, e
          <6>1. Len(SubSeq(t, e + 1, e + m)) = (e + m) - e /\ \A i \in 1..((e + m) - e) : SubSeq(t, e + 1, e + m)[i] = t[e + i]
            <7>1. e + m \in 0..Len(t) /\ e \in 0..(e + m)
              BY <2>6 DEF n
            <7> QED
              BY <7>1, Part
          <6>2. (e + m) - e = m
            BY <2>6
          <6> QED
            BY <2>7, <5>1, <6>1, <6>2, Zenon
        <5>3. ValidIn(r, "u", "v")
          BY <1>5, <2>5, CutDef, Zenon
        <5>4. r[m] # "u"
          <6>1. WholeIn(r, m, "u", "v")
            BY <5>1, <5>2, <5>3, Zenon DEF ValidIn
          <6>2. ~(m < m)
            BY <2>6
          <6> QED
            BY <5>2, <6>1, <6>2, Zenon DEF WholeIn
        <5> QED
          <6>1. d[Len(d)] = t[k]
            BY <3>3, <5>1, Zenon
          <6> QED
            BY <5>2, <5>4, <6>1, Zenon
      <4> HIDE DEF noHalf
      <4> QED
        BY <4>1, <4>2
    <3>5. "u" # "v"
      OBVIOUS
    <3> HIDE DEF d
    <3>6. ValidIn(d, "u", "v")
      BY <3>2, <3>3, <3>4, <3>5, CutEnd, Zenon
    <3>7. ValidUTF8(d)
      BY <3>3, <3>6, CutDef, Zenon
    <3> QED
      BY <2>8, <3>7, Zenon DEF d
  <2> QED
    BY <2>6, <2>8, <2>9, Zenon
<1> QED
  BY <1>6, <1>7, Zenon DEF c, n

-----------------------------------------------------------------------------
(* A record and its text *)

\* The lengths that are assumed.
LEMMA LengthsAssumed ==
    MinTextLen \in Nat /\ MaxMessageLen \in Nat /\ MaxRecordLen >= MaxMessageLen /\ NumRestFields \in Nat \ {0}
  BY ParserAssumption, Zenon

\* A sequence begins with another.
Beginning(q, r) == \E m \in 0..Len(r) : q = SubSeq(r, 1, m)

\* The message is what follows the header, or no more than the limit of it; a beginning of it
\* and valid, when only its end may be invalid.
LEMMA MessageFacts ==
    ASSUME NEW V, NEW r \in Seq(V), NEW l \in Nat
    PROVE  LET log == MessageOf(r, l) IN
           /\ log \in Seq(V) /\ Len(log) <= Len(r) /\ (Len(log) = Len(r) => log = r) /\ Len(log) <= MaxMessageLen
           /\ l < MaxRecordLen => Beginning(log, r)
           /\ l >= MaxRecordLen /\ CutUTF8(r) => Beginning(log, r) /\ ValidUTF8(log)
<1> DEFINE n == Len(r)
           cut == IF n > MaxMessageLen THEN SubSeq(r, 1, MaxMessageLen) ELSE r
           log == MessageOf(r, l)
           c == Edited(CleanUTF8(cut))
<1>1. n \in Nat /\ MaxMessageLen \in Nat /\ n \in 0..n
  BY LengthsAssumed
<1>2. log = IF l >= MaxRecordLen THEN c ELSE cut
  BY Zenon DEF MessageOf
<1>3. PICK k \in 0..n : cut = SubSeq(r, 1, k) /\ k <= MaxMessageLen
  <2>1. CASE n > MaxMessageLen
    <3>1. MaxMessageLen \in 0..n /\ MaxMessageLen <= MaxMessageLen
      BY <1>1, <2>1
    <3> QED
      BY <2>1, <3>1, Zenon
  <2>2. CASE ~(n > MaxMessageLen)
    <3>1. n <= MaxMessageLen /\ SubSeq(r, 1, n) = r
      BY <1>1, <2>2
    <3> QED
      BY <1>1, <2>2, <3>1, Zenon
  <2> QED
    BY <2>1, <2>2
<1> HIDE DEF cut
<1>4. cut \in Seq(V) /\ Len(cut) = k /\ (k = n => cut = r) /\ SubSeq(r, 0 + 1, k) = cut
  <2>1. k \in 0..Len(r) /\ 0 \in 0..k /\ k - 0 = k /\ 0 + 1 = 1
    BY <1>1
  <2>2. SubSeq(r, 0 + 1, k) \in Seq(V) /\ Len(SubSeq(r, 0 + 1, k)) = k - 0
    BY <2>1, Part
  <2>3. SubSeq(r, 1, n) = r
    OBVIOUS
  <2> QED
    BY <1>3, <2>1, <2>2, <2>3, Zenon
<1>5. /\ c \in Seq(V) /\ Len(c) <= k /\ (Len(c) = k => c = cut)
      /\ CutUTF8(cut) => (\E m \in 0..k : c = SubSeq(cut, 1, m)) /\ ValidUTF8(c)
  BY <1>4, CleanFacts, Zenon
<1> HIDE DEF c, log
<1>6. Len(c) \in Nat /\ k \in Nat /\ k <= n
  BY <1>1, <1>5
<1>7. log \in Seq(V) /\ Len(log) <= n /\ (Len(log) = n => log = r) /\ Len(log) <= MaxMessageLen
  <2>1. CASE l >= MaxRecordLen
    <3>1. log = c
      BY <1>2, <2>1, Zenon
    <3>2. Len(c) <= n /\ (Len(c) = n => Len(c) = k /\ k = n) /\ Len(c) <= MaxMessageLen
      <4> HIDE DEF n
      <4>1. Len(c) <= k
        BY <1>5, Zenon
      <4>2. k <= MaxMessageLen
        BY <1>3, Zenon
      <4> QED
        BY <1>1, <1>6, <4>1, <4>2
    <3> QED
      BY <1>4, <1>5, <3>1, <3>2, Zenon
  <2>2. CASE ~(l >= MaxRecordLen)
    <3>1. log = cut
      BY <1>2, <2>2, Zenon
    <3> QED
      BY <1>3, <1>4, <1>6, <3>1, Zenon
  <2> QED
    BY <2>1, <2>2
<1>8. ASSUME l < MaxRecordLen PROVE Beginning(log, r)
  <2>1. ~(l >= MaxRecordLen)
    BY <1>8, LengthsAssumed, InputAssumption, ReaderAssumption
  <2> QED
    BY <1>2, <1>3, <2>1, Zenon DEF Beginning, n
<1>9. ASSUME l >= MaxRecordLen, CutUTF8(r) PROVE Beginning(log, r) /\ ValidUTF8(log)
  <2>1. log = c
    BY <1>2, <1>9, Zenon
  <2>2. CutIn(r, "u", "v")
    BY <1>9, CutDef, Zenon
  <2>3. CutIn(SubSeq(r, 0 + 1, k), "u", "v")
    <3>1. k \in 0..Len(r) /\ 0 \in 0..k
      BY <1>1
    <3> QED
      BY <2>2, <3>1, CutPart
  <2>4. CutUTF8(cut)
    BY <1>4, <2>3, CutDef, Zenon
  <2>5. PICK m \in 0..k : c = SubSeq(cut, 1, m)
    BY <1>5, <2>4, Zenon
  <2>6. SubSeq(cut, 1, m) = SubSeq(r, 1, m) /\ m \in 0..n
    <3>1. m \in 0..n /\ m \in Nat /\ m <= k /\ k <= n
      BY <1>6
    <3>2. ASSUME NEW q \in Seq(V), NEW b \in 0..Len(q), NEW a \in 0..b PROVE SubSeq(SubSeq(q, 1, b), 1, a) = SubSeq(q, 1, a)
      OBVIOUS
    <3> QED
      BY <1>3, <3>1, <3>2 DEF n
  <2> QED
    BY <1>5, <2>1, <2>4, <2>5, <2>6, Zenon DEF Beginning, n
<1> QED
  BY <1>7, <1>8, <1>9, Zenon DEF log, n

\* The first field is a pri token exactly when the text begins with one and a space.
LEMMA PriFacts ==
    ASSUME NEW V, NEW text \in Seq(V), HasField(text), Len(text) >= 2
    PROVE  /\ Len(FieldOf(text)) = 1 => FieldOf(text) = <<text[1]>>
           /\ Len(FieldOf(text)) = 1 /\ FieldOf(text)[1] \in DOMAIN PriValue <=> text[1] \in DOMAIN PriValue /\ text[2] = Space
<1> DEFINE n == Len(text)
           m == FirstSpace(text)
           x == FieldOf(text)
<1>1. n \in Nat /\ n >= 2 /\ DOMAIN text = 1..n /\ 1 \in 1..n /\ 2 \in 1..n /\ \A i \in 1..n : i \in Nat
  OBVIOUS
<1>2. SpacesIn(text) = {i \in 1..n : text[i] = " "}
  BY <1>1, Zenon DEF SpacesIn
<1>3. m \in SpacesIn(text) /\ \A j \in SpacesIn(text) : m <= j
  <2>1. SpacesIn(text) \in SUBSET Nat /\ SpacesIn(text) # {}
    BY <1>1, <1>2, Zenon DEF HasField
  <2>2. \E i \in SpacesIn(text) : \A j \in SpacesIn(text) : i <= j
    BY <2>1, FirstExists
  <2> QED
    BY <2>2, Zenon DEF FirstSpace
<1>4. x = SubSeq(text, 1, m - 1)
  BY Zenon DEF FieldOf
<1> HIDE DEF m, x, n
<1>5. m \in 1..n /\ text[m] = " "
  BY <1>2, <1>3, Zenon
<1>6. Len(x) = m - 1 /\ \A i \in 1..(m - 1) : x[i] = text[i]
  <2>1. m - 1 \in 0..Len(text) /\ 0 \in 0..(m - 1) /\ (m - 1) - 0 = m - 1 /\ 0 + 1 = 1 /\ \A i \in 1..(m - 1) : 0 + i = i
    <3>1. m \in 1..n
      BY <1>5
    <3> QED
      BY <1>1, <3>1 DEF n
  <2>2. /\ Len(SubSeq(text, 0 + 1, m - 1)) = (m - 1) - 0
        /\ \A i \in 1..((m - 1) - 0) : SubSeq(text, 0 + 1, m - 1)[i] = text[0 + i]
    BY <2>1, Part
  <2> QED
    BY <1>4, <2>1, <2>2, Zenon
<1>7. Len(x) = 1 <=> m = 2
  <2>1. m \in Nat
    BY <1>1, <1>5
  <2> QED
    BY <1>6, <2>1
<1>8. ASSUME Len(x) = 1 PROVE x = <<text[1]>> /\ x[1] = text[1] /\ text[2] = " "
  <2>1. m = 2 /\ 1 \in 1..(m - 1)
    BY <1>7, <1>8
  <2>2. x[1] = text[1]
    BY <1>6, <2>1, Zenon
  <2>3. x \in Seq(V)
    <3>1. 0 \in 0..(m - 1) /\ m - 1 \in 0..Len(text) /\ 0 + 1 = 1
      BY <1>1, <2>1 DEF n
    <3>2. SubSeq(text, 0 + 1, m - 1) \in Seq(V)
      BY <3>1, Part
    <3> QED
      BY <1>4, <3>1, <3>2, Zenon
  <2>4. x = <<text[1]>>
    BY <1>8, <2>2, <2>3
  <2> QED
    BY <1>5, <2>1, <2>2, <2>4, Zenon
<1>9. ASSUME text[1] \in DOMAIN PriValue, text[2] = " " PROVE Len(x) = 1
  <2>1. text[1] # " "
    BY <1>9, ParserAssumption
  <2>2. m # 1
    BY <1>5, <2>1, Zenon
  <2>3. m <= 2
    BY <1>1, <1>2, <1>3, <1>9, Zenon
  <2>4. m \in Nat /\ m >= 1
    <3>1. m \in 1..n
      BY <1>5
    <3> QED
      BY <1>1, <3>1
  <2> QED
    BY <1>7, <2>2, <2>3, <2>4
<1> QED
  BY <1>8, <1>9, Zenon DEF x, Space

\* A facility and a severity make a number, and there are 24 facilities up to 191.
LEMMA Octals ==
    \A p \in Int : (p \div 8 \in 0..(24 - 1) <=> p \in 0..191) /\ p = 8 * (p \div 8) + (p % 8)
  OBVIOUS

\* The record made of a text whose header is f and whose remaining text is r.
MadeOf(rec, text, f, r) ==
    /\ rec.ok = TRUE /\ rec.facility = PriValue[f[1][1]] \div 8 /\ rec.severity = PriValue[f[1][1]] % 8
    /\ rec.rest = Tail(f) /\ rec.log = MessageOf(r, Len(text))

\* Parse makes such a record, or none.
LEMMA ParseDef ==
    ASSUME NEW text, NEW f, NEW r, NEW s, s = SplitHeader(text, 1 + NumRestFields), s.fields = f, s.remaining = r
    PROVE  IF /\ Len(text) >= MinTextLen /\ s.ok
              /\ Len(f[1]) = 1 /\ f[1][1] \in DOMAIN PriValue /\ PriValue[f[1][1]] \div 8 \in 0..(NumFacilities - 1)
           THEN MadeOf(Parse(text), text, f, r)
           ELSE ~Parse(text).ok
<1> DEFINE good == /\ Len(text) >= MinTextLen /\ s.ok
                   /\ Len(f[1]) = 1 /\ f[1][1] \in DOMAIN PriValue /\ PriValue[f[1][1]] \div 8 \in 0..(NumFacilities - 1)
<1>1. CASE good
  <2> DEFINE a == PriValue[f[1][1]] \div 8
             b == PriValue[f[1][1]] % 8
             c == Tail(f)
             d == MessageOf(r, Len(text))
             e == Len(r) > MaxMessageLen
             g == Contains(MessageOf(r, Len(text)), "LF")
             o == TRUE
  <2>1. Parse(text) = [ok |-> o, facility |-> a, severity |-> b, rest |-> c, log |-> d, overflow |-> e, unescaped |-> g]
    BY <1>1, Zenon DEF Parse
  <2> HIDE DEF good
  <2> HIDE DEF a, b, c, d, e, g, o
  <2> DEFINE rec == Parse(text)
  <2> HIDE DEF rec
  <2>2. rec = [ok |-> o, facility |-> a, severity |-> b, rest |-> c, log |-> d, overflow |-> e, unescaped |-> g]
    BY <2>1 DEF rec
  <2>3. rec.ok = o /\ rec.facility = a /\ rec.severity = b /\ rec.rest = c /\ rec.log = d
    BY <2>2
  <2>4. MadeOf(Parse(text), text, f, r)
    BY <2>3, Zenon DEF MadeOf, rec, a, b, c, d, o
  <2> QED
    BY <1>1, <2>4, Zenon DEF good
<1>2. CASE ~good
  <2>1. Parse(text) = Malformed
    BY <1>2, Zenon DEF Parse
  <2>2. ~Malformed.ok
    BY DEF Malformed
  <2> QED
    BY <1>2, <2>1, <2>2, Zenon
<1> QED
  BY <1>1, <1>2, Zenon

\* A text that has been parsed, with the header found in it.
ReadWell(V, text) ==
    \E f \in Seq(Seq(V)), r \in Seq(V), p \in 1..Len(text) :
        /\ ReadTo(V, text, 1 + NumRestFields, f, r, p)
        /\ Len(f[1]) = 1 /\ f[1] = <<text[1]>> /\ text[1] \in DOMAIN PriValue
        /\ MadeOf(Parse(text), text, f, r)

\* Parse accepts exactly the texts that can be read.
LEMMA ReadableText ==
    ASSUME NEW V, NEW text \in Seq(V)
    PROVE  (Parse(text).ok <=> CanBeRead(text)) /\ (Parse(text).ok => ReadWell(V, text))
<1> DEFINE n == 1 + NumRestFields
           s == SplitHeader(text, n)
           spaces == Cardinality(SpacesIn(text))
<1>1. n \in Nat /\ n # 0 /\ NumRestFields \in Nat
  BY LengthsAssumed
<1>2. HeaderAt(V, text, n, s)
  <2> HIDE DEF n
  <2> QED
    BY <1>1, HeaderIsSplit, Zenon
<1>3. PICK ok \in BOOLEAN, f \in Seq(Seq(V)), r \in Seq(V) :
          /\ SplitIs(V, s, ok, f, r)
          /\ ok => \E p \in 1..Len(text) : ReadTo(V, text, n, f, r, p)
          /\ ~ok => Cardinality(SpacesIn(text)) < n
  BY <1>2, Zenon DEF HeaderAt
<1>4. s.ok = ok /\ s.fields = f /\ s.remaining = r
  BY <1>3, Zenon DEF SplitIs
<1> DEFINE pri == f[1]
           good == /\ Len(text) >= MinTextLen /\ ok
                   /\ Len(pri) = 1 /\ pri[1] \in DOMAIN PriValue /\ PriValue[pri[1]] \div 8 \in 0..(NumFacilities - 1)
<1>5. IF good THEN MadeOf(Parse(text), text, f, r) ELSE ~Parse(text).ok
  BY <1>4, ParseDef, Zenon
<1>6. Parse(text).ok <=> good
  BY <1>5, Zenon DEF MadeOf
<1>7. CanBeRead(text) <=> /\ Len(text) >= MinTextLen
                          /\ text[1] \in DOMAIN PriValue /\ text[2] = Space /\ PriValue[text[1]] \in 0..191
                          /\ spaces > NumRestFields
  <2>1. spaces \in Nat
    BY SpacesCounted, Zenon
  <2>2. SpacesIn(text) = {k \in DOMAIN text : text[k] = Space}
    BY Zenon DEF SpacesIn, Space
  <2> QED
    BY <2>1, <2>2, InputAssumption, Zenon DEF CanBeRead
<1>8. spaces \in Nat
  BY SpacesCounted, Zenon
<1>9. CASE ok
  <2>1. PICK p \in 1..Len(text) : ReadTo(V, text, n, f, r, p)
    BY <1>3, <1>9, Zenon
  <2>2. pri = FieldOf(text) /\ text[p] = " " /\ Cardinality(SpacesTo(text, p)) = n
    BY <2>1, Zenon DEF ReadTo
  <2>3. spaces > NumRestFields
    <3>1. Cardinality(SpacesTo(text, p)) <= spaces
      BY SpacesCounted, Zenon
    <3>2. n <= spaces
      BY <2>2, <3>1, Zenon
    <3> HIDE DEF spaces
    <3> QED
      BY <1>1, <1>8, <3>2
  <2>4. HasField(text)
    <3>1. p \in SpacesIn(text)
      <4>1. p \in DOMAIN text
        OBVIOUS
      <4> QED
        BY <2>2, <4>1, Zenon DEF SpacesIn
    <3> QED
      BY <3>1, Zenon DEF HasField
  <2> HIDE DEF pri
  <2>5. ASSUME Len(text) >= MinTextLen
        PROVE  /\ Len(pri) = 1 => pri = <<text[1]>>
               /\ Len(pri) = 1 /\ pri[1] \in DOMAIN PriValue <=> text[1] \in DOMAIN PriValue /\ text[2] = Space
    <3>1. Len(text) >= 2
      BY <2>5, InputAssumption, ReaderAssumption
    <3> QED
      BY <2>2, <2>4, <3>1, PriFacts, Zenon
  <2>6. pri = <<text[1]>> => pri[1] = text[1]
    OBVIOUS
  <2>7. text[1] \in DOMAIN PriValue
           => (PriValue[text[1]] \div 8 \in 0..(NumFacilities - 1) <=> PriValue[text[1]] \in 0..191)
    BY Octals, ParserAssumption DEF NumFacilities
  <2> HIDE DEF spaces, s
  <2>9. good <=> CanBeRead(text)
    BY <1>7, <1>8, <1>9, <2>3, <2>5, <2>6, <2>7, Zenon
  <2>10. ASSUME good PROVE ReadWell(V, text)
    BY <1>5, <2>1, <2>5, <2>6, <2>10, Zenon DEF ReadWell, pri
  <2> QED
    BY <1>6, <2>9, <2>10, Zenon
<1>10. CASE ~ok
  <2>1. spaces < n
    BY <1>3, <1>10, Zenon
  <2> HIDE DEF spaces
  <2>2. ~(spaces > NumRestFields)
    BY <1>1, <1>8, <2>1
  <2> QED
    BY <1>6, <1>7, <1>8, <1>10, <2>2, Zenon
<1> QED
  BY <1>9, <1>10

\* A record put together again is q; a header starts with the pri token of its text.
UnparsedIs(text, q) == Unparsed(Parse(text), text[1]) = q
StartsWithPri(text, f) == f[1] = <<text[1]>>

\* A record put together again is the header of its text and the message.
LEMMA PutTogether ==
    ASSUME NEW V, NEW text \in Seq(V), NEW k, NEW f, NEW r, NEW p, ReadTo(V, text, k, f, r, p),
           StartsWithPri(text, f), MadeOf(Parse(text), text, f, r)
    PROVE  UnparsedIs(text, SubSeq(text, 1, p) \o MessageOf(r, Len(text)))
<1> DEFINE rec == Parse(text)
<1>1. rec.rest = Tail(f) /\ rec.log = MessageOf(r, Len(text))
  BY Zenon DEF MadeOf
<1>2. text[p] = " " /\ SubSeq(text, 1, p) = Header(f, text[p])
  BY Zenon DEF ReadTo
<1> HIDE DEF rec
<1>3. ASSUME NEW x, NEW z PROVE Append(<<x>>, z) = <<x, z>>
  <2> DEFINE W == {x, z}
             q == Append(<<x>>, z)
  <2>1. <<x>> \in Seq(W) /\ z \in W /\ <<x, z>> \in Seq(W) /\ Len(<<x, z>>) = 2 /\ <<x, z>>[1] = x /\ <<x, z>>[2] = z
        /\ Len(<<x>>) = 1 /\ <<x>>[1] = x
    OBVIOUS
  <2> HIDE DEF W
  <2>2. q \in Seq(W) /\ Len(q) = 2 /\ q[1] = x /\ q[2] = z
    BY <2>1, AppendProperties
  <2> HIDE DEF q
  <2>3. \A i \in 1..Len(q) : i = 1 \/ i = 2
    BY <2>2
  <2>4. q = <<x, z>>
    BY <2>1, <2>2, <2>3, SameSeq
  <2> QED
    BY <2>4 DEF q
<1>4. Append(f[1], text[p]) = <<text[1], Space>>
  <2>1. text[p] = Space
    BY <1>2, Zenon DEF Space
  <2> QED
    BY <1>3, <2>1, Zenon DEF StartsWithPri
<1>5. Spaced(Tail(f), text[p]) = [i \in DOMAIN rec.rest |-> Append(rec.rest[i], Space)]
  BY <1>1, <1>2, Zenon DEF Spaced, Space
<1>6. Header(f, text[p]) = <<text[1], Space>> \o FlattenSeq([i \in DOMAIN rec.rest |-> Append(rec.rest[i], Space)])
  BY <1>4, <1>5, Zenon DEF Header
<1>7. Unparsed(rec, text[1]) = Header(f, text[p]) \o rec.log
  BY <1>6, Zenon DEF Unparsed
<1> QED
  BY <1>1, <1>2, <1>7, Zenon DEF rec, UnparsedIs

\* A record says what its text says.
LEMMA RecordSays ==
    ASSUME NEW V, NEW text \in Seq(V), Parse(text).ok
    PROVE  SaysItsText(Parse(text), text)
<1>1. PICK f \in Seq(Seq(V)), r \in Seq(V), p \in 1..Len(text) :
        /\ ReadTo(V, text, 1 + NumRestFields, f, r, p)
        /\ Len(f[1]) = 1 /\ f[1] = <<text[1]>> /\ text[1] \in DOMAIN PriValue
        /\ MadeOf(Parse(text), text, f, r)
  BY ReadableText, Zenon DEF ReadWell
<1> DEFINE rec == Parse(text)
           n == Len(text)
           head == SubSeq(text, 1, p)
           log == MessageOf(r, n)
           whole == Unparsed(rec, text[1])
<1>2. whole = head \o log
  <2>1. StartsWithPri(text, f)
    BY <1>1, Zenon DEF StartsWithPri
  <2>2. UnparsedIs(text, head \o log)
    BY <1>1, <2>1, PutTogether, Zenon
  <2> QED
    BY <2>2, Zenon DEF UnparsedIs
<1>3. r = SubSeq(text, p + 1, n) /\ text[p] = " "
  BY <1>1, Zenon DEF ReadTo
<1>4. n \in Nat /\ p \in Nat /\ p <= n /\ n \in 0..n /\ p \in 0..n /\ 0 \in 0..p /\ p - 0 = p /\ 0 + 1 = 1
  OBVIOUS
<1>5. Len(r) = n - p
  <2>1. Len(SubSeq(text, p + 1, n)) = n - p
    BY <1>4, Part
  <2> QED
    BY <1>3, <2>1, Zenon
<1>6. head \in Seq(V) /\ Len(head) = p
  <2>1. SubSeq(text, 0 + 1, p) \in Seq(V) /\ Len(SubSeq(text, 0 + 1, p)) = p - 0
    BY <1>4, Part
  <2> QED
    BY <1>4, <2>1, Zenon
<1>7. head \o r = text
  <2>1. SubSeq(text, 1, p) \o SubSeq(text, p + 1, n) = SubSeq(text, 1, n)
    BY <1>4, PartsJoin
  <2>2. SubSeq(text, 1, n) = text
    OBVIOUS
  <2> QED
    BY <1>3, <2>1, <2>2, Zenon
<1>8. /\ log \in Seq(V) /\ Len(log) <= Len(r) /\ (Len(log) = Len(r) => log = r) /\ Len(log) <= MaxMessageLen
      /\ n < MaxRecordLen => Beginning(log, r)
      /\ n >= MaxRecordLen /\ CutUTF8(r) => Beginning(log, r) /\ ValidUTF8(log)
  BY <1>4, MessageFacts, Zenon
<1> HIDE DEF log
<1>9. Len(head \o log) = p + Len(log)
  <2>1. Len(head \o log) = Len(head) + Len(log)
    BY <1>6, <1>8, ConcatProperties
  <2> QED
    BY <1>6, <2>1, Zenon
<1>10. ASSUME CutUTF8(text) PROVE CutUTF8(r)
  <2>1. CutIn(text, "u", "v")
    BY <1>10, CutDef, Zenon
  <2>2. text[p] # "u"
    <3>1. " " # "u"
      OBVIOUS
    <3> QED
      BY <1>3, <3>1, Zenon
  <2>3. CutIn(SubSeq(text, p + 1, n), "u", "v")
    BY <1>4, <2>1, <2>2, CutPart, Zenon
  <2> QED
    BY <1>3, <2>3, CutDef, Zenon
<1>11. ASSUME Beginning(log, r) PROVE IsPrefix(whole, text)
  <2>1. PICK m \in 0..Len(r) : log = SubSeq(r, 1, m)
    BY <1>11, Zenon DEF Beginning
  <2>2. m \in 0..(n - p)
    BY <1>5, <2>1
  <2> HIDE DEF n
  <2>3. m \in Nat /\ p + m \in 0..n /\ p \in 0..(p + m) /\ p + m <= n /\ 0 \in 0..(p + m) /\ (p + m) - 0 = p + m
    BY <1>4, <2>2
  <2>4. log = SubSeq(text, p + 1, p + m)
    <3>1. SubSeq(SubSeq(text, p + 1, Len(text)), 1, m) = SubSeq(text, p + 1, p + m)
      BY <1>4, <2>2, PartOfRest DEF n
    <3> QED
      BY <1>3, <2>1, <3>1, Zenon DEF n
  <2>5. whole = SubSeq(text, 1, p + m)
    <3>1. SubSeq(text, 1, p) \o SubSeq(text, p + 1, p + m) = SubSeq(text, 1, p + m)
      BY <2>3, PartsJoin DEF n
    <3> QED
      BY <1>2, <2>4, <3>1, Zenon
  <2>6. Len(whole) = p + m /\ whole \in Seq(V)
    <3>1. Len(SubSeq(text, 0 + 1, p + m)) = (p + m) - 0 /\ SubSeq(text, 0 + 1, p + m) \in Seq(V)
      BY <2>3, Part DEF n
    <3> QED
      BY <1>4, <2>3, <2>5, <3>1, Zenon
  <2> HIDE DEF whole
  <2>7. SubSeq(whole, 1, Len(whole)) = whole
    BY <2>6
  <2> QED
    BY <2>3, <2>5, <2>6, <2>7, Zenon DEF IsPrefix, n
<1>12. ASSUME ~(Len(whole) < n) PROVE whole = text
  <2>1. Len(log) = Len(r)
    <3>1. Len(whole) = p + Len(log)
      BY <1>2, <1>9, Zenon
    <3>2. Len(log) \in Nat
      BY <1>8
    <3>3. Len(log) <= n - p
      BY <1>5, <1>8, Zenon
    <3> HIDE DEF whole, n
    <3>4. n \in Nat /\ p \in Nat
      BY <1>4
    <3>5. ASSUME NEW x \in Nat, NEW y, y = p + x, ~(y < n), x <= n - p PROVE x = n - p
      BY <3>4, <3>5
    <3>6. Len(log) = n - p
      BY <1>12, <3>1, <3>2, <3>3, <3>5
    <3> QED
      BY <1>5, <3>6, Zenon
  <2> QED
    BY <1>2, <1>7, <1>8, <2>1, Zenon
<1>13. rec.log = log /\ rec.facility = PriValue[f[1][1]] \div 8 /\ rec.severity = PriValue[f[1][1]] % 8
  BY <1>1, Zenon DEF MadeOf, log
<1>14. PriValue[text[1]] = 8 * rec.facility + rec.severity
  <2>1. f[1][1] = text[1]
    BY <1>1
  <2>2. PriValue[text[1]] \in Int
    BY <1>1, ParserAssumption, Zenon
  <2> DEFINE v == PriValue[text[1]]
  <2> HIDE DEF v
  <2>3. v = 8 * (v \div 8) + (v % 8)
    BY <2>2, Octals DEF v
  <2>4. rec.facility = v \div 8 /\ rec.severity = v % 8
    BY <1>13, <2>1, Zenon DEF v
  <2> HIDE DEF rec
  <2>5. v = 8 * rec.facility + rec.severity
    BY <2>3, <2>4, Zenon
  <2> QED
    BY <2>5, Zenon DEF v
<1>15. n < MaxRecordLen \/ n >= MaxRecordLen
  BY <1>4, LengthsAssumed, InputAssumption, ReaderAssumption
<1> HIDE DEF whole, rec, head
<1>16. Len(text) < MaxRecordLen \/ CutUTF8(text) => IsPrefix(whole, text)
  BY <1>8, <1>10, <1>11, <1>15, Zenon
<1>17. IF Len(whole) < Len(text)
       THEN /\ Len(text) < MaxRecordLen \/ CutUTF8(text) => IsPrefix(whole, text)
            /\ Len(rec.log) <= MaxMessageLen
       ELSE whole = text
  BY <1>8, <1>12, <1>13, <1>16, Zenon
<1>18. Len(text) >= MaxRecordLen /\ CutUTF8(text) => ValidUTF8(rec.log)
  BY <1>8, <1>10, <1>13, Zenon
<1> QED
  BY <1>14, <1>17, <1>18, Zenon DEF SaysItsText, whole, rec

-----------------------------------------------------------------------------
(* The records of a connection and what they say *)

\* The texts of some records, and the bytes of a stream.
Texts(q) == [i \in DOMAIN q |-> Text(q[i])]
Letters(s) == {s[p] : p \in Nat}
TextsJoin(q, r) == Texts(q \o r) = Texts(q) \o Texts(r)

\* The records consumed have texts.
LEMMA TextsFacts ==
    ASSUME NEW s, NEW q \in Seq(Seq(Byte(s)))
    PROVE  Texts(q) \in Seq(Seq(Letters(s))) /\ Len(Texts(q)) = Len(q) /\ DOMAIN Texts(q) = 1..Len(q)
<1> DEFINE n == Len(q)
<1>1. n \in Nat /\ DOMAIN q = 1..n /\ \A i \in 1..n : q[i] \in Seq(Byte(s))
  OBVIOUS
<1>2. ASSUME NEW b \in Seq(Byte(s)) PROVE Text(b) \in Seq(Letters(s))
  <2>1. DOMAIN b = 1..Len(b) /\ Len(b) \in Nat /\ \A i \in 1..Len(b) : b[i] \in Byte(s)
    OBVIOUS
  <2>2. \A x \in Byte(s) : x[2] \in Letters(s)
    BY DEF Byte, Letters
  <2>3. \A i \in 1..Len(b) : b[i][2] \in Letters(s)
    BY <2>1, <2>2
  <2> DEFINE m == Len(b)
             A == Letters(s)
  <2>4. Text(b) = [i \in 1..m |-> b[i][2]] /\ m \in Nat /\ \A i \in 1..m : b[i][2] \in A
    BY <2>1, <2>3, Zenon DEF Text
  <2> HIDE DEF m, A
  <2> DEFINE f == [i \in 1..m |-> b[i][2]]
  <2>5. f \in [1..m -> A]
    BY <2>4
  <2> HIDE DEF f
  <2>6. f \in Seq(A)
    <3>1. m \in Nat
      BY <2>4
    <3>2. ASSUME NEW B, NEW g \in [1..m -> B] PROVE g \in Seq(B)
      BY <3>1, <3>2
    <3> QED
      BY <2>5, <3>2
  <2> QED
    BY <2>4, <2>6, Zenon DEF f, A
<1> DEFINE A == Seq(Letters(s))
<1>3. \A i \in 1..n : Text(q[i]) \in A
  BY <1>1, <1>2, Zenon
<1>4. Texts(q) = [i \in 1..n |-> Text(q[i])]
  BY <1>1, Zenon DEF Texts
<1> HIDE DEF n, A
<1>5. [i \in 1..n |-> Text(q[i])] \in Seq(A) /\ Len([i \in 1..n |-> Text(q[i])]) = n /\ DOMAIN [i \in 1..n |-> Text(q[i])] = 1..n
  BY <1>1, <1>3
<1> QED
  BY <1>4, <1>5, Zenon DEF n, A

\* The texts of the records of two sequences.
LEMMA TextsJoined ==
    ASSUME NEW s, NEW q \in Seq(Seq(Byte(s))), NEW r \in Seq(Seq(Byte(s)))
    PROVE  TextsJoin(q, r)
<1> DEFINE S == Seq(Byte(s))
           A == Seq(Letters(s))
           a == Texts(q)
           b == Texts(r)
           c == Texts(q \o r)
           m == Len(q)
           n == Len(r)
<1>1. m \in Nat /\ n \in Nat /\ q \o r \in Seq(S) /\ Len(q \o r) = m + n
      /\ \A i \in 1..(m + n) : (q \o r)[i] = IF i <= m THEN q[i] ELSE r[i - m]
  BY ConcatProperties
<1>2. a \in Seq(A) /\ Len(a) = m /\ b \in Seq(A) /\ Len(b) = n /\ c \in Seq(A) /\ Len(c) = m + n
  BY <1>1, TextsFacts, Zenon
<1>3. /\ \A i \in 1..m : a[i] = Text(q[i])
      /\ \A i \in 1..n : b[i] = Text(r[i])
      /\ \A i \in 1..(m + n) : c[i] = Text((q \o r)[i])
  <2>1. DOMAIN q = 1..m /\ DOMAIN r = 1..n /\ DOMAIN (q \o r) = 1..(m + n)
    BY <1>1
  <2> QED
    BY <2>1, Zenon DEF Texts
<1> HIDE DEF S, A, a, b, c, m, n
<1>4. a \o b \in Seq(A) /\ Len(a \o b) = m + n
      /\ \A i \in 1..(Len(a) + Len(b)) : (a \o b)[i] = IF i <= Len(a) THEN a[i] ELSE b[i - Len(a)]
  BY <1>2, ConcatProperties
<1>5. ASSUME NEW i \in 1..(m + n) PROVE c[i] = (a \o b)[i]
  <2>1. (i <= m => i \in 1..m) /\ (~(i <= m) => i - m \in 1..n)
    BY <1>1
  <2>2. (a \o b)[i] = IF i <= m THEN a[i] ELSE b[i - m]
    BY <1>2, <1>4, Zenon
  <2>3. (q \o r)[i] = IF i <= m THEN q[i] ELSE r[i - m]
    BY <1>1, Zenon
  <2> QED
    BY <1>3, <2>1, <2>2, <2>3, Zenon
<1>6. c = a \o b
  BY <1>2, <1>4, <1>5, SameSeq
<1> QED
  BY <1>6 DEF TextsJoin, a, b, c

\* What is counted and what is accepted is what the records consumed say.
ParsedInv == Counted(Texts(consumed), counts) /\ Listed(Letters(stream), Texts(consumed), accepted)

\* At first nothing has been consumed.
LEMMA InitParsed == Init => ParsedInv
<1> SUFFICES ASSUME Init PROVE ParsedInv
  OBVIOUS
<1>1. consumed = <<>> /\ accepted = <<>> /\ counts = [pass |-> 0, passBytes |-> 0, drop |-> 0, dropBytes |-> 0, overflow |-> 0]
  BY DEF Init
<1>2. Texts(<<>>) = <<>>
  BY DEF Texts
<1>3. OkAt(<<>>) = {} /\ KeptAt(<<>>) = {}
  BY DEF OkAt, KeptAt
<1>4. Cardinality({}) = 0
  BY FS_EmptySet
<1>5. Len(<<>>) = 0 /\ Len(<<>>) - 0 = 0 /\ 0 + 0 = 0 /\ 0 \in Nat
  OBVIOUS
<1>6. FlattenSeq(<<>>) = <<>>
  BY <1>5, FlattenDef, Zenon
<1>7. CountsAre(counts, 0, 0, 0, 0)
  BY <1>1 DEF CountsAre, Counts
<1>8. Counted(<<>>, counts)
  <2>1. CountsAre(counts, Cardinality(OkAt(<<>>)), 0, Len(<<>>) - Cardinality(OkAt(<<>>)), 0)
    BY <1>3, <1>4, <1>5, <1>7, Zenon
  <2>2. 0 + 0 = Len(FlattenSeq(<<>>))
    BY <1>5, <1>6, Zenon
  <2> QED
    BY <1>5, <2>1, <2>2, Zenon DEF Counted
<1>9. Listed(Letters(stream), <<>>, <<>>)
  <2>1. ASSUME NEW T PROVE <<>> \in Seq(T)
    OBVIOUS
  <2>2. Len(<<>>) = Cardinality(KeptAt(<<>>)) /\ \A i : i \notin KeptAt(<<>>)
    BY <1>3, <1>4, <1>5
  <2> QED
    BY <2>1, <2>2, Zenon DEF Listed
<1> QED
  BY <1>1, <1>2, <1>8, <1>9, Zenon DEF ParsedInv

\* Accepting the records of a step keeps it so.
LEMMA AcceptParsed ==
    ASSUME ParsedInv, consumed \in Seq(Seq(Byte(stream))), NEW records \in Seq(Seq(Byte(stream))),
           AcceptAll(records), UNCHANGED stream
    PROVE  ParsedInv'
<1>0. PICK done \in Seq(Seq(Byte(stream))) : Accepts(done)
  <2>1. ASSUME NEW T, NEW q \in Seq(T), NEW k \in 0..Len(q) PROVE SubSeq(q, 1, k) \in Seq(T)
    OBVIOUS
  <2> QED
    BY <2>1, AcceptedPart, Zenon
<1> DEFINE V == Letters(stream)
           T == Texts(consumed)
           R == Texts(done)
<1>1. T \in Seq(Seq(V)) /\ R \in Seq(Seq(V))
  BY TextsFacts, Zenon
<1>2. TextsJoin(consumed, done)
  BY TextsJoined
<1>3. /\ consumed' = consumed \o done
      /\ counts' = FoldAlong(CountRecord, counts, R)
      /\ accepted' = FoldAlong(KeepRecord, accepted, R)
  BY <1>0, Zenon DEF Accepts, Texts
<1>4. Counted(T \o R, FoldAlong(CountRecord, counts, R))
  <2>1. Counted(T, counts)
    BY Zenon DEF ParsedInv
  <2> HIDE DEF T, R, V
  <2> QED
    BY <1>1, <2>1, CountAll
<1>5. Listed(V, T \o R, FoldAlong(KeepRecord, accepted, R))
  <2>1. Listed(V, T, accepted)
    BY Zenon DEF ParsedInv
  <2> HIDE DEF T, R, V
  <2> QED
    BY <1>1, <2>1, KeepAll
<1>6. Texts(consumed \o done) = T \o R
  BY <1>2, Zenon DEF TextsJoin
<1>7. Counted(Texts(consumed'), counts')
  BY <1>3, <1>4, <1>6, Zenon
<1>8. Listed(Letters(stream'), Texts(consumed'), accepted')
  BY <1>3, <1>5, <1>6, Zenon
<1> QED
  BY <1>7, <1>8, Zenon DEF ParsedInv

\* Bytes are read.
LEMMA ReadBytesParsed ==
    ASSUME InputInv, ParsedInv, NEW n \in Nat, received + n <= Len(stream), ReadBytes(n)
    PROVE  ParsedInv'
<1> DEFINE read == ProcessBuffer(reader, Bytes(received + 1, received + n))
           flushed == IF FlushIsDue THEN Flush(read.reader) ELSE [read EXCEPT !.consumed = <<>>]
           m == received + n
<1>1. AcceptAll(read.consumed \o flushed.consumed) /\ stream' = stream
  BY Zenon DEF ReadBytes
<1>2. received \in Nat /\ m \in Nat /\ received <= m
  BY DEF InputInv, StreamInv
<1>3. PICK c \in Nat : Held(stream, c, received, reader) /\ PiecesIn(stream, consumed, 0, c)
  BY DEF InputInv, ReaderInv
<1>4. read = ProcessBuffer(reader, Piece(stream, received + 1, m))
  BY BytesArePieces, Zenon
<1> HIDE DEF read, m
<1>5. Left(stream, c, m, read)
  BY <1>2, <1>3, <1>4, ProcessFacts
<1>6. PICK d \in Nat : Held(stream, d, m, read.reader) /\ PiecesIn(stream, read.consumed, c, d)
  BY <1>5 DEF Left
<1> DEFINE S == Seq(Byte(stream))
<1>7. consumed \in Seq(S) /\ read.consumed \in Seq(S)
  BY <1>3, <1>6, Zenon DEF PiecesIn
<1>8. flushed.consumed \in Seq(S)
  <2>1. CASE FlushIsDue
    <3>1. Left(stream, d, m, Flush(read.reader))
      BY <1>2, <1>6, FlushFacts
    <3>2. Flush(read.reader).consumed \in Seq(S)
      BY <3>1, Zenon DEF Left, PiecesIn
    <3> QED
      BY <2>1, <3>2, Zenon
  <2>2. CASE ~FlushIsDue
    <3>1. flushed = [read EXCEPT !.consumed = <<>>]
      BY <2>2, Zenon
    <3>2. \E x, y, z : read = [reader |-> x, consumed |-> y, overflow |-> z]
      BY Zenon DEF read, ProcessBuffer, CheckOverflow
    <3>3. ASSUME NEW x, NEW y, NEW z, NEW t, t = [reader |-> x, consumed |-> y, overflow |-> z]
          PROVE  [t EXCEPT !.consumed = <<>>].consumed = <<>>
      BY <3>3
    <3>4. flushed.consumed = <<>>
      BY <3>1, <3>2, <3>3
    <3> HIDE DEF flushed, S
    <3>5. <<>> \in Seq(S)
      OBVIOUS
    <3> QED
      BY <3>4, <3>5, Zenon
  <2> QED
    BY <2>1, <2>2
<1> DEFINE records == read.consumed \o flushed.consumed
<1>9. records \in Seq(S)
  <2> HIDE DEF S, flushed
  <2> QED
    BY <1>7, <1>8, ConcatProperties
<1> HIDE DEF records, flushed
<1>10. AcceptAll(records)
  BY <1>1, Zenon DEF records
<1> QED
  BY <1>1, <1>7, <1>9, <1>10, AcceptParsed

\* Every step keeps it so.
LEMMA NextParsed == InputInv /\ ParsedInv /\ [Next]_vars => ParsedInv'
<1> SUFFICES ASSUME InputInv, ParsedInv, [Next]_vars PROVE ParsedInv'
  OBVIOUS
<1>1. PICK c \in Nat : Held(stream, c, received, reader) /\ PiecesIn(stream, consumed, 0, c)
  BY DEF InputInv, ReaderInv
<1>2. received \in Nat
  BY DEF InputInv, StreamInv
<1>3. consumed \in Seq(Seq(Byte(stream)))
  BY <1>1, Zenon DEF PiecesIn
<1>4. CASE ReadInput
  <2>1. PICK n \in Nat : received + n <= Len(stream) /\ ReadBytes(n)
    BY <1>4, ReadFits
  <2> QED
    BY <2>1, ReadBytesParsed
<1>5. CASE ReadTimesOut
  <2>1. AcceptAll(Flush(reader).consumed) /\ stream' = stream
    BY <1>5, Zenon DEF ReadTimesOut
  <2>2. Left(stream, c, received, Flush(reader))
    BY <1>1, <1>2, FlushFacts
  <2>3. Flush(reader).consumed \in Seq(Seq(Byte(stream)))
    BY <2>2, Zenon DEF Left, PiecesIn
  <2> QED
    BY <1>3, <2>1, <2>3, AcceptParsed
<1>6. CASE ReadFails
  <2>1. AcceptAll(FlushAll(reader).consumed) /\ stream' = stream
    BY <1>6, Zenon DEF ReadFails
  <2>2. Left(stream, c, received, FlushAll(reader))
    BY <1>1, <1>2, FlushAllFacts
  <2>3. FlushAll(reader).consumed \in Seq(Seq(Byte(stream)))
    BY <2>2, Zenon DEF Left, PiecesIn
  <2> QED
    BY <1>3, <2>1, <2>3, AcceptParsed
<1>7. CASE ClockTicks
  <2>1. stream' = stream /\ consumed' = consumed /\ counts' = counts /\ accepted' = accepted
    BY <1>7 DEF ClockTicks
  <2> QED
    BY <2>1, Zenon DEF ParsedInv
<1>8. CASE UNCHANGED vars
  <2>1. stream' = stream /\ consumed' = consumed /\ counts' = counts /\ accepted' = accepted
    BY <1>8 DEF vars
  <2> QED
    BY <2>1, Zenon DEF ParsedInv
<1> QED
  BY <1>4, <1>5, <1>6, <1>7, <1>8 DEF Next, Done

\* It holds of every state that is reached.
LEMMA ParsedHolds == Spec => [](InputInv /\ ParsedInv)
  BY InitInv, InitParsed, NextInv, NextParsed, PTL DEF Spec

\* ParsedAsWritten follows.
LEMMA ParsedFollows == InputInv /\ ParsedInv => ParsedAsWritten
<1> SUFFICES ASSUME InputInv, ParsedInv PROVE ParsedAsWritten
  OBVIOUS
<1> DEFINE V == Letters(stream)
           texts == Texts(consumed)
           good == {i \in DOMAIN texts : CanBeRead(texts[i])}
           kept == {i \in good : IsExtracted(Parse(texts[i]))}
<1>1. PICK c \in Nat : Held(stream, c, received, reader) /\ PiecesIn(stream, consumed, 0, c)
  BY DEF InputInv, ReaderInv
<1>2. consumed \in Seq(Seq(Byte(stream)))
  BY <1>1, Zenon DEF PiecesIn
<1>3. texts \in Seq(Seq(V))
  BY <1>2, TextsFacts, Zenon
<1>4. Counted(texts, counts) /\ Listed(V, texts, accepted)
  BY Zenon DEF ParsedInv
<1>5. texts = [i \in DOMAIN consumed |-> Text(consumed[i])]
  BY Zenon DEF Texts
<1> HIDE DEF V, texts
<1>6. \A i \in DOMAIN texts : texts[i] \in Seq(V)
  BY <1>3
<1>7. \A i \in DOMAIN texts : Parse(texts[i]).ok <=> CanBeRead(texts[i])
  BY <1>6, ReadableText, Zenon
<1>8. OkAt(texts) = good
  BY <1>7 DEF OkAt
<1>9. KeptAt(texts) = kept
  <2>1. \A i \in DOMAIN texts : IsExtracted(Parse(texts[i])) => CanBeRead(texts[i])
    BY <1>7, Zenon DEF IsExtracted
  <2> QED
    BY <2>1 DEF KeptAt
<1>10. \A i \in DOMAIN texts : Parse(texts[i]).ok <=> i \in good
  BY <1>7, Zenon
<1>11. Len(accepted) = Cardinality(kept)
  BY <1>4, <1>9, Zenon DEF Listed
<1>12. ASSUME NEW i \in kept PROVE SaysItsText(accepted[Cardinality({k \in kept : k <= i})], texts[i])
  <2>1. accepted[Cardinality({k \in kept : k <= i})] = Parse(texts[i])
    BY <1>4, <1>9, Zenon DEF Listed
  <2>2. texts[i] \in Seq(V) /\ Parse(texts[i]).ok
    BY <1>6, Zenon DEF IsExtracted
  <2>3. SaysItsText(Parse(texts[i]), texts[i])
    BY <2>2, RecordSays
  <2> QED
    BY <2>1, <2>3, Zenon
<1>13. PICK pb \in Nat, db \in Nat :
          /\ CountsAre(counts, Cardinality(good), pb, Len(texts) - Cardinality(good), db)
          /\ pb + db = Len(FlattenSeq(texts))
  BY <1>4, <1>8, Zenon DEF Counted
<1>14. /\ counts.pass = Cardinality(good) /\ counts.drop = Len(texts) - Cardinality(good)
       /\ counts.passBytes + counts.dropBytes = Len(FlattenSeq(texts))
  BY <1>13, Zenon DEF CountsAre
<1> QED
  BY <1>5, <1>10, <1>11, <1>12, <1>14, Zenon DEF ParsedAsWritten

\* Whatever is sent and however it arrives, up to a panic of the parser: each record accepted says
\* what the text of a record consumed says, they are in the same order, none that could be read is
\* missing, and the counters add up.
THEOREM RecordsAreParsed == Spec => []ParsedAsWritten
  BY ParsedHolds, ParsedFollows, PTL
=============================================================================
