------------------------- MODULE ContentStreamProofs -------------------------
(***************************************************************************)
(* For every page of bytes: the loops of PdfText find the lexemes of       *)
(* ContentStream, decode strings as their notation means them and show     *)
(* what the operators show.                                                *)
(***************************************************************************)
EXTENDS PdfTextProofs, Writing, FiniteSetTheorems

-----------------------------------------------------------------------------
(* Positions in order *)

LEMMA IntervalSubset ==
    ASSUME NEW a \in Int, NEW b \in Int, NEW P \in SUBSET (a..b)
    PROVE  IsFiniteSet(P) /\ Cardinality(P) \in Nat
BY FS_Interval, FS_Subset, FS_CardinalityType

LEMMA OrderedNat ==
    ASSUME NEW P, IsFiniteSet(P)
    PROVE  Cardinality(P) \in Nat /\ DOMAIN Ordered(P) = 1..Cardinality(P)
BY FS_CardinalityType DEF Ordered

\* A position behind all others is the last in order.
LEMMA OrderedSnoc ==
    ASSUME NEW P, IsFiniteSet(P), NEW m, P \subseteq Int, m \in Int, \A p \in P : p < m
    PROVE  /\ IsFiniteSet(P \cup {m})
           /\ Cardinality(P \cup {m}) = Cardinality(P) + 1
           /\ Ordered(P \cup {m}) =
                [n \in 1..Cardinality(P) + 1 |->
                    IF n = Cardinality(P) + 1 THEN m ELSE Ordered(P)[n]]
<1> DEFINE Q == P \cup {m}
           N == Cardinality(P)
           Nth(S, n) == {q \in S : Cardinality({x \in S : x <= q}) = n}
<1>1. m \notin P
    OBVIOUS
<1>2. IsFiniteSet(Q) /\ Cardinality(Q) = N + 1 /\ N \in Nat
    BY <1>1, FS_AddElement, FS_CardinalityType
<1>3. \A q \in P : {x \in Q : x <= q} = {x \in P : x <= q}
  <2> SUFFICES ASSUME NEW q \in P
               PROVE  {x \in Q : x <= q} = {x \in P : x <= q}
    OBVIOUS
  <2>1. q \in Int /\ q < m /\ ~(m <= q)
    OBVIOUS
  <2> QED
    BY <2>1
<1>4. {x \in Q : x <= m} = Q
  <2>1. \A x \in Q : x <= m
    OBVIOUS
  <2> QED
    BY <2>1
<1>5. \A q \in P : Cardinality({x \in P : x <= q}) \in 0..N
  <2> SUFFICES ASSUME NEW q \in P
               PROVE  Cardinality({x \in P : x <= q}) \in 0..N
    OBVIOUS
  <2>1. {x \in P : x <= q} \in SUBSET P
    OBVIOUS
  <2> QED
    BY <1>2, <2>1, FS_Subset, FS_CardinalityType
<1>6. ASSUME NEW n \in 1..N
      PROVE  Nth(Q, n) = Nth(P, n)
  <2>1. Cardinality({x \in Q : x <= m}) # n
    BY <1>2, <1>4
  <2>2. \A q \in P : Cardinality({x \in Q : x <= q}) = Cardinality({x \in P : x <= q})
    BY <1>3
  <2> QED
    BY <2>1, <2>2
<1>7. Nth(Q, N + 1) = {m}
  <2>1. \A q \in P : Cardinality({x \in Q : x <= q}) \in 0..N
    BY <1>3, <1>5
  <2>2. Cardinality({x \in Q : x <= m}) = N + 1
    BY <1>2, <1>4
  <2>3. \A q \in P : Cardinality({x \in Q : x <= q}) # N + 1
    BY <1>2, <2>1
  <2> QED
    BY <2>2, <2>3
<1>8. Ordered(Q) = [n \in 1..N + 1 |-> CHOOSE p \in Nth(Q, n) : TRUE]
    BY <1>2 DEF Ordered
<1>9. Ordered(P) = [n \in 1..N |-> CHOOSE p \in Nth(P, n) : TRUE]
    BY DEF Ordered
<1>10. (CHOOSE p \in {m} : TRUE) = m
    OBVIOUS
<1>11. \A n \in 1..N + 1 : (CHOOSE p \in Nth(Q, n) : TRUE)
                            = IF n = N + 1 THEN m ELSE Ordered(P)[n]
  <2> SUFFICES ASSUME NEW n \in 1..N + 1
               PROVE  (CHOOSE p \in Nth(Q, n) : TRUE) = IF n = N + 1 THEN m ELSE Ordered(P)[n]
    OBVIOUS
  <2>1. CASE n = N + 1
    BY <1>7, <1>10, <2>1
  <2>2. CASE n # N + 1
    <3>1. n \in 1..N
        BY <1>2, <2>2
    <3>2. Nth(Q, n) = Nth(P, n)
        BY <1>6, <3>1
    <3>3. Ordered(P)[n] = CHOOSE p \in Nth(P, n) : TRUE
        BY <1>9, <3>1
    <3> HIDE DEF Nth
    <3> QED
        BY <2>2, <3>2, <3>3
  <2> QED
    BY <2>1, <2>2
<1> HIDE DEF Nth
<1> QED
    BY <1>2, <1>8, <1>11

\* A sequence with one element more.
LEMMA Snoc ==
    ASSUME NEW S, NEW s \in Seq(S), NEW b \in S
    PROVE  [n \in 1..Len(s) + 1 |-> IF n = Len(s) + 1 THEN b ELSE s[n]] = Append(s, b)
<1> DEFINE t == [n \in 1..Len(s) + 1 |-> IF n = Len(s) + 1 THEN b ELSE s[n]]
<1>1. t \in Seq(S) /\ Len(t) = Len(s) + 1
    OBVIOUS
<1>2. Append(s, b) \in Seq(S) /\ Len(Append(s, b)) = Len(s) + 1
    OBVIOUS
<1>3. \A n \in 1..Len(s) + 1 : t[n] = Append(s, b)[n]
    OBVIOUS
<1> HIDE DEF t
<1>4. Len(t) = Len(Append(s, b)) /\ \A n \in 1..Len(t) : t[n] = Append(s, b)[n]
    BY <1>1, <1>2, <1>3
<1>5. t = Append(s, b)
    BY <1>1, <1>2, <1>4, SeqEqual
<1> QED
    BY <1>5 DEF t

-----------------------------------------------------------------------------
(* Escapes *)

LEMMA OnByte ==
    ASSUME NEW d \in Seq(Byte), NEW p \in Int
    PROVE  On(d, p) \in Byte \cup {EOF} /\ (On(d, p) # EOF <=> p \in 1..Len(d))
<1>1. CASE p \in 1..Len(d)
  <2>1. d[p] \in Byte
    BY <1>1
  <2>2. EOF \notin Byte
    BY DEF EOF, Byte
  <2> QED
    BY <1>1, <2>1, <2>2 DEF On
<1>2. CASE p \notin 1..Len(d)
    BY <1>2 DEF On
<1> QED
    BY <1>1, <1>2

LEMMA RunFirst ==
    ASSUME NEW d, NEW i \in Int
    PROVE  EvenRun(d, i, i + 1)
<1>1. i + 1 \in i + 1..i + 1 /\ (i + 1) - (i + 1) = 0 /\ i + 1..i + 1 - 1 = {}
    OBVIOUS
<1>2. 0 % 2 = 0
    OBVIOUS
<1> QED
    BY <1>1, <1>2 DEF EvenRun

LEMMA RunBroken ==
    ASSUME NEW d, NEW i \in Int, NEW p \in Int, i < p, On(d, p) # Backslash
    PROVE  EvenRun(d, i, p + 1)
<1>1. /\ p + 1 \in i + 1..p + 1 /\ (p + 1) - 1 = p /\ (p + 1) - (p + 1) = 0
      /\ p + 1..p + 1 - 1 = {}
    OBVIOUS
<1>2. 0 % 2 = 0
    OBVIOUS
<1> QED
    BY <1>1, <1>2 DEF EvenRun

LEMMA RunPaired ==
    ASSUME NEW d, NEW i \in Int, NEW p \in Int, EvenRun(d, i, p),
           On(d, p) = Backslash, On(d, p + 1) = Backslash
    PROVE  EvenRun(d, i, p + 2)
<1>1. PICK r \in i + 1..p :
        /\ \A x \in r..p - 1 : On(d, x) = Backslash
        /\ r = i + 1 \/ On(d, r - 1) # Backslash
        /\ (p - r) % 2 = 0
    BY DEF EvenRun
<1>2. r \in i + 1..p + 2 /\ (p + 2 - r) % 2 = 0
    BY <1>1
<1>3. \A x \in r..p + 2 - 1 : On(d, x) = Backslash
  <2>1. \A x \in r..p + 2 - 1 : x \in r..p - 1 \/ x = p \/ x = p + 1
    BY <1>1
  <2> QED
    BY <1>1, <2>1
<1> QED
    BY <1>1, <1>2, <1>3 DEF EvenRun

\* A backslash turns an even run into an odd one.
LEMMA RunAlternates ==
    ASSUME NEW d, NEW i \in Int, NEW p \in Int, EvenRun(d, i, p), On(d, p) = Backslash
    PROVE  ~EvenRun(d, i, p + 1)
<1> SUFFICES ASSUME EvenRun(d, i, p + 1)
             PROVE  FALSE
    OBVIOUS
<1>1. PICK r \in i + 1..p :
        /\ \A x \in r..p - 1 : On(d, x) = Backslash
        /\ r = i + 1 \/ On(d, r - 1) # Backslash
        /\ (p - r) % 2 = 0
    BY DEF EvenRun
<1>2. PICK s \in i + 1..p + 1 :
        /\ \A x \in s..p : On(d, x) = Backslash
        /\ s = i + 1 \/ On(d, s - 1) # Backslash
        /\ (p + 1 - s) % 2 = 0
  <2>1. p + 1 - 1 = p
    OBVIOUS
  <2> QED
    BY <2>1 DEF EvenRun
<1>3. CASE s < r
  <2>1. r - 1 \in s..p /\ r # i + 1
    BY <1>1, <1>2, <1>3
  <2> QED
    BY <1>1, <1>2, <2>1
<1>4. CASE r < s
  <2>1. s # i + 1 /\ (s - 1 \in r..p - 1 \/ s - 1 = p)
    BY <1>1, <1>2, <1>4
  <2> QED
    BY <1>1, <1>2, <2>1
<1>5. CASE r = s
    BY <1>1, <1>2, <1>5
<1> QED
    BY <1>1, <1>2, <1>3, <1>4, <1>5

\* Of the bytes an escape takes only the second may be a backslash.
LEMMA WidthCases ==
    ASSUME NEW d, NEW p \in Int
    PROVE  /\ Width(d, p) \in 2..4 /\ OctalDigits(d, p) \in 0..3
           /\ \A e \in p + 1..p + Width(d, p) - 1 : On(d, e) = Backslash => e = p + 1
<1> USE DEF Backslash, CR, LF, OctalDigit
<1>1. OctalDigits(d, p) \in 0..3
    BY DEF OctalDigits
<1>2. Width(d, p) \in 2..4
    BY <1>1 DEF Width
<1>3. ASSUME NEW e \in p + 1..p + Width(d, p) - 1, On(d, e) = Backslash
      PROVE  e = p + 1
  <2>1. CASE On(d, p + 1) = CR /\ On(d, p + 2) = LF
    <3>1. Width(d, p) = 3
        BY <2>1 DEF Width
    <3>2. e \in {p + 1, p + 2}
        BY <3>1
    <3> QED
        BY <1>3, <2>1, <3>2
  <2>2. CASE ~(On(d, p + 1) = CR /\ On(d, p + 2) = LF)
    <3>1. CASE OctalDigits(d, p) = 0
        <4>1. Width(d, p) = 2
            BY <2>2, <3>1 DEF Width
        <4> QED
            BY <4>1
    <3>2. CASE OctalDigits(d, p) = 1
        <4>1. Width(d, p) = 2
            BY <2>2, <3>2 DEF Width
        <4> QED
            BY <4>1
    <3>3. CASE OctalDigits(d, p) = 2
        <4>1. Width(d, p) = 3 /\ On(d, p + 2) \in OctalDigit
            BY <2>2, <3>3 DEF Width, OctalDigits
        <4>2. e \in {p + 1, p + 2}
            BY <4>1
        <4> QED
            BY <1>3, <4>1, <4>2
    <3>4. CASE OctalDigits(d, p) = 3
        <4>1. Width(d, p) = 4 /\ On(d, p + 2) \in OctalDigit /\ On(d, p + 3) \in OctalDigit
            BY <2>2, <3>4 DEF Width, OctalDigits
        <4>2. e \in {p + 1, p + 2, p + 3}
            BY <4>1
        <4> QED
            BY <1>3, <4>1, <4>2
    <3> QED
        BY <1>1, <3>1, <3>2, <3>3, <3>4
  <2> QED
    BY <2>1, <2>2
<1> QED
    BY <1>1, <1>2, <1>3

-----------------------------------------------------------------------------
(* What a byte or an escape adds to a literal string *)

\* A byte or an escape begins at p and takes w bytes.
Unit(d, i, p, w) ==
    \/ Escapes(d, i, p) /\ w = Width(d, p)
    \/ ~Escapes(d, i, p) /\ w = 1

LEMMA UnitWidth ==
    ASSUME NEW d, NEW i \in Int, NEW p \in Int, NEW w, Unit(d, i, p, w)
    PROVE  w \in 1..4
BY WidthCases DEF Unit

LEMMA NoEscapeWithin ==
    ASSUME NEW d, NEW i \in Int, NEW p \in Int, NEW w, Unit(d, i, p, w),
           NEW e \in p + 1..p + w - 1
    PROVE  ~Escapes(d, i, e)
<1>1. Escapes(d, i, p) /\ w = Width(d, p)
  <2>1. w # 1
    OBVIOUS
  <2> QED
    BY <2>1 DEF Unit
<1>2. SUFFICES ASSUME Escapes(d, i, e)
               PROVE  FALSE
    OBVIOUS
<1>3. e = p + 1
    BY <1>1, <1>2, WidthCases DEF Escapes
<1>4. EvenRun(d, i, p) /\ On(d, p) = Backslash /\ EvenRun(d, i, p + 1)
    BY <1>1, <1>2, <1>3 DEF Escapes
<1> QED
    BY <1>4, RunAlternates

LEMMA UnitEnds ==
    ASSUME NEW d, NEW i \in Int, NEW p \in Int, i < p, Boundary(d, i, p),
           NEW w, Unit(d, i, p, w)
    PROVE  Boundary(d, i, p + w)
<1>0. w \in 1..4 /\ p + w \in Int
  <2>1. w \in 1..4
    BY UnitWidth
  <2> QED
    BY <2>1
<1> SUFFICES ASSUME NEW e \in i + 1..(p + w) - 1, Escapes(d, i, e)
             PROVE  e + Width(d, e) <= p + w
    BY DEF Boundary
<1>1. e \in Int /\ Width(d, e) \in 2..4
  <2>1. e \in Int
    BY <1>0
  <2> QED
    BY <2>1, WidthCases
<1>2. CASE e < p
  <2>1. e \in i + 1..p - 1
    BY <1>2
  <2>2. e + Width(d, e) <= p
    BY <2>1 DEF Boundary
  <2> QED
    BY <1>0, <1>1, <2>2
<1>3. CASE e = p
    BY <1>0, <1>1, <1>3 DEF Unit
<1>4. CASE e > p
  <2>1. e \in p + 1..p + w - 1
    BY <1>0, <1>1, <1>4
  <2> QED
    BY <2>1, NoEscapeWithin
<1> QED
    BY <1>1, <1>2, <1>3, <1>4

LEMMA UnitMarks ==
    ASSUME NEW d, NEW i \in Int, NEW p \in Int, i < p, Boundary(d, i, p),
           NEW w, Unit(d, i, p, w), NEW j \in p + 1..p + w
    PROVE  Marks(d, i, j) = Marks(d, i, p) \cup {p}
<1>1. w \in 1..4
    BY UnitWidth
<1>2. Marks(d, i, p) \cup {p} \subseteq Marks(d, i, j)
  <2>1. p \in i + 1..j - 1 /\ i + 1..p - 1 \subseteq i + 1..j - 1
    OBVIOUS
  <2> QED
    BY <2>1 DEF Marks
<1>3. ASSUME NEW k \in Marks(d, i, j), k \notin Marks(d, i, p), k # p
      PROVE  FALSE
  <2>1. k \in i + 1..j - 1 /\ Boundary(d, i, k)
    BY DEF Marks
  <2>2. k \notin i + 1..p - 1
    BY <1>3, <2>1 DEF Marks
  <2>3. k \in p + 1..p + w - 1
    BY <1>1, <1>3, <2>1, <2>2
  <2>4. Escapes(d, i, p) /\ w = Width(d, p)
    BY <1>1, <2>3 DEF Unit
  <2>5. p \in i + 1..k - 1
    BY <2>3
  <2>6. p + w <= k
    BY <2>1, <2>4, <2>5 DEF Boundary
  <2> QED
    BY <1>1, <2>3, <2>6
<1> QED
    BY <1>2, <1>3

LEMMA MarksFinite ==
    ASSUME NEW d, NEW i \in Int, NEW p \in Int, NEW P \in SUBSET Marks(d, i, p)
    PROVE  /\ IsFiniteSet(P) /\ Cardinality(P) \in Nat /\ P \subseteq Int
           /\ p \notin P /\ \A k \in P : k < p
<1>1. P \in SUBSET (i + 1..p - 1)
    BY DEF Marks
<1>2. IsFiniteSet(P) /\ Cardinality(P) \in Nat
  <2>1. i + 1 \in Int /\ p - 1 \in Int
    OBVIOUS
  <2> QED
    BY <1>1, <2>1, IntervalSubset
<1> QED
    BY <1>1, <1>2

\* A parenthesis at p is one more, or one less, behind it.
LEMMA UnitDepth ==
    ASSUME NEW d, NEW i \in Int, NEW p \in Int, NEW j,
           Marks(d, i, j) = Marks(d, i, p) \cup {p}
    PROVE  /\ Depth(d, i, p) \in Int
           /\ Depth(d, i, j) = CASE On(d, p) = LParen -> Depth(d, i, p) + 1
                                 [] On(d, p) = RParen -> Depth(d, i, p) - 1
                                 [] OTHER -> Depth(d, i, p)
<1> DEFINE M == Marks(d, i, p)
           B(S, b) == {k \in S : On(d, k) = b}
<1>1. \A b : IsFiniteSet(B(M, b)) /\ Cardinality(B(M, b)) \in Nat /\ p \notin B(M, b)
    BY MarksFinite
<1>2. \A b : /\ On(d, p) # b => B(M \cup {p}, b) = B(M, b)
             /\ On(d, p) = b => B(M \cup {p}, b) = B(M, b) \cup {p}
    OBVIOUS
<1>3. \A b : Cardinality(B(M \cup {p}, b))
                = IF On(d, p) = b THEN Cardinality(B(M, b)) + 1 ELSE Cardinality(B(M, b))
    BY <1>1, <1>2, FS_AddElement
<1>4. /\ Depth(d, i, p) = 1 + Cardinality(B(M, LParen)) - Cardinality(B(M, RParen))
      /\ Depth(d, i, j) = 1 + Cardinality(B(M \cup {p}, LParen)) - Cardinality(B(M \cup {p}, RParen))
    BY DEF Depth
<1> HIDE DEF B, M
<1>5. /\ Cardinality(B(M, LParen)) \in Nat /\ Cardinality(B(M, RParen)) \in Nat
      /\ Cardinality(B(M \cup {p}, LParen)) =
            IF On(d, p) = LParen THEN Cardinality(B(M, LParen)) + 1 ELSE Cardinality(B(M, LParen))
      /\ Cardinality(B(M \cup {p}, RParen)) =
            IF On(d, p) = RParen THEN Cardinality(B(M, RParen)) + 1 ELSE Cardinality(B(M, RParen))
    BY <1>1, <1>3
<1>6. LParen # RParen
    BY DEF LParen, RParen
<1> QED
    BY <1>4, <1>5, <1>6

\* A byte or an escape adds what it means, an escaped line end nothing.
LEMMA UnitBytes ==
    ASSUME NEW d, NEW i \in Int, NEW p \in Int, NEW j,
           Marks(d, i, j) = Marks(d, i, p) \cup {p}, LiteralBytes(d, i, p) \in Seq(Byte)
    PROVE  /\ Folds(d, i, p) => LiteralBytes(d, i, j) = LiteralBytes(d, i, p)
           /\ ~Folds(d, i, p) /\ Meaning(d, i, p) \in Byte
                => LiteralBytes(d, i, j) = Append(LiteralBytes(d, i, p), Meaning(d, i, p))
<1> DEFINE V(S) == {k \in S : ~Folds(d, i, k)}
           M == Marks(d, i, p)
           P == Ordered(V(M))
           N == Cardinality(V(M))
           s == LiteralBytes(d, i, p)
<1>1. /\ LiteralBytes(d, i, p) = [n \in DOMAIN Ordered(V(M)) |-> Meaning(d, i, Ordered(V(M))[n])]
      /\ LiteralBytes(d, i, j) = [n \in DOMAIN Ordered(V(M \cup {p})) |->
                                    Meaning(d, i, Ordered(V(M \cup {p}))[n])]
    BY DEF LiteralBytes
<1>2. ASSUME Folds(d, i, p)
      PROVE  LiteralBytes(d, i, j) = LiteralBytes(d, i, p)
  <2>1. V(M \cup {p}) = V(M)
    BY <1>2
  <2> QED
    BY <1>1, <2>1
<1>3. ASSUME ~Folds(d, i, p), Meaning(d, i, p) \in Byte
      PROVE  LiteralBytes(d, i, j) = Append(LiteralBytes(d, i, p), Meaning(d, i, p))
  <2>1. V(M \cup {p}) = V(M) \cup {p}
    BY <1>3
  <2>2. IsFiniteSet(V(M)) /\ N \in Nat /\ V(M) \subseteq Int /\ \A k \in V(M) : k < p
    <3> DEFINE W == V(M)
    <3>1. W \in SUBSET Marks(d, i, p)
        OBVIOUS
    <3> HIDE DEF W
    <3>2. /\ IsFiniteSet(W) /\ Cardinality(W) \in Nat /\ W \subseteq Int
          /\ \A k \in W : k < p
        BY <3>1, MarksFinite
    <3> QED
        BY <3>2 DEF W
  <2>3. Ordered(V(M \cup {p})) = [n \in 1..N + 1 |-> IF n = N + 1 THEN p ELSE P[n]]
    BY <2>1, <2>2, OrderedSnoc
  <2>4. DOMAIN P = 1..N
    BY <2>2, OrderedNat
  <2> HIDE DEF V, M
  <2>5. Len(s) = N /\ \A n \in 1..N : s[n] = Meaning(d, i, P[n])
    BY <1>1, <2>2, <2>4
  <2>6. LiteralBytes(d, i, j) =
            [n \in 1..N + 1 |-> IF n = N + 1 THEN Meaning(d, i, p) ELSE s[n]]
    <3>1. LiteralBytes(d, i, j) =
            [n \in 1..N + 1 |-> Meaning(d, i, IF n = N + 1 THEN p ELSE P[n])]
        BY <1>1, <2>3
    <3>2. \A n \in 1..N + 1 : Meaning(d, i, IF n = N + 1 THEN p ELSE P[n])
                                = IF n = N + 1 THEN Meaning(d, i, p) ELSE s[n]
        BY <2>2, <2>5
    <3> QED
        BY <3>1, <3>2
  <2>7. LiteralBytes(d, i, j) =
            [n \in 1..Len(s) + 1 |-> IF n = Len(s) + 1 THEN Meaning(d, i, p) ELSE s[n]]
    BY <2>5, <2>6
  <2> QED
    BY <1>3, <2>7, Snoc
<1> QED
    BY <1>2, <1>3

-----------------------------------------------------------------------------
(* The lexeme that is being read *)

\* The values of the hexadecimal digits between i and j.
Nibbles(d, i, j) ==
    LET P == Ordered({k \in i + 1..j - 1 : isHexDigit(On(d, k))}) IN
    [n \in DOMAIN P |-> Nibble(On(d, P[n]))]

CommentInv ==
    /\ On(Data, start) = Percent
    /\ \A k \in start..pos - 1 : On(Data, k) \notin {LF, CR, EOF}

TokenInv ==
    /\ buf = SubSeq(Data, start, pos - 1)
    /\ \A k \in start..pos - 1 : On(Data, k) \notin Delimiter \cup {EOF}

DictInv ==
    /\ On(Data, start) = Less /\ On(Data, start + 1) = Less /\ start + 2 <= pos
    /\ depth = 0 => On(Data, pos - 2) = Greater /\ On(Data, pos - 1) = Greater

HexInv ==
    /\ On(Data, start) = Less /\ On(Data, start + 1) # Less
    /\ \A k \in start + 1..pos - 1 : On(Data, k) # Greater
    /\ buf = Nibbles(Data, start, pos)

LiteralInv ==
    /\ On(Data, start) = LParen /\ Boundary(Data, start, pos)
    /\ depth > 0 /\ pos <= Len(Data) => EvenRun(Data, start, pos)
    /\ depth = Depth(Data, start, pos)
    /\ \A k \in start + 1..pos - 1 : Depth(Data, start, k) > 0
    /\ buf = LiteralBytes(Data, start, IF depth = 0 THEN pos - 1 ELSE pos)

\* What was read of a lexeme is the beginning of one, and buf is what it means.
ReadInv ==
    /\ mode \in Modes \ {"scan"} => start < pos
    /\ mode = "comment" => CommentInv
    /\ mode = "token" => TokenInv
    /\ mode = "dict" => DictInv
    /\ mode = "hex" => HexInv
    /\ mode = "literal" => LiteralInv

PhaseInv ==
    /\ mode # "done" => answer = "pending"
    /\ mode = "start" => page = 1

LexInv == Inv /\ ReadInv /\ PhaseInv

LEMMA AtOn ==
    ASSUME Data \in Seq(Byte), NEW p \in Int, p > 0
    PROVE  At(p) = On(Data, p)
BY DEF At, On

\* Inside a page.
LEMMA PageTypes ==
    ASSUME Inv, mode \in Modes
    PROVE  /\ Data \in Seq(Byte) /\ Len(Data) \in Nat
           /\ pos \in Nat /\ pos > 0 /\ pos <= Len(Data) + 1
           /\ start \in Nat /\ start > 0 /\ depth \in Nat /\ buf \in Seq(Byte)
           /\ \A k \in Nat : At(pos + k) = On(Data, pos + k)
           /\ At(pos) = On(Data, pos)
<1>1. /\ Data \in Seq(Byte) /\ Len(Data) \in Nat
      /\ pos \in Nat /\ pos > 0 /\ pos <= Len(Data) + 1
      /\ start \in Nat /\ start > 0 /\ depth \in Nat /\ buf \in Seq(Byte)
    BY DEF Inv, TypeOK, NoLongerThanPage
<1>2. \A k \in Nat : At(pos + k) = On(Data, pos + k)
    BY <1>1, AtOn
<1>3. At(pos) = On(Data, pos)
    BY <1>1, AtOn
<1> QED
    BY <1>1, <1>2, <1>3

\* After a whole byte or escape the number of backslashes before pos is even.
LEMMA UnitRun ==
    ASSUME NEW d \in Seq(Byte), NEW i \in Int, NEW p \in Int, i < p, EvenRun(d, i, p),
           NEW w, Unit(d, i, p, w), 0 < p, p + w <= Len(d)
    PROVE  EvenRun(d, i, p + w)
<1>1. w \in 1..4
    BY UnitWidth
<1>2. CASE ~Escapes(d, i, p)
  <2>1. w = 1 /\ On(d, p + 1) # EOF
    <3>1. w = 1
        BY <1>2 DEF Unit
    <3>2. p + 1 \in 1..Len(d)
        BY <3>1
    <3> QED
        BY <3>1, <3>2, OnByte
  <2>2. On(d, p) # Backslash
    BY <1>2, <2>1 DEF Escapes
  <2> QED
    BY <2>1, <2>2, RunBroken
<1>3. CASE Escapes(d, i, p) /\ On(d, p + 1) = Backslash
  <2>1. w = 2
    <3>1. On(d, p + 1) # CR /\ On(d, p + 1) \notin OctalDigit
        BY <1>3 DEF OctalDigit, Backslash, CR
    <3>2. Width(d, p) = 2
        BY <3>1 DEF Width, OctalDigits
    <3> QED
        BY <1>3, <3>2 DEF Unit
  <2>2. On(d, p) = Backslash
    BY <1>3 DEF Escapes
  <2> QED
    BY <1>3, <2>1, <2>2, RunPaired
<1>4. CASE Escapes(d, i, p) /\ On(d, p + 1) # Backslash
  <2>1. w = Width(d, p) /\ w \in 2..4
    BY <1>4, WidthCases DEF Unit
  <2> DEFINE q == p + w - 1
  <2>2. q \in p + 1..p + Width(d, p) - 1 /\ q \in Int /\ i < q /\ q + 1 = p + w
    BY <2>1
  <2>3. On(d, q) # Backslash
    BY <1>4, <2>2, WidthCases
  <2> HIDE DEF q
  <2> QED
    BY <2>2, <2>3, RunBroken
<1> QED
    BY <1>2, <1>3, <1>4

\* A byte or an escape that is read keeps the invariant of the literal.
LEMMA UnitReads ==
    ASSUME LexInv, InLiteral, Frame, mode' = mode, NEW w, Unit(Data, start, pos, w),
           pos + w <= Len(Data) + 1, pos' = pos + w,
           depth' = CASE On(Data, pos) = LParen -> depth + 1
                      [] On(Data, pos) = RParen -> depth - 1
                      [] OTHER -> depth,
           Meaning(Data, start, pos) \in Byte,
           buf' = IF depth' = 0 \/ Folds(Data, start, pos) THEN buf
                  ELSE Append(buf, Meaning(Data, start, pos))
    PROVE  ReadInv'
<1> DEFINE i == start
           p == pos
           j == pos + w
<1>1. /\ mode = "literal" /\ mode \in Modes /\ depth > 0
      /\ start' = i /\ Data' = Data /\ LiteralInv /\ i < p
    BY DEF LexInv, ReadInv, InLiteral, Frame, Data, Modes
<1>2. /\ Data \in Seq(Byte) /\ Len(Data) \in Nat /\ i \in Int /\ p \in Int /\ p > 0
      /\ depth \in Nat /\ buf \in Seq(Byte)
    BY <1>1, PageTypes DEF LexInv
<1>3. w \in 1..4 /\ p < j /\ j \in Int
  <2>1. w \in 1..4
    BY <1>2, UnitWidth
  <2> QED
    BY <1>2, <2>1
<1>4. p <= Len(Data)
    BY <1>2, <1>3
<1>5. /\ On(Data, i) = LParen /\ Boundary(Data, i, p) /\ EvenRun(Data, i, p)
      /\ depth = Depth(Data, i, p) /\ buf = LiteralBytes(Data, i, p)
      /\ \A k \in i + 1..p - 1 : Depth(Data, i, k) > 0
    BY <1>1, <1>4 DEF LiteralInv
<1>6. Boundary(Data, i, j)
    BY <1>1, <1>2, <1>5, UnitEnds
<1>7. \A k \in p + 1..p + w : Marks(Data, i, k) = Marks(Data, i, p) \cup {p}
    BY <1>1, <1>2, <1>5, UnitMarks
<1>8. Marks(Data, i, j) = Marks(Data, i, p) \cup {p}
    BY <1>2, <1>3, <1>7
<1>9. depth' = Depth(Data, i, j)
  <2>1. Depth(Data, i, j) = CASE On(Data, p) = LParen -> Depth(Data, i, p) + 1
                              [] On(Data, p) = RParen -> Depth(Data, i, p) - 1
                              [] OTHER -> Depth(Data, i, p)
    BY <1>2, <1>8, UnitDepth
  <2> QED
    BY <1>5, <2>1
<1>10. \A k \in i + 1..j - 1 : Depth(Data, i, k) > 0
  <2> SUFFICES ASSUME NEW k \in i + 1..j - 1
               PROVE  Depth(Data, i, k) > 0
    OBVIOUS
  <2>1. CASE k < p
    <3>1. k \in i + 1..p - 1
        BY <1>2, <1>3, <2>1
    <3> QED
        BY <1>5, <3>1
  <2>2. CASE k = p
    BY <1>1, <1>5, <2>2
  <2>3. CASE k > p
    <3>1. k \in p + 1..p + w
        BY <1>2, <1>3, <2>3
    <3>2. w # 1
        BY <1>2, <1>3, <2>3
    <3>3. On(Data, p) = Backslash
        BY <3>2 DEF Unit, Escapes
    <3>4. Marks(Data, i, k) = Marks(Data, i, p) \cup {p}
        BY <1>7, <3>1
    <3>5. On(Data, p) # LParen /\ On(Data, p) # RParen
        BY <3>3 DEF Backslash, LParen, RParen
    <3>6. Depth(Data, i, k) = Depth(Data, i, p)
        BY <1>2, <3>4, <3>5, UnitDepth
    <3> QED
        BY <1>1, <1>5, <3>6
  <2> QED
    BY <1>2, <1>3, <2>1, <2>2, <2>3
<1>11. j <= Len(Data) => EvenRun(Data, i, j)
    BY <1>1, <1>2, <1>5, UnitRun
<1>12. buf' = LiteralBytes(Data, i, IF depth' = 0 THEN j - 1 ELSE j)
  <2>1. CASE depth' = 0
    <3>1. On(Data, p) = RParen
        BY <1>1, <1>2, <2>1
    <3>2. w = 1
        BY <3>1 DEF Unit, Escapes, RParen, Backslash
    <3>3. j - 1 = p
        BY <1>2, <3>2
    <3> QED
        BY <1>5, <2>1, <3>3
  <2>2. CASE depth' # 0
    <3>1. LiteralBytes(Data, i, j) = IF Folds(Data, i, p) THEN buf
                                     ELSE Append(buf, Meaning(Data, i, p))
        BY <1>2, <1>5, <1>8, UnitBytes
    <3> QED
        BY <2>2, <3>1
  <2> QED
    BY <2>1, <2>2
<1>13. start' < pos'
    BY <1>1, <1>2, <1>3
<1>14. LiteralInv'
  <2>1. pos' = j /\ start' = i
    BY <1>1
  <2> HIDE DEF i, j, p
  <2> QED
    BY <1>1, <1>5, <1>6, <1>9, <1>10, <1>11, <1>12, <2>1 DEF LiteralInv
<1> QED
    BY <1>1, <1>13, <1>14 DEF ReadInv

LEMMA AppendConcat ==
    ASSUME NEW s \in Seq(Byte), NEW b \in Byte
    PROVE  s \o <<b>> = Append(s, b)
OBVIOUS

\* The tokenizer knows an escape by the byte before it, the notation by all that
\* stand before it.
LEMMA EscapedEscapes ==
    ASSUME LexInv, InLiteral
    PROVE  /\ Escaped <=> Escapes(Data, start, pos)
           /\ mode = "literal" /\ mode \in Modes /\ depth > 0 /\ pos <= Len(Data)
<1>1. mode = "literal" /\ mode \in Modes /\ depth > 0 /\ LiteralInv
    BY DEF LexInv, ReadInv, InLiteral, Modes
<1>2. /\ At(pos) = On(Data, pos) /\ At(pos + 1) = On(Data, pos + 1) /\ pos \in Nat
      /\ Data \in Seq(Byte)
    BY <1>1, PageTypes DEF LexInv
<1>3. pos <= Len(Data)
    BY <1>2, OnByte DEF InLiteral
<1>4. EvenRun(Data, start, pos)
    BY <1>1, <1>3 DEF LiteralInv
<1> QED
    BY <1>1, <1>2, <1>3, <1>4 DEF Escaped, Escapes, InLiteral

LEMMA LiteralByteReads == LexInv /\ LiteralByte /\ Frame => ReadInv'
<1> SUFFICES ASSUME LexInv, LiteralByte, Frame
             PROVE  ReadInv'
    OBVIOUS
<1>1. /\ InLiteral /\ ~Escapes(Data, start, pos) /\ mode \in Modes
      /\ pos <= Len(Data)
    BY EscapedEscapes DEF LiteralByte
<1>2. /\ At(pos) = On(Data, pos) /\ pos \in Nat /\ pos > 0 /\ Data \in Seq(Byte)
      /\ Len(Data) \in Nat
    BY <1>1, PageTypes DEF LexInv
<1>3. On(Data, pos) \in Byte
    BY <1>1, <1>2, OnByte DEF InLiteral
<1>4. /\ Unit(Data, start, pos, 1) /\ Meaning(Data, start, pos) = On(Data, pos)
      /\ ~Folds(Data, start, pos)
    BY <1>1 DEF Unit, Meaning, Folds
<1>5. /\ mode' = mode /\ pos' = pos + 1
      /\ depth' = CASE On(Data, pos) = LParen -> depth + 1
                    [] On(Data, pos) = RParen -> depth - 1
                    [] OTHER -> depth
      /\ buf' = IF depth' = 0 THEN buf ELSE Append(buf, On(Data, pos))
    BY <1>2 DEF LiteralByte
<1>6. pos + 1 <= Len(Data) + 1
    BY <1>1, <1>2
<1> QED
    BY <1>1, <1>3, <1>4, <1>5, <1>6, UnitReads

\* An escape that is collected keeps the invariant.
LEMMA EscapeReads ==
    ASSUME LexInv, Escaped, Frame, NEW s, NEW w, Collect(s, pos + w),
           w = Width(Data, pos), pos + w <= Len(Data) + 1,
           Meaning(Data, start, pos) \in Byte,
           s = IF Folds(Data, start, pos) THEN <<>> ELSE <<Meaning(Data, start, pos)>>
    PROVE  ReadInv'
<1>1. InLiteral /\ Escapes(Data, start, pos) /\ mode \in Modes /\ depth > 0
    BY EscapedEscapes DEF Escaped
<1>2. buf \in Seq(Byte) /\ depth \in Nat
    BY <1>1, PageTypes DEF LexInv
<1>3. Unit(Data, start, pos, w)
    BY <1>1 DEF Unit
<1>4. mode' = mode /\ pos' = pos + w /\ depth' = depth /\ buf' = buf \o s
    BY DEF Collect
<1>5. On(Data, pos) # LParen /\ On(Data, pos) # RParen
    BY <1>1 DEF Escapes, Backslash, LParen, RParen
<1>6. depth' = CASE On(Data, pos) = LParen -> depth + 1
                 [] On(Data, pos) = RParen -> depth - 1
                 [] OTHER -> depth
    BY <1>4, <1>5
<1>7. buf \o <<>> = buf
    BY <1>2
<1>8. buf \o <<Meaning(Data, start, pos)>> = Append(buf, Meaning(Data, start, pos))
    BY <1>2, AppendConcat
<1>9. buf' = IF depth' = 0 \/ Folds(Data, start, pos) THEN buf
             ELSE Append(buf, Meaning(Data, start, pos))
  <2>1. depth' # 0
    BY <1>1, <1>2, <1>4
  <2> QED
    BY <1>4, <1>7, <1>8, <2>1
<1> QED
    BY <1>1, <1>3, <1>4, <1>6, <1>9, UnitReads

\* The bytes of an escape, in the tokenizer's terms and in the notation's.
LEMMA EscapeBytes ==
    ASSUME LexInv, Escaped
    PROVE  /\ InLiteral /\ Escapes(Data, start, pos) /\ pos \in Nat /\ pos > 0
           /\ Data \in Seq(Byte) /\ Len(Data) \in Nat /\ pos + 1 <= Len(Data)
           /\ On(Data, pos + 1) \in Byte
           /\ \A k \in 1..3 : /\ At(pos + k) = On(Data, pos + k)
                              /\ Octal(pos + k) <=> On(Data, pos + k) \in OctalDigit
                              /\ At(pos + k) # EOF => pos + k <= Len(Data)
<1>1. InLiteral /\ Escapes(Data, start, pos) /\ mode \in Modes
    BY EscapedEscapes DEF Escaped
<1>2. /\ Data \in Seq(Byte) /\ Len(Data) \in Nat /\ pos \in Nat /\ pos > 0
      /\ \A k \in Nat : At(pos + k) = On(Data, pos + k)
    BY <1>1, PageTypes DEF LexInv
<1>3. \A k \in 1..3 : /\ At(pos + k) = On(Data, pos + k)
                      /\ Octal(pos + k) <=> On(Data, pos + k) \in OctalDigit
                      /\ At(pos + k) # EOF => pos + k <= Len(Data)
  <2> SUFFICES ASSUME NEW k \in 1..3
               PROVE  /\ At(pos + k) = On(Data, pos + k)
                      /\ Octal(pos + k) <=> On(Data, pos + k) \in OctalDigit
                      /\ At(pos + k) # EOF => pos + k <= Len(Data)
    OBVIOUS
  <2>0. k \in Nat
    OBVIOUS
  <2>1. At(pos + k) = On(Data, pos + k)
    BY <1>2, <2>0
  <2>2. On(Data, pos + k) # EOF <=> pos + k \in 1..Len(Data)
    BY <1>2, OnByte
  <2> QED
    BY <2>1, <2>2 DEF Octal
<1>4. On(Data, pos + 1) # EOF
    BY <1>1 DEF Escapes
<1>5. On(Data, pos + 1) \in Byte /\ pos + 1 <= Len(Data)
    BY <1>2, <1>4, OnByte
<1> QED
    BY <1>1, <1>2, <1>3, <1>5

LEMMA PlainEscapeReads == LexInv /\ Escape /\ Frame => ReadInv'
<1> SUFFICES ASSUME LexInv, Escape, Frame
             PROVE  ReadInv'
    OBVIOUS
<1> DEFINE b == On(Data, pos + 1)
<1>1. /\ Escaped /\ Escapes(Data, start, pos) /\ At(pos + 1) = b /\ b \in Byte
      /\ b \notin {CR, LF} /\ b \notin OctalDigit /\ pos + 1 <= Len(Data)
      /\ pos \in Nat /\ Len(Data) \in Nat
    BY EscapeBytes DEF Escape
<1>2. OctalDigits(Data, pos) = 0
    BY <1>1 DEF OctalDigits
<1>3. Width(Data, pos) = 2
    BY <1>1, <1>2 DEF Width
<1>4. ~Folds(Data, start, pos) /\ Meaning(Data, start, pos) = Unescaped(b)
    BY <1>1, <1>2 DEF Folds, Meaning
<1>5. Unescaped(b) \in Byte
  <2>1. LF \in Byte /\ CR \in Byte /\ 8 \in Byte /\ 9 \in Byte /\ 12 \in Byte
    BY DEF LF, CR, Byte
  <2> QED
    BY <1>1, <2>1 DEF Unescaped
<1>6. Collect(<<Unescaped(b)>>, pos + 2) /\ pos + 2 <= Len(Data) + 1
    BY <1>1 DEF Escape
<1> QED
    BY <1>1, <1>3, <1>4, <1>5, <1>6, EscapeReads

LEMMA LineContinuationReads == LexInv /\ LineContinuation /\ Frame => ReadInv'
<1> SUFFICES ASSUME LexInv, LineContinuation, Frame
             PROVE  ReadInv'
    OBVIOUS
<1> DEFINE w == Width(Data, pos)
           b == On(Data, pos + 1)
<1>1. /\ Escaped /\ Escapes(Data, start, pos) /\ At(pos + 1) = b /\ b \in Byte
      /\ At(pos + 2) = On(Data, pos + 2) /\ b \in {CR, LF} /\ pos + 1 <= Len(Data)
      /\ pos \in Nat /\ Len(Data) \in Nat /\ (At(pos + 2) # EOF => pos + 2 <= Len(Data))
    BY EscapeBytes DEF LineContinuation
<1>2. OctalDigits(Data, pos) = 0
    BY <1>1 DEF OctalDigits, OctalDigit, CR, LF
<1>3. /\ w = IF b = CR /\ On(Data, pos + 2) = LF THEN 3 ELSE 2
      /\ Collect(<<>>, pos + w)
  <2>1. w = IF b = CR /\ On(Data, pos + 2) = LF THEN 3 ELSE 2
    BY <1>2 DEF Width
  <2> QED
    BY <1>1, <2>1 DEF LineContinuation
<1>4. Folds(Data, start, pos)
    BY <1>1 DEF Folds
<1>5. Meaning(Data, start, pos) \in Byte
  <2>1. Meaning(Data, start, pos) = Unescaped(b)
    BY <1>1, <1>2 DEF Meaning
  <2> QED
    BY <1>1, <2>1 DEF Unescaped, Byte, LF, CR
<1>6. pos + w <= Len(Data) + 1
    BY <1>1, <1>3 DEF LF, EOF
<1> QED
    BY <1>1, <1>3, <1>4, <1>5, <1>6, EscapeReads

LEMMA OctalEscapeReads == LexInv /\ OctalEscape /\ Frame => ReadInv'
<1> SUFFICES ASSUME LexInv, OctalEscape, Frame
             PROVE  ReadInv'
    OBVIOUS
<1> DEFINE d(k) == At(pos + k) - 48
           n == IF ~Octal(pos + 2) THEN 1 ELSE IF ~Octal(pos + 3) THEN 2 ELSE 3
           val == CASE n = 1 -> d(1)
                    [] n = 2 -> 8 * d(1) + d(2)
                    [] n = 3 -> 64 * d(1) + 8 * d(2) + d(3)
           w == Width(Data, pos)
<1>1. /\ Escaped /\ Escapes(Data, start, pos) /\ Octal(pos + 1)
      /\ pos \in Nat /\ Len(Data) \in Nat
      /\ \A k \in 1..3 : /\ At(pos + k) = On(Data, pos + k)
                         /\ Octal(pos + k) <=> On(Data, pos + k) \in OctalDigit
                         /\ At(pos + k) # EOF => pos + k <= Len(Data)
    BY EscapeBytes DEF OctalEscape
<1>2. Collect(<<val % 256>>, pos + 1 + n)
    BY DEF OctalEscape
<1>3. n = OctalDigits(Data, pos) /\ n \in 1..3
    BY <1>1 DEF OctalDigits
<1>4. val = OctalNumber(Data, pos)
  <2>1. \A k \in 1..3 : d(k) = On(Data, pos + k) - 48
    BY <1>1
  <2> HIDE DEF n, d
  <2> QED
    BY <1>3, <2>1 DEF OctalNumber
<1>5. val \in Int
  <2>1. \A k \in 1..n : Octal(pos + k)
    BY <1>1
  <2>2. \A k \in 1..n : d(k) \in 0..7
    <3> SUFFICES ASSUME NEW k \in 1..n
                 PROVE  d(k) \in 0..7
        OBVIOUS
    <3>1. At(pos + k) \in 48..55
        BY <2>1 DEF Octal, OctalDigit
    <3> QED
        BY <3>1
  <2> HIDE DEF n, d
  <2>3. CASE n = 1
    BY <2>2, <2>3
  <2>4. CASE n = 2
    BY <2>2, <2>4
  <2>5. CASE n = 3
    BY <2>2, <2>5
  <2> QED
    BY <1>3, <2>3, <2>4, <2>5
<1>6. w = 1 + n /\ On(Data, pos + 1) # CR /\ On(Data, pos + 1) # LF
  <2>1. On(Data, pos + 1) \in OctalDigit
    BY <1>1
  <2> HIDE DEF n
  <2> QED
    BY <1>3, <2>1 DEF Width, OctalDigit, CR, LF
<1>7. pos + w <= Len(Data) + 1
  <2>1. Octal(pos + n)
    BY <1>1
  <2> HIDE DEF n
  <2>2. At(pos + n) # EOF
    BY <2>1 DEF Octal, OctalDigit, EOF
  <2> QED
    BY <1>1, <1>3, <1>6, <2>2
<1> HIDE DEF n, val
<1>8. ~Folds(Data, start, pos) /\ Meaning(Data, start, pos) = val % 256
    BY <1>1, <1>3, <1>4, <1>6 DEF Folds, Meaning
<1>9. val % 256 \in Byte
    BY <1>5, LowByte
<1>10. Collect(<<val % 256>>, pos + w)
  <2>1. pos + w = pos + 1 + n
    BY <1>1, <1>3, <1>6
  <2> QED
    BY <1>2, <2>1
<1> HIDE DEF w
<1>11. w = Width(Data, pos)
    BY DEF w
<1> QED
    BY <1>1, <1>7, <1>8, <1>9, <1>10, <1>11, EscapeReads

-----------------------------------------------------------------------------
(* Where lexemes begin *)

LEMMA NothingOrdered == Cardinality({}) = 0 /\ DOMAIN Ordered({}) = {}
<1>1. Cardinality({}) = 0 /\ IsFiniteSet({})
    BY FS_EmptySet
<1> QED
    BY <1>1, OrderedNat

LEMMA EmptyFunction ==
    ASSUME NEW f, DOMAIN f = {}, f = [n \in DOMAIN f |-> f[n]]
    PROVE  f = <<>>
OBVIOUS

LEMMA LiteralBegins ==
    ASSUME NEW d, NEW i \in Int
    PROVE  /\ Boundary(d, i, i + 1) /\ EvenRun(d, i, i + 1) /\ Depth(d, i, i + 1) = 1
           /\ LiteralBytes(d, i, i + 1) = <<>>
<1>0. i + 1..(i + 1) - 1 = {}
    OBVIOUS
<1>1. Boundary(d, i, i + 1)
    BY <1>0 DEF Boundary
<1>2. EvenRun(d, i, i + 1)
    BY RunFirst
<1>3. Marks(d, i, i + 1) = {}
    BY <1>0 DEF Marks
<1>4. Depth(d, i, i + 1) = 1
  <2>1. /\ {k \in Marks(d, i, i + 1) : On(d, k) = LParen} = {}
        /\ {k \in Marks(d, i, i + 1) : On(d, k) = RParen} = {}
    BY <1>3
  <2>2. Cardinality({}) = 0
    BY NothingOrdered
  <2> QED
    <3> DEFINE B(b) == {k \in Marks(d, i, i + 1) : On(d, k) = b}
    <3>1. Cardinality(B(LParen)) = 0 /\ Cardinality(B(RParen)) = 0
        BY <2>1, <2>2
    <3>2. Depth(d, i, i + 1) = 1 + Cardinality(B(LParen)) - Cardinality(B(RParen))
        BY DEF Depth
    <3> HIDE DEF B
    <3> QED
        BY <3>1, <3>2
<1>5. LiteralBytes(d, i, i + 1) = <<>>
  <2>1. {k \in {} : ~Folds(d, i, k)} = {}
    OBVIOUS
  <2>2. LiteralBytes(d, i, i + 1) = [n \in DOMAIN Ordered({}) |-> Meaning(d, i, Ordered({})[n])]
    BY <1>3, <2>1 DEF LiteralBytes
  <2>3. LiteralBytes(d, i, i + 1) = [n \in {} |-> Meaning(d, i, Ordered({})[n])]
    BY <2>2, NothingOrdered
  <2> QED
    BY <2>3, EmptyFunction
<1> QED
    BY <1>1, <1>2, <1>4, <1>5

LEMMA HexBegins ==
    ASSUME NEW d, NEW i \in Int
    PROVE  Nibbles(d, i, i + 1) = <<>>
<1>1. {k \in i + 1..(i + 1) - 1 : isHexDigit(On(d, k))} = {}
    OBVIOUS
<1>2. Nibbles(d, i, i + 1) = [n \in {} |-> Nibble(On(d, Ordered({})[n]))]
    BY <1>1, NothingOrdered DEF Nibbles
<1> QED
    BY <1>2, EmptyFunction

LEMMA DigitValue ==
    ASSUME NEW b, isHexDigit(b)
    PROVE  Nibble(b) \in 0..15
<1>1. CASE b \in 48..57
    BY <1>1 DEF Nibble
<1>2. CASE b \in 65..70
    BY <1>2 DEF Nibble
<1>3. CASE b \in 97..102
    BY <1>3 DEF Nibble
<1> QED
    BY <1>1, <1>2, <1>3 DEF isHexDigit

\* A digit adds its value, any other byte nothing.
LEMMA HexGrows ==
    ASSUME NEW d, NEW i \in Int, NEW p \in Int, i < p, Nibbles(d, i, p) \in Seq(0..15)
    PROVE  /\ ~isHexDigit(On(d, p)) => Nibbles(d, i, p + 1) = Nibbles(d, i, p)
           /\ isHexDigit(On(d, p))
                => Nibbles(d, i, p + 1) = Append(Nibbles(d, i, p), Nibble(On(d, p)))
<1> DEFINE V(j) == {k \in i + 1..j - 1 : isHexDigit(On(d, k))}
           W == V(p)
           P == Ordered(W)
           N == Cardinality(W)
           s == Nibbles(d, i, p)
<1>1. i + 1..(p + 1) - 1 = (i + 1..p - 1) \cup {p}
    OBVIOUS
<1>2. \A j : Nibbles(d, i, j) = [n \in DOMAIN Ordered(V(j)) |-> Nibble(On(d, Ordered(V(j))[n]))]
    BY DEF Nibbles
<1>3. ASSUME ~isHexDigit(On(d, p))
      PROVE  Nibbles(d, i, p + 1) = Nibbles(d, i, p)
  <2>1. V(p + 1) = V(p)
    BY <1>1, <1>3
  <2> QED
    BY <1>2, <2>1
<1>4. ASSUME isHexDigit(On(d, p))
      PROVE  Nibbles(d, i, p + 1) = Append(Nibbles(d, i, p), Nibble(On(d, p)))
  <2>1. V(p + 1) = W \cup {p}
    BY <1>1, <1>4
  <2>2. W \in SUBSET (i + 1..p - 1) /\ W \subseteq Int /\ \A k \in W : k < p
    OBVIOUS
  <2> HIDE DEF W, V
  <2>3. IsFiniteSet(W) /\ N \in Nat
    <3>1. i + 1 \in Int /\ p - 1 \in Int
        OBVIOUS
    <3> QED
        BY <2>2, <3>1, IntervalSubset
  <2>4. Ordered(W \cup {p}) = [n \in 1..N + 1 |-> IF n = N + 1 THEN p ELSE P[n]]
    BY <2>2, <2>3, OrderedSnoc
  <2>5. DOMAIN P = 1..N
    BY <2>3, OrderedNat
  <2>6. Len(s) = N /\ \A n \in 1..N : s[n] = Nibble(On(d, P[n]))
    <3>1. s = [n \in 1..N |-> Nibble(On(d, P[n]))]
        BY <1>2, <2>5 DEF W
    <3> HIDE DEF P, N
    <3> QED
        BY <2>3, <3>1
  <2>7. Nibbles(d, i, p + 1) = [n \in 1..N + 1 |-> IF n = N + 1 THEN Nibble(On(d, p)) ELSE s[n]]
    <3>1. Nibbles(d, i, p + 1) = [n \in 1..N + 1 |-> Nibble(On(d, IF n = N + 1 THEN p ELSE P[n]))]
        <4> DEFINE Q == Ordered(V(p + 1))
        <4>1. Nibbles(d, i, p + 1) = [n \in DOMAIN Q |-> Nibble(On(d, Q[n]))]
            BY <1>2
        <4>2. Q = [n \in 1..N + 1 |-> IF n = N + 1 THEN p ELSE P[n]]
            BY <2>1, <2>4
        <4> HIDE DEF Q
        <4> QED
            BY <4>1, <4>2
    <3>2. \A n \in 1..N + 1 : Nibble(On(d, IF n = N + 1 THEN p ELSE P[n]))
                                = IF n = N + 1 THEN Nibble(On(d, p)) ELSE s[n]
        BY <2>3, <2>6
    <3> QED
        BY <3>1, <3>2
  <2>8. Nibbles(d, i, p + 1) =
            [n \in 1..Len(s) + 1 |-> IF n = Len(s) + 1 THEN Nibble(On(d, p)) ELSE s[n]]
    BY <2>6, <2>7
  <2>9. Nibble(On(d, p)) \in 0..15
    BY <1>4, DigitValue
  <2> QED
    BY <2>8, <2>9, Snoc
<1> QED
    BY <1>3, <1>4

LEMMA WordBegins ==
    ASSUME NEW d \in Seq(Byte), NEW p \in 1..Len(d)
    PROVE  SubSeq(d, p, p) = <<On(d, p)>>
<1>1. On(d, p) = d[p] /\ d[p] \in Byte
    BY DEF On
<1>2. SubSeq(d, p, p) \in Seq(Byte) /\ Len(SubSeq(d, p, p)) = 1 /\ SubSeq(d, p, p)[1] = d[p]
    OBVIOUS
<1>3. <<d[p]>> \in Seq(Byte) /\ Len(<<d[p]>>) = 1 /\ <<d[p]>>[1] = d[p]
    BY <1>1
<1>4. \A n \in 1..1 : SubSeq(d, p, p)[n] = <<d[p]>>[n]
    BY <1>2, <1>3
<1>5. SubSeq(d, p, p) = <<d[p]>>
    BY <1>2, <1>3, <1>4, SeqEqual
<1> QED
    BY <1>1, <1>5

LEMMA WordGrows ==
    ASSUME NEW d \in Seq(Byte), NEW i \in Nat, i > 0, NEW p \in 1..Len(d), i < p
    PROVE  SubSeq(d, i, p) = SubSeq(d, i, p - 1) \o <<On(d, p)>>
<1> DEFINE s == SubSeq(d, i, p)
           t == SubSeq(d, i, p - 1) \o <<On(d, p)>>
<1>1. On(d, p) = d[p] /\ d[p] \in Byte
    BY DEF On
<1>2. s \in Seq(Byte) /\ Len(s) = p - i + 1 /\ \A n \in 1..Len(s) : s[n] = d[i + n - 1]
    OBVIOUS
<1>3. /\ SubSeq(d, i, p - 1) \in Seq(Byte) /\ Len(SubSeq(d, i, p - 1)) = p - i
      /\ \A n \in 1..p - i : SubSeq(d, i, p - 1)[n] = d[i + n - 1]
    OBVIOUS
<1>4. t \in Seq(Byte) /\ Len(t) = p - i + 1
    BY <1>1, <1>3
<1>5. \A n \in 1..p - i + 1 : t[n] = d[i + n - 1]
    BY <1>1, <1>3
<1> HIDE DEF s, t
<1>6. s = t
    BY <1>2, <1>4, <1>5, SeqEqual
<1> QED
    BY <1>6 DEF s, t

-----------------------------------------------------------------------------
(* Every step of the tokenizer keeps the invariant of what is being read. *)

LEMMA ScanReads == LexInv /\ Scan /\ Frame => ReadInv'
<1> SUFFICES ASSUME LexInv, Scan, Frame
             PROVE  ReadInv'
    OBVIOUS
<1> DEFINE b == On(Data, pos)
<1>1. mode = "scan" /\ mode \in Modes
    BY DEF Scan, Modes
<1>2. /\ Data \in Seq(Byte) /\ Len(Data) \in Nat /\ pos \in Nat /\ pos > 0
      /\ At(pos) = b /\ At(pos + 1) = On(Data, pos + 1)
    BY <1>1, PageTypes DEF LexInv
<1>3. start' = pos /\ Data' = Data
    BY <1>1 DEF Frame, Data
<1>4. \A k \in pos..(pos + 1) - 1 : k = pos
    BY <1>2
<1>5. CASE b \in Skipped \cup {LBracket, RBracket} /\ Enter("scan", pos + 1, 0)
    BY <1>5 DEF Enter, ReadInv
<1>6. CASE b \notin Delimiter \cup {EOF} /\ mode' = "token" /\ pos' = pos + 1 /\ buf' = <<b>>
  <2>1. pos \in 1..Len(Data)
    BY <1>2, <1>6, OnByte
  <2>2. buf' = SubSeq(Data, pos, (pos + 1) - 1)
    <3>1. (pos + 1) - 1 = pos
        BY <1>2
    <3> QED
        BY <1>2, <1>6, <2>1, <3>1, WordBegins
  <2>3. TokenInv' /\ start' < pos'
    BY <1>2, <1>3, <1>4, <1>6, <2>2 DEF TokenInv
  <2> QED
    BY <1>6, <2>3 DEF ReadInv
<1>7. CASE b = Percent /\ Enter("comment", pos + 1, 0)
  <2>1. b \notin {LF, CR, EOF}
    BY <1>7 DEF Percent, LF, CR, EOF
  <2>2. CommentInv' /\ start' < pos'
    BY <1>2, <1>3, <1>4, <1>7, <2>1 DEF CommentInv, Enter
  <2> QED
    BY <1>7, <2>2 DEF ReadInv, Enter
<1>8. CASE b = LParen /\ Enter("literal", pos + 1, 1)
  <2>1. /\ Boundary(Data, pos, pos + 1) /\ EvenRun(Data, pos, pos + 1)
        /\ Depth(Data, pos, pos + 1) = 1 /\ LiteralBytes(Data, pos, pos + 1) = <<>>
    BY <1>2, LiteralBegins
  <2>2. pos + 1..(pos + 1) - 1 = {}
    BY <1>2
  <2>3. mode' = "literal" /\ pos' = pos + 1 /\ depth' = 1 /\ buf' = <<>>
    BY <1>8 DEF Enter
  <2>4. LiteralInv' /\ start' < pos'
    BY <1>2, <1>3, <1>8, <2>1, <2>2, <2>3 DEF LiteralInv
  <2> QED
    BY <2>3, <2>4 DEF ReadInv
<1>9. CASE b = Less /\ On(Data, pos + 1) = Less /\ Enter("dict", pos + 2, 1)
  <2>1. DictInv' /\ start' < pos'
    BY <1>2, <1>3, <1>9 DEF DictInv, Enter
  <2> QED
    BY <1>9, <2>1 DEF ReadInv, Enter
<1>10. CASE b = Less /\ On(Data, pos + 1) # Less /\ Enter("hex", pos + 1, 0)
  <2>1. Nibbles(Data, pos, pos + 1) = <<>> /\ pos + 1..(pos + 1) - 1 = {}
    BY <1>2, HexBegins
  <2>2. HexInv' /\ start' < pos'
    BY <1>2, <1>3, <1>10, <2>1 DEF HexInv, Enter
  <2> QED
    BY <1>10, <2>2 DEF ReadInv, Enter
<1> QED
    BY <1>2, <1>5, <1>6, <1>7, <1>8, <1>9, <1>10 DEF Scan

\* What ends leaves nothing being read.
LEMMA EndReads == mode' = "scan" => ReadInv'
BY DEF ReadInv

LEMMA CommentReads == LexInv /\ Comment /\ Frame => ReadInv'
<1> SUFFICES ASSUME LexInv, Comment, Frame
             PROVE  ReadInv'
    OBVIOUS
<1>1. mode = "comment" /\ mode \in Modes /\ CommentInv /\ start < pos
    BY DEF Comment, Modes, LexInv, ReadInv
<1>2. pos \in Nat /\ start \in Nat /\ At(pos) = On(Data, pos)
    BY <1>1, PageTypes DEF LexInv
<1>3. start' = start /\ Data' = Data
    BY <1>1 DEF Frame, Data
<1>4. CASE At(pos) \in {LF, CR, EOF}
    BY <1>4, EndReads DEF Comment, Enter
<1>5. CASE At(pos) \notin {LF, CR, EOF}
  <2>1. mode' = "comment" /\ pos' = pos + 1
    BY <1>5 DEF Comment, Enter
  <2>2. \A k \in start..(pos + 1) - 1 : k = pos \/ k \in start..pos - 1
    BY <1>2
  <2>3. CommentInv' /\ start' < pos'
    BY <1>1, <1>2, <1>3, <1>5, <2>1, <2>2 DEF CommentInv
  <2> QED
    BY <2>1, <2>3 DEF ReadInv
<1> QED
    BY <1>4, <1>5

LEMMA TokenByteReads == LexInv /\ TokenByte /\ Frame => ReadInv'
<1> SUFFICES ASSUME LexInv, TokenByte, Frame
             PROVE  ReadInv'
    OBVIOUS
<1>1. mode = "token" /\ mode \in Modes /\ TokenInv /\ start < pos
    BY DEF TokenByte, Modes, LexInv, ReadInv
<1>2. /\ Data \in Seq(Byte) /\ Len(Data) \in Nat
      /\ pos \in Nat /\ pos > 0 /\ start \in Nat /\ start > 0 /\ At(pos) = On(Data, pos)
    BY <1>1, PageTypes DEF LexInv
<1>3. start' = start /\ Data' = Data
    BY <1>1 DEF Frame, Data
<1>4. /\ mode' = "token" /\ pos' = pos + 1 /\ buf' = buf \o <<On(Data, pos)>>
      /\ On(Data, pos) \notin Delimiter \cup {EOF}
    BY <1>1, <1>2 DEF TokenByte, Collect
<1>5. buf' = SubSeq(Data, start, (pos + 1) - 1)
  <2>1. pos \in 1..Len(Data)
    BY <1>2, <1>4, OnByte
  <2> QED
    BY <1>1, <1>2, <1>4, <2>1, WordGrows DEF TokenInv
<1>6. \A k \in start..(pos + 1) - 1 : k = pos \/ k \in start..pos - 1
    BY <1>2
<1>7. TokenInv' /\ start' < pos'
    BY <1>1, <1>2, <1>3, <1>4, <1>5, <1>6 DEF TokenInv
<1> QED
    BY <1>4, <1>7 DEF ReadInv

LEMMA DictReads == LexInv /\ skipDict /\ Frame => ReadInv'
<1> SUFFICES ASSUME LexInv, skipDict, Frame
             PROVE  ReadInv'
    OBVIOUS
<1>1. mode = "dict" /\ mode \in Modes /\ DictInv /\ start < pos
    BY DEF skipDict, Modes, LexInv, ReadInv
<1>2. /\ pos \in Nat /\ start \in Nat /\ depth \in Nat
      /\ At(pos) = On(Data, pos) /\ At(pos + 1) = On(Data, pos + 1)
    BY <1>1, PageTypes DEF LexInv
<1>3. start' = start /\ Data' = Data
    BY <1>1 DEF Frame, Data
<1>4. CASE depth = 0 \/ At(pos) = EOF
    BY <1>4, EndReads DEF skipDict, Enter
<1>5. CASE depth # 0 /\ (Enter("dict", pos + 2, depth + 1) \/ Enter("dict", pos + 1, depth))
  <2>1. mode' = "dict" /\ pos' \in {pos + 1, pos + 2} /\ depth' \in {depth, depth + 1}
    BY <1>5 DEF Enter
  <2>2. DictInv' /\ start' < pos'
    BY <1>1, <1>2, <1>3, <1>5, <2>1 DEF DictInv
  <2> QED
    BY <2>1, <2>2 DEF ReadInv
<1>6. CASE Pair(Greater) /\ Enter("dict", pos + 2, depth - 1)
  <2>1. mode' = "dict" /\ pos' = pos + 2 /\ depth' = depth - 1
    BY <1>6 DEF Enter
  <2>2. On(Data, (pos + 2) - 2) = Greater /\ On(Data, (pos + 2) - 1) = Greater
    <3>1. (pos + 2) - 2 = pos /\ (pos + 2) - 1 = pos + 1
        BY <1>2
    <3> QED
        BY <1>2, <1>6, <3>1 DEF Pair
  <2>3. DictInv' /\ start' < pos'
    BY <1>1, <1>2, <1>3, <2>1, <2>2 DEF DictInv
  <2> QED
    BY <2>1, <2>3 DEF ReadInv
<1> QED
    BY <1>4, <1>5, <1>6 DEF skipDict

LEMMA HexByteReads == LexInv /\ HexByte /\ Frame => ReadInv'
<1> SUFFICES ASSUME LexInv, HexByte, Frame
             PROVE  ReadInv'
    OBVIOUS
<1>1. mode = "hex" /\ mode \in Modes /\ HexInv /\ start < pos
    BY DEF HexByte, Modes, LexInv, ReadInv
<1>2. pos \in Nat /\ start \in Nat /\ buf \in Seq(0..15) /\ At(pos) = On(Data, pos)
  <2>1. buf \in Seq(0..15)
    BY <1>1 DEF LexInv, Inv, TypeOK
  <2> QED
    BY <1>1, <2>1, PageTypes DEF LexInv
<1>3. start' = start /\ Data' = Data
    BY <1>1 DEF Frame, Data
<1>4. /\ mode' = "hex" /\ pos' = pos + 1 /\ On(Data, pos) # Greater
      /\ buf' = buf \o (IF isHexDigit(On(Data, pos)) THEN <<Nibble(On(Data, pos))>> ELSE <<>>)
    BY <1>1, <1>2 DEF HexByte, Collect
<1>5. buf' = Nibbles(Data, start, pos + 1)
  <2>1. buf = Nibbles(Data, start, pos)
    BY <1>1 DEF HexInv
  <2>2. CASE ~isHexDigit(On(Data, pos))
    <3>1. buf' = buf
        BY <1>2, <1>4, <2>2
    <3> QED
        BY <1>1, <1>2, <2>1, <2>2, <3>1, HexGrows
  <2>3. CASE isHexDigit(On(Data, pos))
    <3>1. buf' = Append(buf, Nibble(On(Data, pos)))
        <4>1. Nibble(On(Data, pos)) \in 0..15
            BY <2>3, DigitValue
        <4> HIDE DEF Nibble
        <4> QED
            BY <1>2, <1>4, <2>3, <4>1
    <3> QED
        BY <1>1, <1>2, <2>1, <2>3, <3>1, HexGrows
  <2> QED
    BY <2>2, <2>3
<1>6. \A k \in start + 1..(pos + 1) - 1 : k = pos \/ k \in start + 1..pos - 1
    BY <1>2
<1>7. HexInv' /\ start' < pos'
    BY <1>1, <1>2, <1>3, <1>4, <1>5, <1>6 DEF HexInv
<1> QED
    BY <1>4, <1>7 DEF ReadInv

-----------------------------------------------------------------------------
(* The invariant *)

LEMMA LexInit == Init => LexInv
<1> SUFFICES ASSUME Init
             PROVE  LexInv
    OBVIOUS
<1>1. Inv
    BY InitInv
<1>2. ReadInv
    BY DEF Init, ReadInv, Modes
<1>3. PhaseInv
    BY DEF Init, PhaseInv
<1> QED
    BY <1>1, <1>2, <1>3 DEF LexInv

LEMMA TokenizeReads == LexInv /\ Tokenize /\ Frame => ReadInv'
<1>1. LexInv /\ (TokenEnds \/ LiteralEnds \/ HexEnds) => ReadInv'
    BY EndReads DEF TokenEnds, LiteralEnds, HexEnds, Operand, Enter
<1> QED
    BY <1>1, ScanReads, CommentReads, TokenByteReads, DictReads, LiteralByteReads,
       PlainEscapeReads, LineContinuationReads, OctalEscapeReads, HexByteReads
    DEF Tokenize

LEMMA LexNext == LexInv /\ [Next]_vars => LexInv'
<1> SUFFICES ASSUME LexInv, [Next]_vars
             PROVE  LexInv'
    OBVIOUS
<1>0. Inv'
    BY NextInv DEF LexInv
<1>1. ASSUME Extract, UNCHANGED start
      PROVE  ReadInv' /\ PhaseInv'
    BY <1>1 DEF LexInv, PhaseInv, ReadInv, Extract, Modes
<1>2. ASSUME ReadPage, UNCHANGED start
      PROVE  ReadInv' /\ PhaseInv'
  <2>1. mode' \in {"turn", "scan"} /\ answer' = answer /\ mode = "turn"
    BY <1>2 DEF ReadPage
  <2> QED
    BY <2>1 DEF LexInv, PhaseInv, ReadInv, Modes
<1>3. ASSUME PageEnds, UNCHANGED start
      PROVE  ReadInv' /\ PhaseInv'
    BY <1>3 DEF LexInv, PhaseInv, ReadInv, PageEnds, Modes
<1>4. ASSUME Finish, UNCHANGED start
      PROVE  ReadInv' /\ PhaseInv'
    BY <1>4 DEF LexInv, PhaseInv, ReadInv, Finish, Modes
<1>5. ASSUME Tokenize, Frame
      PROVE  ReadInv' /\ PhaseInv'
  <2>1. ReadInv'
    BY <1>5, TokenizeReads
  <2>2. mode \in Modes /\ mode' \in Modes
    <3>1. mode \in Modes
        BY <1>5 DEF Tokenize, Scan, Comment, TokenByte, TokenEnds, skipDict, LiteralByte,
                    Escape, LineContinuation, OctalEscape, LiteralEnds, HexByte, HexEnds,
                    Escaped, InLiteral, Modes
    <3>2. mode' = mode \/ mode' \in Modes
        BY <1>5 DEF Tokenize, Scan, Comment, TokenByte, TokenEnds, skipDict, LiteralByte,
                    Escape, LineContinuation, OctalEscape, LiteralEnds, HexByte, HexEnds,
                    Enter, Collect, Operand, Modes
    <3> QED
        BY <3>1, <3>2
  <2>3. PhaseInv'
    BY <1>5, <2>2 DEF LexInv, PhaseInv, Frame, Modes
  <2> QED
    BY <2>1, <2>3
<1>6. ASSUME UNCHANGED vars
      PROVE  ReadInv' /\ PhaseInv'
  <2>1. Data' = Data
    BY <1>6 DEF vars, Data
  <2>2. ReadInv'
    BY <1>6, <2>1 DEF vars, stream, LexInv, ReadInv, CommentInv, TokenInv, DictInv, HexInv,
                      LiteralInv
  <2>3. PhaseInv'
    BY <1>6 DEF vars, LexInv, PhaseInv
  <2> QED
    BY <2>2, <2>3
<1> QED
    BY <1>0, <1>1, <1>2, <1>3, <1>4, <1>5, <1>6 DEF Next, Frame, LexInv

-----------------------------------------------------------------------------
(* The tokenizer implements the notation.  Both speak of the same lexemes. *)

LEMMA SameBytes ==
    /\ Stream!EOF = EOF /\ Stream!LF = LF /\ Stream!CR = CR /\ Stream!Space = Space
    /\ Stream!LParen = LParen /\ Stream!RParen = RParen
    /\ Stream!Less = Less /\ Stream!Greater = Greater
    /\ Stream!LBracket = LBracket /\ Stream!RBracket = RBracket
    /\ Stream!Percent = Percent /\ Stream!Backslash = Backslash
    /\ Stream!OctalDigit = OctalDigit
BY DEF Stream!EOF, EOF, Stream!LF, LF, Stream!CR, CR, Stream!Space, Space,
       Stream!LParen, LParen, Stream!RParen, RParen, Stream!Less, Less,
       Stream!Greater, Greater, Stream!LBracket, LBracket, Stream!RBracket, RBracket,
       Stream!Percent, Percent, Stream!Backslash, Backslash, Stream!OctalDigit, OctalDigit

LEMMA SameSyntax ==
    /\ Stream!Skipped = Skipped /\ Stream!Delimiter = Delimiter
    /\ Stream!ShowString = ShowString /\ Stream!ShowArray = ShowArray
    /\ Stream!wordBreakKerningThreshold = wordBreakKerningThreshold
    /\ \A b : Stream!Unescaped(b) = Unescaped(b)
    /\ \A b : Stream!isHexDigit(b) <=> isHexDigit(b)
    /\ \A b : Stream!Nibble(b) = Nibble(b)
    /\ \A t : Stream!Blank(t) <=> Blank(t)
<1>1. Stream!Skipped = Skipped
    BY SameBytes DEF Stream!Skipped, Skipped
<1>2. Stream!Delimiter = Delimiter
    BY <1>1, SameBytes DEF Stream!Delimiter, Delimiter
<1>3. /\ Stream!ShowString = ShowString /\ Stream!ShowArray = ShowArray
      /\ Stream!wordBreakKerningThreshold = wordBreakKerningThreshold
    BY DEF Stream!ShowString, ShowString, Stream!ShowArray, ShowArray,
           Stream!wordBreakKerningThreshold, wordBreakKerningThreshold
<1>4. \A b : Stream!Unescaped(b) = Unescaped(b)
    BY SameBytes DEF Stream!Unescaped, Unescaped
<1>5. \A b : /\ Stream!isHexDigit(b) <=> isHexDigit(b)
             /\ Stream!Nibble(b) = Nibble(b)
    BY DEF Stream!isHexDigit, isHexDigit, Stream!Nibble, Nibble
<1>6. \A t : Stream!Blank(t) <=> Blank(t)
    BY SameBytes DEF Stream!Blank, Blank
<1> QED
    BY <1>1, <1>2, <1>3, <1>4, <1>5, <1>6

LEMMA SameOn ==
    /\ Stream!Data = Data
    /\ \A d, p : Stream!On(d, p) = On(d, p)
    /\ \A S : Stream!Cardinality(S) = Cardinality(S)
    /\ \A P : Stream!Ordered(P) = Ordered(P)
<1>1. Stream!Data = Data
    BY DEF Stream!Data, Data
<1>2. \A d, p : Stream!On(d, p) = On(d, p)
    BY SameBytes DEF Stream!On, On
<1>3. \A S : Stream!Cardinality(S) = Cardinality(S)
    BY Zenon DEF Stream!Cardinality, Cardinality
<1>4. \A P : Stream!Ordered(P) = Ordered(P)
  <2> SUFFICES ASSUME NEW P
               PROVE  Stream!Ordered(P) = Ordered(P)
    OBVIOUS
  <2> DEFINE Q(n) == {q \in P : Cardinality({x \in P : x <= q}) = n}
             R(n) == {q \in P : Stream!Cardinality({x \in P : x <= q}) = n}
  <2>1. \A n : R(n) = Q(n)
    BY <1>3
  <2>2. Stream!Ordered(P) = [n \in 1..Stream!Cardinality(P) |-> CHOOSE p \in R(n) : TRUE]
    BY DEF Stream!Ordered
  <2>3. Ordered(P) = [n \in 1..Cardinality(P) |-> CHOOSE p \in Q(n) : TRUE]
    BY DEF Ordered
  <2> HIDE DEF Q, R
  <2>4. \A n : (CHOOSE p \in R(n) : TRUE) = (CHOOSE p \in Q(n) : TRUE)
    BY <2>1
  <2>5. Stream!Cardinality(P) = Cardinality(P)
    BY <1>3
  <2> QED
    BY <2>2, <2>3, <2>4, <2>5
<1> QED
    BY <1>1, <1>2, <1>3, <1>4

LEMMA SameEscapes ==
    /\ \A d, i, p : Stream!EvenRun(d, i, p) <=> EvenRun(d, i, p)
    /\ \A d, i, e : Stream!Escapes(d, i, e) <=> Escapes(d, i, e)
    /\ \A d, e : Stream!OctalDigits(d, e) = OctalDigits(d, e)
    /\ \A d, e : Stream!OctalNumber(d, e) = OctalNumber(d, e)
    /\ \A d, e : Stream!Width(d, e) = Width(d, e)
<1>1. \A d, i, p : Stream!EvenRun(d, i, p) <=> EvenRun(d, i, p)
    BY SameBytes, SameOn DEF Stream!EvenRun, EvenRun
<1>2. \A d, i, e : Stream!Escapes(d, i, e) <=> Escapes(d, i, e)
    BY <1>1, SameBytes, SameOn DEF Stream!Escapes, Escapes
<1>3. \A d, e : Stream!OctalDigits(d, e) = OctalDigits(d, e)
    BY SameBytes, SameOn DEF Stream!OctalDigits, OctalDigits
<1>4. \A d, e : Stream!OctalNumber(d, e) = OctalNumber(d, e)
    BY <1>3, SameOn DEF Stream!OctalNumber, OctalNumber
<1>5. \A d, e : Stream!Width(d, e) = Width(d, e)
    BY <1>3, SameBytes, SameOn DEF Stream!Width, Width
<1> QED
    BY <1>1, <1>2, <1>3, <1>4, <1>5

LEMMA SameLiterals ==
    /\ \A d, i, j : Stream!OpenLiteral(d, i, j) <=> OpenLiteral(d, i, j)
    /\ \A d, i, j : Stream!ClosedLiteral(d, i, j) <=> ClosedLiteral(d, i, j)
    /\ \A d, i, j : Stream!LiteralBytes(d, i, j) = LiteralBytes(d, i, j)
<1>1. \A d, i, k : Stream!Boundary(d, i, k) <=> Boundary(d, i, k)
    BY SameEscapes DEF Stream!Boundary, Boundary
<1>2. \A d, i, j : Stream!Marks(d, i, j) = Marks(d, i, j)
    BY <1>1, Zenon DEF Stream!Marks, Marks
<1>3. \A d, i, j : Stream!Depth(d, i, j) = Depth(d, i, j)
  <2>1. \A d, M, b : {k \in M : Stream!On(d, k) = b} = {k \in M : On(d, k) = b}
    BY SameOn
  <2> QED
    BY <1>2, <2>1, SameBytes, SameOn, Zenon DEF Stream!Depth, Depth
<1>4. \A d, i, k : Stream!Folds(d, i, k) <=> Folds(d, i, k)
    BY SameBytes, SameOn, SameEscapes DEF Stream!Folds, Folds
<1>5. \A d, i, k : Stream!Meaning(d, i, k) = Meaning(d, i, k)
    BY SameOn, SameSyntax, SameEscapes DEF Stream!Meaning, Meaning
<1>6. \A d, i, j : Stream!LiteralBytes(d, i, j) = LiteralBytes(d, i, j)
  <2>1. \A d, i, j : {k \in Stream!Marks(d, i, j) : ~Stream!Folds(d, i, k)}
                        = {k \in Marks(d, i, j) : ~Folds(d, i, k)}
    BY <1>2, <1>4
  <2> QED
    BY <1>5, <2>1, SameOn, Zenon DEF Stream!LiteralBytes, LiteralBytes
<1>7. \A d, i, j : Stream!OpenLiteral(d, i, j) <=> OpenLiteral(d, i, j)
    BY <1>1, <1>3, SameBytes, SameOn DEF Stream!OpenLiteral, OpenLiteral
<1>8. \A d, i, j : Stream!ClosedLiteral(d, i, j) <=> ClosedLiteral(d, i, j)
    BY <1>3, SameBytes, SameOn DEF Stream!ClosedLiteral, ClosedLiteral
<1> QED
    BY <1>6, <1>7, <1>8

LEMMA SameLexemes ==
    /\ \A d, i, j : Stream!HexString(d, i, j) <=> HexString(d, i, j)
    /\ \A d, i, j : Stream!HexBytes(d, i, j) = HexBytes(d, i, j)
    /\ \A d, i, j : Stream!Word(d, i, j) <=> Word(d, i, j)
    /\ \A d, i, j : Stream!CommentLine(d, i, j) <=> CommentLine(d, i, j)
    /\ \A d, i, j : Stream!Dictionary(d, i, j) <=> Dictionary(d, i, j)
<1>1. \A d, i, j : Stream!HexString(d, i, j) <=> HexString(d, i, j)
    BY SameBytes, SameOn DEF Stream!HexString, HexString
<1>2. \A d, i, j : Stream!HexBytes(d, i, j) = HexBytes(d, i, j)
  <2> SUFFICES ASSUME NEW d, NEW i, NEW j
               PROVE  Stream!HexBytes(d, i, j) = HexBytes(d, i, j)
    OBVIOUS
  <2> DEFINE P == Ordered({k \in i + 1..j - 1 : isHexDigit(On(d, k))})
             Q == Stream!Ordered({k \in i + 1..j - 1 : Stream!isHexDigit(Stream!On(d, k))})
             v(n) == IF n <= Len(P) THEN Nibble(On(d, P[n])) ELSE 0
             w(n) == IF n <= Len(Q) THEN Stream!Nibble(Stream!On(d, Q[n])) ELSE 0
  <2>1. {k \in i + 1..j - 1 : Stream!isHexDigit(Stream!On(d, k))}
            = {k \in i + 1..j - 1 : isHexDigit(On(d, k))}
    BY SameOn, SameSyntax
  <2>2. Q = P
    BY <2>1, SameOn
  <2>3. /\ HexBytes(d, i, j) = [n \in 1..(Len(P) + 1) \div 2 |-> 16 * v(2 * n - 1) + v(2 * n)]
        /\ Stream!HexBytes(d, i, j) =
                [n \in 1..(Len(Q) + 1) \div 2 |-> 16 * w(2 * n - 1) + w(2 * n)]
    BY DEF HexBytes, Stream!HexBytes
  <2> HIDE DEF P, Q
  <2>4. \A n : w(n) = v(n)
    BY <2>2, SameOn, SameSyntax
  <2> HIDE DEF v, w
  <2> QED
    BY <2>2, <2>3, <2>4
<1>3. \A d, i, j : Stream!Word(d, i, j) <=> Word(d, i, j)
    BY SameBytes, SameOn, SameSyntax DEF Stream!Word, Word
<1>4. \A d, i, j : Stream!CommentLine(d, i, j) <=> CommentLine(d, i, j)
    BY SameBytes, SameOn DEF Stream!CommentLine, CommentLine
<1>5. \A d, i, j : Stream!Dictionary(d, i, j) <=> Dictionary(d, i, j)
    BY SameBytes, SameOn DEF Stream!Dictionary, Dictionary
<1> QED
    BY <1>1, <1>2, <1>3, <1>4, <1>5

-----------------------------------------------------------------------------
(* Steps *)

StreamAt == IF mode \notin Modes THEN 0 ELSE IF mode = "scan" THEN pos ELSE start
Held == IF haveLast THEN <<last>> ELSE <<>>

Stutter == UNCHANGED <<file, page, StreamAt, Held, arr, inArray, out, text, answer>>

LEMMA StutterKeeps == Stutter => UNCHANGED Stream!streamVars
BY DEF Stutter, StreamAt, Held, Stream!streamVars, Stream!operands

\* A lexeme that is read to its end is a step of the notation.
LEMMA LexemeStep ==
    ASSUME LexInv, mode \in Modes, Frame, mode' = "scan", StreamAt < pos',
           NEW j, j = pos', Inv',
           \/ Stream!Skip(j) \/ Stream!OpenArray(j) \/ Stream!CloseArray(j)
           \/ Stream!String(j) \/ Stream!Execute(j)
    PROVE  Stream!StreamNext
<1>1. /\ StreamAt \in Nat /\ StreamAt # 0 /\ j \in Nat /\ Len(Data) \in Nat
      /\ j <= Len(Data) + 1 /\ StreamAt' = j
  <2>1. Data' = Data /\ mode' \in Modes
    BY DEF Frame, Data, Modes
  <2>2. pos' \in Nat /\ pos' <= Len(Data) + 1
    BY <2>1 DEF Inv, TypeOK, NoLongerThanPage
  <2>3. StreamAt \in Nat /\ StreamAt # 0 /\ Len(Data) \in Nat
    <3>1. pos \in Nat /\ pos > 0 /\ start \in Nat /\ start > 0 /\ Len(Data) \in Nat
        BY PageTypes DEF LexInv
    <3> QED
        BY <3>1 DEF StreamAt
  <2> QED
    BY <2>1, <2>2, <2>3 DEF StreamAt
<1>2. j \in StreamAt + 1..Len(Data) + 1 /\ StreamAt <= Len(Data)
    BY <1>1
<1>3. UNCHANGED <<file, page, text, answer>> /\ answer = "pending"
    BY DEF Frame, LexInv, PhaseInv, Modes
<1>4. Stream!Lexeme
    BY <1>1, <1>2, <1>3, SameOn DEF Stream!Lexeme, StreamAt
<1> QED
    BY <1>3, <1>4 DEF Stream!StreamNext

\* Until then the notation sees nothing.
LEMMA WithinLexeme ==
    ASSUME mode \in Modes, mode' \in Modes \ {"scan"}, Frame, UNCHANGED <<operands, out>>
    PROVE  UNCHANGED Stream!streamVars
<1>1. StreamAt' = StreamAt
    BY DEF Frame, StreamAt, Modes
<1>2. Held' = Held
    BY DEF Held, operands
<1> QED
    BY <1>1, <1>2, StutterKeeps DEF Stutter, Frame, operands

LEMMA ScanImplements ==
    ASSUME LexInv, Scan, Frame, Inv'
    PROVE  Stream!StreamNext \/ UNCHANGED Stream!streamVars
<1> DEFINE b == On(Data, pos)
           j == pos + 1
<1>1. mode = "scan" /\ mode \in Modes
    BY DEF Scan, Modes
<1>2. pos \in Nat /\ pos > 0 /\ At(pos) = b /\ StreamAt = pos
    BY <1>1, PageTypes DEF LexInv, StreamAt
<1>3. UNCHANGED <<Held, out>>
    BY DEF Scan, Held
<1>4. CASE b \in Skipped /\ Enter("scan", pos + 1, 0)
  <2>1. b # LBracket /\ b # RBracket
    BY <1>4 DEF Skipped, LBracket, RBracket, Space, LF, CR, RParen, Greater
  <2>2. arr' = arr /\ inArray' = inArray
    BY <1>2, <2>1 DEF Scan, LexInv, Inv, TypeOK
  <2>3. Stream!Skip(j)
    BY <1>1, <1>3, <1>4, <2>2, SameOn, SameSyntax DEF Stream!Skip, Stream!operands, Held
  <2>4. j = pos' /\ StreamAt < pos' /\ mode' = "scan"
    BY <1>2, <1>4 DEF Enter
  <2> QED
    BY <1>1, <2>3, <2>4, LexemeStep
<1>5. CASE b = LBracket /\ Enter("scan", pos + 1, 0)
  <2>1. arr' = <<>> /\ inArray' = TRUE
    BY <1>2, <1>5 DEF Scan
  <2>2. Stream!OpenArray(j)
    BY <1>1, <1>3, <1>5, <2>1, SameOn, SameBytes DEF Stream!OpenArray, Held
  <2>3. j = pos' /\ StreamAt < pos' /\ mode' = "scan"
    BY <1>2, <1>5 DEF Enter
  <2> QED
    BY <1>1, <2>2, <2>3, LexemeStep
<1>6. CASE b = RBracket /\ Enter("scan", pos + 1, 0)
  <2>1. arr' = arr /\ inArray' = FALSE
    <3>1. At(pos) # LBracket /\ At(pos) = RBracket
        BY <1>2, <1>6 DEF LBracket, RBracket
    <3>2. inArray' = (At(pos) = LBracket \/ (inArray /\ At(pos) # RBracket))
        BY DEF Scan
    <3>3. inArray' = FALSE
        BY <3>1, <3>2, Zenon
    <3>4. arr' = arr
        BY <3>1 DEF Scan
    <3> QED
        BY <3>3, <3>4
  <2>2. Stream!CloseArray(j)
    BY <1>1, <1>3, <1>6, <2>1, SameOn, SameBytes DEF Stream!CloseArray, Held
  <2>3. j = pos' /\ StreamAt < pos' /\ mode' = "scan"
    BY <1>2, <1>6 DEF Enter
  <2> QED
    BY <1>1, <2>2, <2>3, LexemeStep
<1>7. CASE b \notin {LBracket, RBracket} /\ mode' \in {"token", "comment", "literal", "dict", "hex"}
  <2>1. arr' = arr /\ inArray' = inArray
    BY <1>2, <1>7 DEF Scan, LexInv, Inv, TypeOK
  <2>2. UNCHANGED <<operands, out>>
    BY <2>1 DEF Scan, operands
  <2>3. mode' \in Modes \ {"scan"}
    BY <1>7 DEF Modes
  <2> QED
    BY <1>1, <2>2, <2>3, WithinLexeme
<1>8. \/ b \in Skipped \cup {LBracket, RBracket} /\ Enter("scan", pos + 1, 0)
      \/ b \notin {LBracket, RBracket} /\ mode' \in {"token", "comment", "literal", "dict", "hex"}
    BY <1>2 DEF Scan, Enter, Delimiter, Percent, LParen, Less, LBracket, RBracket
<1> QED
    BY <1>4, <1>5, <1>6, <1>7, <1>8

LEMMA CommentImplements ==
    ASSUME LexInv, Comment, Frame, Inv'
    PROVE  Stream!StreamNext \/ UNCHANGED Stream!streamVars
<1>1. mode = "comment" /\ mode \in Modes /\ CommentInv /\ start < pos
    BY DEF Comment, Modes, LexInv, ReadInv
<1>2. At(pos) = On(Data, pos) /\ StreamAt = start
    BY <1>1, PageTypes DEF LexInv, StreamAt
<1>3. UNCHANGED <<operands, out>>
    BY DEF Comment
<1>4. CASE At(pos) \in {LF, CR, EOF}
  <2>1. pos' = pos /\ mode' = "scan"
    BY <1>4 DEF Comment, Enter
  <2>2. CommentLine(Data, start, pos)
    BY <1>1, <1>2, <1>4 DEF CommentLine, CommentInv
  <2>3. Stream!Skip(pos)
    BY <1>1, <1>3, <2>2, SameOn, SameLexemes DEF Stream!Skip, Stream!operands, operands
  <2> QED
    BY <1>1, <1>2, <2>1, <2>3, LexemeStep
<1>5. CASE At(pos) \notin {LF, CR, EOF}
  <2>1. mode' \in Modes \ {"scan"}
    BY <1>5 DEF Comment, Enter, Modes
  <2> QED
    BY <1>1, <1>3, <2>1, WithinLexeme
<1> QED
    BY <1>4, <1>5

LEMMA DictImplements ==
    ASSUME LexInv, skipDict, Frame, Inv'
    PROVE  Stream!StreamNext \/ UNCHANGED Stream!streamVars
<1>1. mode = "dict" /\ mode \in Modes /\ DictInv /\ start < pos
    BY DEF skipDict, Modes, LexInv, ReadInv
<1>2. At(pos) = On(Data, pos) /\ StreamAt = start
    BY <1>1, PageTypes DEF LexInv, StreamAt
<1>3. UNCHANGED <<operands, out>>
    BY DEF skipDict
<1>4. CASE depth = 0 \/ At(pos) = EOF
  <2>1. pos' = pos /\ mode' = "scan"
    BY <1>4 DEF skipDict, Enter
  <2>2. Dictionary(Data, start, pos)
    BY <1>1, <1>2, <1>4 DEF Dictionary, DictInv
  <2>3. Stream!Skip(pos)
    BY <1>1, <1>3, <2>2, SameOn, SameLexemes DEF Stream!Skip, Stream!operands, operands
  <2> QED
    BY <1>1, <1>2, <2>1, <2>3, LexemeStep
<1>5. CASE ~(depth = 0 \/ At(pos) = EOF)
  <2>1. mode' \in Modes \ {"scan"}
    BY <1>5 DEF skipDict, Enter, Modes
  <2> QED
    BY <1>1, <1>3, <2>1, WithinLexeme
<1> QED
    BY <1>4, <1>5

LEMMA TokenEndsImplements ==
    ASSUME LexInv, TokenEnds, Frame, Inv'
    PROVE  Stream!StreamNext
<1>1. mode = "token" /\ mode \in Modes /\ TokenInv /\ start < pos
    BY DEF TokenEnds, Modes, LexInv, ReadInv
<1>2. At(pos) = On(Data, pos) /\ StreamAt = start
    BY <1>1, PageTypes DEF LexInv, StreamAt
<1>3. pos' = pos /\ mode' = "scan" /\ inArray' = inArray
    BY DEF TokenEnds, Enter
<1>4. Stream!Word(Stream!Data, start, pos)
  <2>1. Word(Data, start, pos)
    BY <1>1, <1>2 DEF Word, TokenInv, TokenEnds
  <2> QED
    BY <2>1, SameOn, SameLexemes
<1>5. buf = SubSeq(Stream!Data, start, pos - 1)
    BY <1>1, SameOn DEF TokenInv
<1>6. CASE Kern
  <2>1. Stream!Gap(buf)
    BY <1>6, SameSyntax, SameBytes DEF Kern, Stream!Gap
  <2>2. inArray /\ buf \in DOMAIN Kerning
    BY <1>6 DEF Kern
  <2> QED
    BY <1>1, <1>2, <1>3, <1>4, <1>5, <2>1, <2>2, LexemeStep DEF Stream!Execute, StreamAt
<1>7. CASE ~(inArray /\ buf \in DOMAIN Kerning) /\ flushOperator
  <2>1. Stream!Operator(buf)
    <3>1. CASE /\ buf \in ShowString
               /\ out' = IF haveLast THEN out \o Append(last, LF) ELSE out
               /\ last' = <<>> /\ haveLast' = FALSE
               /\ UNCHANGED arr
        <4>1. (IF haveLast' THEN <<last'>> ELSE <<>>) = <<>>
            BY <3>1
        <4>2. out' = IF Held = <<>> THEN out ELSE out \o Append(Held[1], LF)
            BY <3>1 DEF Held
        <4> QED
            BY <3>1, <4>1, <4>2, SameSyntax, SameBytes DEF Stream!Operator, Held
    <3>2. CASE /\ buf = ShowArray
               /\ out' = out \o Append(arr, LF) /\ arr' = <<>>
               /\ UNCHANGED <<last, haveLast>>
        BY <3>2, SameSyntax, SameBytes DEF Stream!Operator
    <3>3. CASE /\ buf \notin ShowString \cup {ShowArray}
               /\ UNCHANGED <<last, haveLast, arr, out>>
        BY <3>3, SameSyntax DEF Stream!Operator
    <3> QED
        BY <1>7, <3>1, <3>2, <3>3 DEF flushOperator
  <2> QED
    BY <1>1, <1>2, <1>3, <1>4, <1>5, <1>7, <2>1, LexemeStep DEF Stream!Execute, StreamAt
<1> QED
    BY <1>6, <1>7 DEF TokenEnds

\* A string becomes an operand.
LEMMA OperandHeld ==
    ASSUME Inv, NEW s, NEW p, Operand(s, p)
    PROVE  Stream!Hold(s)
<1>1. haveLast \in BOOLEAN /\ inArray \in BOOLEAN
    BY DEF Inv, TypeOK
<1>2. CASE inArray
  <2>1. arr' = arr \o s /\ last' = last /\ haveLast' = haveLast /\ inArray' = inArray /\ out' = out
    BY <1>1, <1>2 DEF Operand
  <2> QED
    BY <1>2, <2>1 DEF Stream!Hold
<1>3. CASE ~inArray
  <2>1. arr' = arr /\ last' = s /\ haveLast' = TRUE /\ inArray' = inArray /\ out' = out
    BY <1>1, <1>3 DEF Operand
  <2> QED
    BY <1>3, <2>1 DEF Stream!Hold
<1> QED
    BY <1>2, <1>3

LEMMA LiteralEndsImplements ==
    ASSUME LexInv, LiteralEnds, Frame, Inv'
    PROVE  Stream!StreamNext
<1>1. mode = "literal" /\ mode \in Modes /\ LiteralInv /\ start < pos
    BY DEF LiteralEnds, Modes, LexInv, ReadInv
<1>2. /\ At(pos) = On(Data, pos) /\ StreamAt = start /\ pos \in Nat /\ start \in Nat
      /\ depth \in Nat
    BY <1>1, PageTypes DEF LexInv, StreamAt
<1>3. pos' = pos /\ mode' = "scan" /\ Stream!Hold(buf)
    BY OperandHeld DEF LiteralEnds, Operand, Enter, LexInv
<1>4. CASE depth = 0
  <2>1. ClosedLiteral(Data, start, pos) /\ buf = LiteralBytes(Data, start, pos - 1)
    BY <1>1, <1>4 DEF ClosedLiteral, LiteralInv
  <2>2. /\ Stream!ClosedLiteral(Stream!Data, start, pos)
        /\ buf = Stream!LiteralBytes(Stream!Data, start, pos - 1)
    BY <2>1, SameOn, SameLiterals
  <2>3. Stream!String(pos)
    BY <1>1, <1>3, <2>2 DEF Stream!String
  <2> QED
    BY <1>1, <1>2, <1>3, <2>3, LexemeStep
<1>5. CASE depth # 0
  <2>1. On(Data, pos) = EOF /\ buf = LiteralBytes(Data, start, pos)
    BY <1>1, <1>2, <1>5 DEF LiteralEnds, LiteralInv
  <2>2. OpenLiteral(Data, start, pos)
    <3>1. \A k \in start + 1..pos : k = pos \/ k \in start + 1..pos - 1
        BY <1>2
    <3>2. Depth(Data, start, pos) > 0
        BY <1>1, <1>2, <1>5 DEF LiteralInv
    <3> QED
        BY <1>1, <3>1, <3>2 DEF OpenLiteral, LiteralInv
  <2>3. /\ Stream!OpenLiteral(Stream!Data, start, pos)
        /\ Stream!On(Stream!Data, pos) = Stream!EOF
        /\ buf = Stream!LiteralBytes(Stream!Data, start, pos)
    BY <2>1, <2>2, SameOn, SameBytes, SameLiterals
  <2>4. Stream!String(pos)
    BY <1>1, <1>3, <2>3 DEF Stream!String
  <2> QED
    BY <1>1, <1>2, <1>3, <2>4, LexemeStep
<1> QED
    BY <1>4, <1>5

\* Pairs of digits are what the notation makes of them.
LEMMA DecodedNibbles ==
    ASSUME NEW d, NEW i \in Int, NEW j \in Int, NEW h, h = Nibbles(d, i, j)
    PROVE  Decoded(h) = HexBytes(d, i, j)
<1> DEFINE W == {k \in i + 1..j - 1 : isHexDigit(On(d, k))}
           P == Ordered(W)
           N == Cardinality(W)
           v(n) == IF n <= Len(P) THEN Nibble(On(d, P[n])) ELSE 0
<1>1. N \in Nat /\ P = [n \in 1..N |-> P[n]]
  <2>1. W \in SUBSET (i + 1..j - 1)
    OBVIOUS
  <2> HIDE DEF W
  <2>2. i + 1 \in Int /\ j - 1 \in Int
    OBVIOUS
  <2>3. IsFiniteSet(W)
    BY <2>1, <2>2, IntervalSubset
  <2>4. N \in Nat /\ DOMAIN P = 1..N
    BY <2>3, OrderedNat
  <2>5. P = [n \in 1..N |-> CHOOSE p \in {q \in W : Cardinality({x \in W : x <= q}) = n} : TRUE]
    BY DEF Ordered
  <2> QED
    BY <2>4, <2>5
<1>2. h = [n \in DOMAIN P |-> Nibble(On(d, P[n]))]
    BY DEF Nibbles
<1>3. HexBytes(d, i, j) = [n \in 1..(Len(P) + 1) \div 2 |-> 16 * v(2 * n - 1) + v(2 * n)]
    BY DEF HexBytes
<1> HIDE DEF W, P, N
<1>4. Len(P) = N
    BY <1>1
<1>5. Len(h) = N /\ \A n \in 1..N : h[n] = Nibble(On(d, P[n]))
    BY <1>1, <1>2
<1>6. ASSUME NEW n \in 1..(N + 1) \div 2
      PROVE  16 * h[2 * n - 1] + (IF 2 * n <= Len(h) THEN h[2 * n] ELSE 0)
                = 16 * v(2 * n - 1) + v(2 * n)
  <2>1. 2 * n - 1 \in 1..N /\ 2 * n \in Nat /\ 2 * n >= 1
    BY <1>1
  <2>2. h[2 * n - 1] = v(2 * n - 1)
    BY <1>4, <1>5, <2>1
  <2>3. (IF 2 * n <= Len(h) THEN h[2 * n] ELSE 0) = v(2 * n)
    BY <1>1, <1>4, <1>5, <2>1
  <2> QED
    BY <2>2, <2>3
<1> HIDE DEF v
<1> QED
    BY <1>3, <1>4, <1>5, <1>6 DEF Decoded

\* A hexadecimal string ends where the notation ends it.
LEMMA HexEnd ==
    ASSUME LexInv, HexEnds
    PROVE  LET j == IF At(pos) = EOF THEN pos ELSE pos + 1 IN
           /\ HexString(Data, start, j) /\ Decoded(buf) = HexBytes(Data, start, j)
           /\ Operand(Decoded(buf), j)
<1> DEFINE j == IF At(pos) = EOF THEN pos ELSE pos + 1
<1>1. mode = "hex" /\ mode \in Modes /\ HexInv /\ start < pos
    BY DEF HexEnds, Modes, LexInv, ReadInv
<1>2. At(pos) = On(Data, pos) /\ pos \in Nat /\ start \in Nat
    BY <1>1, PageTypes DEF LexInv
<1>3. HexString(Data, start, j) /\ Decoded(buf) = HexBytes(Data, start, j)
  <2>1. CASE At(pos) = EOF
    <3>1. j = pos
        BY <2>1
    <3>2. HexString(Data, start, pos)
        BY <1>1, <1>2, <2>1 DEF HexString, HexInv
    <3>3. Decoded(buf) = HexBytes(Data, start, pos)
        BY <1>1, <1>2, DecodedNibbles DEF HexInv
    <3> QED
        BY <3>1, <3>2, <3>3
  <2>2. CASE At(pos) = Greater
    <3>1. j = pos + 1 /\ (pos + 1) - 1 = pos /\ (pos + 1) - 2 = pos - 1
        BY <1>2, <2>2 DEF Greater, EOF
    <3>2. HexString(Data, start, pos + 1)
        BY <1>1, <1>2, <2>2, <3>1 DEF HexString, HexInv
    <3>3. Nibbles(Data, start, pos + 1) = buf
        <4>1. ~isHexDigit(On(Data, pos))
            BY <1>2, <2>2 DEF isHexDigit, Greater
        <4>2. buf \in Seq(0..15) /\ buf = Nibbles(Data, start, pos)
            BY <1>1 DEF LexInv, Inv, TypeOK, HexInv
        <4> QED
            BY <1>1, <1>2, <4>1, <4>2, HexGrows
    <3>4. Decoded(buf) = HexBytes(Data, start, pos + 1)
        <4>1. pos + 1 \in Int
            BY <1>2
        <4> QED
            BY <1>2, <3>3, <4>1, DecodedNibbles
    <3> QED
        BY <3>1, <3>2, <3>4
  <2> QED
    BY <2>1, <2>2 DEF HexEnds
<1>4. Operand(Decoded(buf), j)
    BY DEF HexEnds
<1> QED
    BY <1>3, <1>4

LEMMA HexEndsImplements ==
    ASSUME LexInv, HexEnds, Frame, Inv'
    PROVE  Stream!StreamNext
<1> DEFINE j == IF At(pos) = EOF THEN pos ELSE pos + 1
<1>1. mode = "hex" /\ mode \in Modes /\ HexInv /\ start < pos
    BY DEF HexEnds, Modes, LexInv, ReadInv
<1>2. /\ At(pos) = On(Data, pos) /\ StreamAt = start /\ pos \in Nat /\ start \in Nat
    BY <1>1, PageTypes DEF LexInv, StreamAt
<1>3. pos' = j /\ mode' = "scan" /\ Stream!Hold(Decoded(buf))
    BY OperandHeld DEF HexEnds, Operand, Enter, LexInv
<1>4. HexString(Data, start, j) /\ Decoded(buf) = HexBytes(Data, start, j)
    BY HexEnd
<1> HIDE DEF j
<1>5. Stream!HexString(Stream!Data, start, j) /\ Decoded(buf) = Stream!HexBytes(Stream!Data, start, j)
    BY <1>4, SameOn, SameLexemes
<1>6. Stream!String(j)
    BY <1>1, <1>3, <1>5 DEF Stream!String
<1>7. StreamAt < pos'
    BY <1>1, <1>2, <1>3 DEF j
<1> QED
    BY <1>1, <1>3, <1>6, <1>7, LexemeStep

\* A byte or an escape of a string is read, or a byte of a word.
LEMMA CollectWithin ==
    ASSUME LexInv, Frame,
           TokenByte \/ LiteralByte \/ Escape \/ LineContinuation \/ OctalEscape \/ HexByte
    PROVE  UNCHANGED Stream!streamVars
<1>1. mode \in Modes \ {"scan"}
    BY DEF TokenByte, LiteralByte, Escape, LineContinuation, OctalEscape, HexByte, Escaped,
           InLiteral, Modes
<1>2. mode' = mode /\ UNCHANGED <<operands, out>>
    BY DEF TokenByte, LiteralByte, Escape, LineContinuation, OctalEscape, HexByte, Collect
<1>3. mode' \in Modes \ {"scan"}
    BY <1>1, <1>2
<1> QED
    BY <1>1, <1>2, <1>3, WithinLexeme

LEMMA TokenizeImplements ==
    ASSUME LexInv, Tokenize, Frame, Inv'
    PROVE  Stream!StreamNext \/ UNCHANGED Stream!streamVars
BY ScanImplements, CommentImplements, DictImplements, TokenEndsImplements,
   LiteralEndsImplements, HexEndsImplements, CollectWithin
DEF Tokenize

LEMMA ReadPageImplements ==
    ASSUME LexInv, ReadPage, UNCHANGED start
    PROVE  Stream!StreamNext
<1>1. mode = "turn" /\ mode \notin Modes /\ answer = "pending" /\ StreamAt = 0
    BY DEF ReadPage, Modes, LexInv, PhaseInv, StreamAt
<1>2. CASE Data = Unreadable
  <2>1. page' = page + 1 /\ UNCHANGED <<mode, stream>>
    BY <1>2 DEF ReadPage
  <2>2. UNCHANGED <<StreamAt, Held, arr, inArray, out>>
    BY <2>1 DEF StreamAt, Held, stream, operands
  <2>3. Stream!TurnPage
    BY <1>1, <1>2, <2>1, <2>2, SameOn
    DEF Stream!TurnPage, Stream!operands, ReadPage, StreamAt, Held
  <2> QED
    BY <1>1, <2>3 DEF Stream!StreamNext
<1>3. CASE Data # Unreadable
  <2>1. /\ mode' = "scan" /\ pos' = 1 /\ haveLast' = FALSE /\ inArray' = FALSE
        /\ arr' = <<>> /\ out' = <<>> /\ page' = page
    BY <1>3 DEF ReadPage
  <2>2. StreamAt' = 1 /\ Held' = <<>>
    BY <2>1 DEF StreamAt, Held, Modes
  <2>3. Stream!TurnPage
    BY <1>1, <1>3, <2>1, <2>2, SameOn
    DEF Stream!TurnPage, ReadPage, StreamAt, Held
  <2> QED
    BY <1>1, <2>3 DEF Stream!StreamNext
<1> QED
    BY <1>2, <1>3

LEMMA PageEndsImplements ==
    ASSUME LexInv, PageEnds, UNCHANGED start
    PROVE  Stream!StreamNext
<1>1. mode = "scan" /\ mode \in Modes /\ answer = "pending"
    BY DEF PageEnds, Modes, LexInv, PhaseInv
<1>2. /\ Data \in Seq(Byte) /\ Len(Data) \in Nat /\ pos \in Nat /\ pos > 0
      /\ pos <= Len(Data) + 1
    BY <1>1, PageTypes DEF LexInv
<1>3. pos = Len(Data) + 1
    BY <1>2, AtByte DEF PageEnds
<1>4. StreamAt = Len(Data) + 1 /\ StreamAt # 0 /\ StreamAt' = 0
    BY <1>1, <1>2, <1>3 DEF StreamAt, PageEnds, Modes
<1>5. UNCHANGED <<Held, arr, inArray, out>>
    BY DEF PageEnds, stream, operands, Held
<1>6. Stream!EndPage
    BY <1>4, <1>5, SameOn, SameBytes
    DEF Stream!EndPage, Stream!operands, PageEnds, StreamAt, Held
<1> QED
    BY <1>1, <1>6 DEF Stream!StreamNext

\* Where there are no pages the file is given up or read to its end.
LEMMA FileImplements ==
    ASSUME LexInv, Extract \/ Finish, UNCHANGED start
    PROVE  Stream!StreamNext \/ UNCHANGED Stream!streamVars
<1>1. /\ StreamAt = 0 /\ StreamAt' = 0 /\ answer = "pending"
      /\ UNCHANGED <<file, page, Held, arr, inArray, out, text>>
    BY DEF Extract, Finish, StreamAt, Modes, LexInv, PhaseInv, stream, operands, Held
<1>2. CASE Extract
  <2>1. CASE answer' \in {"error", "blank"}
    <3>1. page = 1
        BY <1>2 DEF Extract, LexInv, PhaseInv
    <3>2. Stream!GiveUp
        BY <1>1, <2>1, <3>1 DEF Stream!GiveUp, Stream!operands, StreamAt, Held
    <3> QED
        BY <1>1, <3>2 DEF Stream!StreamNext
  <2>2. CASE UNCHANGED answer
    BY <1>1, <2>2, StutterKeeps DEF Stutter
  <2> QED
    BY <1>2, <2>1, <2>2 DEF Extract
<1>3. CASE Finish
  <2>1. Stream!Conclude
    BY <1>1, <1>3, SameSyntax DEF Finish, Stream!Conclude, Stream!operands, StreamAt, Held
  <2> QED
    BY <1>1, <2>1 DEF Stream!StreamNext
<1> QED
    BY <1>2, <1>3

LEMMA StreamStarts == Init => Stream!StreamInit
BY DEF Init, Stream!StreamInit, Modes

LEMMA StreamStep == LexInv /\ [Next]_vars => [Stream!StreamNext]_(Stream!streamVars)
<1> SUFFICES ASSUME LexInv, [Next]_vars
             PROVE  Stream!StreamNext \/ UNCHANGED Stream!streamVars
    OBVIOUS
<1>1. CASE UNCHANGED vars
    BY <1>1, StutterKeeps DEF vars, stream, operands, Stutter, StreamAt, Held
<1>2. CASE (Extract \/ Finish) /\ UNCHANGED start
    BY <1>2, FileImplements
<1>3. CASE ReadPage /\ UNCHANGED start
    BY <1>3, ReadPageImplements
<1>4. CASE PageEnds /\ UNCHANGED start
    BY <1>4, PageEndsImplements
<1>5. CASE Tokenize /\ Frame
  <2>1. Inv'
    BY NextInv DEF LexInv
  <2> QED
    BY <1>5, <2>1, TokenizeImplements
<1> QED
    BY <1>1, <1>2, <1>3, <1>4, <1>5 DEF Next, Frame

-----------------------------------------------------------------------------
\* Whatever the bytes of a page, what the tokenizer has read of a string is what
\* the notation means by the bytes since it began, an escape being told from an
\* escaped backslash by all that stand before it (pdf.go 194-260, 262-296).
THEOREM ReadsLexemes == Spec => []ReadInv
<1>1. LexInv => ReadInv
    BY DEF LexInv
<1> QED
    BY LexInit, LexNext, <1>1, PTL DEF Spec

\* The byte loops of extractTextFromContentStream implement the reading of a page
\* lexeme by lexeme, and show what the operators show (pdf.go 38-318).
THEOREM TokenizerImplementsStream == Spec => ImplementsStream
<1> QED
    BY LexInit, LexNext, StreamStarts, StreamStep, PTL
    DEF Spec, ImplementsStream, Stream!StreamSpec

-----------------------------------------------------------------------------
(* The notation is unambiguous. *)

LEMMA CommentOnce ==
    ASSUME NEW d, NEW i \in Int, NEW j \in Int, NEW k \in Int, i < j, j < k,
           CommentLine(d, i, j), CommentLine(d, i, k)
    PROVE  FALSE
<1>1. j \in i..k - 1
    OBVIOUS
<1> QED
    BY <1>1 DEF CommentLine

LEMMA WordOnce ==
    ASSUME NEW d, NEW i \in Int, NEW j \in Int, NEW k \in Int, i < j, j < k,
           Word(d, i, j), Word(d, i, k)
    PROVE  FALSE
<1>1. j \in i..k - 1
    OBVIOUS
<1> QED
    BY <1>1 DEF Word

LEMMA HexOnce ==
    ASSUME NEW d \in Seq(Byte), NEW i \in Int, NEW j \in Int, NEW k \in Int, 0 < i, i < j, j < k,
           k <= Len(d) + 1, HexString(d, i, j), HexString(d, i, k)
    PROVE  FALSE
<1>1. On(d, j) # EOF
    BY OnByte
<1>2. On(d, j - 1) = Greater
    BY <1>1 DEF HexString
<1>3. j # i + 1
  <2>1. (i + 1) - 1 = i
    OBVIOUS
  <2> QED
    BY <1>2, <2>1 DEF HexString, Less, Greater
<1>4. j - 1 \in i + 1..k - 2
    BY <1>3
<1> QED
    BY <1>2, <1>4 DEF HexString

LEMMA ClosedOnce ==
    ASSUME NEW d, NEW i \in Int, NEW j \in Int, NEW k \in Int, i < j, j < k,
           ClosedLiteral(d, i, j),
           ClosedLiteral(d, i, k) \/ OpenLiteral(d, i, k)
    PROVE  FALSE
<1>1. j \in i + 1..k - 1 /\ j \in i + 1..k
    OBVIOUS
<1>2. Depth(d, i, j) = 0
    BY DEF ClosedLiteral
<1>3. Depth(d, i, j) > 0
    BY <1>1 DEF ClosedLiteral, OpenLiteral
<1> QED
    BY <1>2, <1>3

\* All lexemes but dictionaries, by how they begin.
LexemeAt(d, i, j) ==
    \/ On(d, i) \in Skipped \cup {LBracket, RBracket} /\ j = i + 1
    \/ CommentLine(d, i, j)
    \/ ClosedLiteral(d, i, j) \/ (OpenLiteral(d, i, j) /\ On(d, j) = EOF)
    \/ HexString(d, i, j)
    \/ Word(d, i, j)

\* At a place of a page begins at most one lexeme, and it ends at one place: the
\* text a page shows is determined, up to where inline dictionaries end
\* (pdf.go 115-189).
THEOREM LexemesUnambiguous ==
    ASSUME NEW d \in Seq(Byte), NEW i \in 1..Len(d),
           NEW j \in i + 1..Len(d) + 1, NEW k \in i + 1..Len(d) + 1,
           LexemeAt(d, i, j), LexemeAt(d, i, k)
    PROVE  j = k
<1> SUFFICES ASSUME NEW m \in i + 1..Len(d) + 1, NEW n \in i + 1..Len(d) + 1,
                    LexemeAt(d, i, m), LexemeAt(d, i, n), m < n
             PROVE  FALSE
  <2>1. j < k \/ k < j \/ j = k
    OBVIOUS
  <2> QED
    BY <2>1
<1> DEFINE b == On(d, i)
<1>1. i \in Int /\ m \in Int /\ n \in Int /\ 0 < i /\ i < m /\ n <= Len(d) + 1 /\ On(d, m) # EOF
  <2>1. m \in Int /\ m \in 1..Len(d)
    OBVIOUS
  <2> QED
    BY <2>1, OnByte
<1>2. ASSUME NEW e \in {m, n}
      PROVE  /\ CommentLine(d, i, e) => b = Percent
             /\ ClosedLiteral(d, i, e) => b = LParen
             /\ OpenLiteral(d, i, e) => b = LParen
             /\ HexString(d, i, e) => b = Less
             /\ Word(d, i, e) => b \notin Delimiter
  <2>1. i \in i..e - 1
    OBVIOUS
  <2> QED
    BY <2>1 DEF CommentLine, ClosedLiteral, OpenLiteral, HexString, Word
<1>3. /\ Skipped \cup {LBracket, RBracket, Percent, LParen, Less} \subseteq Delimiter
      /\ {LBracket, RBracket, Percent, LParen, Less} \cap Skipped = {}
      /\ Percent \notin {LParen, Less, LBracket, RBracket} /\ LParen \notin {Less, LBracket, RBracket}
      /\ Less \notin {LBracket, RBracket}
    BY DEF Delimiter, Skipped, LBracket, RBracket, Percent, LParen, Less, Space, LF, CR,
           RParen, Greater
<1>4. CASE b \in Skipped \cup {LBracket, RBracket}
  <2>1. m = i + 1 /\ n = i + 1
    BY <1>2, <1>3, <1>4 DEF LexemeAt
  <2> QED
    BY <2>1
<1>5. CASE b = Percent
  <2>1. CommentLine(d, i, m) /\ CommentLine(d, i, n)
    BY <1>2, <1>3, <1>5 DEF LexemeAt
  <2> QED
    BY <1>1, <2>1, CommentOnce
<1>6. CASE b = LParen
  <2>1. ClosedLiteral(d, i, m) /\ (ClosedLiteral(d, i, n) \/ OpenLiteral(d, i, n))
    BY <1>1, <1>2, <1>3, <1>6 DEF LexemeAt
  <2> QED
    BY <1>1, <2>1, ClosedOnce
<1>7. CASE b = Less
  <2>1. HexString(d, i, m) /\ HexString(d, i, n)
    BY <1>2, <1>3, <1>7 DEF LexemeAt
  <2> QED
    BY <1>1, <2>1, HexOnce
<1>8. CASE b \notin Skipped \cup {LBracket, RBracket, Percent, LParen, Less}
  <2>1. Word(d, i, m) /\ Word(d, i, n)
    BY <1>2, <1>8 DEF LexemeAt
  <2> QED
    BY <1>1, <2>1, WordOnce
<1> QED
    BY <1>4, <1>5, <1>6, <1>7, <1>8

-----------------------------------------------------------------------------
(* What is written is read back.  A run of units is what a literal string   *)
(* was written as; the tokenizer takes it unit by unit.                     *)

LEMMA ElementOf ==
    ASSUME NEW S, NEW s \in Seq(S)
    PROVE  Len(s) \in Nat /\ \A n \in 1..Len(s) : s[n] \in S
OBVIOUS

\* A string that is not over has one more unit, and it ends inside the page.
LEMMA StringGoesOn ==
    ASSUME NEW d \in Seq(Byte), NEW i \in Nat, NEW W, StringRun(d, i, W), W[Len(W)].depth = 0,
           NEW m \in 1..Len(W), W[m].depth > 0, W[m].at > 0
    PROVE  /\ m + 1 \in 1..Len(W) /\ StringUnit(d, W[m], W[m + 1]) /\ W[m].at <= Len(d)
           /\ On(d, W[m].at) = Backslash => On(d, W[m].at + 1) # EOF
<1>1. /\ Len(W) \in Nat /\ \A n \in 1..Len(W) : W[n].at \in Nat
      /\ \A n \in 1..Len(W) - 1 :
            W[n].depth > 0 /\ W[n].at <= Len(d) /\ StringUnit(d, W[n], W[n + 1])
  <2>1. /\ Len(W) \in Nat
        /\ \A n \in 1..Len(W) : W[n] \in [at : Nat, depth : Nat, value : Seq(Byte)]
    BY ElementOf DEF StringRun
  <2> QED
    BY <2>1 DEF StringRun
<1>2. m + 1 \in 1..Len(W) /\ m \in 1..Len(W) - 1
  <2>1. m # Len(W)
    OBVIOUS
  <2> QED
    BY <1>1, <2>1
<1>3. W[m].at \in Nat /\ W[m].at <= Len(d) /\ StringUnit(d, W[m], W[m + 1])
    BY <1>1, <1>2
<1>4. ASSUME On(d, W[m].at) = Backslash
      PROVE  On(d, W[m].at + 1) # EOF
  <2> DEFINE p == W[m].at
  <2>1. p \in Int /\ p > 0 /\ Len(d) \in Nat
    BY <1>3
  <2>2. W[m + 1].at = p + Width(d, p) /\ W[m + 1].depth > 0
    BY <1>3, <1>4 DEF StringUnit
  <2>3. m + 1 \in 1..Len(W) - 1
  <3>1. m + 1 # Len(W)
    BY <2>2
  <3> QED
    BY <1>1, <1>2, <3>1
  <2>4. W[m + 1].at <= Len(d)
    BY <1>1, <2>3
  <2>5. Width(d, p) \in 2..4
    BY <2>1, WidthCases
  <2> HIDE DEF p
  <2>6. p + 1 \in 1..Len(d)
    BY <2>1, <2>2, <2>4, <2>5
  <2> QED
    BY <2>6, OnByte DEF p
<1> QED
    BY <1>2, <1>3, <1>4

\* Where the tokenizer is in a literal string that was written to its end.
AtUnit(W, m) == m \in 1..Len(W) /\ pos = W[m].at /\ depth = W[m].depth /\ buf = W[m].value

StringFollows ==
    mode = "literal" =>
        \A W : StringRun(Data, start, W) /\ W[Len(W)].depth = 0 => \E m \in 1..Len(W) : AtUnit(W, m)

\* An escape collects what it adds.
LEMMA EscapeAdds ==
    ASSUME LexInv, Escape \/ LineContinuation \/ OctalEscape
    PROVE  Escaped /\ Collect(Adds(Data, pos), pos + Width(Data, pos))
<1> DEFINE b == On(Data, pos + 1)
<1>1. Escaped
    BY DEF Escape, LineContinuation, OctalEscape
<1>2. /\ pos \in Nat /\ At(pos + 1) = b /\ At(pos + 2) = On(Data, pos + 2)
      /\ \A k \in 1..3 : /\ At(pos + k) = On(Data, pos + k)
                         /\ Octal(pos + k) <=> On(Data, pos + k) \in OctalDigit
    BY <1>1, EscapeBytes
<1>3. CASE Escape
  <2>1. b \notin {CR, LF} /\ OctalDigits(Data, pos) = 0
    BY <1>2, <1>3 DEF Escape, OctalDigits
  <2>2. Width(Data, pos) = 2 /\ Adds(Data, pos) = <<Unescaped(b)>>
    BY <2>1 DEF Width, Adds
  <2> QED
    BY <1>1, <1>2, <1>3, <2>2 DEF Escape
<1>4. CASE LineContinuation
  <2>1. b \in {CR, LF} /\ OctalDigits(Data, pos) = 0
    BY <1>2, <1>4 DEF LineContinuation, OctalDigits, OctalDigit, CR, LF
  <2>2. /\ Width(Data, pos) = IF b = CR /\ On(Data, pos + 2) = LF THEN 3 ELSE 2
        /\ Adds(Data, pos) = <<>>
    BY <2>1 DEF Width, Adds
  <2> QED
    BY <1>1, <1>2, <1>4, <2>2 DEF LineContinuation
<1>5. CASE OctalEscape
  <2> DEFINE e(k) == At(pos + k) - 48
             n == IF ~Octal(pos + 2) THEN 1 ELSE IF ~Octal(pos + 3) THEN 2 ELSE 3
             val == CASE n = 1 -> e(1)
                      [] n = 2 -> 8 * e(1) + e(2)
                      [] n = 3 -> 64 * e(1) + 8 * e(2) + e(3)
  <2>1. Octal(pos + 1) /\ Collect(<<val % 256>>, pos + 1 + n)
    BY <1>5 DEF OctalEscape
  <2>2. n = OctalDigits(Data, pos) /\ n \in 1..3
    BY <1>2, <2>1 DEF OctalDigits
  <2>3. val = OctalNumber(Data, pos)
    <3>1. \A k \in 1..3 : e(k) = On(Data, pos + k) - 48
        BY <1>2
    <3> HIDE DEF n, e
    <3> QED
        BY <2>2, <3>1 DEF OctalNumber
  <2> HIDE DEF n, val
  <2>4. b \notin {CR, LF}
    BY <1>2, <2>1 DEF OctalDigit, CR, LF
  <2>5. Width(Data, pos) = 1 + n /\ Adds(Data, pos) = <<val % 256>>
    BY <2>2, <2>3, <2>4 DEF Width, Adds
  <2>6. pos + Width(Data, pos) = pos + 1 + n
    BY <1>2, <2>2, <2>5
  <2> QED
    BY <1>1, <2>1, <2>5, <2>6
<1> QED
    BY <1>3, <1>4, <1>5

\* One step of the tokenizer is one unit.
LEMMA UnitTaken ==
    ASSUME LexInv, LiteralByte \/ Escape \/ LineContinuation \/ OctalEscape, Frame,
           NEW W, StringRun(Data, start, W), W[Len(W)].depth = 0, NEW m, AtUnit(W, m)
    PROVE  AtUnit(W, m + 1)'
<1>1. InLiteral /\ mode \in Modes /\ depth > 0 /\ pos <= Len(Data)
  <2>1. InLiteral
    BY DEF LiteralByte, Escape, LineContinuation, OctalEscape, Escaped
  <2> QED
    BY <2>1, EscapedEscapes
<1>2. /\ Data \in Seq(Byte) /\ pos \in Nat /\ pos > 0 /\ start \in Nat
      /\ At(pos) = On(Data, pos) /\ At(pos + 1) = On(Data, pos + 1)
    BY <1>1, PageTypes DEF LexInv
<1>3. /\ m \in 1..Len(W) /\ m + 1 \in 1..Len(W) /\ StringUnit(Data, W[m], W[m + 1])
      /\ On(Data, pos) = Backslash => On(Data, pos + 1) # EOF
    BY <1>1, <1>2, StringGoesOn DEF AtUnit
<1>4. pos = W[m].at /\ depth = W[m].depth /\ buf = W[m].value
    BY DEF AtUnit
<1>5. CASE LiteralByte
  <2>1. On(Data, pos) # Backslash
    BY <1>1, <1>2, <1>3, <1>5 DEF LiteralByte, Escaped
  <2>2. depth' = W[m + 1].depth
    <3>1. W[m + 1].depth = depth + (IF On(Data, pos) = LParen THEN 1
                                    ELSE IF On(Data, pos) = RParen THEN -1 ELSE 0)
        BY <1>3, <1>4, <2>1 DEF StringUnit
    <3>2. depth' = CASE On(Data, pos) = LParen -> depth + 1
                     [] On(Data, pos) = RParen -> depth - 1
                     [] OTHER -> depth
        BY <1>2, <1>5 DEF LiteralByte
    <3>3. depth \in Nat
        BY <1>1, PageTypes DEF LexInv
    <3> QED
        BY <3>1, <3>2, <3>3 DEF LParen, RParen
  <2>3. pos' = W[m + 1].at /\ buf' = W[m + 1].value
    BY <1>2, <1>3, <1>4, <1>5, <2>1, <2>2 DEF LiteralByte, StringUnit
  <2> QED
    BY <1>3, <2>2, <2>3 DEF AtUnit
<1>6. CASE Escape \/ LineContinuation \/ OctalEscape
  <2>1. Escaped /\ Collect(Adds(Data, pos), pos + Width(Data, pos))
    BY <1>6, EscapeAdds
  <2>2. On(Data, pos) = Backslash
    BY <1>2, <2>1 DEF Escaped
  <2>3. depth' = W[m + 1].depth /\ pos' = W[m + 1].at /\ buf' = W[m + 1].value
    BY <1>3, <1>4, <2>1, <2>2 DEF Collect, StringUnit
  <2> QED
    BY <1>3, <2>3 DEF AtUnit
<1> QED
    BY <1>5, <1>6

LEMMA StringEntered ==
    ASSUME LexInv, Scan, Frame, mode' = "literal",
           NEW W, StringRun(Data', start', W)
    PROVE  AtUnit(W, 1)'
<1>1. mode = "scan" /\ start' = pos
    BY DEF Scan, Frame
<1>2. pos' = pos + 1 /\ depth' = 1 /\ buf' = <<>>
    BY DEF Scan, Enter
<1>3. 1 \in 1..Len(W) /\ W[1] = [at |-> start' + 1, depth |-> 1, value |-> <<>>]
  <2>1. Len(W) \in Nat
    BY ElementOf DEF StringRun
  <2> QED
    BY <2>1 DEF StringRun
<1> QED
    BY <1>1, <1>2, <1>3 DEF AtUnit

LEMMA StringFollowsNext == LexInv /\ StringFollows /\ [Next]_vars => StringFollows'
<1> SUFFICES ASSUME LexInv, StringFollows, [Next]_vars, mode' = "literal",
                    NEW W, StringRun(Data', start', W), W[Len(W)].depth = 0
             PROVE  \E m \in 1..Len(W) : AtUnit(W, m)'
    BY DEF StringFollows
<1>1. CASE UNCHANGED vars
  <2>1. Data' = Data /\ start' = start /\ mode = "literal" /\ UNCHANGED <<pos, depth, buf>>
    BY <1>1 DEF vars, stream, Data
  <2>2. PICK m \in 1..Len(W) : AtUnit(W, m)
    BY <2>1 DEF StringFollows
  <2>3. AtUnit(W, m)'
    BY <2>1, <2>2 DEF AtUnit
  <2> QED
    BY <2>3
<1>2. CASE (Extract \/ ReadPage \/ PageEnds \/ Finish) /\ UNCHANGED start
  <2>1. mode' # "literal"
    BY <1>2 DEF Extract, ReadPage, PageEnds, Finish
  <2> QED
    BY <2>1
<1>3. CASE Tokenize /\ Frame
  <2>1. CASE Scan
    <3>1. AtUnit(W, 1)'
        BY <1>3, <2>1, StringEntered
    <3> QED
        BY <3>1 DEF AtUnit
  <2>2. CASE LiteralByte \/ Escape \/ LineContinuation \/ OctalEscape
    <3>1. mode = "literal" /\ Data' = Data /\ start' = start
        BY <1>3, <2>2 DEF LiteralByte, Escape, LineContinuation, OctalEscape, Escaped, InLiteral,
                          Frame, Data
    <3>2. PICK m \in 1..Len(W) : AtUnit(W, m)
        BY <3>1 DEF StringFollows
    <3>3. AtUnit(W, m + 1)'
        BY <1>3, <2>2, <3>1, <3>2, UnitTaken
    <3> QED
        BY <3>3 DEF AtUnit
  <2>3. CASE Comment \/ TokenByte \/ TokenEnds \/ skipDict \/ LiteralEnds \/ HexByte \/ HexEnds
    <3>1. mode' # "literal"
        BY <2>3 DEF Comment, TokenByte, TokenEnds, skipDict, LiteralEnds, HexByte, HexEnds,
                    Operand, Enter, Collect
    <3> QED
        BY <3>1
  <2> QED
    BY <1>3, <2>1, <2>2, <2>3 DEF Tokenize
<1> QED
    BY <1>1, <1>2, <1>3 DEF Next, Frame

\* The string ends where it was written to end, and is what was written.
LEMMA StringEnds ==
    ASSUME LexInv, StringFollows, LiteralEnds, NEW j, NEW s, WrittenString(Data, start, j, s)
    PROVE  pos = j /\ buf = s
<1>1. mode = "literal" /\ mode \in Modes
    BY DEF LiteralEnds, Modes
<1>2. /\ Data \in Seq(Byte) /\ pos \in Nat /\ pos > 0 /\ start \in Nat /\ depth \in Nat
      /\ At(pos) = On(Data, pos) /\ Len(Data) \in Nat
    BY <1>1, PageTypes DEF LexInv
<1>3. PICK W : StringRun(Data, start, W) /\ W[Len(W)] = [at |-> j, depth |-> 0, value |-> s]
    BY DEF WrittenString
<1>4. W[Len(W)].depth = 0 /\ W[Len(W)].at = j /\ W[Len(W)].value = s /\ Len(W) \in Nat
    BY <1>3, ElementOf DEF StringRun
<1>5. PICK m \in 1..Len(W) : AtUnit(W, m)
    BY <1>1, <1>3, <1>4 DEF StringFollows
<1>6. depth = 0
  <2> SUFFICES ASSUME depth > 0
               PROVE  FALSE
    BY <1>2
  <2>1. pos <= Len(Data)
    BY <1>2, <1>3, <1>4, <1>5, StringGoesOn DEF AtUnit
  <2>2. At(pos) # EOF
    BY <1>2, <2>1, OnByte
  <2> QED
    BY <2>2 DEF LiteralEnds
<1>7. m = Len(W)
  <2>1. m \in 1..Len(W) - 1 => W[m].depth > 0
    BY <1>3 DEF StringRun
  <2> QED
    BY <1>4, <1>5, <1>6, <2>1 DEF AtUnit
<1> QED
    BY <1>4, <1>5, <1>7 DEF AtUnit

\* So for inline dictionaries, where pairs of angle brackets count.
AtLevel(W, m) == m \in 1..Len(W) /\ pos = W[m].at /\ depth = W[m].depth

DictFollows ==
    mode = "dict" =>
        \A W : DictRun(Data, start, W) /\ W[Len(W)].depth = 0 => \E m \in 1..Len(W) : AtLevel(W, m)

LEMMA DictGoesOn ==
    ASSUME NEW d, NEW i, NEW W, DictRun(d, i, W), W[Len(W)].depth = 0,
           NEW m \in 1..Len(W), W[m].depth > 0
    PROVE  m + 1 \in 1..Len(W) /\ DictUnit(d, W[m], W[m + 1]) /\ W[m].at <= Len(d)
<1>1. Len(W) \in Nat
    BY ElementOf DEF DictRun
<1>2. m # Len(W)
    OBVIOUS
<1>3. m \in 1..Len(W) - 1 /\ m + 1 \in 1..Len(W)
    BY <1>1, <1>2
<1> QED
    BY <1>3 DEF DictRun

LEMMA LevelTaken ==
    ASSUME LexInv, skipDict, Frame, mode' = "dict",
           NEW W, DictRun(Data, start, W), W[Len(W)].depth = 0, NEW m, AtLevel(W, m)
    PROVE  AtLevel(W, m + 1)'
<1>1. mode = "dict" /\ mode \in Modes /\ depth # 0 /\ At(pos) # EOF
    BY DEF skipDict, Enter, Modes
<1>2. /\ pos \in Nat /\ depth \in Nat /\ depth > 0
      /\ At(pos) = On(Data, pos) /\ At(pos + 1) = On(Data, pos + 1)
    BY <1>1, PageTypes DEF LexInv
<1>3. pos = W[m].at /\ depth = W[m].depth /\ m \in 1..Len(W)
    BY DEF AtLevel
<1>4. m + 1 \in 1..Len(W) /\ DictUnit(Data, W[m], W[m + 1])
    BY <1>2, <1>3, DictGoesOn
<1>5. \A b : Pair(b) <=> Doubled(Data, pos, b)
    BY <1>2 DEF Pair, Doubled
<1>6. pos' = W[m + 1].at /\ depth' = W[m + 1].depth
  <2>1. CASE Pair(Less)
    <3>1. W[m + 1] = [at |-> pos + 2, depth |-> depth + 1]
        BY <1>3, <1>4, <1>5, <2>1 DEF DictUnit
    <3> QED
        BY <1>1, <2>1, <3>1 DEF skipDict, Enter
  <2>2. CASE ~Pair(Less) /\ Pair(Greater)
    <3>1. W[m + 1] = [at |-> pos + 2, depth |-> depth - 1]
        BY <1>3, <1>4, <1>5, <2>2 DEF DictUnit
    <3> QED
        BY <1>1, <2>2, <3>1 DEF skipDict, Enter
  <2>3. CASE ~Pair(Less) /\ ~Pair(Greater)
    <3>1. W[m + 1] = [at |-> pos + 1, depth |-> depth]
        BY <1>3, <1>4, <1>5, <2>3 DEF DictUnit
    <3> QED
        BY <1>1, <2>3, <3>1 DEF skipDict, Enter
  <2> QED
    BY <2>1, <2>2, <2>3
<1> QED
    BY <1>4, <1>6 DEF AtLevel

LEMMA DictFollowsNext == LexInv /\ DictFollows /\ [Next]_vars => DictFollows'
<1> SUFFICES ASSUME LexInv, DictFollows, [Next]_vars, mode' = "dict",
                    NEW W, DictRun(Data', start', W), W[Len(W)].depth = 0
             PROVE  \E m \in 1..Len(W) : AtLevel(W, m)'
    BY DEF DictFollows
<1>1. CASE UNCHANGED vars
  <2>1. Data' = Data /\ start' = start /\ mode = "dict" /\ UNCHANGED <<pos, depth>>
    BY <1>1 DEF vars, stream, Data
  <2>2. PICK m \in 1..Len(W) : AtLevel(W, m)
    BY <2>1 DEF DictFollows
  <2>3. AtLevel(W, m)'
    BY <2>1, <2>2 DEF AtLevel
  <2> QED
    BY <2>3
<1>2. CASE (Extract \/ ReadPage \/ PageEnds \/ Finish) /\ UNCHANGED start
  <2>1. mode' # "dict"
    BY <1>2 DEF Extract, ReadPage, PageEnds, Finish
  <2> QED
    BY <2>1
<1>3. CASE Tokenize /\ Frame
  <2>1. CASE Scan
    <3>1. start' = pos /\ pos' = pos + 2 /\ depth' = 1
        BY <1>3, <2>1 DEF Scan, Enter, Frame
    <3>2. 1 \in 1..Len(W) /\ W[1] = [at |-> start' + 2, depth |-> 1]
        <4>1. Len(W) \in Nat
            BY ElementOf DEF DictRun
        <4> QED
            BY <4>1 DEF DictRun
    <3>3. AtLevel(W, 1)'
        BY <3>1, <3>2 DEF AtLevel
    <3> QED
        BY <3>2, <3>3
  <2>2. CASE skipDict
    <3>1. mode = "dict" /\ Data' = Data /\ start' = start
        BY <1>3, <2>2 DEF skipDict, Frame, Data
    <3>2. PICK m \in 1..Len(W) : AtLevel(W, m)
        BY <3>1 DEF DictFollows
    <3>3. AtLevel(W, m + 1)'
        BY <1>3, <2>2, <3>1, <3>2, LevelTaken
    <3> QED
        BY <3>3 DEF AtLevel
  <2>3. CASE ~(Scan \/ skipDict)
    <3>1. mode' # "dict"
        BY <1>3, <2>3 DEF Tokenize, Comment, TokenByte, TokenEnds, LiteralByte, Escape,
                          LineContinuation, OctalEscape, LiteralEnds, HexByte, HexEnds,
                          Escaped, InLiteral, Operand, Enter, Collect
    <3> QED
        BY <3>1
  <2> QED
    BY <2>1, <2>2, <2>3
<1> QED
    BY <1>1, <1>2, <1>3 DEF Next, Frame

LEMMA DictEnds ==
    ASSUME LexInv, DictFollows, skipDict, mode' = "scan", NEW j, WrittenDict(Data, start, j)
    PROVE  pos' = j /\ pos' = pos
<1>1. mode = "dict" /\ mode \in Modes /\ pos' = pos /\ (depth = 0 \/ At(pos) = EOF)
    BY DEF skipDict, Enter, Modes
<1>2. /\ Data \in Seq(Byte) /\ pos \in Nat /\ pos > 0 /\ depth \in Nat
      /\ At(pos) = On(Data, pos) /\ Len(Data) \in Nat
    BY <1>1, PageTypes DEF LexInv
<1>3. PICK W : DictRun(Data, start, W) /\ W[Len(W)] = [at |-> j, depth |-> 0]
    BY DEF WrittenDict
<1>4. W[Len(W)].depth = 0 /\ W[Len(W)].at = j /\ Len(W) \in Nat
    BY <1>3, ElementOf DEF DictRun
<1>5. PICK m \in 1..Len(W) : AtLevel(W, m)
    BY <1>1, <1>3, <1>4 DEF DictFollows
<1>6. depth = 0
  <2> SUFFICES ASSUME depth > 0
               PROVE  FALSE
    BY <1>2
  <2>1. pos <= Len(Data)
    BY <1>3, <1>4, <1>5, DictGoesOn DEF AtLevel
  <2>2. At(pos) # EOF
    BY <1>2, <2>1, OnByte
  <2> QED
    BY <1>1, <2>2
<1>7. m = Len(W)
  <2>1. m \in 1..Len(W) - 1 => W[m].depth > 0
    BY <1>3 DEF DictRun
  <2> QED
    BY <1>4, <1>5, <1>6, <2>1 DEF AtLevel
<1> QED
    BY <1>1, <1>4, <1>5, <1>7 DEF AtLevel

-----------------------------------------------------------------------------
(* A page is read back piece by piece. *)

\* How a piece begins says what it is.
LEMMA PieceByFirst ==
    ASSUME NEW d, NEW o, NEW x, Piece(d, o, x), o.at \in Int, x.at \in Int, o.at < x.at
    PROVE  LET b == On(d, o.at) IN
           /\ b \in Skipped => x = Moved(o, o.at + 1)
           /\ b = LBracket => x = Moved(Opened(o), o.at + 1)
           /\ b = RBracket => x = Moved(Closed(o), o.at + 1)
           /\ b = Percent => CommentLine(d, o.at, x.at) /\ x = Moved(o, x.at)
           /\ b = LParen => \E s : /\ WrittenString(d, o.at, x.at, s)
                                   /\ x = Moved(Holding(o, s), x.at)
           /\ b = Less /\ On(d, o.at + 1) # Less
                => /\ HexString(d, o.at, x.at)
                   /\ x = Moved(Holding(o, HexBytes(d, o.at, x.at)), x.at)
           /\ b = Less /\ On(d, o.at + 1) = Less
                => WrittenDict(d, o.at, x.at) /\ x = Moved(o, x.at)
           /\ b \notin Delimiter
                => /\ Word(d, o.at, x.at)
                   /\ x = Moved(Executed(o, SubSeq(d, o.at, x.at - 1)), x.at)
<1> DEFINE b == On(d, o.at)
<1>1. /\ CommentLine(d, o.at, x.at) => b = Percent
      /\ WrittenDict(d, o.at, x.at) => b = Less /\ On(d, o.at + 1) = Less
      /\ \A s : WrittenString(d, o.at, x.at, s) => b = LParen
      /\ HexString(d, o.at, x.at) => b = Less /\ On(d, o.at + 1) # Less
      /\ Word(d, o.at, x.at) => b \notin Delimiter
  <2>1. o.at \in o.at..x.at - 1
    OBVIOUS
  <2> QED
    BY <2>1 DEF CommentLine, WrittenDict, DictRun, Doubled, WrittenString, StringRun, HexString, Word
<1>2. /\ Skipped \cup {LBracket, RBracket, Percent, LParen, Less} \subseteq Delimiter
      /\ {LBracket, RBracket, Percent, LParen, Less} \cap Skipped = {}
      /\ Percent \notin {LParen, Less, LBracket, RBracket} /\ LParen \notin {Less, LBracket, RBracket}
      /\ Less \notin {LBracket, RBracket} /\ LBracket # RBracket
    BY DEF Delimiter, Skipped, LBracket, RBracket, Percent, LParen, Less, Space, LF, CR,
           RParen, Greater
<1>3. \/ b \in Skipped /\ x = Moved(o, o.at + 1)
      \/ CommentLine(d, o.at, x.at) /\ x = Moved(o, x.at)
      \/ WrittenDict(d, o.at, x.at) /\ x = Moved(o, x.at)
      \/ b = LBracket /\ x = Moved(Opened(o), o.at + 1)
      \/ b = RBracket /\ x = Moved(Closed(o), o.at + 1)
      \/ \E s : WrittenString(d, o.at, x.at, s) /\ x = Moved(Holding(o, s), x.at)
      \/ /\ HexString(d, o.at, x.at)
         /\ x = Moved(Holding(o, HexBytes(d, o.at, x.at)), x.at)
      \/ /\ Word(d, o.at, x.at)
         /\ x = Moved(Executed(o, SubSeq(d, o.at, x.at - 1)), x.at)
    BY DEF Piece, Between
<1> HIDE DEF b
<1> QED
    BY <1>1, <1>2, <1>3, Zenon DEF b

\* Where the tokenizer is in a page that was written, and what it holds there.
AtPiece(P, k) ==
    /\ k \in 1..Len(P)
    /\ P[k].at = StreamAt /\ P[k].held = Held /\ P[k].array = arr /\ P[k].open = inArray
    /\ P[k].shown = out

PageFollows ==
    mode \in Modes => \A P : WrittenPage(Data, P) => \E k \in 1..Len(P) : AtPiece(P, k)

\* A page that is not over has one more piece.
LEMMA PageGoesOn ==
    ASSUME NEW d, NEW P, WrittenPage(d, P), NEW k \in 1..Len(P), P[k].at <= Len(d), Len(d) \in Nat
    PROVE  /\ k + 1 \in 1..Len(P) /\ Piece(d, P[k], P[k + 1])
           /\ P[k] \in Entries /\ P[k + 1] \in Entries
           /\ P[k].at \in Nat /\ P[k + 1].at \in Nat
           /\ P[k].at < P[k + 1].at /\ P[k + 1].at <= Len(d) + 1
<1>1. Len(P) \in Nat /\ \A n \in 1..Len(P) : P[n] \in Entries
    BY ElementOf DEF WrittenPage
<1>2. k # Len(P)
  <2>1. P[Len(P)].at = Len(d) + 1
    BY DEF WrittenPage
  <2> QED
    BY <2>1
<1>3. k \in 1..Len(P) - 1 /\ k + 1 \in 1..Len(P)
    BY <1>1, <1>2
<1>4. \A e \in Entries : e.at \in Nat
    BY DEF Entries
<1> QED
    BY <1>1, <1>3, <1>4 DEF WrittenPage

\* Inside a lexeme the page has not moved on.
LEMMA PieceKept ==
    ASSUME NEW P, NEW k, AtPiece(P, k), UNCHANGED <<StreamAt, Held, arr, inArray, out>>
    PROVE  AtPiece(P, k)'
BY DEF AtPiece

\* What a step that ends a lexeme starts from.
LEMMA PieceGoesOn ==
    ASSUME LexInv, Tokenize, NEW P, WrittenPage(Data, P), NEW k, AtPiece(P, k)
    PROVE  /\ k + 1 \in 1..Len(P) /\ Piece(Data, P[k], P[k + 1])
           /\ P[k] \in Entries /\ P[k + 1] \in Entries
           /\ P[k].at = StreamAt /\ P[k].at \in Nat /\ P[k + 1].at \in Nat
           /\ P[k].at < P[k + 1].at /\ P[k + 1].at <= Len(Data) + 1
           /\ Data \in Seq(Byte) /\ P[k].at > 0
<1>1. mode \in Modes
    BY DEF Tokenize, Scan, Comment, TokenByte, TokenEnds, skipDict, LiteralByte,
           Escape, LineContinuation, OctalEscape, LiteralEnds, HexByte, HexEnds,
           Escaped, InLiteral, Modes
<1>2. /\ Data \in Seq(Byte) /\ Len(Data) \in Nat /\ pos \in Nat /\ pos > 0
      /\ pos <= Len(Data) + 1 /\ start \in Nat /\ start > 0 /\ At(pos) = On(Data, pos)
    BY <1>1, PageTypes DEF LexInv
<1>3. StreamAt <= Len(Data) /\ StreamAt > 0
  <2>1. CASE mode = "scan"
    <3>1. At(pos) # EOF
        BY <2>1 DEF Tokenize, Scan, Comment, TokenByte, TokenEnds, skipDict, LiteralByte,
                    Escape, LineContinuation, OctalEscape, LiteralEnds, HexByte, HexEnds,
                    Escaped, InLiteral, Skipped, LBracket, RBracket, EOF, Percent, LParen, Less,
                    Space, LF, CR, RParen, Greater
    <3>2. pos <= Len(Data)
        BY <1>2, <3>1, OnByte
    <3> QED
        BY <1>1, <1>2, <2>1, <3>2 DEF StreamAt
  <2>2. CASE mode # "scan"
    <3>1. start < pos
        BY <1>1, <2>2 DEF LexInv, ReadInv
    <3> QED
        BY <1>1, <1>2, <2>2, <3>1 DEF StreamAt
  <2> QED
    BY <2>1, <2>2
<1>4. k \in 1..Len(P) /\ P[k].at = StreamAt
    BY DEF AtPiece
<1> QED
    BY <1>2, <1>3, <1>4, PageGoesOn

LEMMA HoldingFields ==
    ASSUME NEW o \in Entries, NEW s, NEW j, NEW x, x = Moved(Holding(o, s), j)
    PROVE  /\ x.at = j /\ x.open = o.open /\ x.shown = o.shown
           /\ o.open => x.array = o.array \o s /\ x.held = o.held
           /\ ~o.open => x.array = o.array /\ x.held = <<s>>
<1>1. CASE o.open
  <2>1. Holding(o, s) = [o EXCEPT !.array = o.array \o s]
    BY <1>1 DEF Holding
  <2> QED
    BY <1>1, <2>1 DEF Moved, Entries
<1>2. CASE ~o.open
  <2>1. Holding(o, s) = [o EXCEPT !.held = <<s>>]
    BY <1>2 DEF Holding
  <2> QED
    BY <1>2, <2>1 DEF Moved, Entries
<1> QED
    BY <1>1, <1>2

\* An operator, or a number in an array, changes just what it is for.
Changed(o, w, x) ==
    /\ x.open = o.open
    /\ \/ /\ o.open /\ w \in DOMAIN Kerning
          /\ x.array = IF Kerning[w] <= wordBreakKerningThreshold
                       THEN Append(o.array, Space) ELSE o.array
          /\ x.held = o.held /\ x.shown = o.shown
       \/ /\ ~(o.open /\ w \in DOMAIN Kerning) /\ w \in ShowString
          /\ x.shown = IF o.held = <<>> THEN o.shown ELSE o.shown \o Append(o.held[1], LF)
          /\ x.held = <<>> /\ x.array = o.array
       \/ /\ ~(o.open /\ w \in DOMAIN Kerning) /\ w = ShowArray
          /\ x.shown = o.shown \o Append(o.array, LF) /\ x.array = <<>> /\ x.held = o.held
       \/ /\ ~(o.open /\ w \in DOMAIN Kerning) /\ w \notin ShowString \cup {ShowArray}
          /\ x.shown = o.shown /\ x.array = o.array /\ x.held = o.held

LEMMA NotBoth == ShowArray \notin ShowString
<1>1. ShowArray[1] = 84 /\ ShowArray[2] = 74 /\ Len(ShowArray) = 2
    BY DEF ShowArray
<1>2. ShowString = {<<84, 106>>, <<39>>, <<34>>}
    BY DEF ShowString
<1> QED
    BY <1>1, <1>2

LEMMA ExecutedFields ==
    ASSUME NEW o \in Entries, NEW w, NEW j, NEW x, x = Moved(Executed(o, w), j)
    PROVE  x.at = j /\ Changed(o, w, x)
<1>1. CASE o.open /\ w \in DOMAIN Kerning
  <2>1. CASE Kerning[w] <= wordBreakKerningThreshold
    <3>1. Executed(o, w) = [o EXCEPT !.array = Append(o.array, Space)]
        BY <1>1, <2>1 DEF Executed
    <3> QED
        BY <1>1, <2>1, <3>1 DEF Moved, Entries, Changed
  <2>2. CASE ~(Kerning[w] <= wordBreakKerningThreshold)
    <3>1. Executed(o, w) = o
        BY <1>1, <2>2 DEF Executed
    <3> QED
        BY <1>1, <2>2, <3>1 DEF Moved, Entries, Changed
  <2> QED
    BY <2>1, <2>2
<1>2. CASE ~(o.open /\ w \in DOMAIN Kerning) /\ w \in ShowString
  <2> DEFINE t == IF o.held = <<>> THEN o.shown ELSE o.shown \o Append(o.held[1], LF)
  <2>1. Executed(o, w) = [o EXCEPT !.held = <<>>, !.shown = t]
    BY <1>2 DEF Executed
  <2> HIDE DEF t
  <2>2. x.at = j /\ x.open = o.open /\ x.shown = t /\ x.held = <<>> /\ x.array = o.array
    BY <2>1 DEF Moved, Entries
  <2> QED
    BY <1>2, <2>2 DEF t, Changed
<1>3. CASE ~(o.open /\ w \in DOMAIN Kerning) /\ w \notin ShowString /\ w = ShowArray
  <2> DEFINE t == o.shown \o Append(o.array, LF)
  <2>1. Executed(o, w) = [o EXCEPT !.array = <<>>, !.shown = t]
    BY <1>3 DEF Executed
  <2> HIDE DEF t
  <2>2. x.at = j /\ x.open = o.open /\ x.shown = t /\ x.held = o.held /\ x.array = <<>>
    BY <2>1 DEF Moved, Entries
  <2> QED
    BY <1>3, <2>2 DEF t, Changed
<1>4. CASE ~(o.open /\ w \in DOMAIN Kerning) /\ w \notin ShowString /\ w # ShowArray
  <2>1. Executed(o, w) = o
    BY <1>4 DEF Executed
  <2> QED
    BY <1>4, <2>1 DEF Moved, Entries, Changed
<1> QED
    BY <1>1, <1>2, <1>3, <1>4

\* What scan reads in one step is one piece; all else begins there.
LEMMA ScanFollows ==
    ASSUME LexInv, Scan, Frame, NEW P, WrittenPage(Data, P), NEW k, AtPiece(P, k)
    PROVE  AtPiece(P, k)' \/ AtPiece(P, k + 1)'
<1> DEFINE b == On(Data, pos)
           o == P[k]
           x == P[k + 1]
<1>1. /\ mode = "scan" /\ mode \in Modes /\ pos \in Nat /\ At(pos) = b /\ StreamAt = pos
      /\ inArray \in BOOLEAN
  <2>1. mode = "scan" /\ mode \in Modes
    BY DEF Scan, Modes
  <2> QED
    BY <2>1, PageTypes DEF LexInv, StreamAt, Inv, TypeOK
<1>2. UNCHANGED <<Held, out>>
    BY DEF Scan, Held
<1>3. /\ k + 1 \in 1..Len(P) /\ Piece(Data, o, x) /\ o \in Entries /\ x \in Entries
      /\ o.at = pos /\ o.at \in Nat /\ x.at \in Nat /\ o.at < x.at
  <2>1. Tokenize
    BY DEF Tokenize
  <2> QED
    BY <1>1, <2>1, PieceGoesOn
<1>4. o.held = Held /\ o.array = arr /\ o.open = inArray /\ o.shown = out
    BY DEF AtPiece
<1> HIDE DEF o, x
<1>10. /\ b \in Skipped => x = Moved(o, pos + 1)
       /\ b = LBracket => x = Moved(Opened(o), pos + 1)
       /\ b = RBracket => x = Moved(Closed(o), pos + 1)
  <2>1. Piece(Data, o, x) /\ o.at \in Int /\ x.at \in Int /\ o.at < x.at
    BY <1>3
  <2>2. /\ On(Data, o.at) \in Skipped => x = Moved(o, o.at + 1)
        /\ On(Data, o.at) = LBracket => x = Moved(Opened(o), o.at + 1)
        /\ On(Data, o.at) = RBracket => x = Moved(Closed(o), o.at + 1)
    BY <2>1, PieceByFirst
  <2> QED
    BY <1>3, <2>2
<1>11. o \in Entries
    BY <1>3
<1>5. CASE b \in Skipped /\ Enter("scan", pos + 1, 0)
  <2>1. b # LBracket /\ b # RBracket
    BY <1>5 DEF Skipped, LBracket, RBracket, Space, LF, CR, RParen, Greater
  <2>2. arr' = arr /\ inArray' = inArray
    BY <1>1, <2>1 DEF Scan
  <2>3. StreamAt' = pos + 1
    BY <1>5 DEF Enter, StreamAt, Modes
  <2>4. x = Moved(o, pos + 1)
    BY <1>5, <1>10
  <2>5. x.at = pos + 1 /\ x.held = o.held /\ x.array = o.array /\ x.open = o.open /\ x.shown = o.shown
    BY <1>11, <2>4 DEF Moved, Entries
  <2> QED
    BY <1>2, <1>3, <1>4, <2>2, <2>3, <2>5 DEF AtPiece, x
<1>6. CASE b = LBracket /\ Enter("scan", pos + 1, 0)
  <2>1. arr' = <<>> /\ inArray' = TRUE
    BY <1>1, <1>6 DEF Scan
  <2>2. StreamAt' = pos + 1
    BY <1>6 DEF Enter, StreamAt, Modes
  <2>3. x = Moved(Opened(o), pos + 1)
    BY <1>6, <1>10
  <2>4. x.at = pos + 1 /\ x.held = o.held /\ x.array = <<>> /\ x.open = TRUE /\ x.shown = o.shown
    BY <1>11, <2>3 DEF Moved, Opened, Entries
  <2> QED
    BY <1>2, <1>3, <1>4, <2>1, <2>2, <2>4 DEF AtPiece, x
<1>7. CASE b = RBracket /\ Enter("scan", pos + 1, 0)
  <2>1. arr' = arr /\ inArray' = FALSE
    <3>1. At(pos) # LBracket /\ At(pos) = RBracket
        BY <1>1, <1>7 DEF LBracket, RBracket
    <3>2. inArray' = (At(pos) = LBracket \/ (inArray /\ At(pos) # RBracket))
        BY DEF Scan
    <3>3. inArray' = FALSE
        BY <3>1, <3>2, Zenon
    <3> QED
        BY <3>1, <3>3 DEF Scan
  <2>2. StreamAt' = pos + 1
    BY <1>7 DEF Enter, StreamAt, Modes
  <2>3. x = Moved(Closed(o), pos + 1)
    BY <1>7, <1>10
  <2>4. x.at = pos + 1 /\ x.held = o.held /\ x.array = o.array /\ x.open = FALSE /\ x.shown = o.shown
    BY <1>11, <2>3 DEF Moved, Closed, Entries
  <2> QED
    BY <1>2, <1>3, <1>4, <2>1, <2>2, <2>4 DEF AtPiece, x
<1>8. CASE b \notin {LBracket, RBracket} /\ mode' \in {"token", "comment", "literal", "dict", "hex"}
  <2>1. arr' = arr /\ inArray' = inArray
    BY <1>1, <1>8 DEF Scan
  <2>2. StreamAt' = StreamAt
    BY <1>1, <1>8 DEF Frame, StreamAt, Modes
  <2> QED
    BY <1>2, <2>1, <2>2, PieceKept
<1>9. \/ b \in Skipped \cup {LBracket, RBracket} /\ Enter("scan", pos + 1, 0)
      \/ b \notin {LBracket, RBracket} /\ mode' \in {"token", "comment", "literal", "dict", "hex"}
    BY <1>1 DEF Scan, Enter, Delimiter, Percent, LParen, Less, LBracket, RBracket
<1> QED
    BY <1>5, <1>6, <1>7, <1>8, <1>9

\* What ends a lexeme ends the piece that was written there.
LEMMA EndFollows ==
    ASSUME mode' = "scan", NEW P, NEW k, k + 1 \in 1..Len(P), P[k + 1].at = pos',
           P[k + 1].held = Held', P[k + 1].array = arr', P[k + 1].open = inArray',
           P[k + 1].shown = out'
    PROVE  AtPiece(P, k + 1)'
<1>1. StreamAt' = pos'
    BY DEF StreamAt, Modes
<1> QED
    BY <1>1 DEF AtPiece

\* The piece that is being read, by the byte it began with.
LEMMA PieceBegun ==
    ASSUME LexInv, Tokenize, mode \in Modes \ {"scan"}, NEW P, WrittenPage(Data, P),
           NEW k, AtPiece(P, k)
    PROVE  LET o == P[k]
               x == P[k + 1]
           IN  /\ k + 1 \in 1..Len(P) /\ o \in Entries
               /\ start \in Nat /\ start > 0 /\ x.at \in Nat /\ start < x.at /\ x.at <= Len(Data) + 1
               /\ Data \in Seq(Byte)
               /\ o.held = Held /\ o.array = arr /\ o.open = inArray /\ o.shown = out
               /\ On(Data, start) = Percent
                    => CommentLine(Data, start, x.at) /\ x = Moved(o, x.at)
               /\ On(Data, start) = LParen
                    => \E s : WrittenString(Data, start, x.at, s) /\ x = Moved(Holding(o, s), x.at)
               /\ On(Data, start) = Less /\ On(Data, start + 1) # Less
                    => /\ HexString(Data, start, x.at)
                       /\ x = Moved(Holding(o, HexBytes(Data, start, x.at)), x.at)
               /\ On(Data, start) = Less /\ On(Data, start + 1) = Less
                    => WrittenDict(Data, start, x.at) /\ x = Moved(o, x.at)
               /\ On(Data, start) \notin Delimiter
                    => /\ Word(Data, start, x.at)
                       /\ x = Moved(Executed(o, SubSeq(Data, start, x.at - 1)), x.at)
<1> DEFINE o == P[k]
           x == P[k + 1]
<1>1. StreamAt = start
    BY DEF StreamAt
<1>2. /\ k + 1 \in 1..Len(P) /\ Piece(Data, o, x) /\ o \in Entries
      /\ o.at = start /\ o.at \in Nat /\ o.at > 0 /\ x.at \in Nat /\ o.at < x.at
      /\ x.at <= Len(Data) + 1 /\ Data \in Seq(Byte)
    BY <1>1, PieceGoesOn
<1>3. o.held = Held /\ o.array = arr /\ o.open = inArray /\ o.shown = out
    BY DEF AtPiece
<1> HIDE DEF o, x
<1>4. /\ On(Data, o.at) = Percent => CommentLine(Data, o.at, x.at) /\ x = Moved(o, x.at)
      /\ On(Data, o.at) = LParen => \E s : /\ WrittenString(Data, o.at, x.at, s)
                                           /\ x = Moved(Holding(o, s), x.at)
      /\ On(Data, o.at) = Less /\ On(Data, o.at + 1) # Less
            => /\ HexString(Data, o.at, x.at)
               /\ x = Moved(Holding(o, HexBytes(Data, o.at, x.at)), x.at)
      /\ On(Data, o.at) = Less /\ On(Data, o.at + 1) = Less
            => WrittenDict(Data, o.at, x.at) /\ x = Moved(o, x.at)
      /\ On(Data, o.at) \notin Delimiter
            => /\ Word(Data, o.at, x.at)
               /\ x = Moved(Executed(o, SubSeq(Data, o.at, x.at - 1)), x.at)
  <2>1. Piece(Data, o, x) /\ o.at \in Int /\ x.at \in Int /\ o.at < x.at
    BY <1>2
  <2> QED
    BY <2>1, PieceByFirst
<1> QED
    BY <1>2, <1>3, <1>4 DEF o, x

LEMMA CommentFollows ==
    ASSUME LexInv, Comment, Frame, NEW P, WrittenPage(Data, P), NEW k, AtPiece(P, k)
    PROVE  AtPiece(P, k)' \/ AtPiece(P, k + 1)'
<1> DEFINE o == P[k]
           x == P[k + 1]
<1>1. mode = "comment" /\ mode \in Modes \ {"scan"} /\ CommentInv /\ start < pos
    BY DEF Comment, Modes, LexInv, ReadInv
<1>2. At(pos) = On(Data, pos) /\ pos \in Nat /\ pos <= Len(Data) + 1 /\ Len(Data) \in Nat
    BY <1>1, PageTypes DEF LexInv
<1>3. UNCHANGED <<Held, arr, inArray, out>>
    BY DEF Comment, operands, Held
<1>4. CASE At(pos) \in {LF, CR, EOF}
  <2>1. pos' = pos /\ mode' = "scan"
    BY <1>4 DEF Comment, Enter
  <2>2. CommentLine(Data, start, pos)
    BY <1>1, <1>2, <1>4 DEF CommentLine, CommentInv
  <2>3. /\ k + 1 \in 1..Len(P) /\ o \in Entries /\ start \in Nat /\ x.at \in Nat /\ start < x.at
        /\ o.held = Held /\ o.array = arr /\ o.open = inArray /\ o.shown = out
        /\ CommentLine(Data, start, x.at) /\ x = Moved(o, x.at)
    <3>1. Tokenize /\ On(Data, start) = Percent
        BY <1>1 DEF Tokenize, CommentInv
    <3> QED
        BY <1>1, <3>1, PieceBegun
  <2>4. x.at = pos
    <3>1. start \in Int /\ x.at \in Int /\ pos \in Int /\ (x.at < pos \/ pos < x.at \/ x.at = pos)
        BY <1>2, <2>3
    <3> HIDE DEF x
    <3> QED
        BY <1>1, <2>2, <2>3, <3>1, CommentOnce
  <2>5. x.held = o.held /\ x.array = o.array /\ x.open = o.open /\ x.shown = o.shown
    <3>1. o \in Entries /\ x = Moved(o, x.at)
        BY <2>3
    <3> HIDE DEF o, x
    <3> QED
        BY <3>1 DEF Moved, Entries
  <2> QED
    BY <1>3, <2>1, <2>3, <2>4, <2>5, EndFollows
<1>5. CASE At(pos) \notin {LF, CR, EOF}
  <2>1. mode' = "comment" /\ start' = start
    BY <1>1, <1>5 DEF Comment, Enter, Frame
  <2>2. StreamAt' = StreamAt
    BY <1>1, <2>1 DEF StreamAt, Modes
  <2> QED
    BY <1>3, <2>2, PieceKept
<1> QED
    BY <1>4, <1>5

LEMMA DictPieceFollows ==
    ASSUME LexInv, DictFollows, skipDict, Frame, NEW P, WrittenPage(Data, P), NEW k, AtPiece(P, k)
    PROVE  AtPiece(P, k)' \/ AtPiece(P, k + 1)'
<1> DEFINE o == P[k]
           x == P[k + 1]
<1>1. mode = "dict" /\ mode \in Modes \ {"scan"} /\ DictInv
    BY DEF skipDict, Modes, LexInv, ReadInv
<1>2. UNCHANGED <<Held, arr, inArray, out>>
    BY DEF skipDict, operands, Held
<1>3. CASE mode' = "scan"
  <2>1. /\ k + 1 \in 1..Len(P) /\ o \in Entries
        /\ o.held = Held /\ o.array = arr /\ o.open = inArray /\ o.shown = out
        /\ WrittenDict(Data, start, x.at) /\ x = Moved(o, x.at)
    <3>1. Tokenize /\ On(Data, start) = Less /\ On(Data, start + 1) = Less
        BY <1>1 DEF Tokenize, DictInv
    <3> QED
        BY <1>1, <3>1, PieceBegun
  <2>2. x.at = pos'
    BY <1>3, <2>1, DictEnds
  <2>3. x.held = o.held /\ x.array = o.array /\ x.open = o.open /\ x.shown = o.shown
    <3>1. o \in Entries /\ x = Moved(o, x.at)
        BY <2>1
    <3> HIDE DEF o, x
    <3> QED
        BY <3>1 DEF Moved, Entries
  <2> QED
    BY <1>2, <1>3, <2>1, <2>2, <2>3, EndFollows
<1>4. CASE mode' # "scan"
  <2>1. mode' = "dict" /\ start' = start
    BY <1>1, <1>4 DEF skipDict, Enter, Frame
  <2>2. StreamAt' = StreamAt
    BY <1>1, <2>1 DEF StreamAt, Modes
  <2> QED
    BY <1>2, <2>2, PieceKept
<1> QED
    BY <1>3, <1>4

\* The operand that ends is the one the piece holds.
LEMMA OperandFollows ==
    ASSUME Inv, NEW s, NEW p, Operand(s, p), NEW P, NEW k, k + 1 \in 1..Len(P), P[k] \in Entries,
           P[k].held = Held, P[k].array = arr, P[k].open = inArray, P[k].shown = out,
           P[k + 1] = Moved(Holding(P[k], s), p)
    PROVE  AtPiece(P, k + 1)'
<1> DEFINE o == P[k]
           x == P[k + 1]
<1>1. haveLast \in BOOLEAN /\ inArray \in BOOLEAN
    BY DEF Inv, TypeOK
<1>2. /\ x.at = p /\ x.open = o.open /\ x.shown = o.shown
      /\ o.open => x.array = o.array \o s /\ x.held = o.held
      /\ ~o.open => x.array = o.array /\ x.held = <<s>>
  <2>1. o \in Entries /\ x = Moved(Holding(o, s), p)
    OBVIOUS
  <2> HIDE DEF o, x
  <2> QED
    BY <2>1, HoldingFields
<1>3. mode' = "scan" /\ pos' = p /\ inArray' = inArray /\ out' = out
    BY DEF Operand, Enter
<1>4. CASE inArray
  <2>1. arr' = arr \o s /\ last' = last /\ haveLast' = haveLast
    BY <1>1, <1>4 DEF Operand
  <2>2. Held' = Held
    BY <2>1 DEF Held
  <2> QED
    BY <1>2, <1>3, <1>4, <2>1, <2>2, EndFollows
<1>5. CASE ~inArray
  <2>1. arr' = arr /\ last' = s /\ haveLast' = TRUE
    BY <1>1, <1>5 DEF Operand
  <2>2. Held' = <<s>>
    BY <2>1 DEF Held
  <2> QED
    BY <1>2, <1>3, <1>5, <2>1, <2>2, EndFollows
<1> QED
    BY <1>4, <1>5

LEMMA LiteralFollows ==
    ASSUME LexInv, StringFollows, LiteralEnds, NEW P, WrittenPage(Data, P), NEW k, AtPiece(P, k)
    PROVE  AtPiece(P, k + 1)'
<1> DEFINE o == P[k]
           x == P[k + 1]
<1>1. mode = "literal" /\ mode \in Modes \ {"scan"} /\ Tokenize /\ On(Data, start) = LParen
    BY DEF LiteralEnds, Modes, LexInv, ReadInv, LiteralInv, Tokenize
<1>2. /\ k + 1 \in 1..Len(P) /\ o \in Entries
      /\ o.held = Held /\ o.array = arr /\ o.open = inArray /\ o.shown = out
      /\ \E s : WrittenString(Data, start, x.at, s) /\ x = Moved(Holding(o, s), x.at)
    BY <1>1, PieceBegun
<1>3. PICK s : WrittenString(Data, start, x.at, s) /\ x = Moved(Holding(o, s), x.at)
    BY <1>2
<1>4. pos = x.at /\ buf = s
    BY <1>3, StringEnds
<1>5. Operand(buf, pos) /\ x = Moved(Holding(o, buf), pos) /\ Inv
    BY <1>3, <1>4 DEF LiteralEnds, LexInv
<1> QED
    BY <1>2, <1>5, OperandFollows

LEMMA HexFollows ==
    ASSUME LexInv, HexEnds, NEW P, WrittenPage(Data, P), NEW k, AtPiece(P, k)
    PROVE  AtPiece(P, k + 1)'
<1> DEFINE o == P[k]
           x == P[k + 1]
           j == IF At(pos) = EOF THEN pos ELSE pos + 1
<1>1. /\ mode = "hex" /\ mode \in Modes \ {"scan"} /\ Tokenize /\ start < pos /\ HexInv
    BY DEF HexEnds, Modes, LexInv, ReadInv, Tokenize
<1>2. /\ At(pos) = On(Data, pos) /\ pos \in Nat /\ pos <= Len(Data) + 1
      /\ Len(Data) \in Nat /\ Data \in Seq(Byte)
    BY <1>1, PageTypes DEF LexInv
<1>3. /\ k + 1 \in 1..Len(P) /\ o \in Entries
      /\ start \in Nat /\ start > 0 /\ x.at \in Nat /\ start < x.at /\ x.at <= Len(Data) + 1
      /\ o.held = Held /\ o.array = arr /\ o.open = inArray /\ o.shown = out
      /\ HexString(Data, start, x.at) /\ x = Moved(Holding(o, HexBytes(Data, start, x.at)), x.at)
  <2>1. On(Data, start) = Less /\ On(Data, start + 1) # Less
    BY <1>1 DEF HexInv
  <2> QED
    BY <1>1, <2>1, PieceBegun
<1>4. HexString(Data, start, j) /\ Decoded(buf) = HexBytes(Data, start, j) /\ Operand(Decoded(buf), j)
    BY HexEnd
<1>5. j \in Int /\ start < j /\ j <= Len(Data) + 1
  <2>1. pos = Len(Data) + 1 => At(pos) = EOF
    <3>1. pos = Len(Data) + 1 => pos \notin 1..Len(Data)
        BY <1>2
    <3> QED
        BY <1>2, <3>1 DEF On
  <2> QED
    BY <1>1, <1>2, <1>3, <2>1
<1> HIDE DEF j, x, o
<1>6. x.at = j
  <2>1. x.at < j \/ j < x.at \/ x.at = j
    BY <1>3, <1>5
  <2> QED
    BY <1>2, <1>3, <1>4, <1>5, <2>1, HexOnce
<1>7. Operand(Decoded(buf), j) /\ x = Moved(Holding(o, Decoded(buf)), j) /\ Inv
    BY <1>3, <1>4, <1>6 DEF LexInv
<1> QED
    BY <1>3, <1>7, OperandFollows DEF o, x

LEMMA WordFollows ==
    ASSUME LexInv, TokenEnds, NEW P, WrittenPage(Data, P), NEW k, AtPiece(P, k)
    PROVE  AtPiece(P, k + 1)'
<1> DEFINE o == P[k]
           x == P[k + 1]
<1>1. mode = "token" /\ mode \in Modes \ {"scan"} /\ Tokenize /\ start < pos /\ TokenInv
    BY DEF TokenEnds, Modes, LexInv, ReadInv, Tokenize
<1>2. At(pos) = On(Data, pos) /\ pos \in Nat /\ start \in Nat
    BY <1>1, PageTypes DEF LexInv
<1>3. /\ k + 1 \in 1..Len(P) /\ o \in Entries /\ x.at \in Nat /\ start < x.at
      /\ o.held = Held /\ o.array = arr /\ o.open = inArray /\ o.shown = out
      /\ Word(Data, start, x.at) /\ x = Moved(Executed(o, SubSeq(Data, start, x.at - 1)), x.at)
  <2>1. On(Data, start) \notin Delimiter
    <3>1. start \in start..pos - 1
        BY <1>1, <1>2
    <3> QED
        BY <1>1, <3>1 DEF TokenInv
  <2> QED
    BY <1>1, <2>1, PieceBegun
<1>4. x.at = pos
  <2>1. Word(Data, start, pos)
    BY <1>1, <1>2 DEF Word, TokenInv, TokenEnds
  <2>2. start \in Int /\ x.at \in Int /\ pos \in Int /\ (x.at < pos \/ pos < x.at \/ x.at = pos)
    BY <1>2, <1>3
  <2> HIDE DEF x
  <2> QED
    BY <1>1, <1>3, <2>1, <2>2, WordOnce
<1>5. o \in Entries /\ x = Moved(Executed(o, buf), pos)
    BY <1>1, <1>3, <1>4 DEF TokenInv
<1>6. mode' = "scan" /\ pos' = pos /\ inArray' = inArray
    BY DEF TokenEnds, Enter
<1> HIDE DEF o, x
<1>7. x.at = pos /\ Changed(o, buf, x)
    BY <1>5, ExecutedFields
<1>8. x.held = Held' /\ x.array = arr' /\ x.shown = out'
  <2>1. CASE Kern
    <3>1. o.open /\ buf \in DOMAIN Kerning
        BY <1>3, <2>1 DEF Kern
    <3>2. Held' = Held
        BY <2>1 DEF Kern, Held
    <3> QED
        BY <1>3, <1>7, <2>1, <3>1, <3>2 DEF Kern, Changed
  <2>2. CASE ~(inArray /\ buf \in DOMAIN Kerning) /\ flushOperator
    <3>1. ~(o.open /\ buf \in DOMAIN Kerning)
        BY <1>3, <2>2
    <3>2. CASE /\ buf \in ShowString
               /\ out' = IF haveLast THEN out \o Append(last, LF) ELSE out
               /\ last' = <<>> /\ haveLast' = FALSE
               /\ UNCHANGED arr
        <4>1. Held' = <<>> /\ out' = IF Held = <<>> THEN out ELSE out \o Append(Held[1], LF)
            BY <3>2 DEF Held
        <4>2. buf # ShowArray
            BY <3>2, NotBoth
        <4> QED
            BY <1>3, <1>7, <3>1, <3>2, <4>1, <4>2 DEF Changed
    <3>3. CASE /\ buf = ShowArray
               /\ out' = out \o Append(arr, LF) /\ arr' = <<>>
               /\ UNCHANGED <<last, haveLast>>
        <4>1. Held' = Held
            BY <3>3 DEF Held
        <4> QED
            BY <1>3, <1>7, <3>1, <3>3, <4>1, NotBoth DEF Changed
    <3>4. CASE /\ buf \notin ShowString \cup {ShowArray}
               /\ UNCHANGED <<last, haveLast, arr, out>>
        <4>1. Held' = Held
            BY <3>4 DEF Held
        <4> QED
            BY <1>3, <1>7, <3>1, <3>4, <4>1 DEF Changed
    <3> QED
        BY <2>2, <3>2, <3>3, <3>4 DEF flushOperator
  <2> QED
    BY <2>1, <2>2 DEF TokenEnds
<1> QED
    BY <1>3, <1>6, <1>7, <1>8, EndFollows DEF o, x, Changed

\* A byte of a lexeme is read, and the page has not moved on.
LEMMA ByteFollows ==
    ASSUME TokenByte \/ LiteralByte \/ Escape \/ LineContinuation \/ OctalEscape \/ HexByte,
           Frame, NEW P, NEW k, AtPiece(P, k)
    PROVE  AtPiece(P, k)'
<1>1. mode \in Modes \ {"scan"}
    BY DEF TokenByte, LiteralByte, Escape, LineContinuation, OctalEscape, HexByte, Escaped,
           InLiteral, Modes
<1>2. mode' = mode /\ UNCHANGED <<operands, out>>
    BY DEF TokenByte, LiteralByte, Escape, LineContinuation, OctalEscape, HexByte, Collect
<1>3. StreamAt' = StreamAt
    BY <1>1, <1>2 DEF Frame, StreamAt, Modes
<1>4. UNCHANGED <<Held, arr, inArray, out>>
    BY <1>2 DEF operands, Held
<1> QED
    BY <1>3, <1>4, PieceKept

LEMMA TokenizeFollows ==
    ASSUME LexInv, StringFollows, DictFollows, Tokenize, Frame,
           NEW P, WrittenPage(Data, P), NEW k, AtPiece(P, k)
    PROVE  AtPiece(P, k)' \/ AtPiece(P, k + 1)'
<1>1. CASE Scan
    BY <1>1, ScanFollows
<1>2. CASE Comment
    BY <1>2, CommentFollows
<1>3. CASE skipDict
    BY <1>3, DictPieceFollows
<1>4. CASE TokenEnds
    BY <1>4, WordFollows
<1>5. CASE LiteralEnds
    BY <1>5, LiteralFollows
<1>6. CASE HexEnds
    BY <1>6, HexFollows
<1>7. CASE TokenByte \/ LiteralByte \/ Escape \/ LineContinuation \/ OctalEscape \/ HexByte
    BY <1>7, ByteFollows
<1> QED
    BY <1>1, <1>2, <1>3, <1>4, <1>5, <1>6, <1>7 DEF Tokenize

FollowInv == LexInv /\ StringFollows /\ DictFollows /\ PageFollows

LEMMA FollowInit == Init => FollowInv
<1> SUFFICES ASSUME Init
             PROVE  FollowInv
    OBVIOUS
<1>1. LexInv
    BY LexInit
<1>2. mode = "start"
    BY DEF Init
<1> QED
    BY <1>1, <1>2 DEF FollowInv, StringFollows, DictFollows, PageFollows, Modes

LEMMA PageFollowsNext == FollowInv /\ [Next]_vars => PageFollows'
<1> SUFFICES ASSUME FollowInv, [Next]_vars, mode' \in Modes, NEW P, WrittenPage(Data', P)
             PROVE  \E k \in 1..Len(P) : AtPiece(P, k)'
    BY DEF PageFollows
<1>1. CASE UNCHANGED vars
  <2>1. /\ Data' = Data /\ mode' = mode
        /\ UNCHANGED <<StreamAt, Held, arr, inArray, out>>
    BY <1>1 DEF vars, stream, operands, Data, StreamAt, Held
  <2>2. PICK k \in 1..Len(P) : AtPiece(P, k)
    BY <2>1 DEF FollowInv, PageFollows
  <2>3. AtPiece(P, k)'
    BY <2>1, <2>2, PieceKept
  <2> QED
    BY <2>3
<1>2. CASE (Extract \/ PageEnds \/ Finish) /\ UNCHANGED start
  <2>1. mode' \notin Modes
    BY <1>2 DEF Extract, PageEnds, Finish, FollowInv, LexInv, Modes
  <2> QED
    BY <2>1
<1>3. CASE ReadPage /\ UNCHANGED start
  <2>1. Data # Unreadable
    BY <1>3 DEF ReadPage, Modes
  <2>2. /\ mode' = "scan" /\ pos' = 1 /\ haveLast' = FALSE /\ inArray' = FALSE
        /\ arr' = <<>> /\ out' = <<>>
    BY <1>3, <2>1 DEF ReadPage
  <2>3. StreamAt' = 1 /\ Held' = <<>>
    BY <2>2 DEF StreamAt, Held, Modes
  <2>4. 1 \in 1..Len(P) /\ P[1] = PageTop
    <3>1. Len(P) \in Nat
        BY ElementOf DEF WrittenPage
    <3> QED
        BY <3>1 DEF WrittenPage
  <2>5. /\ P[1].at = 1 /\ P[1].held = <<>> /\ P[1].array = <<>> /\ P[1].open = FALSE
        /\ P[1].shown = <<>>
    BY <2>4 DEF PageTop
  <2>6. AtPiece(P, 1)'
    BY <2>2, <2>3, <2>4, <2>5 DEF AtPiece
  <2> QED
    BY <2>4, <2>6
<1>4. CASE Tokenize /\ Frame
  <2>1. mode \in Modes /\ Data' = Data
    <3>1. mode \in Modes
        BY <1>4 DEF Tokenize, Scan, Comment, TokenByte, TokenEnds, skipDict, LiteralByte,
                    Escape, LineContinuation, OctalEscape, LiteralEnds, HexByte, HexEnds,
                    Escaped, InLiteral, Modes
    <3> QED
        BY <1>4, <3>1 DEF Frame, Data
  <2>2. PICK k \in 1..Len(P) : AtPiece(P, k)
    BY <2>1 DEF FollowInv, PageFollows
  <2>3. AtPiece(P, k)' \/ AtPiece(P, k + 1)'
    BY <1>4, <2>1, <2>2, TokenizeFollows DEF FollowInv
  <2> QED
    BY <2>3 DEF AtPiece
<1> QED
    BY <1>1, <1>2, <1>3, <1>4 DEF Next, Frame

LEMMA FollowNext == FollowInv /\ [Next]_vars => FollowInv'
BY LexNext, StringFollowsNext, DictFollowsNext, PageFollowsNext DEF FollowInv

\* A page that was written as P shows, when it ends, what P shows.
ShowsWritten ==
    mode = "scan" /\ At(pos) = EOF =>
        \A P : WrittenPage(Data, P) => out = P[Len(P)].shown

LEMMA FollowShows == FollowInv => ShowsWritten
<1> SUFFICES ASSUME FollowInv, mode = "scan", At(pos) = EOF, NEW P, WrittenPage(Data, P)
             PROVE  out = P[Len(P)].shown
    BY DEF ShowsWritten
<1>1. mode \in Modes /\ StreamAt = pos
    BY DEF Modes, StreamAt
<1>2. Data \in Seq(Byte) /\ Len(Data) \in Nat /\ pos \in Nat /\ pos > 0 /\ At(pos) = On(Data, pos)
    BY <1>1, PageTypes DEF FollowInv, LexInv
<1>3. PICK k \in 1..Len(P) : AtPiece(P, k)
    BY <1>1 DEF FollowInv, PageFollows
<1>4. ~(P[k].at <= Len(Data))
  <2>1. P[k].at = pos
    BY <1>1, <1>3 DEF AtPiece
  <2>2. pos \notin 1..Len(Data)
    BY <1>2, OnByte
  <2> QED
    BY <1>2, <2>1, <2>2
<1>5. k = Len(P)
  <2>1. k \in 1..Len(P) - 1 => P[k].at < P[k + 1].at /\ P[k + 1].at <= Len(Data) + 1
    BY DEF WrittenPage
  <2>2. Len(P) \in Nat /\ \A n \in 1..Len(P) : P[n].at \in Nat
    <3>1. Len(P) \in Nat /\ \A n \in 1..Len(P) : P[n] \in Entries
        BY ElementOf DEF WrittenPage
    <3> QED
        BY <3>1 DEF Entries
  <2>3. k \in 1..Len(P) - 1 => k + 1 \in 1..Len(P)
    BY <2>2
  <2> QED
    BY <1>2, <1>3, <1>4, <2>1, <2>2, <2>3
<1> QED
    BY <1>3, <1>5 DEF AtPiece

\* Whatever pieces a page was written as (strings nested, escaped, in octal or
\* hexadecimal digits or folded over lines, arrays with gaps, words, comments and
\* inline dictionaries in any order), the tokenizer shows just what the operators in
\* it show of the strings before them: it reads back what was written, and shows
\* nothing of what lies between (pdf.go 99-318).
THEOREM PagesShowWhatIsWritten == Spec => []ShowsWritten
<1> QED
    BY FollowInit, FollowNext, FollowShows, PTL DEF Spec

-----------------------------------------------------------------------------
(* Every string can be written, and is then read back. *)

\* The byte at place r of the escape for b.
OctalByte(b, r) ==
    CASE r = 0 -> Backslash
      [] r = 1 -> 48 + (b \div 64)
      [] r = 2 -> 48 + ((b \div 8) % 8)
      [] r = 3 -> 48 + (b % 8)

\* A page that shows s, a byte an escape of three octal digits.
OctalPage(s) ==
    [x \in 1..4 * Len(s) + 3 |->
        IF x = 1 THEN LParen
        ELSE IF x = 4 * Len(s) + 2 THEN RParen
        ELSE IF x = 4 * Len(s) + 3 THEN 39
        ELSE OctalByte(s[(x + 2) \div 4], (x + 2) % 4)]

LEMMA OctalByteIsByte ==
    ASSUME NEW b \in Byte, NEW r \in 0..3
    PROVE  OctalByte(b, r) \in Byte /\ (r # 0 => OctalByte(b, r) \in OctalDigit)
BY DEF OctalByte, Byte, OctalDigit, Backslash

LEMMA OctalValueBack ==
    ASSUME NEW b \in Byte
    PROVE  64 * (OctalByte(b, 1) - 48) + 8 * (OctalByte(b, 2) - 48) + (OctalByte(b, 3) - 48) = b
<1>1. /\ OctalByte(b, 1) = 48 + (b \div 64) /\ OctalByte(b, 2) = 48 + ((b \div 8) % 8)
      /\ OctalByte(b, 3) = 48 + (b % 8)
    BY DEF OctalByte
<1>2. 64 * (b \div 64) + 8 * ((b \div 8) % 8) + (b % 8) = b
    BY DEF Byte
<1> QED
    BY <1>1, <1>2 DEF Byte

LEMMA OctalPageBytes ==
    ASSUME NEW s \in Seq(Byte)
    PROVE  LET d == OctalPage(s) IN
           /\ d \in Seq(Byte) /\ Len(d) = 4 * Len(s) + 3
           /\ On(d, 1) = LParen /\ On(d, 4 * Len(s) + 2) = RParen /\ On(d, 4 * Len(s) + 3) = 39
           /\ On(d, 4 * Len(s) + 4) = EOF
           /\ \A m \in 1..Len(s), r \in 0..3 : On(d, 4 * m - 2 + r) = OctalByte(s[m], r)
<1> DEFINE d == OctalPage(s)
           n == Len(s)
           e(x) == IF x = 1 THEN LParen
                   ELSE IF x = 4 * n + 2 THEN RParen
                   ELSE IF x = 4 * n + 3 THEN 39
                   ELSE OctalByte(s[(x + 2) \div 4], (x + 2) % 4)
<1>1. n \in Nat /\ d = [x \in 1..4 * n + 3 |-> e(x)]
    BY DEF OctalPage
<1>2. ASSUME NEW x \in 1..4 * n + 3
      PROVE  e(x) \in Byte
  <2>1. CASE x \in {1, 4 * n + 2, 4 * n + 3}
    BY <2>1 DEF LParen, RParen, Byte
  <2>2. CASE x \notin {1, 4 * n + 2, 4 * n + 3}
    <3>1. (x + 2) \div 4 \in 1..n /\ (x + 2) % 4 \in 0..3
        <4> DEFINE q == (x + 2) \div 4
        <4>0. n \in Nat /\ x \in Int /\ 1 <= x /\ x <= 4 * n + 3
            BY <1>1
        <4> HIDE DEF n
        <4>1. x + 2 \in Int /\ 4 <= x + 2 /\ x + 2 <= 4 * n + 3
            BY <2>2, <4>0
        <4>2. /\ q \in Int /\ (x + 2) % 4 \in 0..3
              /\ 4 * q <= x + 2 /\ x + 2 <= 4 * q + 3
            BY <4>1
        <4> HIDE DEF q
        <4>3. q \in 1..n
            BY <1>1, <4>1, <4>2
        <4> QED
            BY <4>2, <4>3 DEF q
    <3>2. s[(x + 2) \div 4] \in Byte
        BY <3>1
    <3> HIDE DEF n
    <3>3. e(x) = OctalByte(s[(x + 2) \div 4], (x + 2) % 4)
        BY <2>2
    <3> QED
        BY <3>1, <3>2, <3>3, OctalByteIsByte
  <2> QED
    BY <2>1, <2>2
<1> HIDE DEF d, e
<1>3. d \in Seq(Byte) /\ Len(d) = 4 * n + 3
    BY <1>1, <1>2
<1> HIDE DEF n
<1>4. \A x \in 1..4 * n + 3 : On(d, x) = e(x)
    BY <1>1, <1>3 DEF On
<1>5. On(d, 1) = LParen /\ On(d, 4 * n + 2) = RParen /\ On(d, 4 * n + 3) = 39
  <2>1. 1 \in 1..4 * n + 3 /\ 4 * n + 2 \in 1..4 * n + 3 /\ 4 * n + 3 \in 1..4 * n + 3
    BY <1>1
  <2>2. e(1) = LParen /\ e(4 * n + 2) = RParen /\ e(4 * n + 3) = 39
    BY <1>1 DEF e
  <2> QED
    BY <1>4, <2>1, <2>2
<1>6. On(d, 4 * n + 4) = EOF
  <2>1. 4 * n + 4 \notin 1..4 * n + 3
    BY <1>1
  <2> QED
    BY <1>3, <2>1 DEF On
<1>7. ASSUME NEW m \in 1..n, NEW r \in 0..3
      PROVE  On(d, 4 * m - 2 + r) = OctalByte(s[m], r)
  <2> DEFINE x == 4 * m - 2 + r
  <2>1. x \in 1..4 * n + 3 /\ x \notin {1, 4 * n + 2, 4 * n + 3}
    BY <1>1
  <2>2. (x + 2) \div 4 = m /\ (x + 2) % 4 = r
    BY <1>1
  <2> HIDE DEF x
  <2>3. e(x) = OctalByte(s[m], r)
    BY <2>1, <2>2 DEF e
  <2> QED
    BY <1>4, <2>1, <2>3 DEF x
<1> QED
    BY <1>3, <1>5, <1>6, <1>7 DEF d, n

\* One byte more.
LEMMA PrefixGrows ==
    ASSUME NEW s \in Seq(Byte), NEW m \in 1..Len(s)
    PROVE  SubSeq(s, 1, m) = SubSeq(s, 1, m - 1) \o <<s[m]>>
<1>1. On(s, m) = s[m]
    BY DEF On
<1>2. CASE m = 1
  <2>1. SubSeq(s, 1, 1) = <<On(s, 1)>>
    BY <1>2, WordBegins
  <2>2. SubSeq(s, 1, 0) = <<>> /\ 1 - 1 = 0 /\ <<s[1]>> \in Seq(Byte)
    BY <1>2
  <2>3. <<>> \o <<s[1]>> = <<s[1]>>
    BY <2>2
  <2> QED
    BY <1>1, <1>2, <2>1, <2>2, <2>3
<1>3. CASE m # 1
  <2>1. 1 \in Nat /\ 1 > 0 /\ 1 < m
    BY <1>3
  <2> QED
    BY <1>1, <2>1, WordGrows
<1> QED
    BY <1>2, <1>3

LEMMA OctalStringWritten ==
    ASSUME NEW s \in Seq(Byte)
    PROVE  WrittenString(OctalPage(s), 1, 4 * Len(s) + 3, s)
<1> DEFINE d == OctalPage(s)
           n == Len(s)
           T == [at : Nat, depth : Nat, value : Seq(Byte)]
           w(m) == IF m <= n + 1 THEN [at |-> 4 * m - 2, depth |-> 1, value |-> SubSeq(s, 1, m - 1)]
                   ELSE [at |-> 4 * n + 3, depth |-> 0, value |-> s]
           W == [m \in 1..n + 2 |-> w(m)]
<1>1. /\ n \in Nat /\ d \in Seq(Byte) /\ Len(d) = 4 * n + 3
      /\ On(d, 1) = LParen /\ On(d, 4 * n + 2) = RParen
      /\ \A m \in 1..n, r \in 0..3 : On(d, 4 * m - 2 + r) = OctalByte(s[m], r)
    BY OctalPageBytes
<1>2. \A m \in 1..n + 1 : 4 * m - 2 \in Nat /\ SubSeq(s, 1, m - 1) \in Seq(Byte)
    OBVIOUS
<1>3. SubSeq(s, 1, 0) = <<>> /\ SubSeq(s, 1, n) = s
  <2>1. SubSeq(s, 1, 0) = <<>>
    OBVIOUS
  <2>2. /\ SubSeq(s, 1, n) \in Seq(Byte) /\ Len(SubSeq(s, 1, n)) = n
        /\ \A q \in 1..n : SubSeq(s, 1, n)[q] = s[q]
    OBVIOUS
  <2>3. SubSeq(s, 1, n) = s
    BY <2>2, SeqEqual
  <2> QED
    BY <2>1, <2>3
<1> HIDE DEF d, n
<1>4. \A m \in 1..n + 2 : w(m) \in T
  <2> SUFFICES ASSUME NEW m \in 1..n + 2
               PROVE  w(m) \in T
    OBVIOUS
  <2>1. CASE m <= n + 1
    <3>1. m \in 1..n + 1
        BY <1>1, <2>1
    <3>2. 4 * m - 2 \in Nat /\ SubSeq(s, 1, m - 1) \in Seq(Byte)
        BY <1>2, <3>1
    <3> QED
        BY <2>1, <3>2
  <2>2. CASE ~(m <= n + 1)
    BY <1>1, <2>2
  <2> QED
    BY <2>1, <2>2
<1>5. /\ \A m \in 1..n + 1 : w(m).at = 4 * m - 2 /\ w(m).depth = 1 /\ w(m).value = SubSeq(s, 1, m - 1)
      /\ w(n + 2) = [at |-> 4 * n + 3, depth |-> 0, value |-> s]
    BY <1>1
<1>6. w(1) = [at |-> 1 + 1, depth |-> 1, value |-> <<>>]
  <2>1. 1 <= n + 1 /\ 4 * 1 - 2 = 1 + 1 /\ 1 - 1 = 0
    BY <1>1
  <2> QED
    BY <1>3, <2>1
<1> HIDE DEF T, w
<1>7. W \in Seq(T) /\ Len(W) = n + 2 /\ \A m \in 1..n + 2 : W[m] = w(m)
  <2>1. n + 2 \in Nat
    BY <1>1
  <2> QED
    BY <1>4, <2>1
<1> HIDE DEF W
<1>8. ASSUME NEW m \in 1..n
      PROVE  StringUnit(d, w(m), w(m + 1))
  <2> DEFINE p == 4 * m - 2
             b == s[m]
  <2>1. m \in 1..n + 1 /\ m + 1 \in 1..n + 1 /\ p \in Nat /\ b \in Byte
    BY <1>1 DEF n
  <2>2. w(m).at = p /\ w(m).depth = 1 /\ w(m).value = SubSeq(s, 1, m - 1)
    BY <1>5, <2>1
  <2>3. w(m + 1).at = p + 4 /\ w(m + 1).depth = 1 /\ w(m + 1).value = SubSeq(s, 1, m)
    <3>1. 4 * (m + 1) - 2 = p + 4 /\ (m + 1) - 1 = m
        BY <2>1
    <3> QED
        BY <1>5, <2>1, <3>1
  <2>4. /\ On(d, p) = Backslash
        /\ On(d, p + 1) = OctalByte(b, 1) /\ On(d, p + 2) = OctalByte(b, 2)
        /\ On(d, p + 3) = OctalByte(b, 3)
    <3>1. /\ p + 0 = p /\ \A r \in 0..3 : On(d, p + r) = OctalByte(b, r)
        BY <1>1, <2>1
    <3>2. OctalByte(b, 0) = Backslash
        BY DEF OctalByte
    <3> HIDE DEF p, b
    <3>3. On(d, p + 0) = Backslash
        BY <3>1, <3>2
    <3> QED
        BY <3>1, <3>3
  <2> HIDE DEF p, b
  <2>5. \A r \in 1..3 : OctalByte(b, r) \in OctalDigit
    BY <2>1, OctalByteIsByte
  <2>6. OctalDigits(d, p) = 3 /\ On(d, p + 1) \notin {CR, LF}
    BY <2>4, <2>5 DEF OctalDigits, OctalDigit, CR, LF
  <2>7. OctalNumber(d, p) = b
    <3>1. OctalNumber(d, p) = 64 * (OctalByte(b, 1) - 48) + 8 * (OctalByte(b, 2) - 48)
                                + (OctalByte(b, 3) - 48)
        BY <2>4, <2>6 DEF OctalNumber
    <3> QED
        BY <2>1, <3>1, OctalValueBack
  <2>8. Width(d, p) = 4 /\ Adds(d, p) = <<b>>
    <3>1. b % 256 = b
        BY <2>1 DEF Byte
    <3> QED
        BY <2>6, <2>7, <3>1 DEF Width, Adds
  <2>9. SubSeq(s, 1, m) = SubSeq(s, 1, m - 1) \o <<b>>
    BY PrefixGrows DEF b, n
  <2> QED
    BY <2>2, <2>3, <2>4, <2>8, <2>9 DEF StringUnit
<1>9. StringUnit(d, w(n + 1), w(n + 2))
  <2>1. n + 1 \in 1..n + 1 /\ 4 * (n + 1) - 2 = 4 * n + 2 /\ (n + 1) - 1 = n
    BY <1>1
  <2>2. w(n + 1).at = 4 * n + 2 /\ w(n + 1).depth = 1 /\ w(n + 1).value = s
    BY <1>3, <1>5, <2>1
  <2>3. w(n + 2).at = (4 * n + 2) + 1 /\ w(n + 2).depth = 0 /\ w(n + 2).value = s
    <3>1. 4 * n + 3 = (4 * n + 2) + 1
        BY <1>1
    <3>2. w(n + 2).at = 4 * n + 3 /\ w(n + 2).depth = 0 /\ w(n + 2).value = s
        BY <1>5
    <3> QED
        BY <3>1, <3>2
  <2>4. /\ On(d, 4 * n + 2) = RParen /\ RParen # Backslash /\ RParen # LParen
        /\ 0 = 1 + -1
    BY <1>1 DEF RParen, LParen, Backslash
  <2> HIDE DEF w
  <2> QED
    BY <2>2, <2>3, <2>4 DEF StringUnit
<1>10. ASSUME NEW m \in 1..Len(W) - 1
       PROVE  W[m].depth > 0 /\ W[m].at <= Len(d) /\ StringUnit(d, W[m], W[m + 1])
  <2>1. m \in 1..n + 1 /\ m \in 1..n + 2 /\ m + 1 \in 1..n + 2 /\ (m \in 1..n \/ m = n + 1)
    BY <1>1, <1>7
  <2>2. W[m] = w(m) /\ W[m + 1] = w(m + 1)
    BY <1>7, <2>1
  <2>3. w(m).depth > 0 /\ w(m).at <= Len(d)
    BY <1>1, <1>5, <2>1
  <2>4. StringUnit(d, w(m), w(m + 1))
    <3>1. CASE m \in 1..n
        BY <1>8, <3>1
    <3>2. CASE m = n + 1
        <4>1. m + 1 = n + 2
            BY <1>1, <3>2
        <4> QED
            BY <1>9, <3>2, <4>1
    <3> QED
        BY <2>1, <3>1, <3>2
  <2> QED
    BY <2>2, <2>3, <2>4
<1>11. Len(W) > 0 /\ W[1] = [at |-> 1 + 1, depth |-> 1, value |-> <<>>]
  <2>1. 1 \in 1..n + 2 /\ n + 2 > 0
    BY <1>1
  <2> QED
    BY <1>6, <1>7, <2>1
<1>12. StringRun(d, 1, W)
  <2>1. W \in Seq([at : Nat, depth : Nat, value : Seq(Byte)])
    BY <1>7 DEF T
  <2> QED
    BY <1>1, <1>10, <1>11, <2>1 DEF StringRun
<1>13. W[Len(W)] = [at |-> 4 * n + 3, depth |-> 0, value |-> s]
  <2>1. n + 2 \in 1..n + 2
    BY <1>1
  <2> QED
    BY <1>5, <1>7, <2>1
<1> QED
    BY <1>12, <1>13 DEF WrittenString, d, n

LEMMA EntryChanges ==
    ASSUME NEW o \in Entries, NEW j \in Nat, NEW t \in Seq(Seq(Byte)), NEW u \in Seq(Byte)
    PROVE  /\ [o EXCEPT !.at = j] \in Entries /\ [o EXCEPT !.held = t] \in Entries
           /\ [o EXCEPT !.held = t, !.shown = u] \in Entries
BY DEF Entries

\* The page is written: a string, and the operator that shows it.
LEMMA OctalPageWritten ==
    ASSUME NEW s \in Seq(Byte)
    PROVE  \E P : WrittenPage(OctalPage(s), P) /\ P[Len(P)].shown = Append(s, LF)
<1> DEFINE d == OctalPage(s)
           n == Len(s)
           h == Holding(PageTop, s)
           a == Moved(h, 4 * n + 3)
           t == SubSeq(d, 4 * n + 3, (4 * n + 4) - 1)
           g == Executed(a, t)
           z == Moved(g, 4 * n + 4)
           P == <<PageTop, a, z>>
<1>1. /\ n \in Nat /\ d \in Seq(Byte) /\ Len(d) = 4 * n + 3 /\ On(d, 4 * n + 3) = 39
      /\ On(d, 4 * n + 4) = EOF
    BY OctalPageBytes
<1>2. WrittenString(d, 1, 4 * n + 3, s)
    BY OctalStringWritten
<1>3. <<s>> \in Seq(Seq(Byte)) /\ <<>> \in Seq(Seq(Byte)) /\ <<>> \in Seq(Byte)
    OBVIOUS
<1>4. Append(s, LF) \in Seq(Byte) /\ <<>> \o Append(s, LF) = Append(s, LF)
    BY DEF LF, Byte
<1> HIDE DEF d, n
<1>5. 4 * n + 3 \in Nat /\ 4 * n + 4 \in Nat /\ (4 * n + 4) - 1 = 4 * n + 3
    BY <1>1
<1>6. /\ PageTop \in Entries /\ PageTop.at = 1 /\ PageTop.open = FALSE /\ PageTop.array = <<>>
      /\ PageTop.shown = <<>>
    BY <1>3 DEF PageTop, Entries
<1>7. h = [PageTop EXCEPT !.held = <<s>>] /\ h \in Entries
  <2>1. h = [PageTop EXCEPT !.held = <<s>>]
    BY <1>6 DEF Holding
  <2> QED
    BY <1>3, <1>5, <1>6, <2>1, EntryChanges
<1>8. a.at = 4 * n + 3 /\ a.open = FALSE /\ a.shown = <<>> /\ a.held = <<s>>
    BY <1>6, HoldingFields
<1> HIDE DEF h
<1>9. a \in Entries
    BY <1>3, <1>5, <1>7, EntryChanges DEF Moved
<1> HIDE DEF a
<1>10. Word(d, 4 * n + 3, 4 * n + 4)
  <2>1. \A k \in 4 * n + 3..(4 * n + 4) - 1 : k = 4 * n + 3
    BY <1>1
  <2>2. 39 \notin Delimiter \cup {EOF}
    BY DEF Delimiter, Skipped, EOF, Space, LF, CR, RParen, Greater, LParen, Less, LBracket,
           RBracket, Percent
  <2> QED
    BY <1>1, <2>1, <2>2 DEF Word
<1>11. t \in ShowString
  <2>1. SubSeq(d, 4 * n + 3, 4 * n + 3) = <<39>>
    <3>1. 4 * n + 3 \in 1..Len(d)
        BY <1>1
    <3> QED
        BY <1>1, <3>1, WordBegins
  <2> QED
    BY <1>5, <2>1 DEF ShowString
<1> HIDE DEF t
<1>12. g = [a EXCEPT !.held = <<>>, !.shown = Append(s, LF)] /\ g \in Entries
  <2>1. a.held # <<>> /\ a.held[1] = s
    BY <1>8
  <2>2. g = [a EXCEPT !.held = <<>>,
                      !.shown = IF a.held = <<>> THEN a.shown ELSE a.shown \o Append(a.held[1], LF)]
    BY <1>8, <1>11 DEF Executed
  <2>3. (IF a.held = <<>> THEN a.shown ELSE a.shown \o Append(a.held[1], LF)) = Append(s, LF)
    BY <1>4, <1>8, <2>1
  <2>4. g = [a EXCEPT !.held = <<>>, !.shown = Append(s, LF)]
    BY <2>2, <2>3
  <2>5. [a EXCEPT !.held = <<>>, !.shown = Append(s, LF)] \in Entries
    <3> DEFINE u == Append(s, LF)
    <3>1. u \in Seq(Byte)
        BY <1>4
    <3> HIDE DEF u, g
    <3>2. [a EXCEPT !.held = <<>>, !.shown = u] \in Entries
        BY <1>3, <1>5, <1>9, <3>1, EntryChanges
    <3> QED
        BY <3>2 DEF u
  <2> HIDE DEF g
  <2> QED
    BY <2>4, <2>5
<1>13. z.at = 4 * n + 4 /\ z.shown = Append(s, LF)
  <2>1. g.shown = Append(s, LF)
    BY <1>9, <1>12 DEF Entries
  <2> HIDE DEF g
  <2> QED
    BY <1>12, <2>1 DEF Moved, Entries
<1>14. z \in Entries
  <2> HIDE DEF g
  <2> QED
    BY <1>3, <1>5, <1>12, EntryChanges DEF Moved
<1>15. Piece(d, PageTop, a)
    BY <1>2, <1>6, <1>8 DEF Piece, a, h
<1>16. Piece(d, a, z)
  <2>1. z = Moved(Executed(a, SubSeq(d, 4 * n + 3, (4 * n + 4) - 1)), 4 * n + 4)
    BY DEF t
  <2> HIDE DEF z, g
  <2> QED
    BY <1>8, <1>10, <1>13, <2>1 DEF Piece
<1> HIDE DEF g, z
<1>17. P \in Seq(Entries) /\ Len(P) = 3 /\ P[1] = PageTop /\ P[2] = a /\ P[3] = z
    BY <1>6, <1>9, <1>14
<1> HIDE DEF P
<1>18. ASSUME NEW k \in 1..Len(P) - 1
       PROVE  P[k].at < P[k + 1].at /\ P[k + 1].at <= Len(d) + 1 /\ Piece(d, P[k], P[k + 1])
  <2>1. k = 1 \/ k = 2
    BY <1>17
  <2>2. CASE k = 1
    BY <1>1, <1>6, <1>8, <1>15, <1>17, <2>2
  <2>3. CASE k = 2
    BY <1>1, <1>8, <1>13, <1>16, <1>17, <2>3
  <2> QED
    BY <2>1, <2>2, <2>3
<1>19. WrittenPage(d, P)
    BY <1>1, <1>6, <1>13, <1>17, <1>18 DEF WrittenPage
<1>20. P[Len(P)].shown = Append(s, LF)
    BY <1>13, <1>17
<1> QED
    BY <1>19, <1>20 DEF d

\* Every string of bytes can be written so that its page shows it and nothing else:
\* what PagesShowWhatIsWritten promises is promised of a page for every text there
\* is (pdf.go 223-246, 85-97).
THEOREM EveryStringIsShown ==
    ASSUME NEW s \in Seq(Byte)
    PROVE  Spec => [](mode = "scan" /\ At(pos) = EOF /\ Data = OctalPage(s) => out = Append(s, LF))
<1>1. ShowsWritten => (mode = "scan" /\ At(pos) = EOF /\ Data = OctalPage(s) => out = Append(s, LF))
  <2>1. PICK P : WrittenPage(OctalPage(s), P) /\ P[Len(P)].shown = Append(s, LF)
    BY OctalPageWritten
  <2> QED
    BY <2>1 DEF ShowsWritten
<1> QED
    BY <1>1, PagesShowWhatIsWritten, PTL

=============================================================================
