------------------------------- MODULE Lexemes -------------------------------
(***************************************************************************)
(* What the strings, words and comments of a content stream d are, and     *)
(* what the strings stand for, told from the bytes between two positions   *)
(* and not by how a tokenizer would find them.  A lexeme reaches from i to *)
(* just before j; beyond the last byte there is EOF.                       *)
(***************************************************************************)
EXTENDS ContentSyntax, FiniteSets

On(d, p) == IF p \in 1..Len(d) THEN d[p] ELSE EOF

\* The elements of a finite set of positions in order.
Ordered(P) ==
    [n \in 1..Cardinality(P) |->
        CHOOSE p \in {q \in P : Cardinality({x \in P : x <= q}) = n} : TRUE]

-----------------------------------------------------------------------------
(* Literal strings.  The string begins at i, an escape in it at e. *)

\* An even number of backslashes, or none, stand right before p.
EvenRun(d, i, p) ==
    \E r \in i + 1..p :
        /\ \A x \in r..p - 1 : On(d, x) = Backslash
        /\ r = i + 1 \/ On(d, r - 1) # Backslash
        /\ (p - r) % 2 = 0

\* A backslash escapes what follows unless it is escaped itself.  One at the
\* very end stands for itself.
Escapes(d, i, e) == On(d, e) = Backslash /\ On(d, e + 1) # EOF /\ EvenRun(d, i, e)

OctalDigits(d, e) ==
    IF On(d, e + 1) \notin OctalDigit THEN 0
    ELSE IF On(d, e + 2) \notin OctalDigit THEN 1
    ELSE IF On(d, e + 3) \notin OctalDigit THEN 2 ELSE 3

OctalNumber(d, e) ==
    LET v(n) == On(d, e + n) - 48 IN
    CASE OctalDigits(d, e) = 1 -> v(1)
      [] OctalDigits(d, e) = 2 -> 8 * v(1) + v(2)
      [] OctalDigits(d, e) = 3 -> 64 * v(1) + 8 * v(2) + v(3)

Width(d, e) ==
    IF On(d, e + 1) = CR /\ On(d, e + 2) = LF THEN 3
    ELSE IF OctalDigits(d, e) = 0 THEN 2 ELSE 1 + OctalDigits(d, e)

\* Position k is not inside an escape.
Boundary(d, i, k) == \A e \in i + 1..k - 1 : Escapes(d, i, e) => e + Width(d, e) <= k

\* The bytes and escapes between i and j.
Marks(d, i, j) == {k \in i + 1..j - 1 : Boundary(d, i, k)}

\* Parentheses open at j; escaped ones do not count.
Depth(d, i, j) ==
    1 + Cardinality({k \in Marks(d, i, j) : On(d, k) = LParen})
      - Cardinality({k \in Marks(d, i, j) : On(d, k) = RParen})

\* An escaped line end stands for nothing.
Folds(d, i, k) == Escapes(d, i, k) /\ On(d, k + 1) \in {CR, LF}

Meaning(d, i, k) ==
    IF ~Escapes(d, i, k) THEN On(d, k)
    ELSE IF OctalDigits(d, k) = 0 THEN Unescaped(On(d, k + 1))
    ELSE OctalNumber(d, k) % 256

LiteralBytes(d, i, j) ==
    LET P == Ordered({k \in Marks(d, i, j) : ~Folds(d, i, k)}) IN
    [n \in DOMAIN P |-> Meaning(d, i, P[n])]

\* A literal ends where its parentheses balance for the first time.
OpenLiteral(d, i, j) ==
    On(d, i) = LParen /\ Boundary(d, i, j) /\ \A k \in i + 1..j : Depth(d, i, k) > 0

ClosedLiteral(d, i, j) ==
    On(d, i) = LParen /\ Depth(d, i, j) = 0 /\ \A k \in i + 1..j - 1 : Depth(d, i, k) > 0

-----------------------------------------------------------------------------
(* Hexadecimal strings, words and what lies between them *)

HexString(d, i, j) ==
    /\ On(d, i) = Less /\ On(d, i + 1) # Less
    /\ \A k \in i + 1..j - 2 : On(d, k) # Greater
    /\ On(d, j - 1) = Greater \/ On(d, j) = EOF

\* What is not a digit does not count, and a missing last digit is a zero.
HexBytes(d, i, j) ==
    LET P == Ordered({k \in i + 1..j - 1 : isHexDigit(On(d, k))})
        v(n) == IF n <= Len(P) THEN Nibble(On(d, P[n])) ELSE 0
    IN  [n \in 1..(Len(P) + 1) \div 2 |-> 16 * v(2 * n - 1) + v(2 * n)]

Word(d, i, j) ==
    /\ \A k \in i..j - 1 : On(d, k) \notin Delimiter \cup {EOF}
    /\ On(d, j) \in Delimiter \cup {EOF}

CommentLine(d, i, j) ==
    /\ On(d, i) = Percent /\ On(d, j) \in {LF, CR, EOF}
    /\ \A k \in i..j - 1 : On(d, k) \notin {LF, CR, EOF}

\* Which >> closes it is left open.
Dictionary(d, i, j) ==
    /\ On(d, i) = Less /\ On(d, i + 1) = Less
    /\ On(d, j) = EOF \/ (On(d, j - 2) = Greater /\ On(d, j - 1) = Greater)

=============================================================================
