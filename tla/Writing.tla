------------------------------- MODULE Writing -------------------------------
(***************************************************************************)
(* How a page d comes to show what it shows, as its writer sees it: the    *)
(* page is a sequence of pieces, and a string a sequence of units, each of *)
(* which adds what it stands for to what was written before it.            *)
(***************************************************************************)
EXTENDS Lexemes

(* A literal string: where it has got to, the parentheses open, its bytes. *)

Adds(d, p) ==
    IF On(d, p + 1) \in {CR, LF} THEN <<>>
    ELSE IF OctalDigits(d, p) = 0 THEN <<Unescaped(On(d, p + 1))>>
    ELSE <<OctalNumber(d, p) % 256>>

\* A byte for itself, or an escape.
StringUnit(d, w, x) ==
    LET p == w.at
        b == On(d, p)
    IN  \/ /\ b # Backslash
           /\ x.at = p + 1
           /\ x.depth = w.depth + (IF b = LParen THEN 1 ELSE IF b = RParen THEN -1 ELSE 0)
           /\ x.value = IF x.depth = 0 THEN w.value ELSE Append(w.value, b)
        \/ /\ b = Backslash
           /\ x.at = p + Width(d, p) /\ x.depth = w.depth
           /\ x.value = w.value \o Adds(d, p)

StringRun(d, i, W) ==
    /\ On(d, i) = LParen
    /\ W \in Seq([at : Nat, depth : Nat, value : Seq(Byte)]) /\ Len(W) > 0
    /\ W[1] = [at |-> i + 1, depth |-> 1, value |-> <<>>]
    /\ \A m \in 1..Len(W) - 1 :
        W[m].depth > 0 /\ W[m].at <= Len(d) /\ StringUnit(d, W[m], W[m + 1])

WrittenString(d, i, j, s) ==
    \E W : StringRun(d, i, W) /\ W[Len(W)] = [at |-> j, depth |-> 0, value |-> s]

(* An inline dictionary, with the dictionaries in it *)

Doubled(d, p, b) == On(d, p) = b /\ On(d, p + 1) = b

DictUnit(d, w, x) ==
    LET p == w.at IN
    x = IF Doubled(d, p, Less) THEN [at |-> p + 2, depth |-> w.depth + 1]
        ELSE IF Doubled(d, p, Greater) THEN [at |-> p + 2, depth |-> w.depth - 1]
        ELSE [at |-> p + 1, depth |-> w.depth]

DictRun(d, i, W) ==
    /\ Doubled(d, i, Less)
    /\ W \in Seq([at : Nat, depth : Nat]) /\ Len(W) > 0
    /\ W[1] = [at |-> i + 2, depth |-> 1]
    /\ \A m \in 1..Len(W) - 1 :
        W[m].depth > 0 /\ W[m].at <= Len(d) /\ DictUnit(d, W[m], W[m + 1])

WrittenDict(d, i, j) == \E W : DictRun(d, i, W) /\ W[Len(W)] = [at |-> j, depth |-> 0]

-----------------------------------------------------------------------------
(* A page: where it has got to, the operands there, and what it shows. *)

Entries == [at : Nat, held : Seq(Seq(Byte)), array : Seq(Byte), open : BOOLEAN, shown : Seq(Byte)]

PageTop == [at |-> 1, held |-> <<>>, array |-> <<>>, open |-> FALSE, shown |-> <<>>]

Moved(o, j) == [o EXCEPT !.at = j]
Opened(o) == [o EXCEPT !.open = TRUE, !.array = <<>>]
Closed(o) == [o EXCEPT !.open = FALSE]

Holding(o, s) ==
    IF o.open THEN [o EXCEPT !.array = @ \o s] ELSE [o EXCEPT !.held = <<s>>]

Executed(o, w) ==
    IF o.open /\ w \in DOMAIN Kerning
    THEN IF Kerning[w] <= wordBreakKerningThreshold THEN [o EXCEPT !.array = Append(@, Space)]
                                                    ELSE o
    ELSE IF w \in ShowString
    THEN [o EXCEPT !.held = <<>>,
                   !.shown = IF o.held = <<>> THEN @ ELSE @ \o Append(o.held[1], LF)]
    ELSE IF w = ShowArray
    THEN [o EXCEPT !.array = <<>>, !.shown = @ \o Append(o.array, LF)]
    ELSE o

Between(d, i, j) ==
    (On(d, i) \in Skipped /\ j = i + 1) \/ CommentLine(d, i, j) \/ WrittenDict(d, i, j)

Piece(d, o, x) ==
    LET i == o.at
        j == x.at
    IN  \/ Between(d, i, j) /\ x = Moved(o, j)
        \/ On(d, i) = LBracket /\ x = Moved(Opened(o), i + 1)
        \/ On(d, i) = RBracket /\ x = Moved(Closed(o), i + 1)
        \/ \E s : WrittenString(d, i, j, s) /\ x = Moved(Holding(o, s), j)
        \/ HexString(d, i, j) /\ x = Moved(Holding(o, HexBytes(d, i, j)), j)
        \/ Word(d, i, j) /\ x = Moved(Executed(o, SubSeq(d, i, j - 1)), j)

WrittenPage(d, P) ==
    /\ P \in Seq(Entries) /\ Len(P) > 0 /\ P[1] = PageTop
    /\ \A k \in 1..Len(P) - 1 :
        P[k].at < P[k + 1].at /\ P[k + 1].at <= Len(d) + 1 /\ Piece(d, P[k], P[k + 1])
    /\ P[Len(P)].at = Len(d) + 1

=============================================================================
