---------------------------- MODULE PdfTextProofs ----------------------------
(***************************************************************************)
(* For every set of files: the tokenizer keeps its types, never holds more *)
(* bytes than it has read, never reads past the end of a page and moves on *)
(* with every step.                                                        *)
(***************************************************************************)
EXTENDS PdfText, SequenceTheorems, TLAPS

Inv == TypeOK /\ NoLongerThanPage

\* What the tokenizer leaves alone.
Frame ==
    /\ start' = IF mode = "scan" THEN pos ELSE start
    /\ UNCHANGED <<file, page, text, answer>>

\* A byte is read inside the page, and only there.
LEMMA AtByte ==
    ASSUME Data \in Seq(Byte), NEW p \in Nat \ {0}
    PROVE  /\ At(p) \in Byte \cup {EOF}
           /\ At(p) # EOF <=> p <= Len(Data)
<1>1. CASE p <= Len(Data)
    <2>1. p \in 1..Len(Data) BY <1>1
    <2>2. Data[p] \in Byte BY <2>1
    <2>3. At(p) = Data[p] BY <1>1 DEF At
    <2>4. EOF \notin Byte BY DEF EOF, Byte
    <2> QED BY <1>1, <2>2, <2>3, <2>4
<1>2. CASE ~(p <= Len(Data)) BY <1>2 DEF At
<1> QED BY <1>1, <1>2

\* What a line, a gap and an element add to the text.
LEMMA AppendLength ==
    ASSUME NEW s \in Seq(Byte), NEW b \in Byte
    PROVE  Append(s, b) \in Seq(Byte) /\ Len(Append(s, b)) = Len(s) + 1 /\ Len(s) \in Nat
OBVIOUS

LEMMA ConcatLength ==
    ASSUME NEW s \in Seq(Byte), NEW t \in Seq(Byte)
    PROVE  s \o t \in Seq(Byte) /\ Len(s \o t) = Len(s) + Len(t)
OBVIOUS

\* Going on at p with nothing collected keeps the invariant.
LEMMA EnterKeeps ==
    ASSUME Inv, mode \in Modes, Frame, UNCHANGED <<operands, out>>,
           NEW m \in Modes, NEW p \in Nat, NEW d \in Nat, Enter(m, p, d),
           pos <= p, p <= Len(Data) + 1
    PROVE  Inv'
<1>1. Data' = Data /\ buf' = <<>> BY DEF Frame, Data, Enter
<1>2. TypeOK' BY <1>1 DEF Inv, TypeOK, Frame, Enter, operands, Modes
<1>3. NoLongerThanPage'
    BY <1>1 DEF NoLongerThanPage, Inv, TypeOK, Enter, operands, Frame
<1> QED BY <1>2, <1>3 DEF Inv

\* So does collecting no more bytes than were read.
LEMMA CollectKeeps ==
    ASSUME Inv, mode \in Modes, Frame, NEW s \in Seq(Byte), NEW p \in Nat, Collect(s, p),
           mode = "hex" => s \in Seq(0..15),
           pos + Len(s) <= p, p <= Len(Data) + 1
    PROVE  Inv'
<1>1. buf' \in Seq(Byte) /\ Len(buf') = Len(buf) + Len(s)
    BY DEF Collect, Inv, TypeOK
<1>2. TypeOK'
    <2>1. mode' = "hex" => buf' \in Seq(0..15) BY DEF Collect, Inv, TypeOK
    <2>2. Data' = Data BY DEF Frame, Data
    <2> QED BY <1>1, <2>1, <2>2 DEF Inv, TypeOK, Frame, Collect, operands
<1>3. NoLongerThanPage'
    <2>1. Data' = Data BY DEF Frame, Data
    <2> QED BY <1>1, <2>1
        DEF NoLongerThanPage, Inv, TypeOK, Collect, operands, Frame
<1> QED BY <1>2, <1>3 DEF Inv

\* So does turning what was collected into an operand that is no longer.
LEMMA OperandKeeps ==
    ASSUME Inv, mode \in Modes, Frame, NEW s \in Seq(Byte), NEW p \in Nat, Operand(s, p),
           Len(s) <= Len(buf), pos <= p, p <= Len(Data) + 1
    PROVE  Inv'
<1>1. /\ arr' \in Seq(Byte) /\ last' \in Seq(Byte)
      /\ Len(last') + Len(arr') <= Len(last) + Len(arr) + Len(s)
    BY DEF Operand, Inv, TypeOK
<1>2. Data' = Data /\ buf' = <<>> BY DEF Frame, Data, Operand, Enter
<1>3. TypeOK'
    BY <1>1, <1>2 DEF Inv, TypeOK, Frame, Operand, Enter, Modes
<1>4. NoLongerThanPage'
    BY <1>1, <1>2 DEF NoLongerThanPage, Inv, TypeOK, Operand, Enter, Frame
<1> QED BY <1>3, <1>4 DEF Inv

-----------------------------------------------------------------------------
(* One lemma per group of steps of the tokenizer. *)

LEMMA ScanKeeps == Inv /\ Scan /\ Frame => Inv'
<1> SUFFICES ASSUME Inv, Scan, Frame PROVE Inv'
    OBVIOUS
<1>1. Data \in Seq(Byte) /\ Data' = Data /\ mode \in Modes
    BY DEF Inv, TypeOK, Scan, Modes, Frame, Data
<1>2. At(pos) # EOF /\ At(pos) \in Byte /\ pos <= Len(Data)
    <2>1. At(pos) \in Byte \cup {EOF} /\ (At(pos) # EOF <=> pos <= Len(Data))
        BY <1>1, AtByte DEF Inv, TypeOK
    <2>2. At(pos) # EOF
        BY DEF Scan, Skipped, Delimiter, EOF, Space, LF, CR, LParen, RParen, Less,
               Greater, LBracket, RBracket, Percent
    <2> QED BY <2>1, <2>2
<1>3. /\ mode' \in Modes \ {"hex"} \/ (mode' = "hex" /\ buf' = <<>>)
      /\ depth' \in Nat /\ pos' \in Nat
      /\ buf' \in Seq(Byte) /\ pos + 1 <= pos' /\ pos' <= Len(Data) + 1
      /\ Len(buf') <= 1
    <2>1. At(pos + 1) = Less => pos + 1 <= Len(Data)
        BY <1>1, AtByte DEF Inv, TypeOK, EOF, Less
    <2>2. <<>> \in Seq(Byte) /\ Len(<<>>) = 0 /\ pos \in Nat
        BY DEF Inv, TypeOK
    <2>3. <<At(pos)>> \in Seq(Byte) /\ Len(<<At(pos)>>) = 1
        BY <1>2
    <2>4. Len(Data) \in Nat BY <1>1
    <2>5. CASE pos' = pos + 1 /\ mode' = "token" /\ depth' = 0 /\ buf' = <<At(pos)>>
        BY <1>2, <2>2, <2>3, <2>4, <2>5 DEF Modes
    <2>6. CASE \E m \in {"scan", "comment", "literal", "hex"}, d \in {0, 1} : Enter(m, pos + 1, d)
        <3>1. /\ pos' = pos + 1 /\ buf' = <<>> /\ depth' \in {0, 1}
              /\ mode' \in {"scan", "comment", "literal", "hex"}
            BY <2>6 DEF Enter
        <3>2. mode' \in Modes BY <3>1 DEF Modes
        <3>3. depth' \in Nat BY <3>1
        <3>4. pos' \in Nat /\ pos + 1 <= pos' /\ pos' <= Len(Data) + 1
            BY <1>2, <2>2, <2>4, <3>1
        <3> QED BY <2>2, <3>1, <3>2, <3>3, <3>4
    <2>7. CASE At(pos + 1) = Less /\ Enter("dict", pos + 2, 1)
        BY <1>2, <2>1, <2>2, <2>4, <2>7 DEF Enter, Modes
    <2> QED BY <2>5, <2>6, <2>7 DEF Scan
<1>4. arr' \in Seq(Byte) /\ Len(arr') <= Len(arr)
    BY DEF Scan, Inv, TypeOK
<1>5. TypeOK'
    <2>1. mode' \in Modes /\ (mode' = "hex" => buf' \in Seq(0..15))
        BY <1>3 DEF Modes
    <2>2. haveLast' \in BOOLEAN /\ inArray' \in BOOLEAN /\ pos' # 0 /\ pos \in Nat
        BY <1>3 DEF Scan, Inv, TypeOK
    <2> QED BY <1>1, <1>3, <1>4, <2>1, <2>2 DEF Inv, TypeOK, Scan, Frame
<1>6. NoLongerThanPage'
    <2>1. last' = last /\ out' = out BY DEF Scan
    <2>2. Len(buf) >= 0 /\ Len(out) + Len(last) + Len(arr) + Len(buf) < pos
        BY <1>1 DEF NoLongerThanPage, Inv, TypeOK
    <2> QED BY <1>1, <1>3, <1>4, <2>1, <2>2 DEF NoLongerThanPage, Inv, TypeOK
<1> QED BY <1>5, <1>6 DEF Inv

LEMMA CommentKeeps == Inv /\ Comment /\ Frame => Inv'
<1> SUFFICES ASSUME Inv, Comment, Frame PROVE Inv'
    OBVIOUS
<1>1. Data \in Seq(Byte) /\ mode \in Modes /\ {"scan", "comment"} \subseteq Modes
    BY DEF Inv, TypeOK, Comment, Modes
<1>2. At(pos) # EOF <=> pos <= Len(Data) BY <1>1, AtByte DEF Inv, TypeOK
<1>3. pos \in Nat /\ pos <= Len(Data) + 1 BY <1>1 DEF Inv, TypeOK, NoLongerThanPage
<1>4. CASE At(pos) \in {LF, CR, EOF}
    <2>1. Enter("scan", pos, 0) BY <1>4 DEF Comment
    <2> QED BY <1>1, <1>3, <2>1, EnterKeeps DEF Comment
<1>5. CASE At(pos) \notin {LF, CR, EOF}
    <2>1. Enter("comment", pos + 1, 0) BY <1>5 DEF Comment
    <2> QED BY <1>1, <1>2, <1>3, <1>5, <2>1, EnterKeeps DEF Comment
<1> QED BY <1>4, <1>5

LEMMA DictKeeps == Inv /\ skipDict /\ Frame => Inv'
<1> SUFFICES ASSUME Inv, skipDict, Frame PROVE Inv'
    OBVIOUS
<1>1. Data \in Seq(Byte) /\ mode \in Modes /\ {"scan", "dict"} \subseteq Modes
    BY DEF Inv, TypeOK, skipDict, Modes
<1>2. At(pos) # EOF <=> pos <= Len(Data) BY <1>1, AtByte DEF Inv, TypeOK
<1>3. At(pos + 1) # EOF <=> pos + 1 <= Len(Data) BY <1>1, AtByte DEF Inv, TypeOK
<1>4. pos \in Nat /\ depth \in Nat /\ pos <= Len(Data) + 1
    BY <1>1 DEF Inv, TypeOK, NoLongerThanPage
<1>5. UNCHANGED <<operands, out>> BY DEF skipDict
<1>6. CASE depth = 0 \/ At(pos) = EOF
    <2>1. Enter("scan", pos, 0) BY <1>6 DEF skipDict
    <2> QED BY <1>1, <1>4, <1>5, <2>1, EnterKeeps
<1>7. CASE ~(depth = 0 \/ At(pos) = EOF)
    <2>1. CASE Pair(Less)
        <3>1. Enter("dict", pos + 2, depth + 1) BY <1>7, <2>1 DEF skipDict
        <3>2. pos + 2 <= Len(Data) + 1 BY <1>3, <1>4, <2>1 DEF Pair, Less, EOF
        <3> QED BY <1>1, <1>4, <1>5, <3>1, <3>2, EnterKeeps
    <2>2. CASE ~Pair(Less) /\ Pair(Greater)
        <3>1. Enter("dict", pos + 2, depth - 1) BY <1>7, <2>2 DEF skipDict
        <3>2. pos + 2 <= Len(Data) + 1 BY <1>3, <1>4, <2>2 DEF Pair, Greater, EOF
        <3>3. depth - 1 \in Nat BY <1>4, <1>7
        <3> QED BY <1>1, <1>4, <1>5, <3>1, <3>2, <3>3, EnterKeeps
    <2>3. CASE ~Pair(Less) /\ ~Pair(Greater)
        <3>1. Enter("dict", pos + 1, depth) BY <1>7, <2>3 DEF skipDict
        <3>2. pos + 1 <= Len(Data) + 1 BY <1>2, <1>4, <1>7
        <3> QED BY <1>1, <1>4, <1>5, <3>1, <3>2, EnterKeeps
    <2> QED BY <2>1, <2>2, <2>3
<1> QED BY <1>6, <1>7

LEMMA TokenByteKeeps == Inv /\ TokenByte /\ Frame => Inv'
<1> SUFFICES ASSUME Inv, TokenByte, Frame PROVE Inv'
    OBVIOUS
<1>1. Data \in Seq(Byte) /\ mode \in Modes /\ mode # "hex"
    BY DEF Inv, TypeOK, TokenByte, Modes
<1>2. At(pos) \in Byte /\ pos <= Len(Data) /\ pos \in Nat
    <2>1. At(pos) \in Byte \cup {EOF} /\ (At(pos) # EOF <=> pos <= Len(Data))
        BY <1>1, AtByte DEF Inv, TypeOK
    <2> QED BY <2>1 DEF TokenByte, Inv, TypeOK
<1>3. <<At(pos)>> \in Seq(Byte) /\ Len(<<At(pos)>>) = 1 BY <1>2
<1>4. Collect(<<At(pos)>>, pos + 1) BY DEF TokenByte
<1>5. pos + 1 \in Nat /\ pos + 1 <= Len(Data) + 1 /\ pos + Len(<<At(pos)>>) <= pos + 1
    BY <1>1, <1>2, <1>3
<1> QED BY <1>1, <1>3, <1>4, <1>5, CollectKeeps

LEMMA TokenEndsKeeps == Inv /\ TokenEnds /\ Frame => Inv'
<1> SUFFICES ASSUME Inv, TokenEnds, Frame PROVE Inv'
    OBVIOUS
<1>1. Data' = Data /\ buf' = <<>> /\ mode' = "scan" /\ pos' = pos /\ depth' = 0
    BY DEF TokenEnds, Enter, Frame, Data
<1>2. mode \in Modes /\ mode' \in Modes BY <1>1 DEF TokenEnds, Modes
<1>0. /\ buf \in Seq(Byte) /\ arr \in Seq(Byte) /\ out \in Seq(Byte) /\ last \in Seq(Byte)
      /\ haveLast \in BOOLEAN
      /\ Len(buf) \in Nat /\ Len(arr) \in Nat /\ Len(out) \in Nat /\ Len(last) \in Nat
      /\ <<>> \in Seq(Byte) /\ Len(<<>>) = 0
    BY DEF Inv, TypeOK
<1>3. /\ out' \in Seq(Byte) /\ last' \in Seq(Byte) /\ arr' \in Seq(Byte)
      /\ haveLast' \in BOOLEAN
      /\ Len(out') + Len(last') + Len(arr') <= Len(out) + Len(last) + Len(arr) + Len(buf)
    <2>1. LF \in Byte /\ Space \in Byte BY DEF LF, Space, Byte
    <2>2. CASE Kern
        <3>1. Len(buf) >= 1
            <4>1. buf \in Seq(Byte) /\ buf # <<>> BY <2>2, KerningAssumption DEF Kern
            <4> QED BY <4>1
        <3>2. out' = out /\ last' = last /\ haveLast' = haveLast BY <2>2 DEF Kern
        <3>3. arr' = arr \/ arr' = Append(arr, Space) BY <2>2 DEF Kern
        <3>4. /\ Append(arr, Space) \in Seq(Byte)
              /\ Len(Append(arr, Space)) = Len(arr) + 1
            BY <1>0, <2>1, AppendLength
        <3>5. arr' \in Seq(Byte) /\ Len(arr') \in Nat /\ Len(arr') <= Len(arr) + 1
            <4>1. CASE arr' = arr BY <1>0, <4>1
            <4>2. CASE arr' = Append(arr, Space) BY <1>0, <3>4, <4>2
            <4> QED BY <3>3, <4>1, <4>2
        <3> QED BY <1>0, <3>1, <3>2, <3>5
    <2>3. CASE flushOperator
        <3>1. CASE buf \in ShowString
            <4>1. Len(buf) >= 1 BY <3>1 DEF ShowString
            <4>2. buf # ShowArray BY <3>1 DEF ShowString, ShowArray
            <4>3. /\ out' = IF haveLast THEN out \o Append(last, LF) ELSE out
                  /\ last' = <<>> /\ haveLast' = FALSE /\ arr' = arr
                BY <2>3, <3>1, <4>2 DEF flushOperator
            <4>4. Append(last, LF) \in Seq(Byte) /\ Len(Append(last, LF)) = Len(last) + 1
                BY <1>0, <2>1, AppendLength
            <4>5. /\ out \o Append(last, LF) \in Seq(Byte)
                  /\ Len(out \o Append(last, LF)) = Len(out) + Len(last) + 1
                BY <1>0, <4>4, ConcatLength
            <4>6. out' \in Seq(Byte) /\ Len(out') \in Nat /\ Len(out') <= Len(out) + Len(last) + 1
                <5>1. CASE haveLast BY <1>0, <4>3, <4>5, <5>1
                <5>2. CASE ~haveLast BY <1>0, <4>3, <5>2
                <5> QED BY <5>1, <5>2
            <4>7. last' \in Seq(Byte) /\ Len(last') = 0 /\ haveLast' \in BOOLEAN
                BY <1>0, <4>3
            <4>8. arr' \in Seq(Byte) /\ Len(arr') = Len(arr) BY <1>0, <4>3
            <4> QED BY <1>0, <4>1, <4>6, <4>7, <4>8
        <3>2. CASE buf = ShowArray
            <4>1. Len(buf) = 2 BY <3>2 DEF ShowArray
            <4>2. buf \notin ShowString BY <3>2 DEF ShowString, ShowArray
            <4>3. /\ out' = out \o Append(arr, LF) /\ arr' = <<>>
                  /\ last' = last /\ haveLast' = haveLast
                BY <2>3, <3>2, <4>2 DEF flushOperator
            <4>4. Append(arr, LF) \in Seq(Byte) /\ Len(Append(arr, LF)) = Len(arr) + 1
                BY <1>0, <2>1, AppendLength
            <4>5. out' \in Seq(Byte) /\ Len(out') = Len(out) + Len(arr) + 1
                BY <1>0, <4>3, <4>4, ConcatLength
            <4>6. arr' \in Seq(Byte) /\ Len(arr') = 0 BY <1>0, <4>3
            <4>7. last' \in Seq(Byte) /\ Len(last') = Len(last) /\ haveLast' \in BOOLEAN
                BY <1>0, <4>3
            <4> QED BY <1>0, <4>1, <4>5, <4>6, <4>7
        <3>3. CASE buf \notin ShowString \cup {ShowArray}
            BY <2>3, <3>3 DEF flushOperator, Inv, TypeOK
        <3> QED BY <3>1, <3>2, <3>3
    <2> QED BY <2>2, <2>3 DEF TokenEnds
<1>4. TypeOK' BY <1>1, <1>2, <1>3 DEF Inv, TypeOK, TokenEnds, Frame
<1>5. NoLongerThanPage' BY <1>1, <1>2, <1>3 DEF NoLongerThanPage, Inv, TypeOK
<1> QED BY <1>4, <1>5 DEF Inv

-----------------------------------------------------------------------------
\* Inside a literal string there is a byte to read, two before an escape.
LEMMA LiteralRoom ==
    ASSUME Inv, InLiteral
    PROVE  /\ mode \in Modes /\ mode # "hex" /\ Data \in Seq(Byte) /\ pos \in Nat \ {0}
           /\ At(pos) \in Byte /\ pos <= Len(Data) /\ Len(Data) \in Nat
           /\ Escaped => At(pos + 1) \in Byte /\ pos + 1 <= Len(Data)
<1>1. mode \in Modes /\ mode # "hex" /\ Data \in Seq(Byte) /\ pos \in Nat \ {0}
    BY DEF Inv, TypeOK, InLiteral, Modes
<1>2. At(pos) \in Byte \cup {EOF} /\ (At(pos) # EOF <=> pos <= Len(Data))
    BY <1>1, AtByte
<1>3. At(pos + 1) \in Byte \cup {EOF} /\ (At(pos + 1) # EOF <=> pos + 1 <= Len(Data))
    BY <1>1, AtByte
<1> QED BY <1>1, <1>2, <1>3 DEF InLiteral, Escaped

LEMMA LiteralByteKeeps == Inv /\ LiteralByte /\ Frame => Inv'
<1> SUFFICES ASSUME Inv, LiteralByte, Frame PROVE Inv'
    OBVIOUS
<1>0. InLiteral BY DEF LiteralByte
<1>1. /\ mode \in Modes /\ mode # "hex" /\ pos \in Nat \ {0} /\ Data \in Seq(Byte)
      /\ At(pos) \in Byte /\ pos <= Len(Data) /\ Len(Data) \in Nat
    BY <1>0, LiteralRoom
<1>2. Data' = Data BY DEF Frame, Data
<1>3. depth' \in Nat
    <2>1. depth \in Nat /\ depth > 0 BY <1>0 DEF InLiteral, Inv, TypeOK
    <2>2. depth' \in {depth, depth + 1, depth - 1} BY DEF LiteralByte
    <2> QED BY <2>1, <2>2
<1>4. buf' \in Seq(Byte) /\ Len(buf') \in Nat /\ Len(buf') <= Len(buf) + 1
    <2>1. buf \in Seq(Byte) /\ Len(buf) \in Nat BY DEF Inv, TypeOK
    <2>2. Append(buf, At(pos)) \in Seq(Byte) /\ Len(Append(buf, At(pos))) = Len(buf) + 1
        BY <1>1, <2>1, AppendLength
    <2>3. buf' = buf \/ buf' = Append(buf, At(pos)) BY DEF LiteralByte
    <2>4. CASE buf' = buf BY <2>1, <2>4
    <2>5. CASE buf' = Append(buf, At(pos)) BY <2>1, <2>2, <2>5
    <2> QED BY <2>3, <2>4, <2>5
<1>5. UNCHANGED <<mode, operands, out>> /\ pos' = pos + 1 BY DEF LiteralByte
<1>6. TypeOK' BY <1>1, <1>2, <1>3, <1>4, <1>5 DEF Inv, TypeOK, Frame, operands
<1>7. NoLongerThanPage'
    BY <1>1, <1>2, <1>4, <1>5 DEF Inv, TypeOK, NoLongerThanPage, operands
<1> QED BY <1>6, <1>7 DEF Inv

LEMMA EscapeKeeps == Inv /\ Escape /\ Frame => Inv'
<1> SUFFICES ASSUME Inv, Escape, Frame PROVE Inv'
    OBVIOUS
<1> DEFINE b == Unescaped(At(pos + 1))
<1>1. Escaped /\ InLiteral /\ Collect(<<b>>, pos + 2) BY DEF Escape, Escaped
<1>2. b \in Byte
    <2>1. At(pos + 1) \in Byte BY <1>1, LiteralRoom
    <2>2. LF \in Byte /\ CR \in Byte /\ 8 \in Byte /\ 9 \in Byte /\ 12 \in Byte
        BY DEF LF, CR, Byte
    <2> QED BY <2>1, <2>2 DEF Unescaped
<1> HIDE DEF b
<1>3. <<b>> \in Seq(Byte) /\ Len(<<b>>) = 1 BY <1>2
<1>4. /\ mode \in Modes /\ mode # "hex" /\ pos + 2 \in Nat
      /\ pos + Len(<<b>>) <= pos + 2 /\ pos + 2 <= Len(Data) + 1
    BY <1>1, <1>3, LiteralRoom
<1> QED BY <1>1, <1>3, <1>4, CollectKeeps

LEMMA LineContinuationKeeps == Inv /\ LineContinuation /\ Frame => Inv'
<1> SUFFICES ASSUME Inv, LineContinuation, Frame PROVE Inv'
    OBVIOUS
<1>1. Escaped /\ InLiteral BY DEF LineContinuation, Escaped
<1>2. /\ mode \in Modes /\ mode # "hex" /\ pos \in Nat \ {0} /\ Data \in Seq(Byte)
      /\ pos + 1 <= Len(Data) /\ Len(Data) \in Nat
    BY <1>1, LiteralRoom
<1>3. At(pos + 2) # EOF <=> pos + 2 <= Len(Data) BY <1>2, AtByte
<1>4. <<>> \in Seq(Byte) /\ Len(<<>>) = 0 OBVIOUS
<1>5. CASE At(pos + 1) = CR /\ At(pos + 2) = LF
    <2>1. Collect(<<>>, pos + 3) BY <1>5 DEF LineContinuation
    <2>2. pos + 3 <= Len(Data) + 1 /\ pos + 3 \in Nat /\ pos + 0 <= pos + 3
        BY <1>2, <1>3, <1>5 DEF LF, EOF
    <2> QED BY <1>2, <1>4, <2>1, <2>2, CollectKeeps
<1>6. CASE ~(At(pos + 1) = CR /\ At(pos + 2) = LF)
    <2>1. Collect(<<>>, pos + 2) BY <1>6 DEF LineContinuation
    <2>2. pos + 2 <= Len(Data) + 1 /\ pos + 2 \in Nat /\ pos + 0 <= pos + 2
        BY <1>2
    <2> QED BY <1>2, <1>4, <2>1, <2>2, CollectKeeps
<1> QED BY <1>5, <1>6

LEMMA LowByte == ASSUME NEW v \in Int PROVE v % 256 \in Byte
BY DEF Byte

\* Each digit that is read is a byte of the page, and one byte is written.
LEMMA OctalValue ==
    ASSUME NEW x \in 0..7, NEW y \in 0..7, NEW z \in 0..7
    PROVE  64 * x + 8 * y + z \in Int
OBVIOUS

LEMMA OctalEscapeKeeps == Inv /\ OctalEscape /\ Frame => Inv'
<1> SUFFICES ASSUME Inv, OctalEscape, Frame PROVE Inv'
    OBVIOUS
<1>1. Escaped /\ InLiteral BY DEF OctalEscape, Escaped
<1>2. /\ mode \in Modes /\ mode # "hex" /\ pos \in Nat \ {0} /\ Data \in Seq(Byte)
      /\ pos + 1 <= Len(Data) /\ Len(Data) \in Nat
    BY <1>1, LiteralRoom
<1>3. \A k \in 1..3 : Octal(pos + k) => At(pos + k) - 48 \in 0..7 /\ pos + k <= Len(Data)
    <2> SUFFICES ASSUME NEW k \in 1..3, Octal(pos + k)
                 PROVE  At(pos + k) - 48 \in 0..7 /\ pos + k <= Len(Data)
        OBVIOUS
    <2>1. At(pos + k) \in 48..55 BY DEF Octal, OctalDigit
    <2>2. pos + k \in Nat \ {0} BY <1>2
    <2>3. At(pos + k) # EOF <=> pos + k <= Len(Data) BY <1>2, <2>2, AtByte
    <2> QED BY <2>1, <2>3 DEF EOF
<1>4. PICK v \in Int, n \in 1..3 :
        Collect(<<v % 256>>, pos + 1 + n) /\ pos + n <= Len(Data)
    <2> DEFINE d(k) == At(pos + k) - 48
               n == IF ~Octal(pos + 2) THEN 1 ELSE IF ~Octal(pos + 3) THEN 2 ELSE 3
               val == CASE n = 1 -> d(1)
                        [] n = 2 -> 8 * d(1) + d(2)
                        [] n = 3 -> 64 * d(1) + 8 * d(2) + d(3)
    <2>1. Collect(<<val % 256>>, pos + 1 + n) /\ Octal(pos + 1) BY DEF OctalEscape
    <2>2. d(1) \in 0..7 BY <1>3, <2>1
    <2>3. CASE ~Octal(pos + 2)
        <3>1. n = 1 /\ val = d(1) BY <2>3
        <3> QED BY <1>2, <2>1, <2>2, <3>1
    <2>4. CASE Octal(pos + 2) /\ ~Octal(pos + 3)
        <3>1. n = 2 /\ val = 8 * d(1) + d(2) BY <2>4
        <3>2. d(2) \in 0..7 /\ pos + 2 <= Len(Data) BY <1>3, <2>4
        <3>3. val \in Int BY <2>2, <3>1, <3>2
        <3> QED BY <2>1, <3>1, <3>2, <3>3
    <2>5. CASE Octal(pos + 2) /\ Octal(pos + 3)
        <3>1. n = 3 /\ val = 64 * d(1) + 8 * d(2) + d(3) BY <2>5
        <3>2. d(2) \in 0..7 /\ d(3) \in 0..7 /\ pos + 3 <= Len(Data) BY <1>3, <2>5
        <3>3. val \in Int
            <4>1. 64 * d(1) + 8 * d(2) + d(3) \in Int
                <5> HIDE DEF d
                <5> QED BY <2>2, <3>2, OctalValue
            <4> QED BY <3>1, <4>1
        <3> QED BY <2>1, <3>1, <3>2, <3>3
    <2> QED BY <2>3, <2>4, <2>5
<1>5. v % 256 \in Byte BY LowByte
<1>6. <<v % 256>> \in Seq(Byte) /\ Len(<<v % 256>>) = 1 BY <1>5
<1>7. /\ pos + 1 + n \in Nat /\ pos + 1 + n <= Len(Data) + 1
      /\ pos + Len(<<v % 256>>) <= pos + 1 + n
    BY <1>2, <1>4, <1>6
<1> QED BY <1>2, <1>4, <1>6, <1>7, CollectKeeps

LEMMA LiteralEndsKeeps == Inv /\ LiteralEnds /\ Frame => Inv'
<1> SUFFICES ASSUME Inv, LiteralEnds, Frame PROVE Inv'
    OBVIOUS
<1>1. mode \in Modes /\ Operand(buf, pos) BY DEF LiteralEnds, Modes
<1>2. buf \in Seq(Byte) /\ Len(buf) \in Nat /\ pos \in Nat BY DEF Inv, TypeOK
<1>3. pos <= Len(Data) + 1 BY <1>1 DEF Inv, NoLongerThanPage
<1> QED BY <1>1, <1>2, <1>3, OperandKeeps

-----------------------------------------------------------------------------
LEMMA HexByteKeeps == Inv /\ HexByte /\ Frame => Inv'
<1> SUFFICES ASSUME Inv, HexByte, Frame PROVE Inv'
    OBVIOUS
<1>1. /\ mode \in Modes /\ mode = "hex" /\ pos \in Nat \ {0} /\ Data \in Seq(Byte)
      /\ Len(Data) \in Nat
    BY DEF Inv, TypeOK, HexByte, Modes
<1>2. pos <= Len(Data)
    <2>1. At(pos) # EOF <=> pos <= Len(Data) BY <1>1, AtByte
    <2> QED BY <2>1 DEF HexByte
<1>3. CASE isHexDigit(At(pos))
    <2> DEFINE h == Nibble(At(pos))
    <2>1. h \in 0..15 BY <1>3 DEF isHexDigit, Nibble
    <2>2. Collect(<<h>>, pos + 1) BY <1>3 DEF HexByte
    <2> HIDE DEF h
    <2>3. h \in Byte BY <2>1 DEF Byte
    <2>4. <<h>> \in Seq(Byte) /\ <<h>> \in Seq(0..15) /\ Len(<<h>>) = 1 BY <2>1, <2>3
    <2>5. pos + 1 \in Nat /\ pos + Len(<<h>>) <= pos + 1 /\ pos + 1 <= Len(Data) + 1
        BY <1>1, <1>2, <2>4
    <2> QED BY <1>1, <2>2, <2>4, <2>5, CollectKeeps
<1>4. CASE ~isHexDigit(At(pos))
    <2>1. Collect(<<>>, pos + 1) BY <1>4 DEF HexByte
    <2>2. <<>> \in Seq(Byte) /\ <<>> \in Seq(0..15) /\ Len(<<>>) = 0 OBVIOUS
    <2>3. pos + 1 \in Nat /\ pos + 0 <= pos + 1 /\ pos + 1 <= Len(Data) + 1
        BY <1>1, <1>2
    <2> QED BY <1>1, <2>1, <2>2, <2>3, CollectKeeps
<1> QED BY <1>3, <1>4

LEMMA TwoDigits ==
    ASSUME NEW x \in 0..15, NEW y \in 0..15
    PROVE  16 * x + y \in Byte
BY DEF Byte

\* Two digits make a byte, and a last one alone does too.
LEMMA DecodedBytes ==
    ASSUME NEW h \in Seq(0..15)
    PROVE  Decoded(h) \in Seq(Byte) /\ Len(Decoded(h)) <= Len(h)
<1> DEFINE n == (Len(h) + 1) \div 2
           d(k) == 16 * h[2 * k - 1] + (IF 2 * k <= Len(h) THEN h[2 * k] ELSE 0)
<1>1. Len(h) \in Nat /\ n \in Nat /\ n <= Len(h) /\ 2 * n <= Len(h) + 1 OBVIOUS
<1>2. \A k \in 1..n : d(k) \in Byte
    <2> SUFFICES ASSUME NEW k \in 1..n PROVE d(k) \in Byte
        OBVIOUS
    <2>1. 2 * k - 1 \in 1..Len(h) BY <1>1
    <2>2. h[2 * k - 1] \in 0..15 BY <2>1
    <2>3. CASE 2 * k <= Len(h)
        <3>1. 2 * k \in 1..Len(h) BY <1>1, <2>3
        <3>2. h[2 * k] \in 0..15 BY <3>1
        <3>3. d(k) = 16 * h[2 * k - 1] + h[2 * k] BY <2>3
        <3>4. 16 * h[2 * k - 1] + h[2 * k] \in Byte BY <2>2, <3>2, TwoDigits
        <3> QED BY <3>3, <3>4
    <2>4. CASE ~(2 * k <= Len(h))
        <3>1. d(k) = 16 * h[2 * k - 1] + 0 BY <2>4
        <3>2. 16 * h[2 * k - 1] + 0 \in Byte
            <4> DEFINE x == h[2 * k - 1]
            <4>1. x \in 0..15 BY <2>2
            <4> HIDE DEF x
            <4>2. 16 * x + 0 \in Byte BY <4>1 DEF Byte
            <4> QED BY <4>2 DEF x
        <3> QED BY <3>1, <3>2
    <2> QED BY <2>3, <2>4
<1>3. Decoded(h) = [k \in 1..n |-> d(k)] BY DEF Decoded
<1> HIDE DEF n, d
<1>4. [k \in 1..n |-> d(k)] \in [1..n -> Byte] BY <1>2
<1>5. [k \in 1..n |-> d(k)] \in Seq(Byte) /\ Len([k \in 1..n |-> d(k)]) = n
    BY <1>1, <1>4
<1> QED BY <1>1, <1>3, <1>5

LEMMA HexEndsKeeps == Inv /\ HexEnds /\ Frame => Inv'
<1> SUFFICES ASSUME Inv, HexEnds, Frame PROVE Inv'
    OBVIOUS
<1>1. /\ mode \in Modes /\ buf \in Seq(0..15) /\ pos \in Nat \ {0} /\ Data \in Seq(Byte)
      /\ Len(Data) \in Nat
    BY DEF Inv, TypeOK, HexEnds, Modes
<1>2. Decoded(buf) \in Seq(Byte) /\ Len(Decoded(buf)) <= Len(buf) BY <1>1, DecodedBytes
<1>3. At(pos) # EOF <=> pos <= Len(Data) BY <1>1, AtByte
<1>4. pos <= Len(Data) + 1 BY <1>1 DEF Inv, NoLongerThanPage
<1>5. CASE At(pos) = EOF
    <2>1. Operand(Decoded(buf), pos) BY <1>5 DEF HexEnds
    <2> QED BY <1>1, <1>2, <1>4, <2>1, OperandKeeps
<1>6. CASE At(pos) # EOF
    <2>1. Operand(Decoded(buf), pos + 1) BY <1>6 DEF HexEnds
    <2>2. pos + 1 \in Nat /\ pos <= pos + 1 /\ pos + 1 <= Len(Data) + 1 BY <1>1, <1>3, <1>6
    <2> QED BY <1>1, <1>2, <2>1, <2>2, OperandKeeps
<1> QED BY <1>5, <1>6

-----------------------------------------------------------------------------
LEMMA InitInv == Init => Inv
<1> SUFFICES ASSUME Init PROVE Inv
    OBVIOUS
<1>1. file \in Seq(Pages) /\ Len(file) \in Nat BY FilesAssumption DEF Init
<1>2. TypeOK
    <2>1. <<>> \in Seq(Byte) /\ 1 \in 1..Len(file) + 1 BY <1>1
    <2>2. mode = "start" /\ "start" \notin Modes /\ mode # "hex" BY DEF Init, Modes
    <2>3. 1 \in Nat \ {0} /\ 0 \in Nat OBVIOUS
    <2>4. answer \in {"pending", "layer", "blank", "error"} BY DEF Init
    <2>5. mode \in Modes \cup {"start", "turn", "done"} BY <2>2
    <2>6. ~(mode \in Modes) BY <2>2
    <2> QED BY <1>1, <2>1, <2>2, <2>3, <2>4, <2>5, <2>6 DEF Init, TypeOK
<1>3. NoLongerThanPage BY DEF Init, NoLongerThanPage, Modes
<1> QED BY <1>2, <1>3 DEF Inv

LEMMA NextInv == Inv /\ [Next]_vars => Inv'
<1> SUFFICES ASSUME Inv, [Next]_vars PROVE Inv'
    OBVIOUS
<1> USE DEF Inv
<1>1. ASSUME Extract, UNCHANGED start PROVE Inv'
    <2>1. TypeOK' BY <1>1 DEF Extract, TypeOK, stream, operands, Modes, Data
    <2>2. NoLongerThanPage' BY <1>1 DEF Extract, NoLongerThanPage, Modes
    <2> QED BY <2>1, <2>2
<1>2. ASSUME ReadPage, UNCHANGED start PROVE Inv'
    <2>1. page \in 1..Len(file) /\ Len(file) \in Nat BY <1>2 DEF ReadPage, TypeOK
    <2>2. CASE Data = Unreadable
        <3>1. page' = page + 1 /\ page' \in 1..Len(file) + 1 /\ mode' = mode
            BY <1>2, <2>1, <2>2 DEF ReadPage
        <3>2. mode \notin Modes BY <1>2 DEF ReadPage, Modes
        <3>3. TypeOK' BY <1>2, <2>2, <3>1, <3>2 DEF ReadPage, TypeOK, stream, operands
        <3>4. NoLongerThanPage' BY <3>1, <3>2 DEF NoLongerThanPage
        <3> QED BY <3>3, <3>4
    <2>3. CASE Data # Unreadable
        <3>1. /\ mode' = "scan" /\ pos' = 1 /\ depth' = 0 /\ buf' = <<>> /\ out' = <<>>
              /\ last' = <<>> /\ haveLast' = FALSE /\ inArray' = FALSE /\ arr' = <<>>
              /\ UNCHANGED <<file, page, text, answer>>
            BY <1>2, <2>3 DEF ReadPage
        <3>2. Data' = Data BY <3>1 DEF Data
        <3>3. Data \in Seq(Byte)
            <4>1. file[page] \in Pages BY <2>1 DEF TypeOK
            <4> QED BY <2>3, <4>1 DEF Data, Pages
        <3>4. TypeOK'
            <4>1. <<>> \in Seq(Byte) /\ 1 \in Nat \ {0} /\ 0 \in Nat OBVIOUS
            <4>2. mode' \in Modes /\ mode' # "hex" BY <3>1 DEF Modes
            <4>3. page' \in 1..Len(file') + 1 /\ page' <= Len(file') BY <2>1, <3>1
            <4>4. start' \in Nat \ {0} BY <1>2 DEF TypeOK
            <4> QED BY <3>1, <3>2, <3>3, <4>1, <4>2, <4>3, <4>4 DEF TypeOK
        <3>5. NoLongerThanPage' BY <3>1, <3>2, <3>3 DEF NoLongerThanPage
        <3> QED BY <3>4, <3>5
    <2> QED BY <2>2, <2>3
<1>3. ASSUME PageEnds, UNCHANGED start PROVE Inv'
    <2>1. mode \in Modes /\ page \in 1..Len(file) /\ Len(file) \in Nat
        BY <1>3 DEF PageEnds, TypeOK, Modes
    <2>2. mode' = "turn" /\ page' \in 1..Len(file) + 1 /\ mode' \notin Modes
        BY <1>3, <2>1 DEF PageEnds, Modes
    <2>3. text' \in Seq(Byte)
        <3>1. LF \in Byte /\ out \in Seq(Byte) /\ text \in Seq(Byte) BY DEF LF, Byte, TypeOK
        <3>2. Append(out, LF) \in Seq(Byte) BY <3>1, AppendLength
        <3> QED BY <1>3, <3>1, <3>2, ConcatLength DEF PageEnds
    <2>4. TypeOK' BY <1>3, <2>2, <2>3 DEF PageEnds, TypeOK, stream, operands
    <2>5. NoLongerThanPage' BY <2>2 DEF NoLongerThanPage
    <2> QED BY <2>4, <2>5
<1>4. ASSUME Finish, UNCHANGED start PROVE Inv'
    <2>1. TypeOK' BY <1>4 DEF Finish, TypeOK, stream, operands, Modes
    <2>2. NoLongerThanPage' BY <1>4 DEF Finish, NoLongerThanPage, Modes
    <2> QED BY <2>1, <2>2
<1>5. ASSUME Tokenize, Frame PROVE Inv'
    <2> QED BY <1>5, ScanKeeps, CommentKeeps, DictKeeps, TokenByteKeeps,
               TokenEndsKeeps, LiteralByteKeeps, EscapeKeeps, LineContinuationKeeps,
               OctalEscapeKeeps, LiteralEndsKeeps, HexByteKeeps, HexEndsKeeps
            DEF Tokenize
<1>6. ASSUME UNCHANGED vars PROVE Inv'
    BY <1>6 DEF vars, stream, operands, TypeOK, NoLongerThanPage, Data
<1> QED BY <1>1, <1>2, <1>3, <1>4, <1>5, <1>6 DEF Next, Frame

-----------------------------------------------------------------------------
\* Every file of bytes is read with the types of the state kept, the bytes of an
\* octal escape included (pdf.go 233-246).
THEOREM TypeCorrect == Spec => []TypeOK
<1>1. Inv => TypeOK BY DEF Inv
<1> QED BY InitInv, NextInv, <1>1, PTL DEF Spec

\* However the strings nest or break off, the tokenizer stays inside the page and
\* shows no more than it read (pdf.go 75-191).
THEOREM TextBounded == Spec => []NoLongerThanPage
<1>1. Inv => NoLongerThanPage BY DEF Inv
<1> QED BY InitInv, NextInv, <1>1, PTL DEF Spec

\* Whatever the bytes, no iteration of a loop of the tokenizer leaves its index
\* where it was, unless it leaves the loop.
THEOREM AlwaysMovesOn == Spec => MovesOn
<1> DEFINE Progress == pos' > pos \/ (pos' = pos /\ mode # "scan" /\ mode' = "scan")
<1>1. Inv /\ Tokenize => Progress
    <2> SUFFICES ASSUME Inv, Tokenize PROVE Progress
        OBVIOUS
    <2>1. pos \in Nat BY DEF Inv, TypeOK
    <2>2. CASE Scan BY <2>1, <2>2 DEF Scan, Enter
    <2>3. CASE Comment BY <2>1, <2>3 DEF Comment, Enter
    <2>4. CASE TokenByte BY <2>1, <2>4 DEF TokenByte, Collect
    <2>5. CASE TokenEnds BY <2>5 DEF TokenEnds, Enter
    <2>6. CASE skipDict BY <2>1, <2>6 DEF skipDict, Enter
    <2>7. CASE LiteralByte BY <2>1, <2>7 DEF LiteralByte
    <2>8. CASE Escape BY <2>1, <2>8 DEF Escape, Collect
    <2>9. CASE LineContinuation BY <2>1, <2>9 DEF LineContinuation, Collect
    <2>10. CASE OctalEscape
        <3> DEFINE n == IF ~Octal(pos + 2) THEN 1 ELSE IF ~Octal(pos + 3) THEN 2 ELSE 3
        <3>1. pos' = pos + 1 + n BY <2>10 DEF OctalEscape, Collect
        <3>2. n \in 1..3 OBVIOUS
        <3> HIDE DEF n
        <3> QED BY <2>1, <3>1, <3>2
    <2>11. CASE LiteralEnds BY <2>11 DEF LiteralEnds, Operand, Enter
    <2>12. CASE HexByte BY <2>1, <2>12 DEF HexByte, Collect
    <2>13. CASE HexEnds BY <2>1, <2>13 DEF HexEnds, Operand, Enter
    <2> QED BY <2>2, <2>3, <2>4, <2>5, <2>6, <2>7, <2>8, <2>9, <2>10, <2>11, <2>12, <2>13
            DEF Tokenize
<1>2. Inv /\ [Next]_vars => [Tokenize => Progress]_vars BY <1>1
<1> QED BY InitInv, NextInv, <1>2, PTL DEF Spec, MovesOn

=============================================================================
