------------------------------- MODULE PdfText -------------------------------
(***************************************************************************)
(* ExtractText: what the upload handler keeps of a PDF's text.  pdfcpu     *)
(* leaves one content stream per page; a hand-written tokenizer collects   *)
(* the operands of the text-showing operators from each.  A step is one    *)
(* pass of the innermost loop, and a mode is the loop it belongs to.       *)
(* Bytes are numbers; pos is the code's index plus one.                    *)
(***************************************************************************)
EXTENDS ContentSyntax

VARIABLES
    file,           \* the file being read
    page,           \* the page the loop over the entries is at
    pos,            \* where the tokenizer is in it
    start,          \* where what it is reading began
    mode,           \* what it is reading
    depth,          \* open parentheses or dictionaries
    buf,            \* the string, hex digits or token read so far
    last,           \* lastString
    haveLast,
    inArray,
    arr,            \* arrayStrings, joined
    out,            \* text of the page
    text,           \* text of the pages before
    answer          \* what ExtractText returned

operands == <<last, haveLast, inArray, arr>>
stream == <<pos, depth, buf, operands, out>>
vars == <<file, page, start, mode, text, answer, stream>>

Data == file[page]
At(p) == IF p <= Len(Data) THEN Data[p] ELSE EOF

Modes == {"scan", "comment", "literal", "hex", "dict", "token"}

TypeOK ==
    /\ file \in Seq(Pages) /\ page \in 1..Len(file) + 1
    /\ mode \in Modes \cup {"start", "turn", "done"}
    /\ mode \in Modes => page <= Len(file) /\ Data \in Seq(Byte)
    /\ pos \in Nat \ {0} /\ start \in Nat \ {0} /\ depth \in Nat
    /\ buf \in Seq(Byte) /\ arr \in Seq(Byte) /\ out \in Seq(Byte) /\ text \in Seq(Byte)
    /\ last \in Seq(Byte) /\ haveLast \in BOOLEAN /\ inArray \in BOOLEAN
    /\ mode = "hex" => buf \in Seq(0..15)
    /\ answer \in {"pending", "layer", "blank", "error"}

Init ==
    /\ file \in Files /\ page = 1 /\ mode = "start" /\ answer = "pending" /\ text = <<>>
    /\ pos = 1 /\ start = 1 /\ depth = 0 /\ buf = <<>>
    /\ last = <<>> /\ haveLast = FALSE /\ inArray = FALSE /\ arr = <<>> /\ out = <<>>

-----------------------------------------------------------------------------
(* ExtractText *)

\* An error is no temporary directory; a file that pdfcpu does not take, or
\* that has no page, has no text.
Extract ==
    /\ mode = "start"
    /\ \/ mode' = "done" /\ answer' \in {"error", "blank"}
       \/ file # <<>> /\ mode' = "turn" /\ UNCHANGED answer
    /\ UNCHANGED <<file, page, text, stream>>

\* Slip: operands survive the end of their page.
ReadPageSlip ==
    /\ mode = "turn" /\ page <= Len(file)
    /\ IF Data = Unreadable
       THEN page' = page + 1 /\ UNCHANGED <<mode, stream>>
       ELSE /\ mode' = "scan" /\ pos' = 1 /\ depth' = 0 /\ buf' = <<>> /\ out' = <<>>
            /\ UNCHANGED <<page, operands>>
    /\ UNCHANGED <<file, text, answer>>

\* The tokenizer starts each page anew.
ReadPage ==
    /\ mode = "turn" /\ page <= Len(file)
    /\ IF Data = Unreadable
       THEN page' = page + 1 /\ UNCHANGED <<mode, stream>>
       ELSE /\ mode' = "scan" /\ pos' = 1 /\ depth' = 0 /\ buf' = <<>> /\ out' = <<>>
            /\ last' = <<>> /\ haveLast' = FALSE /\ inArray' = FALSE /\ arr' = <<>>
            /\ UNCHANGED page
    /\ UNCHANGED <<file, text, answer>>

PageEnds ==
    /\ mode = "scan" /\ At(pos) = EOF
    /\ text' = text \o Append(out, LF)
    /\ page' = page + 1 /\ mode' = "turn"
    /\ UNCHANGED <<file, answer, stream>>

Finish ==
    /\ mode = "turn" /\ page > Len(file)
    /\ mode' = "done" /\ answer' = IF Blank(text) THEN "blank" ELSE "layer"
    /\ UNCHANGED <<file, page, text, stream>>

-----------------------------------------------------------------------------
(* extractTextFromContentStream *)

\* Go on at p in mode m, with nothing collected.
Enter(m, p, d) == mode' = m /\ pos' = p /\ depth' = d /\ buf' = <<>>

\* Go on at p in the same mode, with s collected.
Collect(s, p) == buf' = buf \o s /\ pos' = p /\ UNCHANGED <<mode, depth, operands, out>>

\* Slip: a byte that starts nothing is not stepped over.
ScanSlip ==
    /\ mode = "scan"
    /\ \/ At(pos) \in (Skipped \ {RParen, Greater}) \cup {LBracket, RBracket}
          /\ Enter("scan", pos + 1, 0)
       \/ At(pos) \in {RParen, Greater} /\ Enter("scan", pos, 0)
       \/ /\ At(pos) \notin Delimiter \cup {EOF}
          /\ mode' = "token" /\ pos' = pos + 1 /\ depth' = 0 /\ buf' = <<At(pos)>>
       \/ At(pos) = Percent /\ Enter("comment", pos + 1, 0)
       \/ At(pos) = LParen /\ Enter("literal", pos + 1, 1)
       \/ At(pos) = Less /\ IF At(pos + 1) = Less THEN Enter("dict", pos + 2, 1)
                                               ELSE Enter("hex", pos + 1, 0)
    /\ inArray' = (At(pos) = LBracket \/ (inArray /\ At(pos) # RBracket))
    /\ arr' = IF At(pos) = LBracket THEN <<>> ELSE arr
    /\ UNCHANGED <<last, haveLast, out>>

Scan ==
    /\ mode = "scan"
    /\ \/ At(pos) \in Skipped \cup {LBracket, RBracket} /\ Enter("scan", pos + 1, 0)
       \/ /\ At(pos) \notin Delimiter \cup {EOF}
          /\ mode' = "token" /\ pos' = pos + 1 /\ depth' = 0 /\ buf' = <<At(pos)>>
       \/ At(pos) = Percent /\ Enter("comment", pos + 1, 0)
       \/ At(pos) = LParen /\ Enter("literal", pos + 1, 1)
       \/ At(pos) = Less /\ IF At(pos + 1) = Less THEN Enter("dict", pos + 2, 1)
                                               ELSE Enter("hex", pos + 1, 0)
    /\ inArray' = (At(pos) = LBracket \/ (inArray /\ At(pos) # RBracket))
    /\ arr' = IF At(pos) = LBracket THEN <<>> ELSE arr
    /\ UNCHANGED <<last, haveLast, out>>

Comment ==
    /\ mode = "comment"
    /\ IF At(pos) \in {LF, CR, EOF} THEN Enter("scan", pos, 0)
                                    ELSE Enter("comment", pos + 1, 0)
    /\ UNCHANGED <<operands, out>>

TokenByte ==
    /\ mode = "token" /\ At(pos) \notin Delimiter \cup {EOF}
    /\ Collect(<<At(pos)>>, pos + 1)

\* A number in an array moves the glyphs apart: far enough, it is a space.
Kern ==
    /\ inArray /\ buf \in DOMAIN Kerning
    /\ arr' = IF Kerning[buf] <= wordBreakKerningThreshold THEN Append(arr, Space)
                                                            ELSE arr
    /\ UNCHANGED <<last, haveLast, out>>

\* Slip: the operand is kept after it was shown.
flushOperatorSlip ==
    \/ /\ buf \in ShowString
       /\ out' = IF haveLast THEN out \o Append(last, LF) ELSE out
       /\ UNCHANGED <<last, haveLast, arr>>
    \/ /\ buf = ShowArray
       /\ out' = out \o Append(arr, LF) /\ arr' = <<>>
       /\ UNCHANGED <<last, haveLast>>
    \/ buf \notin ShowString \cup {ShowArray} /\ UNCHANGED <<last, haveLast, arr, out>>

flushOperator ==
    \/ /\ buf \in ShowString
       /\ out' = IF haveLast THEN out \o Append(last, LF) ELSE out
       /\ last' = <<>> /\ haveLast' = FALSE
       /\ UNCHANGED arr
    \/ /\ buf = ShowArray
       /\ out' = out \o Append(arr, LF) /\ arr' = <<>>
       /\ UNCHANGED <<last, haveLast>>
    \/ buf \notin ShowString \cup {ShowArray} /\ UNCHANGED <<last, haveLast, arr, out>>

TokenEnds ==
    /\ mode = "token" /\ At(pos) \in Delimiter \cup {EOF}
    /\ Kern \/ (~(inArray /\ buf \in DOMAIN Kerning) /\ flushOperator)
    /\ Enter("scan", pos, 0) /\ UNCHANGED inArray

\* A string ends: one more of the array, or the operand of an operator to come.
Operand(s, p) ==
    /\ Enter("scan", p, 0)
    /\ arr' = IF inArray THEN arr \o s ELSE arr
    /\ last' = IF inArray THEN last ELSE s
    /\ haveLast' = (haveLast \/ ~inArray)
    /\ UNCHANGED <<inArray, out>>

-----------------------------------------------------------------------------
(* parseLiteralString *)

InLiteral == mode = "literal" /\ depth > 0 /\ At(pos) # EOF
Escaped == InLiteral /\ At(pos) = Backslash /\ At(pos + 1) # EOF
Octal(p) == At(p) \in OctalDigit

\* Parentheses nest; a backslash at the very end stands for itself.
LiteralByte ==
    /\ InLiteral /\ ~Escaped
    /\ depth' = CASE At(pos) = LParen -> depth + 1
                  [] At(pos) = RParen -> depth - 1
                  [] OTHER -> depth
    /\ buf' = IF depth' = 0 THEN buf ELSE Append(buf, At(pos))
    /\ pos' = pos + 1
    /\ UNCHANGED <<mode, operands, out>>

Escape ==
    /\ Escaped /\ At(pos + 1) \notin {CR, LF} /\ ~Octal(pos + 1)
    /\ Collect(<<Unescaped(At(pos + 1))>>, pos + 2)

\* Slip: the second byte of a line end is not taken with the first.
LineContinuationSlip ==
    /\ Escaped /\ At(pos + 1) \in {CR, LF}
    /\ Collect(<<>>, pos + 2)

LineContinuation ==
    /\ Escaped /\ At(pos + 1) \in {CR, LF}
    /\ Collect(<<>>, IF At(pos + 1) = CR /\ At(pos + 2) = LF THEN pos + 3 ELSE pos + 2)

\* Slip: the value is not cut.
OctalEscapeSlip ==
    LET d(k) == At(pos + k) - 48
        n == IF ~Octal(pos + 2) THEN 1 ELSE IF ~Octal(pos + 3) THEN 2 ELSE 3
        val == CASE n = 1 -> d(1)
                 [] n = 2 -> 8 * d(1) + d(2)
                 [] n = 3 -> 64 * d(1) + 8 * d(2) + d(3)
    IN  Escaped /\ Octal(pos + 1) /\ Collect(<<val>>, pos + 1 + n)

\* Slip: the index stays at the backslash.
OctalEscapeStuck ==
    LET d(k) == At(pos + k) - 48
        n == IF ~Octal(pos + 2) THEN 1 ELSE IF ~Octal(pos + 3) THEN 2 ELSE 3
        val == CASE n = 1 -> d(1)
                 [] n = 2 -> 8 * d(1) + d(2)
                 [] n = 3 -> 64 * d(1) + 8 * d(2) + d(3)
    IN  Escaped /\ Octal(pos + 1) /\ Collect(<<val % 256>>, pos)

\* At most three digits; the value is cut to a byte.
OctalEscape ==
    LET d(k) == At(pos + k) - 48
        n == IF ~Octal(pos + 2) THEN 1 ELSE IF ~Octal(pos + 3) THEN 2 ELSE 3
        val == CASE n = 1 -> d(1)
                 [] n = 2 -> 8 * d(1) + d(2)
                 [] n = 3 -> 64 * d(1) + 8 * d(2) + d(3)
    IN  Escaped /\ Octal(pos + 1) /\ Collect(<<val % 256>>, pos + 1 + n)

LiteralEnds ==
    /\ mode = "literal" /\ (depth = 0 \/ At(pos) = EOF)
    /\ Operand(buf, pos)

-----------------------------------------------------------------------------
(* parseHexString and skipDict *)

HexByte ==
    /\ mode = "hex" /\ At(pos) \notin {Greater, EOF}
    /\ Collect(IF isHexDigit(At(pos)) THEN <<Nibble(At(pos))>> ELSE <<>>, pos + 1)

\* A missing last digit is a zero.
Decoded(h) ==
    [k \in 1..(Len(h) + 1) \div 2 |->
        16 * h[2 * k - 1] + (IF 2 * k <= Len(h) THEN h[2 * k] ELSE 0)]

HexEnds ==
    /\ mode = "hex" /\ At(pos) \in {Greater, EOF}
    /\ Operand(Decoded(buf), IF At(pos) = EOF THEN pos ELSE pos + 1)

Pair(b) == At(pos) = b /\ At(pos + 1) = b

\* Brackets inside a string of the dictionary count like its own.
skipDict ==
    /\ mode = "dict"
    /\ IF depth = 0 \/ At(pos) = EOF THEN Enter("scan", pos, 0)
       ELSE IF Pair(Less) THEN Enter("dict", pos + 2, depth + 1)
       ELSE IF Pair(Greater) THEN Enter("dict", pos + 2, depth - 1)
       ELSE Enter("dict", pos + 1, depth)
    /\ UNCHANGED <<operands, out>>

-----------------------------------------------------------------------------
Tokenize ==
    \/ Scan \/ Comment \/ TokenByte \/ TokenEnds \/ skipDict
    \/ LiteralByte \/ Escape \/ LineContinuation \/ OctalEscape \/ LiteralEnds
    \/ HexByte \/ HexEnds

Next ==
    \/ (Extract \/ ReadPage \/ PageEnds \/ Finish) /\ UNCHANGED start
    \/ /\ Tokenize
       /\ start' = IF mode = "scan" THEN pos ELSE start
       /\ UNCHANGED <<file, page, text, answer>>

Spec == Init /\ [][Next]_vars

\* The loops run in the goroutine of the upload, which nothing interrupts.
FairSpec == Spec /\ WF_vars(Next)

-----------------------------------------------------------------------------
\* The text of a page, with the operands still held back, is no longer than
\* what has been read of it: no string is shown twice and none grows, so that
\* extracting never needs more memory than the page takes.
NoLongerThanPage ==
    mode \in Modes => Len(out) + Len(last) + Len(arr) + Len(buf) < pos /\ pos <= Len(Data) + 1

\* Every step of the tokenizer leaves bytes behind for good, but for those that
\* end a string, a token, a comment or a dictionary: two steps a byte are enough.
MovesOn ==
    [][Tokenize => pos' > pos \/ (pos' = pos /\ mode # "scan" /\ mode' = "scan")]_vars

Stream == INSTANCE ContentStream
    WITH at <- IF mode \notin Modes THEN 0 ELSE IF mode = "scan" THEN pos ELSE start,
         held <- IF haveLast THEN <<last>> ELSE <<>>,
         array <- arr, open <- inArray, shown <- out

\* The loops over single bytes read the page as the sequence of lexemes that it
\* is, strings decoded as the notation means them, and show what the operators
\* show of the strings before them.
ImplementsStream == Stream!StreamSpec

\* Whatever the bytes, the extraction ends.
ExtractionEnds == <>(mode = "done")

=============================================================================
