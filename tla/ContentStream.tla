---------------------------- MODULE ContentStream ----------------------------
(***************************************************************************)
(* What ExtractText promises: it reads each page lexeme by lexeme, and the *)
(* text is what the text-showing operators show of the strings before      *)
(* them.  A string is shown once, an array as a whole, and neither outlives *)
(* its page.                                                               *)
(***************************************************************************)
EXTENDS Lexemes

VARIABLES
    file, page,
    at,             \* where the next lexeme begins, 0 between pages
    held,           \* the string that waits for its operator, if any
    array,          \* the bytes of the array that was opened last
    open,           \* the array is open
    shown,          \* text of the page
    text,           \* text of the pages before
    answer

operands == <<held, array, open>>
streamVars == <<file, page, at, operands, shown, text, answer>>

Data == file[page]

\* The file may be any.
StreamInit ==
    /\ page = 1 /\ at = 0 /\ answer = "pending"
    /\ held = <<>> /\ array = <<>> /\ open = FALSE /\ shown = <<>> /\ text = <<>>

-----------------------------------------------------------------------------
Skip(j) ==
    /\ \/ On(Data, at) \in Skipped /\ j = at + 1
       \/ CommentLine(Data, at, j) \/ Dictionary(Data, at, j)
    /\ UNCHANGED <<operands, shown>>

OpenArray(j) ==
    /\ On(Data, at) = LBracket /\ j = at + 1
    /\ open' = TRUE /\ array' = <<>>
    /\ UNCHANGED <<held, shown>>

CloseArray(j) ==
    /\ On(Data, at) = RBracket /\ j = at + 1
    /\ open' = FALSE
    /\ UNCHANGED <<held, array, shown>>

Hold(s) ==
    /\ IF open THEN array' = array \o s /\ UNCHANGED held
               ELSE held' = <<s>> /\ UNCHANGED array
    /\ UNCHANGED <<open, shown>>

String(j) ==
    \/ ClosedLiteral(Data, at, j) /\ Hold(LiteralBytes(Data, at, j - 1))
    \/ OpenLiteral(Data, at, j) /\ On(Data, j) = EOF /\ Hold(LiteralBytes(Data, at, j))
    \/ HexString(Data, at, j) /\ Hold(HexBytes(Data, at, j))

\* A number in an array is a gap, wide enough for a space or not.
Gap(w) ==
    /\ array' = IF Kerning[w] <= wordBreakKerningThreshold THEN Append(array, Space) ELSE array
    /\ UNCHANGED <<held, shown>>

Operator(w) ==
    \/ /\ w \in ShowString
       /\ shown' = IF held = <<>> THEN shown ELSE shown \o Append(held[1], LF)
       /\ held' = <<>> /\ UNCHANGED array
    \/ /\ w = ShowArray
       /\ shown' = shown \o Append(array, LF)
       /\ array' = <<>> /\ UNCHANGED held
    \/ w \notin ShowString \cup {ShowArray} /\ UNCHANGED <<held, array, shown>>

\* Outside an array a number is an operator nobody knows.
Execute(j) ==
    LET w == SubSeq(Data, at, j - 1) IN
    /\ Word(Data, at, j)
    /\ IF open /\ w \in DOMAIN Kerning THEN Gap(w) ELSE Operator(w)
    /\ UNCHANGED open

Lexeme ==
    /\ at # 0 /\ at <= Len(Data)
    /\ \E j \in at + 1..Len(Data) + 1 :
        /\ at' = j
        /\ Skip(j) \/ OpenArray(j) \/ CloseArray(j) \/ String(j) \/ Execute(j)
    /\ UNCHANGED <<file, page, text, answer>>

-----------------------------------------------------------------------------
TurnPage ==
    /\ at = 0 /\ page <= Len(file)
    /\ IF Data = Unreadable
       THEN page' = page + 1 /\ UNCHANGED <<at, operands, shown>>
       ELSE /\ at' = 1 /\ held' = <<>> /\ array' = <<>> /\ open' = FALSE /\ shown' = <<>>
            /\ UNCHANGED page
    /\ UNCHANGED <<file, text, answer>>

EndPage ==
    /\ at # 0 /\ at = Len(Data) + 1
    /\ text' = text \o Append(shown, LF)
    /\ page' = page + 1 /\ at' = 0
    /\ UNCHANGED <<file, operands, shown, answer>>

\* A file that pdfcpu does not take has no text; no temporary directory is an error.
GiveUp ==
    /\ at = 0 /\ page = 1
    /\ answer' \in {"error", "blank"}
    /\ UNCHANGED <<file, page, at, operands, shown, text>>

Conclude ==
    /\ at = 0 /\ page > Len(file)
    /\ answer' = IF Blank(text) THEN "blank" ELSE "layer"
    /\ UNCHANGED <<file, page, at, operands, shown, text>>

StreamNext == answer = "pending" /\ (Lexeme \/ TurnPage \/ EndPage \/ GiveUp \/ Conclude)

StreamSpec == StreamInit /\ [][StreamNext]_streamVars

=============================================================================
