------------------------------ MODULE MCPdfText ------------------------------
(* Small instances of PdfText for TLC: every short sequence over the bytes the *)
(* tokenizer tells apart, and files as a PDF writer writes them, with the text *)
(* they show.                                                                  *)
EXTENDS PdfText
LOCAL INSTANCE SequencesExt

CONSTANTS
    NoiseBytes, NoiseLength,    \* the arbitrary pages
    Glyphs,                     \* the bytes of the strings that are shown
    unreadable

-----------------------------------------------------------------------------
(* How a writer may write a string, and what it may put between tokens. *)

Notations == {"escaped", "nested", "octal", "overflow", "hex", "folded"}
Digit(n) == IF n < 10 THEN 48 + n ELSE 87 + n

InOctal(b) == <<Backslash>> \o
    (IF b < 8 THEN <<48 + b>>
     ELSE IF b < 64 THEN <<48 + (b \div 8), 48 + (b % 8)>>
     ELSE <<48 + (b \div 64), 48 + ((b \div 8) % 8), 48 + (b % 8)>>)
InHex(b) == <<Digit(b \div 16), Digit(b % 16)>>
Raw(b) == IF b \in {LParen, RParen, Backslash} THEN <<Backslash, b>>
          ELSE IF b = CR THEN <<Backslash, 114>>
          ELSE <<b>>

\* An octal number above 255 stands for its low byte;
\* balanced parentheses need no backslash; a last hex digit that is zero is
\* left out; a folded string has a line end after each byte.
Written(s, how) ==
    CASE how = "nested" /\ s = <<LParen, RParen>> -> <<LParen>> \o s \o <<RParen>>
      [] how = "escaped" \/ (how = "nested" /\ s # <<LParen, RParen>>) ->
            <<LParen>> \o FlattenSeq([k \in DOMAIN s |-> Raw(s[k])]) \o <<RParen>>
      [] how = "octal" -> <<LParen>> \o FlattenSeq([k \in DOMAIN s |-> InOctal(s[k])]) \o <<RParen>>
      [] how = "overflow" ->
            <<LParen>> \o FlattenSeq([k \in DOMAIN s |-> InOctal(256 + s[k])]) \o <<RParen>>
      [] how = "folded" -> <<LParen>> \o
            FlattenSeq([k \in DOMAIN s |-> Raw(s[k]) \o <<Backslash, CR, LF>>]) \o <<RParen>>
      [] how = "hex" -> LET h == FlattenSeq([k \in DOMAIN s |-> InHex(s[k])]) IN
            <<Less>> \o (IF h # <<>> /\ h[Len(h)] = 48 THEN SubSeq(h, 1, Len(h) - 1) ELSE h)
                     \o <<Greater>>

Fillers == {<<Space>>,
            <<Percent, LParen, 39, CR>>,                         \* %('
            <<47, 70, Space, 49, 50, Space, 84, 102, LF>>,       \* /F 12 Tf
            <<Less, Less, LBracket, Less, Less, Greater, Greater, LParen, Greater, Greater>>}

-----------------------------------------------------------------------------
(* A document shows strings one by one, or two in an array with a gap. *)

Strings == {<<>>} \cup {<<g>> : g \in Glyphs} \cup {<<g, h>> : g, h \in Glyphs}
Operators == {<<84, 106>>, <<39>>}
Gaps == {-250, -100, -99}
GapToken(k) == CASE k = -250 -> <<45, 50, 53, 48>>
                 [] k = -100 -> <<45, 49, 48, 48>>
                 [] k = -99 -> <<45, 57, 57>>

Singles == {[page |-> Written(s, how) \o f \o op, shows |-> Append(s, LF)] :
                s \in Strings, how \in Notations, f \in Fillers, op \in Operators}

Arrays == {[page |-> <<LBracket>> \o f \o Written(s, how) \o GapToken(k) \o Written(t, how)
                        \o f \o <<RBracket, 84, 74>>,
            shows |-> s \o (IF k > -100 THEN <<>> ELSE <<Space>>) \o t \o <<LF>>] :
                s, t \in {<<g>> : g \in Glyphs}, how \in Notations, k \in Gaps,
                f \in Fillers}

\* A page may end before its operator does; the next one shows nothing of it.
Unfinished == {[page |-> Written(<<g>>, how) \o f, shows |-> <<>>] :
                    g \in Glyphs, how \in Notations, f \in Fillers}
Opened == {[page |-> <<LBracket>> \o u.page, shows |-> <<>>] : u \in Unfinished}
Bare == {[page |-> <<39>>, shows |-> <<>>], [page |-> <<39, Space, 39>>, shows |-> <<>>],
         [page |-> ShowArray, shows |-> <<LF>>]}

\* Two in a row: the second starts from what the first left behind.
Twice == {[page |-> p.page \o <<Space>> \o q.page, shows |-> p.shows \o q.shows] :
            p \in {x \in Singles \cup Arrays : Len(x.shows) = 3},
            q \in Bare}

Documents ==
    {[file |-> <<p.page>>, text |-> p.shows \o <<LF>>] : p \in Singles \cup Arrays \cup Twice}
    \cup {[file |-> <<p.page, unreadable, q.page>>, text |-> p.shows \o <<LF>> \o q.shows \o <<LF>>] :
            p \in Unfinished \cup Opened, q \in Bare}

Noise == UNION {[1..n -> NoiseBytes] : n \in 0..NoiseLength}

MCFiles == {<<>>} \cup {<<p>> : p \in Noise} \cup {d.file : d \in Documents}

\* Of the noise, the sequences of digits are numbers.
MCKerning ==
    LET digits == UNION {[1..n -> NoiseBytes \cap 48..57] : n \in 1..NoiseLength}
        gap(t) == IF \E k \in Gaps : GapToken(k) = t
                  THEN CHOOSE k \in Gaps : GapToken(k) = t ELSE 0
    IN  [t \in digits \cup {GapToken(k) : k \in Gaps} \cup {<<49, 50>>} |-> gap(t)]

-----------------------------------------------------------------------------
\* The text of a file that was written to show strings is those strings, a
\* line each: every notation is read back, nothing between the operators is
\* shown, and nothing of one page, or one operator, is shown by the next.
ShowsDocument ==
    mode = "turn" /\ page > Len(file) =>
        \A d \in Documents : d.file = file => text = d.text

=============================================================================
