---------------------------- MODULE ContentSyntax ----------------------------
(***************************************************************************)
(* The bytes of a content stream that extractTextFromContentStream tells   *)
(* apart, and what single bytes and words mean.  Bytes are numbers.        *)
(***************************************************************************)
EXTENDS Integers, Sequences

CONSTANTS
    Files,          \* per file, its pages in the order of their names
    Unreadable,     \* a page that os.ReadFile fails on
    Kerning         \* the tokens strconv.ParseFloat takes, and their values

Byte == 0..255

Pages == Seq(Byte) \cup {Unreadable}

ASSUME FilesAssumption == Files \subseteq Seq(Pages)
ASSUME KerningAssumption ==
    Kerning \in [DOMAIN Kerning -> Int] /\ DOMAIN Kerning \subseteq Seq(Byte) \ {<<>>}

LF == 10
CR == 13
Space == 32
LParen == 40
RParen == 41
Less == 60
Greater == 62
LBracket == 91
RBracket == 93
Percent == 37
Backslash == 92
EOF == -1

\* Of these, braces, slashes and strayed closing brackets are skipped like white
\* space: tab, form feed, NUL.
Skipped == {Space, LF, CR, RParen, Greater, 9, 12, 0, 47, 123, 125}
Delimiter == Skipped \cup {LParen, Less, LBracket, RBracket, Percent}

ShowString == {<<84, 106>>, <<39>>, <<34>>}     \* Tj ' "
ShowArray == <<84, 74>>                         \* TJ
wordBreakKerningThreshold == -100

OctalDigit == 48..55

\* After a backslash: n r t b f; any other byte stands for itself.
Unescaped(b) == CASE b = 110 -> LF [] b = 114 -> CR [] b = 116 -> 9
                  [] b = 98 -> 8 [] b = 102 -> 12 [] OTHER -> b

isHexDigit(b) == b \in 48..57 \cup 65..70 \cup 97..102
Nibble(b) == IF b < 58 THEN b - 48 ELSE IF b < 71 THEN b - 55 ELSE b - 87

\* strings.TrimSpace, but for its spaces outside ASCII.
Blank(t) == \A k \in DOMAIN t : t[k] \in {Space} \cup 9..13

=============================================================================
