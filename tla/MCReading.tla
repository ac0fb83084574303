----------------------------- MODULE MCReading -----------------------------
(* Small instances of Reading for TLC. *)
EXTENDS Reading

CONSTANTS
    BadTitles,      \* titles with a zero byte or invalid UTF-8
    BadTexts        \* contents whose extracted text has one

MCRefused == {p \in Titles \X Contents : p[1] \in BadTitles \/ p[2] \in BadTexts}

=============================================================================
