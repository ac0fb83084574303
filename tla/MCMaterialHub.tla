---------------------------- MODULE MCMaterialHub ----------------------------
(* Small instances of MaterialHub for TLC. *)
EXTENDS MaterialHub, TLC

CONSTANTS
    BadTitles,      \* titles with a zero byte or invalid UTF-8
    BadTexts        \* contents whose extracted text has one

MCRefused == {p \in Titles \X Contents : p[1] \in BadTitles \/ p[2] \in BadTexts}

\* Requests, contents and flags are interchangeable; liveness runs do not use it.
Symmetry ==
    Permutations(Uploads) \cup Permutations(Moderations) \cup Permutations(Flags)

=============================================================================
