---------------------------- MODULE MCSearchCache ----------------------------
(* Small instances of SearchCache: two courses, one text, a narrow and a wide *)
(* query, and a cap that leaves one of the two materials out of the wide one. *)
EXTENDS SearchCache, TLC

CONSTANTS m1, m2, os, dbms, text

MCWordsOf == [m \in Materials |-> {text}]
MCCourseOf == [m \in Materials |-> IF m = m1 THEN os ELSE dbms]
MCTypeOf == [m \in Materials |-> "notes"]
MCRankOf == [m \in Materials |-> IF m = m1 THEN 2 ELSE 1]

Wide == [text |-> text, course |-> Unset, type |-> Unset]
Narrow == [text |-> text, course |-> dbms, type |-> "notes"]

BothQueries == {Wide, Narrow}
WideOnly == {Wide}

\* Readers are interchangeable; the run with liveness does not use it.
Symmetry == Permutations(Readers)

=============================================================================
