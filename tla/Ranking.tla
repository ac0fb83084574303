------------------------------- MODULE Ranking -------------------------------
(***************************************************************************)
(* What a search asks and which rows answer it: the SELECT of              *)
(* Repository.Query, over a table in which the rows of a set are approved. *)
(***************************************************************************)
EXTENDS Naturals, FiniteSets

CONSTANTS
    Materials,
    Texts,          \* search texts, as plainto_tsquery sees them
    Courses,
    Types,
    Unset,          \* a filter that is not given
    WordsOf,        \* the texts a material's search vector matches
    CourseOf,
    TypeOf,
    RankOf,         \* ts_rank of a material
    ResultCap

ASSUME AttributesAssumption ==
    /\ WordsOf \in [Materials -> SUBSET Texts]
    /\ CourseOf \in [Materials -> Courses]
    /\ TypeOf \in [Materials -> Types]
    /\ RankOf \in [Materials -> Nat]
    /\ Unset \notin Courses \cup Types

Query == [text : Texts, course : Courses \cup {Unset}, type : Types \cup {Unset}]

\* The text, course and type conditions of the WHERE clause.
Matches(m, q) ==
    /\ q.text \in WordsOf[m]
    /\ q.course \in {CourseOf[m], Unset}
    /\ q.type \in {TypeOf[m], Unset}

Hits(q, A) == {m \in A : Matches(m, q)}

\* ORDER BY rank DESC LIMIT ResultCap; ties may fall either way.
Selections(q, A) ==
    {S \in SUBSET Hits(q, A) :
        /\ Cardinality(S) <= ResultCap
        /\ S = Hits(q, A) \/ Cardinality(S) = ResultCap
        /\ \A m \in S, n \in Hits(q, A) \ S : RankOf[m] >= RankOf[n]}

=============================================================================
