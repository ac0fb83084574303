----------------------------- MODULE SearchIndex -----------------------------
(***************************************************************************)
(* What a search promises, whatever it is cached by: an answer is the one  *)
(* that the table would have given at a single moment, not longer than Lag *)
(* ticks ago.  Answers need not agree with each other, and a later answer  *)
(* may be of an earlier moment.                                            *)
(***************************************************************************)
EXTENDS Ranking

CONSTANTS Readers, Lag

VARIABLES
    shelf,      \* per material: "hidden", "listed" or "withdrawn"
    recent,     \* recent[n]: the sets of listed materials there were n ticks ago
    shown       \* per reader: the query answered last and its results, if any

indexVars == <<shelf, recent, shown>>

Listed == {m \in Materials : shelf[m] = "listed"}

IndexInit ==
    /\ shelf = [m \in Materials |-> "hidden"]
    /\ recent = [n \in 0..Lag |-> {{}}]
    /\ shown = [r \in Readers |-> <<>>]

\* A material is listed at most once.
Move(m, was, is) ==
    /\ shelf[m] = was
    /\ shelf' = [shelf EXCEPT ![m] = is]
    /\ recent' = [recent EXCEPT ![0] = @ \cup {Listed'}]
    /\ UNCHANGED shown

List(m) == Move(m, "hidden", "listed")
Withdraw(m) == Move(m, "listed", "withdrawn")

NextTick ==
    /\ recent' = [n \in 0..Lag |-> IF n = 0 THEN {Listed} ELSE recent[n - 1]]
    /\ UNCHANGED <<shelf, shown>>

Clear(r) ==
    /\ shown' = [shown EXCEPT ![r] = <<>>]
    /\ UNCHANGED <<shelf, recent>>

Answer(r, q, n) ==
    /\ \E A \in recent[n] : \E S \in Selections(q, A) :
            shown' = [shown EXCEPT ![r] = <<q, S>>]
    /\ UNCHANGED <<shelf, recent>>

IndexNext ==
    \/ \E m \in Materials : List(m) \/ Withdraw(m)
    \/ NextTick
    \/ \E r \in Readers : Clear(r)
    \/ \E r \in Readers, q \in Query, n \in 0..Lag : Answer(r, q, n)

IndexSpec == IndexInit /\ [][IndexNext]_indexVars

=============================================================================
