----------------------------- MODULE MCSessions -----------------------------
(* Small instances of Sessions: an administrator, a student, an account that  *)
(* got the student's old address, and one whose hd claim is not the college's. *)
EXTENDS Sessions, TLC

CONSTANTS admin, student, successor, outsider

MCEmailOf == [a \in Accounts |-> IF a = successor THEN student ELSE a]

SlotSymmetry == Permutations(Browsers) \cup Permutations(Logins) \cup Permutations(Calls)

=============================================================================
