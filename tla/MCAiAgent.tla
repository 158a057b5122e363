------------------------------ MODULE MCAiAgent ------------------------------
(* Small instances of AiAgent for TLC. *)
EXTENDS AiAgent, TLC

CONSTANTS c1, c2, r1, r2, r3, q1, q2

Symmetry == Permutations(Chat) \cup Permutations(Run) \cup Permutations(Request)

===============================================================================
