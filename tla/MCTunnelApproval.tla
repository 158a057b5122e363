------------------------------ MODULE MCTunnelApproval ------------------------------
(* Small instances of TunnelApproval for TLC. *)
EXTENDS TunnelApproval, TLC
CONSTANTS t1, t2, e1, e2, e3

\* e1 and e2 are generations of one tunnel, e3 belongs to another.
Owner == [e \in Entry |-> IF e = e3 THEN t2 ELSE t1]

Symmetry == Permutations(Request)

===============================================================================
