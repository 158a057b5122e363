------------------------------ MODULE MCTerminalSessions ------------------------------
(* Small instances of TerminalSessions for TLC. *)
EXTENDS TerminalSessions
CONSTANTS t1, t2, h1, h2, k1, k2

Kinds == [t \in Tab |-> "ssh"]
\* t1 goes through a jumper, t2 dials the host itself.
Paths == [t \in Tab |-> IF t = t1 THEN <<h2, h1>> ELSE <<h1>>]
Presented == {[h \in Host |-> k1]}
OneType == [k \in Key |-> "ed25519"]
Pinned == {[hosts |-> {h2}, key |-> k1], [hosts |-> {}, key |-> k1]}
Shared == {{[hosts |-> {h1, h2}, key |-> k2], [hosts |-> {}, key |-> k2]}}
===============================================================================
