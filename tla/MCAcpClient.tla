------------------------------ MODULE MCAcpClient ------------------------------
(* Small instances of AcpClient for TLC. *)
EXTENDS AcpClient, TLC
CONSTANTS p1, p2, k1, k2
===============================================================================
