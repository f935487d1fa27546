--------------------------- MODULE MCEmployeeCache ---------------------------
(* Small instances of EmployeeCache for TLC.                               *)
EXTENDS EmployeeCache
CONSTANTS u1, u2, p1, p2, g1, g2, w1, w2
=============================================================================
