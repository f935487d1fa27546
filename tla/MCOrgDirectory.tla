--------------------------- MODULE MCOrgDirectory ---------------------------
(* A small instance of OrgDirectory for TLC.                               *)
EXTENDS OrgDirectory, TLC
CONSTANTS d1, d2, n1, n2, u1, u2, m1, m2, l1, l2, c1, c2, c3

Alike == Permutations({n1, n2}) \cup Permutations({m1, m2})
            \cup Permutations({c1, c2, c3})
=============================================================================
