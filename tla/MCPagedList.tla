----------------------------- MODULE MCPagedList -----------------------------
(* A small instance of PagedList for TLC.                                  *)
EXTENDS PagedList

CONSTANTS x1, x2, x3, x4, x5, x6

(* x5 and x6 were created in the same microsecond, the others in turn.     *)
CreatedOf ==
    [x \in Rows |-> CASE x = x1 -> 1 [] x = x2 -> 2 [] x = x3 -> 3 [] x = x4 -> 5
                     [] OTHER -> 4]
=============================================================================
