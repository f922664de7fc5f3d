--------------------------- MODULE MCCustomerSide ---------------------------
(***************************************************************************)
(* CustomerSide on small instances.  The customers c1 and c2 have one      *)
(* activity and one business; MCRequests... are the bounds on what each of *)
(* them sends.                                                             *)
(***************************************************************************)
EXTENDS CustomerSide

CONSTANTS a1, b1, c1, c2

MCActOf == [c \in {c1, c2} |-> a1]
MCBizOf == [c \in {c1, c2} |-> b1]

Bound(n1, n2) == [c \in {c1, c2} |-> IF c = c1 THEN n1 ELSE n2]
MCRequests10 == Bound(1, 0)
MCRequests11 == Bound(1, 1)
MCRequests22 == Bound(2, 2)

\* Two requests in all, whoever makes them.
MCTwoRequests == requests[c1] + requests[c2] <= 2

MCSymmetry == Permutations({c1, c2})
=============================================================================
