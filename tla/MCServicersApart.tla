-------------------------- MODULE MCServicersApart --------------------------
(***************************************************************************)
(* ServicersApart with two processes and a servicer at each: those of one  *)
(* process share a main routine, and ServicerSide has them.                *)
(***************************************************************************)
EXTENDS ServicersApart

CONSTANTS p1, p2, s1, s2

MCProcessOf == [s \in {s1, s2} |-> IF s = s1 THEN p1 ELSE p2]

MCMaxAsks == [s \in {s1, s2} |-> IF s = s1 THEN 2 ELSE 1]
=============================================================================
