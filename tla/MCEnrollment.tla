---------------------------- MODULE MCEnrollment ----------------------------
(* Enrollment on small instances.                                          *)
EXTENDS Enrollment, TLC

CONSTANTS n1, n2, h1, h2, t1, t2, t3

Symmetry == UNION {Permutations(Nodes), Permutations(Hosts), Permutations(Tokens)}
=============================================================================
