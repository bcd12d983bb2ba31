------------------------------ MODULE MCFleet ------------------------------
(* Fleet on small instances.                                               *)
EXTENDS Fleet, TLC

CONSTANTS n1, n2, g1, g2, b1, b2, a1, a2, a3

\* Node, group, bundle and assignment ids are interchangeable.
Symmetry ==
  UNION {Permutations(Nodes), Permutations(Groups), Permutations(Bundles), Permutations(Ids)}
=============================================================================
