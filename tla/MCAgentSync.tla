---------------------------- MODULE MCAgentSync ----------------------------
(* AgentSync on small instances.                                           *)
EXTENDS AgentSync, TLC

CONSTANTS b1, b2, a1, a2, p1, p2, p3, c1, c2

\* The first bundle has two files, the second one; each revision changes one of them.
SomeFiles ==
  [r \in Rev |->
     IF r.bundle = b1
     THEN {[path |-> p1, content |-> IF r.n = 1 THEN c1 ELSE c2], [path |-> p2, content |-> c1]}
     ELSE {[path |-> p3, content |-> IF r.n = 1 THEN c1 ELSE c2]}]
=============================================================================
