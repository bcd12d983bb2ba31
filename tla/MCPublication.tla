--------------------------- MODULE MCPublication ---------------------------
(* Publication on small instances.                                         *)
EXTENDS Publication, TLC

CONSTANTS e1, e2, s1, s2, p1, p2, g1, g2, app

\* Every secret starts at a path of its own.
OwnName == (s1 :> p1) @@ (s2 :> p2)

\* One environment with two secrets.
OneHome == (s1 :> e1) @@ (s2 :> e1)

OneApp == e1 :> app

\* Two environments of one application, a secret in each.
TwoHomes == (s1 :> e1) @@ (s2 :> e2)

SameName == (s1 :> p1) @@ (s2 :> p1)

TwoEnvApp == (e1 :> app) @@ (e2 :> app)
=============================================================================
