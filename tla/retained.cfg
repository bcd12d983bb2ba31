\* One transaction at a time: deletions that take unconfirmed cleanup along.
SPECIFICATION Spec
CONSTANTS
  n1 = n1
  n2 = n2
  g1 = g1
  g2 = g2
  b1 = b1
  b2 = b2
  a1 = a1
  a2 = a2
  a3 = a3
  Nodes = {n1, n2}
  Groups = {g1, g2}
  Bundles = {b1, b2}
  Ids = {a1, a2}
  MaxInFlight = 1
SYMMETRY Symmetry
PROPERTY
  UnconfirmedCleanupIsKept
