\* Two nodes, two hosts, three commands, three attempts, crashes and lost answers anywhere.
SPECIFICATION Spec
CONSTANTS
  n1 = n1
  n2 = n2
  h1 = h1
  h2 = h2
  t1 = t1
  t2 = t2
  t3 = t3
  Nodes = {n1, n2}
  Hosts = {h1, h2}
  Tokens = {t1, t2, t3}
  NoNode = NoNode
  MaxAttempts = 3
SYMMETRY Symmetry
INVARIANTS
  TypeOK
  TokensAreSingleUse
  AcceptedCanRead
  EnrolledIsAccepted
PROPERTY
  DeletedStaysOut
CHECK_DEADLOCK FALSE
