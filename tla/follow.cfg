\* A publication or a rollback racing another, or an assignment; no request dies.
SPECIFICATION Spec
CONSTANTS
  e1 = e1
  e2 = e2
  s1 = s1
  s2 = s2
  p1 = p1
  p2 = p2
  g1 = g1
  g2 = g2
  app = app
  Environments = {e1}
  Applications = {app}
  AppOf <- OneApp
  Secrets = {s1, s2}
  Home <- OneHome
  Paths = {p1, p2}
  NamePath <- OwnName
  Groups = {g1}
  MayFail = FALSE
  MaxSeq = 2
  MaxDraft = 3
  MaxRevision = 2
  MaxInFlight = 2
INVARIANT
  AssignmentsFollowTheBundle
CHECK_DEADLOCK FALSE
