\* Two environments of one application, a secret in each: what crosses between bundles.
SPECIFICATION Spec
CONSTANTS
  e1 = e1
  e2 = e2
  s1 = s1
  s2 = s2
  p1 = p1
  p2 = p2
  g1 = g1
  g2 = g2
  app = app
  Environments = {e1, e2}
  Applications = {app}
  AppOf <- TwoEnvApp
  Secrets = {s1, s2}
  Home <- TwoHomes
  Paths = {p1}
  NamePath <- SameName
  Groups = {g1}
  MayFail = TRUE
  MaxSeq = 1
  MaxDraft = 2
  MaxRevision = 2
  MaxInFlight = 2
INVARIANT
  BundlesAreIsolated
CHECK_DEADLOCK FALSE
