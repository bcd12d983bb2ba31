\* One bundle, one failed activation.
SPECIFICATION Spec
CONSTANTS
  b1 = b1
  b2 = b2
  a1 = a1
  a2 = a2
  p1 = p1
  p2 = p2
  p3 = p3
  c1 = c1
  c2 = c2
  Bundles = {b1}
  Ids = {a1}
  Paths = {p1, p2, p3}
  Contents = {c1, c2}
  FilesOf <- SomeFiles
  MaxRev = 1
  MaxFailures = 1
PROPERTY
  FailedActivationIsRetried
CHECK_DEADLOCK FALSE
