SPECIFICATION IdentitySpec
CONSTANTS
  Providers = {"oidc", "oauth"}
  MaxSessions = 2
  MaxCodes = 2
  Slots = {1, 2}
  MaxEnrollments = 2
  MaxPeriod = 3
  FactorSlots = {1, 2}
  Sources = {"s1", "s2", "s3"}
  FailureLimit = 2
  FailureWindow = 2
  MaxBuckets = 2
  Attempts = {1, 2, 3}
  RowIds = {1, 2, 3, 4}
  Seconds = {0, 1}
  Fractions = {0, 1}
  DefaultLimit = 1
  MaxLimit = 2
  PageNumbers = {0, 1, 2}
INVARIANTS
  IdentityTypeOK
  FailuresAreBounded
  BucketsAreBounded
  RequiredIsConfirmed
  CodesWorkOnce
  OneAdministrator
  ClosedPasswordHasBinding
  SessionsAreCurrent
  GrantsAreCurrent
  FactorIsEnforced
  WaysInAreOpen
  ChallengesAllowOneAttempt
  NothingIsShownTwice
  OnlyCursorsAreSkipped
PROPERTY
  LimitsAreNotExtended
CHECK_DEADLOCK FALSE
