--------------------------- MODULE Identity_proofs ---------------------------
(***************************************************************************)
(* What MCIdentity explores is what the four state machines of the         *)
(* Administrator's side do: a behaviour of IdentitySpec is one of each of  *)
(* them, so that it has what is proved of each.                            *)
(***************************************************************************)
EXTENDS MCIdentity, SignIn_proofs, Attempts_proofs, Pages_proofs

identityVars == <<part, flVars, sfVars, siVars, pagesVars>>

\* A step of any part is one of each state machine, or leaves its variables alone: the parts
\* share none, and what they add to a next-state relation only forbids steps.
LEMMA LimiterWithin ==
  ASSUME [IdentityNext]_identityVars
  PROVE  [FailureLimiterNext]_flVars
<1>1. CASE LimiterNext
  BY <1>1 DEF LimiterNext
<1>2. CASE FactorNext
  BY <1>2 DEF FactorNext
<1>3. CASE SessionsNext
  BY <1>3 DEF SessionsNext, SignInOnly
<1>4. CASE WaysNext
  BY <1>4 DEF WaysNext, SignInOnly
<1>5. CASE PoliciesNext
  BY <1>5 DEF PoliciesNext, SignInOnly
<1>6. CASE BindingsNext
  BY <1>6 DEF BindingsNext, SignInOnly
<1>7. CASE ListsNext
  BY <1>7 DEF ListsNext
<1>8. CASE UNCHANGED identityVars
  BY <1>8 DEF identityVars
<1> QED
  BY <1>1, <1>2, <1>3, <1>4, <1>5, <1>6, <1>7, <1>8 DEF IdentityNext

LEMMA FactorWithin ==
  ASSUME [IdentityNext]_identityVars
  PROVE  [SecondFactorNext]_sfVars
<1>1. CASE LimiterNext
  BY <1>1 DEF LimiterNext
<1>2. CASE FactorNext
  BY <1>2 DEF FactorNext
<1>3. CASE SessionsNext
  BY <1>3 DEF SessionsNext, SignInOnly
<1>4. CASE WaysNext
  BY <1>4 DEF WaysNext, SignInOnly
<1>5. CASE PoliciesNext
  BY <1>5 DEF PoliciesNext, SignInOnly
<1>6. CASE BindingsNext
  BY <1>6 DEF BindingsNext, SignInOnly
<1>7. CASE ListsNext
  BY <1>7 DEF ListsNext
<1>8. CASE UNCHANGED identityVars
  BY <1>8 DEF identityVars
<1> QED
  BY <1>1, <1>2, <1>3, <1>4, <1>5, <1>6, <1>7, <1>8 DEF IdentityNext

LEMMA SignInWithin ==
  ASSUME [IdentityNext]_identityVars
  PROVE  [SignInNext]_siVars
<1>1. CASE LimiterNext
  BY <1>1 DEF LimiterNext
<1>2. CASE FactorNext
  BY <1>2 DEF FactorNext
<1>3. CASE SessionsNext
  BY <1>3 DEF SessionsNext, SignInOnly
<1>4. CASE WaysNext
  BY <1>4 DEF WaysNext, SignInOnly
<1>5. CASE PoliciesNext
  BY <1>5 DEF PoliciesNext, SignInOnly
<1>6. CASE BindingsNext
  BY <1>6 DEF BindingsNext, SignInOnly
<1>7. CASE ListsNext
  BY <1>7 DEF ListsNext
<1>8. CASE UNCHANGED identityVars
  BY <1>8 DEF identityVars
<1> QED
  BY <1>1, <1>2, <1>3, <1>4, <1>5, <1>6, <1>7, <1>8 DEF IdentityNext

LEMMA PagesWithin ==
  ASSUME [IdentityNext]_identityVars
  PROVE  [PagesNext]_pagesVars
<1>1. CASE LimiterNext
  BY <1>1 DEF LimiterNext
<1>2. CASE FactorNext
  BY <1>2 DEF FactorNext
<1>3. CASE SessionsNext
  BY <1>3 DEF SessionsNext, SignInOnly
<1>4. CASE WaysNext
  BY <1>4 DEF WaysNext, SignInOnly
<1>5. CASE PoliciesNext
  BY <1>5 DEF PoliciesNext, SignInOnly
<1>6. CASE BindingsNext
  BY <1>6 DEF BindingsNext, SignInOnly
<1>7. CASE ListsNext
  BY <1>7 DEF ListsNext
<1>8. CASE UNCHANGED identityVars
  BY <1>8 DEF identityVars
<1> QED
  BY <1>1, <1>2, <1>3, <1>4, <1>5, <1>6, <1>7, <1>8 DEF IdentityNext

\* Whatever is explored, the limiter admits, counts and ages as its own specification says.
THEOREM LimiterIsExplored ==
  IdentitySpec => FailureLimiterSpec
<1>1. IdentityInit => FailureLimiterInit
  BY DEF IdentityInit
<1>2. [IdentityNext]_identityVars => [FailureLimiterNext]_flVars
  BY LimiterWithin
<1> QED
  BY <1>1, <1>2, PTL DEF IdentitySpec, identityVars, FailureLimiterSpec

\* Whatever is explored, enrollments and codes change as their own specification says.
THEOREM FactorIsExplored ==
  IdentitySpec => SecondFactorSpec
<1>1. IdentityInit => SecondFactorInit
  BY DEF IdentityInit
<1>2. [IdentityNext]_identityVars => [SecondFactorNext]_sfVars
  BY FactorWithin
<1> QED
  BY <1>1, <1>2, PTL DEF IdentitySpec, identityVars, SecondFactorSpec

\* Each of the four selections of requests leaves sign-in a behaviour of its whole
\* specification: none of them lets it do what the code does not.
THEOREM SignInIsExplored ==
  IdentitySpec => SignInSpec
<1>1. IdentityInit => SignInInit
  BY DEF IdentityInit
<1>2. [IdentityNext]_identityVars => [SignInNext]_siVars
  BY SignInWithin
<1> QED
  BY <1>1, <1>2, PTL DEF IdentitySpec, identityVars, SignInSpec

\* Whatever is explored, lists are read and written as their own specification says.
THEOREM PagesIsExplored ==
  IdentitySpec => PagesSpec
<1>1. IdentityInit => PagesInit
  BY DEF IdentityInit
<1>2. [IdentityNext]_identityVars => [PagesNext]_pagesVars
  BY PagesWithin
<1> QED
  BY <1>1, <1>2, PTL DEF IdentitySpec, identityVars, PagesSpec

\* What the code stores of the Administrator, and what a page of a list is made of, keep
\* their types, in every part of what is explored.
THEOREM IdentityTypeOKAlways ==
  IdentitySpec => []IdentityTypeOK
<1>1. FailureLimiterTypeOK /\ SecondFactorTypeOK /\ SignInTypeOK /\ PagesTypeOK => IdentityTypeOK
  BY DEF IdentityTypeOK
<1> QED
  BY <1>1, LimiterIsExplored, FactorIsExplored, SignInIsExplored, PagesIsExplored,
     LimiterTypeOKAlways, FactorTypeOKAlways, SignInTypeOKAlways, PagesTypeOKAlways, PTL

\* What the run checks of the Administrator's side, for any number of sources, requests,
\* sessions, codes, enrollments and rows.
THEOREM IdentityIsSafe ==
  IdentitySpec =>
    /\ [](FailuresAreBounded /\ BucketsAreBounded)
    /\ LimitsAreNotExtended
    /\ [](RequiredIsConfirmed /\ CodesWorkOnce)
    /\ [](OneAdministrator /\ ClosedPasswordHasBinding /\ SessionsAreCurrent /\ GrantsAreCurrent)
    /\ [](FactorIsEnforced /\ WaysInAreOpen /\ ChallengesAllowOneAttempt)
    /\ [](NothingIsShownTwice /\ OnlyCursorsAreSkipped)
<1>1. IdentitySpec => [](FailuresAreBounded /\ BucketsAreBounded) /\ LimitsAreNotExtended
  BY LimiterIsExplored, FailuresAreBoundedAlways, BucketsAreBoundedAlways,
     LimitsAreNotExtendedAlways, PTL
<1>2. IdentitySpec => [](RequiredIsConfirmed /\ CodesWorkOnce)
  BY FactorIsExplored, RequiredIsConfirmedAlways, CodesWorkOnceAlways, PTL
<1>3. IdentitySpec =>
        [](OneAdministrator /\ ClosedPasswordHasBinding /\ SessionsAreCurrent /\ GrantsAreCurrent)
  BY SignInIsExplored, OneAdministratorAlways, ClosedPasswordHasBindingAlways,
     SessionsAreCurrentAlways, GrantsAreCurrentAlways, PTL
<1>4. IdentitySpec => [](FactorIsEnforced /\ WaysInAreOpen /\ ChallengesAllowOneAttempt)
  BY SignInIsExplored, FactorIsEnforcedAlways, WaysInAreOpenAlways,
     ChallengesAllowOneAttemptAlways, PTL
<1>5. IdentitySpec => [](NothingIsShownTwice /\ OnlyCursorsAreSkipped)
  BY PagesIsExplored, NothingIsShownTwiceAlways, OnlyCursorsAreSkippedAlways, PTL
<1> QED
  BY <1>1, <1>2, <1>3, <1>4, <1>5, PTL
=============================================================================
