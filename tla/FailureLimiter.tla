--------------------------- MODULE FailureLimiter ---------------------------
(***************************************************************************)
(* The limiter of failed sign-in attempts: per client source a bucket of   *)
(* failures in a window that starts with the first of them, at most        *)
(* MaxBuckets of them, in the memory of the process.  The handlers of the  *)
(* password and of the second factor each have a limiter of their own and  *)
(* use it the same way: ask it before the attempt, tell it afterwards.     *)
(* The mutex makes each of the three calls one step, but not the attempt   *)
(* as a whole.                                                             *)
(***************************************************************************)
EXTENDS Naturals, FiniteSets

CONSTANTS
  Sources,        \* client addresses
  FailureLimit,   \* authFailureLimit
  FailureWindow,  \* authFailureWindow, in ticks of the clock
  MaxBuckets,     \* maxFailureBuckets
  Attempts        \* attempts under way at once

NoSource == "none"

\* What the constants of the code satisfy, and that attempts at once are finitely many.
ASSUME LimiterAssumption ==
  /\ FailureLimit \in Nat \ {0} /\ FailureWindow \in Nat \ {0} /\ MaxBuckets \in Nat \ {0}
  /\ IsFiniteSet(Attempts)
  /\ NoSource \notin Sources

VARIABLES
  bucket,         \* buckets; the age of a window stops at FailureWindow
  attempt         \* the source whose attempt is under way, admitted by the limiter

flVars == <<bucket, attempt>>

NoBucket == [count |-> 0, age |-> 0]

FailureLimiterTypeOK ==
  /\ bucket \in [Sources -> [count : 1 .. FailureLimit + Cardinality(Attempts),
                             age : 0 .. FailureWindow] \cup {NoBucket}]
  /\ attempt \in [Attempts -> Sources \cup {NoSource}]

FailureLimiterInit ==
  /\ bucket = [s \in Sources |-> NoBucket]
  /\ attempt = [a \in Attempts |-> NoSource]

Buckets == {s \in Sources : bucket[s] # NoBucket}
Expired(s) == bucket[s].age >= FailureWindow
Live(s) == s \in Buckets /\ ~Expired(s)

Limited(s) == Live(s) /\ bucket[s].count >= FailureLimit

\* Defect: the limit is not looked at.
AdmitAnyone(a, s) ==
  /\ attempt[a] = NoSource
  /\ attempt' = [attempt EXCEPT ![a] = s]
  /\ bucket' = IF Expired(s) THEN [bucket EXCEPT ![s] = NoBucket] ELSE bucket

\* limited, when it lets an attempt through: an expired bucket goes.
Admit(a, s) ==
  /\ attempt[a] = NoSource
  /\ ~Limited(s)
  /\ attempt' = [attempt EXCEPT ![a] = s]
  /\ bucket' = IF Expired(s) THEN [bucket EXCEPT ![s] = NoBucket] ELSE bucket

\* Defect: only the expired buckets make room.
RoomsOfExpired ==
  {IF Cardinality(Buckets) < MaxBuckets THEN Buckets ELSE {s \in Buckets : ~Expired(s)}}

\* The buckets that may be left when a full map makes room: the expired ones go and, when
\* there is none, one that range happens to meet first.
Rooms ==
  LET live == {s \in Buckets : ~Expired(s)}
  IN IF Cardinality(Buckets) < MaxBuckets THEN {Buckets}
     ELSE IF Cardinality(live) < MaxBuckets THEN {live}
     ELSE {live \ {s} : s \in live}

\* Defect: every failure starts the window again.
FailedSliding(a) ==
  LET s == attempt[a]
  IN /\ attempt[a] # NoSource
     /\ \E kept \in IF Live(s) THEN {Buckets} ELSE Rooms :
          bucket' = [x \in Sources |->
            IF x = s THEN [count |-> IF Live(s) THEN bucket[s].count + 1 ELSE 1, age |-> 0]
            ELSE IF x \in kept THEN bucket[x] ELSE NoBucket]
     /\ attempt' = [attempt EXCEPT ![a] = NoSource]

Failed(a) ==
  LET s == attempt[a]
  IN /\ attempt[a] # NoSource
     /\ \E kept \in IF Live(s) THEN {Buckets} ELSE Rooms :
          bucket' = [x \in Sources |->
            IF x = s THEN IF Live(s) THEN [bucket[s] EXCEPT !.count = @ + 1]
                          ELSE [count |-> 1, age |-> 0]
            ELSE IF x \in kept THEN bucket[x] ELSE NoBucket]
     /\ attempt' = [attempt EXCEPT ![a] = NoSource]

Succeeded(a) ==
  /\ attempt[a] # NoSource
  /\ bucket' = [bucket EXCEPT ![attempt[a]] = NoBucket]
  /\ attempt' = [attempt EXCEPT ![a] = NoSource]

\* The attempt ended in neither: a body that is no JSON, an internal error, or a password
\* login that is not available, which Login does not count as a failure.
Uncounted(a) ==
  /\ attempt[a] # NoSource
  /\ attempt' = [attempt EXCEPT ![a] = NoSource]
  /\ bucket' = bucket

Age ==
  /\ \E s \in Sources : Live(s)
  /\ bucket' = [s \in Sources |->
       IF Live(s) THEN [bucket[s] EXCEPT !.age = @ + 1] ELSE bucket[s]]
  /\ attempt' = attempt

FailureLimiterNext ==
  \/ \E a \in Attempts :
       \/ \E s \in Sources : Admit(a, s)
       \/ Failed(a)
       \/ Succeeded(a)
       \/ Uncounted(a)
  \/ Age

FailureLimiterSpec == FailureLimiterInit /\ [][FailureLimiterNext]_flVars

-----------------------------------------------------------------------------
(* Properties.                                                             *)

\* "bounds failed authentication attempts per client source": attempts that were admitted
\* together overrun the limit, by as many as are under way besides the one that reaches it.
FailuresAreBounded ==
  \A s \in Sources : bucket[s].count <= FailureLimit + Cardinality(Attempts) - 1

\* The map does not grow beyond its bound, whatever sources fail and whatever expires.
BucketsAreBounded == Cardinality(Buckets) <= MaxBuckets

\* "Buckets expire without locking an Administrator out permanently": neither attempts that
\* were admitted earlier nor other sources prolong the window of a source that is limited.
KeepsLimits ==
  \A s \in Sources : Limited(s) /\ bucket'[s] # NoBucket => bucket'[s].age >= bucket[s].age
LimitsAreNotExtended == [][KeepsLimits]_flVars
=============================================================================
