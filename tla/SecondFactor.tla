---------------------------- MODULE SecondFactor ----------------------------
(***************************************************************************)
(* The second factor of the Administrator: TOTP enrollment in three        *)
(* requests (start, verify, confirm), the TOTP Login Policy that           *)
(* confirming turns on, the codes that satisfy it, and turning it off.     *)
(* Requests are cut where the code commits: what one has read another may  *)
(* change before it goes on.                                               *)
(*                                                                         *)
(* An enrollment stands for its secret and its three tokens; a TOTP code   *)
(* is the enrollment and the period it belongs to; one recovery code of an *)
(* enrollment stands for the ten.  Passwords are right, since a wrong one  *)
(* changes nothing, and an enrollment that is past its 30 minutes is one   *)
(* nobody verifies or confirms any more.                                   *)
(***************************************************************************)
EXTENDS Naturals, Bags

CONSTANTS
  MaxEnrollments,  \* bound on the enrollments ever started
  MaxPeriod,       \* bound on the TOTP periods that pass
  FactorSlots      \* requests under way at once

\* The bounds leave room for a period before the first and for a code of the next.
ASSUME FactorAssumption == MaxEnrollments \in Nat /\ MaxPeriod \in Nat /\ MaxPeriod >= 2

VARIABLES
  policy,          \* organization_config.totp_login_required
  enrollment,      \* the one row of mfa_enrollments (admin_id is unique)
  started,         \* enrollments inserted so far
  recovery,        \* recovery_codes, by the enrollment they were made for
  counter,         \* admins.last_totp_counter; 0 is NULL
  period,          \* now, in TOTP periods
  factorRequest,   \* the request in each slot
  accepted,        \* history: the codes taken as second factors, a bag
  overtaken,       \* history: a confirmation fell between the two halves of a start
  stripped         \* history: enrollments verified between the two DELETEs of a DisableTOTP

histories == <<overtaken, stripped>>

sfVars == <<policy, enrollment, started, recovery, counter, period, factorRequest, accepted,
            histories>>

Enrollments == 1 .. MaxEnrollments
Periods == 1 .. MaxPeriod + 1

NoEnrollment == [id |-> 0, stage |-> "none"]
MFAEnrollment == [id : Enrollments, stage : {"started", "verified", "confirmed"}]

NoFactorRequest == [op |-> "none", at |-> "idle", id |-> 0, code |-> 0]
FactorRequest ==
  [op : {"start"}, at : {"asked", "checked"}, id : {0}, code : {0}]
  \cup [op : {"verify"}, at : {"read"}, id : Enrollments, code : {0}]
  \cup [op : {"prove", "disable"}, at : {"read"}, id : Enrollments, code : Periods]
  \cup [op : {"disable"}, at : {"proved"}, id : Enrollments, code : Periods]
  \cup [op : {"disable"}, at : {"deleted"}, id : 0 .. MaxEnrollments, code : Periods]

Code == [by : {"totp"}, id : Enrollments, period : Periods]
        \cup [by : {"recovery"}, id : Enrollments, period : {0}]

SecondFactorTypeOK ==
  /\ policy \in BOOLEAN
  /\ enrollment \in MFAEnrollment \cup {NoEnrollment}
  /\ started \in 0 .. MaxEnrollments /\ enrollment.id <= started
  /\ recovery \in [Enrollments -> {"none", "unused", "used"}]
  /\ counter \in 0 .. MaxPeriod + 1
  /\ period \in 2 .. MaxPeriod
  /\ factorRequest \in [FactorSlots -> FactorRequest \cup {NoFactorRequest}]
  /\ IsABag(accepted) /\ BagToSet(accepted) \subseteq Code
  /\ overtaken \in BOOLEAN /\ stripped \subseteq Enrollments

SecondFactorInit ==
  /\ policy = FALSE
  /\ enrollment = NoEnrollment
  /\ started = 0
  /\ recovery = [i \in Enrollments |-> "none"]
  /\ counter = 0
  /\ period = 2
  /\ factorRequest = [s \in FactorSlots |-> NoFactorRequest]
  /\ accepted = EmptyBag
  /\ overtaken = FALSE /\ stripped = {}

-----------------------------------------------------------------------------
(* Queries.                                                                *)

HasAnyConfirmedMFA == enrollment.stage = "confirmed"

SelectMFAEnrollmentForVerify(id) == enrollment = [id |-> id, stage |-> "started"]

SelectMFAEnrollmentForConfirm(id) == enrollment = [id |-> id, stage |-> "verified"]

\* The recovery codes of an enrollment that is replaced later stay.
InsertRecoveryCode(id) == recovery' = [recovery EXCEPT ![id] = "unused"]

\* Defect: the row is updated whatever the last counter is.
UseTOTPUnordered(c) == counter' = c

\* The last counter is kept when TOTP is turned off.
UseTOTP(c) == counter < c /\ counter' = c

ConsumeRecoveryCode(id) ==
  /\ recovery[id] = "unused"
  /\ recovery' = [recovery EXCEPT ![id] = "used"]

\* The period before, the current one and the next are matched.
TOTPMatchingCounter(c) == c \in period - 1 .. period + 1

-----------------------------------------------------------------------------
(* Requests.                                                               *)

BeginFactor(s, q) ==
  /\ factorRequest[s] = NoFactorRequest
  /\ factorRequest' = [factorRequest EXCEPT ![s] = q]
GoesFactor(s, at) == factorRequest' = [factorRequest EXCEPT ![s].at = at]
EndsFactor(s) == factorRequest' = [factorRequest EXCEPT ![s] = NoFactorRequest]
IsFactor(s, op, at) == factorRequest[s].op = op /\ factorRequest[s].at = at

\* DisableTOTP updates organization_config first: from there to its COMMIT it is alone.
Disabling == \E s \in FactorSlots : IsFactor(s, "disable", "deleted")
MayDisable(s) == IsFactor(s, "disable", "proved") /\ ~Disabling

\* It holds the row it has deleted, until it commits or is cut off.
LockedByDisable ==
  /\ enrollment # NoEnrollment
  /\ \E s \in FactorSlots :
       IsFactor(s, "disable", "deleted") /\ factorRequest[s].id = enrollment.id

Deleted(s, id) == [factorRequest[s] EXCEPT !.at = "deleted", !.id = id]

StartTOTPEnrollment(s) ==
  /\ ~policy
  /\ BeginFactor(s, [op |-> "start", at |-> "asked", id |-> 0, code |-> 0])
  /\ UNCHANGED <<policy, enrollment, started, recovery, counter, period, accepted, histories>>

\* Defect: the confirmed enrollment is not looked for.
CheckNothing(s) ==
  /\ IsFactor(s, "start", "asked")
  /\ GoesFactor(s, "checked")
  /\ UNCHANGED <<policy, enrollment, started, recovery, counter, period, accepted, histories>>

\* CreateEnrollmentForMember, its SELECT: at READ COMMITTED, and without a lock.
CheckConfirmed(s) ==
  /\ IsFactor(s, "start", "asked")
  /\ ~HasAnyConfirmedMFA
  /\ GoesFactor(s, "checked")
  /\ UNCHANGED <<policy, enrollment, started, recovery, counter, period, accepted, histories>>

\* CreateEnrollmentForMember, its DELETE and INSERT: of two at once the second fails on the
\* unique admin_id, unless its DELETE sees what the first has committed.  A disable whose
\* DELETE has waited for this one finds nothing.
ReplaceEnrollment(s) ==
  /\ IsFactor(s, "start", "checked")
  /\ ~LockedByDisable
  /\ started < MaxEnrollments
  /\ started' = started + 1
  /\ enrollment' = [id |-> started', stage |-> "started"]
  /\ \/ EndsFactor(s)
     \/ \E t \in FactorSlots :
          /\ MayDisable(t) /\ enrollment # NoEnrollment
          /\ factorRequest' = [factorRequest EXCEPT ![s] = NoFactorRequest, ![t] = Deleted(t, 0)]
  /\ UNCHANGED <<policy, recovery, counter, period, accepted, histories>>

\* MFAEnrollmentByToken: the stage is not looked at yet.  The TOTP code that is asked for
\* is checked against the secret that was read, and is not burned.
VerifyMFAEnrollment(s) ==
  /\ enrollment # NoEnrollment
  /\ BeginFactor(s, [op |-> "verify", at |-> "read", id |-> enrollment.id, code |-> 0])
  /\ UNCHANGED <<policy, enrollment, started, recovery, counter, period, accepted, histories>>

CompleteMFAEnrollment(s) ==
  /\ IsFactor(s, "verify", "read")
  /\ ~LockedByDisable
  /\ SelectMFAEnrollmentForVerify(factorRequest[s].id)
  /\ enrollment' = [enrollment EXCEPT !.stage = "verified"]
  /\ InsertRecoveryCode(enrollment.id)
  /\ stripped' = IF Disabling THEN stripped \cup {enrollment.id} ELSE stripped
  /\ EndsFactor(s)
  /\ UNCHANGED <<policy, started, counter, period, accepted, overtaken>>

\* One transaction, which updates organization_config, too; the sessions it ends are those of
\* SignIn.
ConfirmMFAEnrollment ==
  /\ ~Disabling
  /\ SelectMFAEnrollmentForConfirm(enrollment.id)
  /\ enrollment' = [enrollment EXCEPT !.stage = "confirmed"]
  /\ policy' = TRUE
  /\ overtaken' = (overtaken \/ \E s \in FactorSlots : IsFactor(s, "start", "checked"))
  /\ UNCHANGED <<started, recovery, counter, period, factorRequest, accepted, stripped>>

\* verifySecondFactor up to UPDATE admins, for a login or another policy proof, and for
\* DisableTOTP, which asks for a TOTP code whether or not the policy does.
PresentTOTP(s, op, c) ==
  /\ HasAnyConfirmedMFA
  /\ TOTPMatchingCounter(c)
  /\ BeginFactor(s, [op |-> op, at |-> "read", id |-> enrollment.id, code |-> c])
  /\ UNCHANGED <<policy, enrollment, started, recovery, counter, period, accepted, histories>>

AcceptTOTP(s) ==
  /\ factorRequest[s].op \in {"prove", "disable"} /\ factorRequest[s].at = "read"
  /\ UseTOTP(factorRequest[s].code)
  /\ accepted' = accepted (+) SetToBag({[by |-> "totp", id |-> factorRequest[s].id,
                                         period |-> factorRequest[s].code]})
  /\ IF factorRequest[s].op = "disable" THEN GoesFactor(s, "proved") ELSE EndsFactor(s)
  /\ UNCHANGED <<policy, enrollment, started, recovery, period, histories>>

\* verifySecondFactor with a recovery code is one UPDATE.
AcceptRecoveryCode(id) ==
  /\ ConsumeRecoveryCode(id)
  /\ accepted' = accepted (+) SetToBag({[by |-> "recovery", id |-> id, period |-> 0]})
  /\ UNCHANGED <<policy, enrollment, started, counter, period, factorRequest, histories>>

\* DisableTOTP, its first DELETE, which may find another enrollment than the one that was
\* proved, or none.  Nobody sees it before the COMMIT.
DeleteMFAEnrollmentsForMember(s) ==
  /\ MayDisable(s)
  /\ factorRequest' = [factorRequest EXCEPT ![s] = Deleted(s, enrollment.id)]
  /\ UNCHANGED <<policy, enrollment, started, recovery, counter, period, accepted, histories>>

\* Its second DELETE, a statement of its own at READ COMMITTED, and COMMIT.
DeleteRecoveryCodesForMember(s) ==
  /\ IsFactor(s, "disable", "deleted")
  /\ policy' = FALSE
  /\ enrollment' = IF enrollment.id = factorRequest[s].id THEN NoEnrollment ELSE enrollment
  /\ recovery' = [i \in Enrollments |-> "none"]
  /\ EndsFactor(s)
  /\ UNCHANGED <<started, counter, period, accepted, histories>>

\* A request is refused where its guard is false, or is cut off: what it has committed stays.
AbandonFactorRequest(s) ==
  /\ factorRequest[s] # NoFactorRequest
  /\ EndsFactor(s)
  /\ UNCHANGED <<policy, enrollment, started, recovery, counter, period, accepted, histories>>

Tick ==
  /\ period < MaxPeriod
  /\ period' = period + 1
  /\ UNCHANGED <<policy, enrollment, started, recovery, counter, factorRequest, accepted,
                 histories>>

SecondFactorNext ==
  \/ \E s \in FactorSlots :
       \/ StartTOTPEnrollment(s)
       \/ CheckConfirmed(s)
       \/ ReplaceEnrollment(s)
       \/ VerifyMFAEnrollment(s)
       \/ CompleteMFAEnrollment(s)
       \/ \E op \in {"prove", "disable"}, c \in Periods : PresentTOTP(s, op, c)
       \/ AcceptTOTP(s)
       \/ DeleteMFAEnrollmentsForMember(s)
       \/ DeleteRecoveryCodesForMember(s)
       \/ AbandonFactorRequest(s)
  \/ ConfirmMFAEnrollment
  \/ \E id \in Enrollments : AcceptRecoveryCode(id)
  \/ Tick

SecondFactorSpec == SecondFactorInit /\ [][SecondFactorNext]_sfVars

-----------------------------------------------------------------------------
(* Properties.                                                             *)

\* The policy that demands a second factor is on exactly while there is a confirmed
\* enrollment to give one, of which recovery codes are kept, whatever requests overlap, but
\* for two races: a confirmation that commits between the check and the DELETE of a start has
\* its enrollment overwritten (CreateEnrollmentForMember), and of an enrollment verified
\* between the two DELETEs of a DisableTOTP the codes are gone before it is confirmed.
RequiredIsConfirmed ==
  ~overtaken =>
    /\ policy <=> enrollment.stage = "confirmed"
    /\ policy /\ enrollment.id \notin stripped => recovery[enrollment.id] # "none"

\* A TOTP code, and a recovery code, is taken once, by whatever requests present it at the
\* same time, and also after TOTP was turned off and on again.
CodesWorkOnce == \A c \in BagToSet(accepted) : accepted[c] = 1
=============================================================================
