-------------------------- MODULE Attempts_proofs --------------------------
(***************************************************************************)
(* Proofs about what an attempt to sign in is held to: the failures        *)
(* FailureLimiter counts and the codes SecondFactor takes, for any number  *)
(* of sources, limits, enrollments, periods and requests at once.          *)
(***************************************************************************)
EXTENDS SecondFactor, FailureLimiter, FiniteSetTheorems, TLAPS

-----------------------------------------------------------------------------
(* SecondFactor.  The policy and the enrollment agree because a start that *)
(* has passed its check meets a confirmed enrollment only where the        *)
(* confirmation has overtaken it ("NoStartBehind"), and because a disable  *)
(* between its two DELETEs is alone, holds the row it has deleted, and has *)
(* missed only what was inserted behind it ("Disables"); a code is taken   *)
(* once because the counter only grows ("CountedCodes"), and because the   *)
(* recovery codes that were taken are never handed out again               *)
(* ("TakenCodes").                                                         *)

Agreement == ~overtaken => (policy <=> enrollment.stage = "confirmed")

NoStartBehind ==
  ~overtaken /\ enrollment.stage = "confirmed" =>
    \A s \in FactorSlots : ~IsFactor(s, "start", "checked")

HandedOut ==
  /\ enrollment.stage \in {"verified", "confirmed"} /\ enrollment.id \notin stripped =>
       recovery[enrollment.id] # "none"
  /\ enrollment.stage = "started" => recovery[enrollment.id] = "none"
  /\ \A id \in Enrollments : id > started => recovery[id] = "none"

Missed ==
  /\ enrollment.stage # "confirmed"
  /\ enrollment.stage = "verified" => enrollment.id \in stripped

Disables ==
  /\ \A s \in FactorSlots : IsFactor(s, "disable", "deleted") =>
       IF factorRequest[s].id = 0 THEN Missed ELSE enrollment.id = factorRequest[s].id
  /\ \A s, t \in FactorSlots :
       IsFactor(s, "disable", "deleted") /\ IsFactor(t, "disable", "deleted") => s = t

CountedCodes == \A c \in DOMAIN accepted : c.by = "totp" => c.period <= counter

TakenCodes ==
  \A c \in DOMAIN accepted : c.by = "recovery" =>
    /\ c.id <= started
    /\ recovery[c.id] # "unused"
    /\ ~(enrollment.stage = "started" /\ enrollment.id = c.id)

Once == \A c \in DOMAIN accepted : accepted[c] = 1

FactorInv ==
  /\ SecondFactorTypeOK
  /\ Agreement
  /\ NoStartBehind
  /\ HandedOut
  /\ Disables
  /\ CountedCodes
  /\ TakenCodes
  /\ Once

\* A code that was not in the bag is in it once.
LEMMA CodeAdded ==
  ASSUME IsABag(accepted), Once, NEW c, c \notin DOMAIN accepted,
         accepted' = accepted (+) SetToBag({c})
  PROVE  /\ IsABag(accepted')
         /\ DOMAIN accepted' = DOMAIN accepted \cup {c}
         /\ Once'
<1>1. accepted' = [e \in DOMAIN accepted \cup {c} |->
                     (IF e \in DOMAIN accepted THEN accepted[e] ELSE 0)
                     + (IF e \in {c} THEN 1 ELSE 0)]
  BY DEF (+), SetToBag
<1>2. DOMAIN accepted' = DOMAIN accepted \cup {c} /\ Once'
  BY <1>1 DEF Once
<1>3. accepted' = [e \in DOMAIN accepted' |-> accepted'[e]]
  BY <1>1
<1> QED
  BY <1>2, <1>3 DEF Once, IsABag

\* The shapes of a request.
LEMMA RequestShapes ==
  ASSUME SecondFactorTypeOK, NEW s \in FactorSlots
  PROVE  /\ factorRequest[s].op = "start" => factorRequest[s] \in
              [op : {"start"}, at : {"asked", "checked"}, id : {0}, code : {0}]
         /\ factorRequest[s].op = "verify" => factorRequest[s] \in
              [op : {"verify"}, at : {"read"}, id : Enrollments, code : {0}]
         /\ factorRequest[s].op \in {"prove", "disable"} /\ factorRequest[s].at = "read" =>
              factorRequest[s] \in
                [op : {"prove", "disable"}, at : {"read"}, id : Enrollments, code : Periods]
         /\ IsFactor(s, "disable", "proved") => factorRequest[s] \in
              [op : {"disable"}, at : {"proved"}, id : Enrollments, code : Periods]
         /\ IsFactor(s, "disable", "deleted") => factorRequest[s] \in
              [op : {"disable"}, at : {"deleted"}, id : 0 .. MaxEnrollments, code : Periods]
  BY DEF SecondFactorTypeOK, FactorRequest, NoFactorRequest, IsFactor

\* A request that is given another shape than "deleted".
LEMMA DisablesKept ==
  ASSUME FactorInv, UNCHANGED <<enrollment, stripped>>, NEW s \in FactorSlots, NEW q,
         q.at # "deleted", factorRequest' = [factorRequest EXCEPT ![s] = q]
  PROVE  Disables'
<1>1. \A x \in FactorSlots : IsFactor(x, "disable", "deleted")' =>
        IsFactor(x, "disable", "deleted") /\ factorRequest'[x] = factorRequest[x]
  BY DEF IsFactor, FactorInv, SecondFactorTypeOK
<1> QED
  BY <1>1 DEF FactorInv, Disables, Missed

\* A step that moves requests only.
LEMMA FactorRequestStep ==
  ASSUME FactorInv,
         UNCHANGED <<policy, enrollment, started, recovery, counter, accepted,
                     overtaken, stripped>>,
         period' \in 2 .. MaxPeriod,
         factorRequest' \in [FactorSlots -> FactorRequest \cup {NoFactorRequest}],
         NoStartBehind', Disables'
  PROVE  FactorInv'
<1>1. SecondFactorTypeOK'
  BY DEF FactorInv, SecondFactorTypeOK, IsABag, BagToSet
<1>2. Agreement' /\ HandedOut' /\ CountedCodes' /\ TakenCodes' /\ Once'
  BY DEF FactorInv, Agreement, HandedOut, CountedCodes, TakenCodes, Once
<1> QED
  BY <1>1, <1>2 DEF FactorInv

LEMMA FactorInvInit ==
  ASSUME SecondFactorInit
  PROVE  FactorInv
<1>1. accepted = [e \in {} |-> 1]
  BY DEF SecondFactorInit, EmptyBag, SetToBag
<1>2. IsABag(accepted) /\ DOMAIN accepted = {}
  BY <1>1 DEF IsABag
<1>3. SecondFactorTypeOK
  <2>1. enrollment.id = 0 /\ started = 0
    BY DEF SecondFactorInit, NoEnrollment
  <2>2. 0 \in 0 .. MaxEnrollments /\ 0 \in 0 .. MaxPeriod + 1 /\ 2 \in 2 .. MaxPeriod
    BY FactorAssumption
  <2>3. /\ enrollment \in MFAEnrollment \cup {NoEnrollment} /\ enrollment.id <= started
        /\ recovery \in [Enrollments -> {"none", "unused", "used"}]
        /\ factorRequest \in [FactorSlots -> FactorRequest \cup {NoFactorRequest}]
    BY <2>1 DEF SecondFactorInit
  <2>4. BagToSet(accepted) \subseteq Code
    BY <1>2 DEF BagToSet
  <2>5. /\ started \in 0 .. MaxEnrollments /\ counter \in 0 .. MaxPeriod + 1
        /\ period \in 2 .. MaxPeriod /\ policy \in BOOLEAN /\ overtaken \in BOOLEAN
        /\ stripped \subseteq Enrollments
    BY <2>2 DEF SecondFactorInit
  <2> QED
    BY <1>2, <2>3, <2>4, <2>5 DEF SecondFactorTypeOK
<1>4. Agreement /\ NoStartBehind /\ HandedOut /\ Disables
  BY DEF SecondFactorInit, Agreement, NoStartBehind, HandedOut, NoEnrollment, Disables, IsFactor,
         NoFactorRequest
<1> QED
  BY <1>2, <1>3, <1>4 DEF FactorInv, CountedCodes, TakenCodes, Once

LEMMA RequestsInv ==
  ASSUME FactorInv, NEW s \in FactorSlots,
         \/ StartTOTPEnrollment(s) \/ CheckConfirmed(s) \/ VerifyMFAEnrollment(s)
         \/ \E op \in {"prove", "disable"}, c \in Periods : PresentTOTP(s, op, c)
         \/ AbandonFactorRequest(s)
  PROVE  FactorInv'
<1>1. CASE StartTOTPEnrollment(s)
  <2>1. factorRequest' =
          [factorRequest EXCEPT ![s] = [op |-> "start", at |-> "asked", id |-> 0, code |-> 0]]
    BY <1>1 DEF StartTOTPEnrollment, BeginFactor
  <2>2. factorRequest' \in [FactorSlots -> FactorRequest \cup {NoFactorRequest}]
    BY <2>1 DEF FactorInv, SecondFactorTypeOK, FactorRequest
  <2>3. NoStartBehind'
    BY <1>1, <2>1
       DEF StartTOTPEnrollment, FactorInv, histories, NoStartBehind, IsFactor, SecondFactorTypeOK
  <2>4. Disables'
    BY <1>1, <2>1, DisablesKept DEF StartTOTPEnrollment, histories
  <2> QED
    BY <1>1, <2>2, <2>3, <2>4, FactorRequestStep
       DEF StartTOTPEnrollment, histories, FactorInv, SecondFactorTypeOK
<1>2. CASE CheckConfirmed(s)
  <2>1. factorRequest[s] \in [op : {"start"}, at : {"asked", "checked"}, id : {0}, code : {0}]
    BY <1>2, RequestShapes DEF CheckConfirmed, IsFactor, FactorInv
  <2>2. [factorRequest[s] EXCEPT !.at = "checked"]
          \in [op : {"start"}, at : {"asked", "checked"}, id : {0}, code : {0}]
    BY <2>1
  <2>3. factorRequest' = [factorRequest EXCEPT ![s] = [factorRequest[s] EXCEPT !.at = "checked"]]
    BY <1>2 DEF CheckConfirmed, GoesFactor
  <2>4. factorRequest' \in [FactorSlots -> FactorRequest \cup {NoFactorRequest}]
    BY <2>2, <2>3 DEF FactorInv, SecondFactorTypeOK, FactorRequest
  <2>5. NoStartBehind'
    BY <1>2 DEF CheckConfirmed, histories, HasAnyConfirmedMFA, NoStartBehind
  <2>6. Disables'
    BY <1>2, <2>2, <2>3, DisablesKept DEF CheckConfirmed, histories
  <2> QED
    BY <1>2, <2>4, <2>5, <2>6, FactorRequestStep
       DEF CheckConfirmed, histories, FactorInv, SecondFactorTypeOK
<1>3. CASE VerifyMFAEnrollment(s)
  <2>1. factorRequest' = [factorRequest EXCEPT ![s] =
                      [op |-> "verify", at |-> "read", id |-> enrollment.id, code |-> 0]]
        /\ enrollment \in MFAEnrollment
    BY <1>3 DEF VerifyMFAEnrollment, BeginFactor, FactorInv, SecondFactorTypeOK
  <2>2. factorRequest' \in [FactorSlots -> FactorRequest \cup {NoFactorRequest}]
    BY <2>1 DEF FactorInv, SecondFactorTypeOK, FactorRequest, MFAEnrollment
  <2>3. NoStartBehind'
    BY <1>3, <2>1
       DEF VerifyMFAEnrollment, FactorInv, histories, NoStartBehind, IsFactor, SecondFactorTypeOK
  <2>4. Disables'
    BY <1>3, <2>1, DisablesKept DEF VerifyMFAEnrollment, histories
  <2> QED
    BY <1>3, <2>2, <2>3, <2>4, FactorRequestStep
       DEF VerifyMFAEnrollment, histories, FactorInv, SecondFactorTypeOK
<1>4. ASSUME NEW op \in {"prove", "disable"}, NEW c \in Periods, PresentTOTP(s, op, c)
      PROVE  FactorInv'
  <2>1. factorRequest' = [factorRequest EXCEPT ![s] =
                      [op |-> op, at |-> "read", id |-> enrollment.id, code |-> c]]
        /\ enrollment \in MFAEnrollment
    BY <1>4
       DEF PresentTOTP, BeginFactor, HasAnyConfirmedMFA, NoEnrollment, FactorInv, SecondFactorTypeOK
  <2>2. factorRequest' \in [FactorSlots -> FactorRequest \cup {NoFactorRequest}]
    BY <2>1 DEF FactorInv, SecondFactorTypeOK, FactorRequest, MFAEnrollment
  <2>3. NoStartBehind'
    BY <1>4, <2>1 DEF PresentTOTP, FactorInv, histories, NoStartBehind, IsFactor, SecondFactorTypeOK
  <2>4. Disables'
    BY <1>4, <2>1, DisablesKept DEF PresentTOTP, histories
  <2> QED
    BY <1>4, <2>2, <2>3, <2>4, FactorRequestStep
       DEF PresentTOTP, histories, FactorInv, SecondFactorTypeOK
<1>5. CASE AbandonFactorRequest(s)
  <2>1. factorRequest' = [factorRequest EXCEPT ![s] = NoFactorRequest]
    BY <1>5 DEF AbandonFactorRequest, EndsFactor
  <2>2. factorRequest' \in [FactorSlots -> FactorRequest \cup {NoFactorRequest}]
    BY <2>1 DEF FactorInv, SecondFactorTypeOK
  <2>3. NoStartBehind'
    BY <1>5, <2>1
       DEF AbandonFactorRequest, histories, FactorInv, NoStartBehind, IsFactor,
           SecondFactorTypeOK, NoFactorRequest
  <2>4. Disables'
    BY <1>5, <2>1, DisablesKept DEF AbandonFactorRequest, histories, NoFactorRequest
  <2> QED
    BY <1>5, <2>2, <2>3, <2>4, FactorRequestStep
       DEF AbandonFactorRequest, histories, FactorInv, SecondFactorTypeOK
<1> QED
  BY <1>1, <1>2, <1>3, <1>4, <1>5

\* The fresh enrollment starts with nothing handed out: nothing is beyond the last one.
LEMMA ReplaceInv ==
  ASSUME FactorInv, NEW s \in FactorSlots, ReplaceEnrollment(s)
  PROVE  FactorInv'
<1> USE DEF FactorInv, ReplaceEnrollment, histories
<1>1. /\ started' = started + 1 /\ started' \in Enrollments
      /\ enrollment' = [id |-> started', stage |-> "started"]
      /\ started \in Nat
  BY FactorAssumption DEF SecondFactorTypeOK, Enrollments
<1>2. \A x \in FactorSlots :
        \/ factorRequest'[x] = factorRequest[x]
        \/ factorRequest'[x] = NoFactorRequest
        \/ MayDisable(x) /\ factorRequest'[x] = Deleted(x, 0)
  BY DEF EndsFactor, SecondFactorTypeOK
<1>3. \A x \in FactorSlots : MayDisable(x) => Deleted(x, 0) \in
        [op : {"disable"}, at : {"deleted"}, id : 0 .. MaxEnrollments, code : Periods]
  <2> SUFFICES ASSUME NEW x \in FactorSlots, MayDisable(x)
               PROVE  Deleted(x, 0) \in
                 [op : {"disable"}, at : {"deleted"}, id : 0 .. MaxEnrollments, code : Periods]
    OBVIOUS
  <2>1. factorRequest[x] \in [op : {"disable"}, at : {"proved"}, id : Enrollments, code : Periods]
    BY RequestShapes DEF MayDisable
  <2>2. 0 \in 0 .. MaxEnrollments
    BY FactorAssumption
  <2> QED
    BY <2>1, <2>2 DEF Deleted
<1>4. SecondFactorTypeOK'
  <2>1. factorRequest' \in [FactorSlots -> FactorRequest \cup {NoFactorRequest}]
    <3>1. /\ DOMAIN factorRequest' = FactorSlots
          /\ factorRequest' = [x \in FactorSlots |-> factorRequest'[x]]
      BY DEF EndsFactor, SecondFactorTypeOK
    <3>2. \A x \in FactorSlots : factorRequest'[x] \in FactorRequest \cup {NoFactorRequest}
      BY <1>2, <1>3 DEF SecondFactorTypeOK, FactorRequest
    <3> QED
      BY <3>1, <3>2
  <2>2. /\ enrollment' \in MFAEnrollment /\ enrollment'.id <= started'
        /\ started' \in 0 .. MaxEnrollments
    BY <1>1 DEF MFAEnrollment, Enrollments
  <2> QED
    BY <2>1, <2>2 DEF SecondFactorTypeOK, IsABag, BagToSet
<1>5. Agreement'
  BY <1>1 DEF Agreement, NoStartBehind
<1>6. NoStartBehind'
  BY <1>1 DEF NoStartBehind
<1>7. HandedOut'
  BY <1>1 DEF HandedOut, Enrollments
<1>8. Disables'
  <2>1. \A x \in FactorSlots : IsFactor(x, "disable", "deleted") => factorRequest[x].id = 0
    BY DEF Disables, LockedByDisable, NoEnrollment
  <2>2. Missed'
    BY <1>1 DEF Missed
  <2>3. \A x \in FactorSlots : IsFactor(x, "disable", "deleted")' => factorRequest'[x].id = 0
    <3> SUFFICES ASSUME NEW x \in FactorSlots, IsFactor(x, "disable", "deleted")'
                 PROVE  factorRequest'[x].id = 0
      OBVIOUS
    <3>1. CASE MayDisable(x) /\ factorRequest'[x] = Deleted(x, 0)
      <4>1. factorRequest[x]
              \in [op : {"disable"}, at : {"proved"}, id : Enrollments, code : Periods]
        BY <3>1, RequestShapes DEF MayDisable
      <4> QED
        BY <3>1, <4>1 DEF Deleted
    <3>2. CASE factorRequest'[x] = factorRequest[x]
      BY <2>1, <3>2 DEF IsFactor
    <3> QED
      BY <1>2, <3>1, <3>2 DEF IsFactor, NoFactorRequest
  <2>4. ASSUME NEW x \in FactorSlots, NEW y \in FactorSlots,
               IsFactor(x, "disable", "deleted")', IsFactor(y, "disable", "deleted")'
        PROVE  x = y
    <3>1. CASE EndsFactor(s)
      BY <2>4, <3>1 DEF EndsFactor, NoFactorRequest, IsFactor, Disables, SecondFactorTypeOK
    <3>2. ASSUME NEW t \in FactorSlots, MayDisable(t),
                 factorRequest' =
                   [factorRequest EXCEPT ![s] = NoFactorRequest, ![t] = Deleted(t, 0)]
          PROVE  x = y
      <4>1. \A z \in FactorSlots : ~IsFactor(z, "disable", "deleted")
        BY <3>2 DEF MayDisable, Disabling
      <4>2. \A z \in FactorSlots \ {t} :
              factorRequest'[z] = factorRequest[z] \/ factorRequest'[z] = NoFactorRequest
        BY <3>2 DEF SecondFactorTypeOK
      <4>3. \A z \in FactorSlots \ {t} : ~IsFactor(z, "disable", "deleted")'
        BY <4>1, <4>2 DEF IsFactor, NoFactorRequest
      <4> QED
        BY <2>4, <4>3
    <3> QED
      BY <3>1, <3>2
  <2> QED
    BY <2>2, <2>3, <2>4 DEF Disables
<1>9. CountedCodes' /\ Once'
  BY DEF CountedCodes, Once
<1>10. TakenCodes'
  <2>1. \A c \in DOMAIN accepted : c.by = "recovery" => c.id \in Nat
    BY DEF SecondFactorTypeOK, BagToSet, Code, Enrollments
  <2> QED
    BY <1>1, <2>1 DEF TakenCodes
<1> QED
  BY <1>4, <1>5, <1>6, <1>7, <1>8, <1>9, <1>10

LEMMA CompleteInv ==
  ASSUME FactorInv, NEW s \in FactorSlots, CompleteMFAEnrollment(s)
  PROVE  FactorInv'
<1> USE DEF FactorInv, CompleteMFAEnrollment
<1>1. /\ enrollment.stage = "started" /\ enrollment \in MFAEnrollment
      /\ enrollment' = [id |-> enrollment.id, stage |-> "verified"]
      /\ recovery' = [recovery EXCEPT ![enrollment.id] = "unused"]
      /\ enrollment.id \in Enrollments /\ enrollment.id <= started
  BY DEF SelectMFAEnrollmentForVerify, SecondFactorTypeOK, NoEnrollment, MFAEnrollment,
         InsertRecoveryCode
<1>2. factorRequest' = [factorRequest EXCEPT ![s] = NoFactorRequest]
  BY DEF EndsFactor
<1>3. stripped' = IF Disabling THEN stripped \cup {enrollment.id} ELSE stripped
  OBVIOUS
<1>4. SecondFactorTypeOK'
  <2>1. stripped' \subseteq Enrollments
    BY <1>1, <1>3 DEF SecondFactorTypeOK
  <2> QED
    BY <1>1, <1>2, <2>1 DEF SecondFactorTypeOK, MFAEnrollment, IsABag, BagToSet
<1>5. Agreement' /\ NoStartBehind'
  BY <1>1 DEF Agreement, NoStartBehind
<1>6. HandedOut'
  BY <1>1 DEF HandedOut, Enrollments, SecondFactorTypeOK
<1>7. Disables'
  <2>1. \A x \in FactorSlots : IsFactor(x, "disable", "deleted")' =>
          IsFactor(x, "disable", "deleted") /\ factorRequest'[x] = factorRequest[x]
    BY <1>2 DEF IsFactor, NoFactorRequest, SecondFactorTypeOK
  <2>2. Disabling => Missed'
    BY <1>1, <1>3 DEF Missed
  <2> QED
    BY <1>1, <2>1, <2>2 DEF Disables, Disabling
<1>8. CountedCodes' /\ Once'
  BY DEF CountedCodes, Once
<1>9. TakenCodes'
  BY <1>1 DEF TakenCodes, SecondFactorTypeOK
<1> QED
  BY <1>4, <1>5, <1>6, <1>7, <1>8, <1>9

LEMMA ConfirmInv ==
  ASSUME FactorInv, ConfirmMFAEnrollment
  PROVE  FactorInv'
<1> USE DEF FactorInv, ConfirmMFAEnrollment
<1>1. /\ enrollment.stage = "verified" /\ enrollment \in MFAEnrollment
      /\ enrollment' = [id |-> enrollment.id, stage |-> "confirmed"]
  BY DEF SelectMFAEnrollmentForConfirm, SecondFactorTypeOK, NoEnrollment
<1>2. SecondFactorTypeOK'
  BY <1>1 DEF SecondFactorTypeOK, MFAEnrollment, IsABag, BagToSet
<1>3. Agreement' /\ HandedOut' /\ TakenCodes'
  BY <1>1 DEF Agreement, HandedOut, TakenCodes
<1>4. NoStartBehind'
  BY DEF NoStartBehind, IsFactor
<1>5. Disables'
  BY DEF Disables, Disabling, IsFactor
<1>6. CountedCodes' /\ Once'
  BY DEF CountedCodes, Once
<1> QED
  BY <1>2, <1>3, <1>4, <1>5, <1>6

\* A TOTP code that is taken is beyond the counter, and so was not taken before.
LEMMA AcceptTOTPInv ==
  ASSUME FactorInv, NEW s \in FactorSlots, AcceptTOTP(s)
  PROVE  FactorInv'
<1> USE DEF FactorInv, AcceptTOTP, histories
<1> DEFINE code == [by |-> "totp", id |-> factorRequest[s].id, period |-> factorRequest[s].code]
<1>1. factorRequest[s] \in
        [op : {"prove", "disable"}, at : {"read"}, id : Enrollments, code : Periods]
  BY RequestShapes
<1>2. /\ counter < factorRequest[s].code /\ counter' = factorRequest[s].code
      /\ factorRequest[s].code \in Periods
      /\ factorRequest[s].id \in Enrollments
  BY <1>1 DEF UseTOTP
<1>3. accepted' = accepted (+) SetToBag({code})
  OBVIOUS
<1>4. code \notin DOMAIN accepted
  BY <1>2 DEF CountedCodes, Periods, SecondFactorTypeOK
<1>5. code \in Code
  BY <1>2 DEF Code
<1>6. code.by = "totp" /\ code.period = factorRequest[s].code
  OBVIOUS
<1> HIDE DEF code
<1>7. IsABag(accepted') /\ DOMAIN accepted' = DOMAIN accepted \cup {code} /\ Once'
  BY <1>3, <1>4, CodeAdded DEF SecondFactorTypeOK
<1>8. factorRequest' \in [FactorSlots -> FactorRequest \cup {NoFactorRequest}]
  <2>1. CASE factorRequest[s].op = "disable"
    <3>1. [factorRequest[s] EXCEPT !.at = "proved"]
            \in [op : {"disable"}, at : {"proved"}, id : Enrollments, code : Periods]
      BY <1>1, <2>1
    <3>2. factorRequest' = [factorRequest EXCEPT ![s] = [factorRequest[s] EXCEPT !.at = "proved"]]
      BY <2>1 DEF GoesFactor
    <3> QED
      BY <3>1, <3>2 DEF SecondFactorTypeOK, FactorRequest
  <2>2. CASE factorRequest[s].op # "disable"
    BY <2>2 DEF EndsFactor, SecondFactorTypeOK
  <2> QED
    BY <2>1, <2>2
<1>9. \A x \in FactorSlots : IsFactor(x, "start", "checked")' => IsFactor(x, "start", "checked")
  <2> SUFFICES ASSUME NEW x \in FactorSlots,
                      factorRequest'[x].op = "start", factorRequest'[x].at = "checked"
               PROVE  factorRequest[x].op = "start" /\ factorRequest[x].at = "checked"
    BY DEF IsFactor
  <2>1. x # s
    <3>1. CASE factorRequest[s].op = "disable"
      BY <1>1, <3>1 DEF GoesFactor, SecondFactorTypeOK
    <3>2. CASE factorRequest[s].op # "disable"
      BY <3>2 DEF EndsFactor, NoFactorRequest, SecondFactorTypeOK
    <3> QED
      BY <3>1, <3>2
  <2> QED
    BY <2>1 DEF GoesFactor, EndsFactor, SecondFactorTypeOK
<1>10. SecondFactorTypeOK'
  <2>1. counter' \in 0 .. MaxPeriod + 1
    BY FactorAssumption, <1>2 DEF Periods
  <2>2. BagToSet(accepted') \subseteq Code
    BY <1>5, <1>7 DEF SecondFactorTypeOK, BagToSet
  <2> QED
    BY <1>7, <1>8, <2>1, <2>2 DEF SecondFactorTypeOK
<1>11. Agreement' /\ HandedOut'
  BY DEF Agreement, HandedOut
<1>12. NoStartBehind' /\ Disables'
  <2>1. Disables'
    <3>1. CASE factorRequest[s].op = "disable"
      <4>1. [factorRequest[s] EXCEPT !.at = "proved"].at # "deleted"
        BY <1>1
      <4> QED
        BY <3>1, <4>1, DisablesKept DEF GoesFactor, histories
    <3>2. CASE factorRequest[s].op # "disable"
      BY <3>2, DisablesKept DEF EndsFactor, NoFactorRequest, histories
    <3> QED
      BY <3>1, <3>2
  <2> QED
    BY <1>9, <2>1 DEF NoStartBehind
<1>13. CountedCodes'
  <2>1. \A c \in DOMAIN accepted : c.by = "totp" => c.period \in Nat
    BY DEF SecondFactorTypeOK, BagToSet, Code, Periods
  <2>2. counter \in Nat /\ counter' \in Nat
    BY <1>2 DEF SecondFactorTypeOK, Periods
  <2> QED
    BY <1>2, <1>6, <1>7, <2>1, <2>2 DEF CountedCodes
<1>14. TakenCodes'
  BY <1>6, <1>7 DEF TakenCodes
<1> QED
  BY <1>7, <1>10, <1>11, <1>12, <1>13, <1>14

\* A recovery code that is taken was unused, and so was not taken before.
LEMMA AcceptRecoveryInv ==
  ASSUME FactorInv, NEW id \in Enrollments, AcceptRecoveryCode(id)
  PROVE  FactorInv'
<1> USE DEF FactorInv, AcceptRecoveryCode, histories
<1> DEFINE code == [by |-> "recovery", id |-> id, period |-> 0]
<1>1. recovery[id] = "unused" /\ recovery' = [recovery EXCEPT ![id] = "used"]
  BY DEF ConsumeRecoveryCode
<1>2. accepted' = accepted (+) SetToBag({code})
  OBVIOUS
<1>3. code \notin DOMAIN accepted
  BY <1>1 DEF TakenCodes
<1>4. code \in Code /\ code.by = "recovery" /\ code.id = id
  BY DEF Code
<1> HIDE DEF code
<1>5. IsABag(accepted') /\ DOMAIN accepted' = DOMAIN accepted \cup {code} /\ Once'
  BY <1>2, <1>3, CodeAdded DEF SecondFactorTypeOK
<1>6. SecondFactorTypeOK'
  BY <1>1, <1>4, <1>5 DEF SecondFactorTypeOK, BagToSet
<1>7. Agreement' /\ NoStartBehind' /\ Disables'
  BY DEF Agreement, NoStartBehind, Disables, Missed, IsFactor
<1>8. HandedOut'
  BY <1>1 DEF HandedOut, SecondFactorTypeOK
<1>9. CountedCodes'
  BY <1>4, <1>5 DEF CountedCodes
<1>10. TakenCodes'
  <2>1. id <= started /\ ~(enrollment.stage = "started" /\ enrollment.id = id)
    BY <1>1 DEF HandedOut, Enrollments, SecondFactorTypeOK
  <2>2. \A e \in Enrollments : recovery'[e] # "unused" \/ recovery'[e] = recovery[e]
    BY <1>1 DEF SecondFactorTypeOK
  <2>3. recovery'[id] # "unused"
    BY <1>1 DEF SecondFactorTypeOK
  <2>4. \A c \in DOMAIN accepted : c.by = "recovery" => c.id \in Enrollments
    BY DEF SecondFactorTypeOK, BagToSet, Code
  <2> QED
    BY <1>4, <1>5, <2>1, <2>2, <2>3, <2>4 DEF TakenCodes
<1> QED
  BY <1>5, <1>6, <1>7, <1>8, <1>9, <1>10

\* The first DELETE: it holds what it finds, and misses only the row that is not there.
LEMMA FirstDeleteInv ==
  ASSUME FactorInv, NEW s \in FactorSlots, DeleteMFAEnrollmentsForMember(s)
  PROVE  FactorInv'
<1> USE DEF FactorInv, DeleteMFAEnrollmentsForMember, histories
<1>1. factorRequest[s] \in [op : {"disable"}, at : {"proved"}, id : Enrollments, code : Periods]
  BY RequestShapes DEF MayDisable
<1>2. enrollment.id \in 0 .. MaxEnrollments
  BY FactorAssumption DEF SecondFactorTypeOK, MFAEnrollment, NoEnrollment, Enrollments
<1>3. PICK q : q = Deleted(s, enrollment.id)
  OBVIOUS
<1>4. /\ q \in [op : {"disable"}, at : {"deleted"}, id : 0 .. MaxEnrollments, code : Periods]
      /\ q.id = enrollment.id /\ q.op = "disable"
  BY <1>1, <1>2, <1>3 DEF Deleted
<1>5. factorRequest' = [factorRequest EXCEPT ![s] = q]
  BY <1>3
<1>6. factorRequest' \in [FactorSlots -> FactorRequest \cup {NoFactorRequest}]
  BY <1>4, <1>5 DEF SecondFactorTypeOK, FactorRequest
<1>7. NoStartBehind'
  BY <1>4, <1>5 DEF NoStartBehind, IsFactor, SecondFactorTypeOK
<1>8. Disables'
  <2>1. \A x \in FactorSlots : ~IsFactor(x, "disable", "deleted")
    BY DEF MayDisable, Disabling
  <2>2. \A x \in FactorSlots : IsFactor(x, "disable", "deleted")' => x = s
    BY <1>5, <2>1 DEF IsFactor, SecondFactorTypeOK
  <2>3. factorRequest'[s].id = enrollment.id
    BY <1>4, <1>5 DEF SecondFactorTypeOK
  <2>4. enrollment.id = 0 => Missed
    BY DEF SecondFactorTypeOK, MFAEnrollment, NoEnrollment, Enrollments, Missed
  <2> QED
    BY <2>2, <2>3, <2>4 DEF Disables, Missed
<1>9. period' \in 2 .. MaxPeriod
  BY DEF SecondFactorTypeOK
<1> QED
  BY <1>6, <1>7, <1>8, <1>9, FactorRequestStep

\* The second DELETE and COMMIT: the row that the first has missed is not a confirmed one.
LEMMA DisableInv ==
  ASSUME FactorInv, NEW s \in FactorSlots, DeleteRecoveryCodesForMember(s)
  PROVE  FactorInv'
<1> USE DEF FactorInv, DeleteRecoveryCodesForMember, histories
<1>1. /\ policy' = FALSE
      /\ recovery' = [i \in Enrollments |-> "none"]
      /\ factorRequest' = [factorRequest EXCEPT ![s] = NoFactorRequest]
  BY DEF EndsFactor
<1>2. \/ enrollment' = NoEnrollment
      \/ enrollment' = enrollment /\ Missed
  BY DEF Disables
<1>3. SecondFactorTypeOK'
  <2>1. enrollment' \in MFAEnrollment \cup {NoEnrollment} /\ enrollment'.id <= started
    BY FactorAssumption, <1>2 DEF NoEnrollment, SecondFactorTypeOK
  <2>2. recovery' \in [Enrollments -> {"none", "unused", "used"}]
    BY <1>1
  <2>3. factorRequest' \in [FactorSlots -> FactorRequest \cup {NoFactorRequest}]
    BY <1>1 DEF SecondFactorTypeOK
  <2> QED
    BY <1>1, <2>1, <2>2, <2>3 DEF SecondFactorTypeOK, IsABag, BagToSet
<1>4. Agreement' /\ NoStartBehind'
  BY <1>1, <1>2 DEF Agreement, NoStartBehind, NoEnrollment, Missed
<1>5. HandedOut'
  <2>1. enrollment'.stage = "started" => enrollment'.id \in Enrollments
    BY <1>2 DEF NoEnrollment, SecondFactorTypeOK, MFAEnrollment
  <2> QED
    BY <1>1, <1>2, <2>1 DEF HandedOut, NoEnrollment, Missed
<1>6. Disables'
  <2>1. \A x \in FactorSlots : ~IsFactor(x, "disable", "deleted")'
    BY <1>1 DEF IsFactor, NoFactorRequest, Disables, SecondFactorTypeOK
  <2> QED
    BY <2>1 DEF Disables
<1>7. CountedCodes' /\ Once'
  BY DEF CountedCodes, Once
<1>8. TakenCodes'
  <2>1. \A c \in DOMAIN accepted : c.by = "recovery" => c.id \in Enrollments
    BY DEF SecondFactorTypeOK, BagToSet, Code
  <2> QED
    BY <1>1, <1>2, <2>1 DEF TakenCodes, NoEnrollment
<1> QED
  BY <1>3, <1>4, <1>5, <1>6, <1>7, <1>8

LEMMA FactorInvStep ==
  ASSUME FactorInv, [SecondFactorNext]_sfVars
  PROVE  FactorInv'
<1>1. CASE UNCHANGED sfVars
  BY <1>1 DEF sfVars, histories, FactorInv, SecondFactorTypeOK, Agreement, NoStartBehind, HandedOut,
              Disables, Missed, CountedCodes, TakenCodes, Once, IsFactor, IsABag, BagToSet
<1>2. CASE Tick
  <2>1. period' \in 2 .. MaxPeriod
    BY FactorAssumption, <1>2 DEF Tick, FactorInv, SecondFactorTypeOK
  <2>2. NoStartBehind' /\ factorRequest' \in [FactorSlots -> FactorRequest \cup {NoFactorRequest}]
    BY <1>2 DEF Tick, histories, FactorInv, SecondFactorTypeOK, NoStartBehind, IsFactor
  <2>3. Disables'
    BY <1>2 DEF Tick, histories, FactorInv, Disables, Missed, IsFactor
  <2> QED
    BY <1>2, <2>1, <2>2, <2>3, FactorRequestStep DEF Tick, histories
<1> QED
  BY <1>1, <1>2, RequestsInv, ReplaceInv, CompleteInv, ConfirmInv, AcceptTOTPInv,
     AcceptRecoveryInv, FirstDeleteInv, DisableInv DEF SecondFactorNext

LEMMA FactorInvariance ==
  SecondFactorSpec => []FactorInv
  BY FactorInvInit, FactorInvStep, PTL DEF SecondFactorSpec

\* Enrollments, counters, codes and the requests about them keep their types.
THEOREM FactorTypeOKAlways ==
  SecondFactorSpec => []SecondFactorTypeOK
<1>1. FactorInv => SecondFactorTypeOK
  BY DEF FactorInv
<1> QED
  BY <1>1, FactorInvariance, PTL

\* TOTP is demanded exactly while there is a confirmed enrollment, unless a confirmation fell
\* between the two halves of a start, and its recovery codes are kept, unless it was verified
\* between the two DELETEs of a DisableTOTP.
THEOREM RequiredIsConfirmedAlways ==
  SecondFactorSpec => []RequiredIsConfirmed
<1>1. FactorInv => RequiredIsConfirmed
  BY DEF FactorInv, Agreement, HandedOut, RequiredIsConfirmed
<1> QED
  BY <1>1, FactorInvariance, PTL

\* No code satisfies the policy twice, whatever requests present it at the same time.
THEOREM CodesWorkOnceAlways ==
  SecondFactorSpec => []CodesWorkOnce
<1>1. FactorInv => CodesWorkOnce
  BY DEF FactorInv, Once, CodesWorkOnce, BagToSet
<1> QED
  BY <1>1, FactorInvariance, PTL

-----------------------------------------------------------------------------
(* FailureLimiter.  The inductive part is "Overrun": every attempt that is *)
(* under way may still count as a failure, so it is counted already.       *)

\* The attempts of a source that are under way.
Pending(s) == {a \in Attempts : attempt[a] = s}

Overrun ==
  \A s \in Sources :
    bucket[s].count + Cardinality(Pending(s)) <= FailureLimit + Cardinality(Attempts) - 1

Bounded == IsFiniteSet(Buckets) /\ Cardinality(Buckets) <= MaxBuckets

LimiterInv ==
  /\ FailureLimiterTypeOK
  /\ Overrun
  /\ Bounded

LEMMA BucketFields ==
  ASSUME FailureLimiterTypeOK, NEW s \in Sources
  PROVE  /\ bucket[s].count \in Nat /\ bucket[s].age \in Nat
         /\ s \in Buckets <=> bucket[s].count # 0
         /\ s \notin Buckets => bucket[s] = NoBucket /\ ~Expired(s)
         /\ s \in Buckets => bucket[s].age \in 0 .. FailureWindow
  BY LimiterAssumption, FS_CardinalityType DEF FailureLimiterTypeOK, NoBucket, Buckets, Expired

LEMMA PendingType ==
  ASSUME NEW s
  PROVE  /\ IsFiniteSet(Pending(s)) /\ Cardinality(Pending(s)) \in Nat
         /\ Cardinality(Pending(s)) <= Cardinality(Attempts) /\ Cardinality(Attempts) \in Nat
<1>1. Pending(s) \in SUBSET Attempts
  BY DEF Pending
<1> QED
  BY LimiterAssumption, <1>1, FS_Subset, FS_CardinalityType

\* An attempt ends: its source has one less now.
LEMMA EndOfAttempt ==
  ASSUME FailureLimiterTypeOK, NEW a \in Attempts, NEW s,
         s = attempt[a], s # NoSource, attempt' = [attempt EXCEPT ![a] = NoSource]
  PROVE  /\ s \in Sources
         /\ Cardinality(Pending(s)') = Cardinality(Pending(s)) - 1
         /\ \A x \in Sources : x # s => Pending(x)' = Pending(x)
<1>1. s \in Sources
  BY DEF FailureLimiterTypeOK
<1>2. Pending(s)' = Pending(s) \ {a} /\ a \in Pending(s)
  BY <1>1 DEF Pending, FailureLimiterTypeOK
<1>3. \A x \in Sources : x # s => Pending(x)' = Pending(x)
  BY LimiterAssumption DEF Pending, FailureLimiterTypeOK
<1> QED
  BY <1>1, <1>2, <1>3, PendingType, FS_RemoveElement

LEMMA RoomsMakeRoom ==
  ASSUME LimiterInv, NEW kept \in Rooms, NEW s \in Sources, ~Live(s)
  PROVE  /\ kept \subseteq Buckets
         /\ IsFiniteSet(kept \cup {s}) /\ Cardinality(kept \cup {s}) <= MaxBuckets
<1> DEFINE live == {x \in Buckets : ~Expired(x)}
<1>1. IsFiniteSet(Buckets) /\ Cardinality(Buckets) \in Nat /\ Cardinality(Buckets) <= MaxBuckets
      /\ MaxBuckets \in Nat \ {0}
  BY LimiterAssumption, FS_CardinalityType DEF LimiterInv, Bounded
<1>2. IsFiniteSet(live) /\ Cardinality(live) \in Nat /\ Cardinality(live) <= Cardinality(Buckets)
  <2>1. live \in SUBSET Buckets
    OBVIOUS
  <2> QED
    BY <1>1, <2>1, FS_Subset, FS_CardinalityType
<1>3. live \subseteq Buckets /\ Rooms = IF Cardinality(Buckets) < MaxBuckets THEN {Buckets}
                                        ELSE IF Cardinality(live) < MaxBuckets THEN {live}
                                        ELSE {live \ {x} : x \in live}
  BY DEF Rooms
<1> HIDE DEF live
<1>4. kept \subseteq Buckets /\ IsFiniteSet(kept) /\ Cardinality(kept) < MaxBuckets
  <2>1. CASE Cardinality(Buckets) < MaxBuckets
    BY <1>1, <1>3, <2>1
  <2>2. CASE ~ Cardinality(Buckets) < MaxBuckets /\ Cardinality(live) < MaxBuckets
    BY <1>2, <1>3, <2>2
  <2>3. CASE ~ Cardinality(Buckets) < MaxBuckets /\ ~ Cardinality(live) < MaxBuckets
    <3>1. PICK x \in live : kept = live \ {x}
      BY <1>3, <2>3
    <3>2. IsFiniteSet(kept) /\ Cardinality(kept) = Cardinality(live) - 1
      BY <1>2, <3>1, FS_RemoveElement
    <3> QED
      BY <1>1, <1>2, <1>3, <3>1, <3>2
  <2> QED
    BY <2>1, <2>2, <2>3
<1>5. Cardinality(kept) \in Nat
  BY <1>4, FS_CardinalityType
<1>6. /\ IsFiniteSet(kept \cup {s})
      /\ Cardinality(kept \cup {s}) =
           IF s \in kept THEN Cardinality(kept) ELSE Cardinality(kept) + 1
  BY <1>4, FS_AddElement
<1> QED
  BY <1>1, <1>4, <1>5, <1>6

LEMMA AdmitInv ==
  ASSUME LimiterInv, NEW a \in Attempts, NEW s \in Sources, Admit(a, s)
  PROVE  LimiterInv'
<1> USE BucketFields DEF LimiterInv
<1>1. attempt' = [attempt EXCEPT ![a] = s] /\ attempt[a] = NoSource /\ s # NoSource
  BY LimiterAssumption DEF Admit
<1>2. \A x \in Sources : bucket'[x] = IF x = s /\ Expired(s) THEN NoBucket ELSE bucket[x]
  BY DEF Admit, FailureLimiterTypeOK
<1>3. FailureLimiterTypeOK'
  BY <1>1 DEF Admit, FailureLimiterTypeOK
<1>4. Buckets' \in SUBSET Buckets
  BY <1>2 DEF Buckets
<1>5. Bounded'
  BY LimiterAssumption, <1>4, FS_Subset, FS_CardinalityType DEF Bounded
<1>6. Pending(s)' = Pending(s) \cup {a} /\ a \notin Pending(s)
  BY <1>1 DEF Pending, FailureLimiterTypeOK
<1>7. \A x \in Sources : x # s => Pending(x)' = Pending(x)
  BY LimiterAssumption, <1>1 DEF Pending, FailureLimiterTypeOK
<1>8. bucket'[s].count <= FailureLimit - 1
  <2>1. CASE Expired(s)
    BY LimiterAssumption, <1>2, <2>1 DEF NoBucket
  <2>2. CASE ~Expired(s)
    <3>1. s \notin Buckets \/ bucket[s].count < FailureLimit
      BY LimiterAssumption, <2>2 DEF Admit, Limited, Live
    <3> QED
      BY LimiterAssumption, <1>2, <2>2, <3>1
  <2> QED
    BY <2>1, <2>2
<1>9. Overrun'
  <2> SUFFICES ASSUME NEW x \in Sources
               PROVE  bucket'[x].count + Cardinality(Pending(x)')
                        <= FailureLimit + Cardinality(Attempts) - 1
    BY DEF Overrun
  <2>1. CASE x = s
    <3>1. Pending(s)' \in SUBSET Attempts
      BY DEF Pending
    <3>2. Cardinality(Pending(s)') \in Nat /\ Cardinality(Pending(s)') <= Cardinality(Attempts)
          /\ Cardinality(Attempts) \in Nat
      BY LimiterAssumption, <3>1, FS_Subset, FS_CardinalityType
    <3>3. bucket'[s].count \in Nat
      BY <1>2 DEF NoBucket
    <3> QED
      BY LimiterAssumption, <1>8, <2>1, <3>2, <3>3
  <2>2. CASE x # s
    BY <1>2, <1>7, <2>2 DEF Overrun
  <2> QED
    BY <2>1, <2>2
<1> QED
  BY <1>3, <1>5, <1>9

LEMMA FailedInv ==
  ASSUME LimiterInv, NEW a \in Attempts, Failed(a)
  PROVE  LimiterInv'
<1> USE DEF LimiterInv
<1>1. PICK source \in Sources : source = attempt[a]
  BY DEF Failed, FailureLimiterTypeOK
<1>2. PICK kept \in IF Live(source) THEN {Buckets} ELSE Rooms :
        bucket' = [x \in Sources |->
          IF x = source THEN IF Live(source) THEN [bucket[source] EXCEPT !.count = @ + 1]
                             ELSE [count |-> 1, age |-> 0]
          ELSE IF x \in kept THEN bucket[x] ELSE NoBucket]
  BY <1>1 DEF Failed
<1>3. attempt' = [attempt EXCEPT ![a] = NoSource] /\ source # NoSource
  BY <1>1 DEF Failed
<1>4. \A x \in Sources : bucket[x].count \in Nat /\ bucket[x].age \in 0 .. FailureWindow
                         /\ bucket[x] \in [count : Nat, age : Nat]
  BY LimiterAssumption, BucketFields, FS_CardinalityType DEF FailureLimiterTypeOK, NoBucket
<1>5. bucket'[source].count = IF Live(source) THEN bucket[source].count + 1 ELSE 1
  BY <1>2, <1>4
<1>6. \A x \in Sources : x # source => bucket'[x] = bucket[x] \/ bucket'[x] = NoBucket
  BY <1>2
<1>7. /\ Cardinality(Pending(source)') = Cardinality(Pending(source)) - 1
      /\ \A x \in Sources : x # source => Pending(x)' = Pending(x)
  BY <1>1, <1>3, EndOfAttempt
<1>8. /\ Cardinality(Attempts) \in Nat
      /\ \A x : Cardinality(Pending(x)) \in Nat /\ Cardinality(Pending(x)) <= Cardinality(Attempts)
  BY PendingType
<1>9. Cardinality(Pending(source)) >= 1
  <2>1. Cardinality(Pending(source)') \in Nat
    <3>1. Pending(source)' \in SUBSET Attempts
      BY DEF Pending
    <3> QED
      BY LimiterAssumption, <3>1, FS_Subset, FS_CardinalityType
  <2> QED
    BY <1>7, <1>8, <2>1
<1>10. Overrun'
  <2> SUFFICES ASSUME NEW x \in Sources
               PROVE  bucket'[x].count + Cardinality(Pending(x)')
                        <= FailureLimit + Cardinality(Attempts) - 1
    BY DEF Overrun
  <2>1. bucket[x].count + Cardinality(Pending(x)) <= FailureLimit + Cardinality(Attempts) - 1
    BY DEF Overrun
  <2>2. CASE x = source
    BY LimiterAssumption, <1>4, <1>5, <1>7, <1>8, <2>1, <2>2
  <2>3. CASE x # source
    BY LimiterAssumption, <1>4, <1>6, <1>7, <1>8, <2>1, <2>3 DEF NoBucket
  <2> QED
    BY <2>2, <2>3
<1>11. Bounded'
  <2>1. CASE Live(source)
    <3>1. Buckets' = Buckets
      BY <1>2, <1>4, <1>5, <2>1 DEF Buckets, NoBucket, Live
    <3> QED
      BY <3>1 DEF Bounded
  <2>2. CASE ~Live(source)
    <3>1. IsFiniteSet(kept \cup {source}) /\ Cardinality(kept \cup {source}) <= MaxBuckets
      BY <1>2, <2>2, RoomsMakeRoom
    <3>2. Buckets' \in SUBSET (kept \cup {source})
      BY <1>2 DEF Buckets
    <3>3. IsFiniteSet(Buckets') /\ Cardinality(Buckets') <= Cardinality(kept \cup {source})
      BY <3>1, <3>2, FS_Subset
    <3> QED
      BY LimiterAssumption, <3>1, <3>3, FS_CardinalityType DEF Bounded
  <2> QED
    BY <2>1, <2>2
<1>12. FailureLimiterTypeOK'
  <2>1. bucket'[source] \in [count : 1 .. FailureLimit + Cardinality(Attempts),
                             age : 0 .. FailureWindow]
    <3>1. bucket[source].count + 1 \in 1 .. FailureLimit + Cardinality(Attempts)
      BY LimiterAssumption, <1>4, <1>8, <1>9 DEF Overrun
    <3>2. 1 \in 1 .. FailureLimit + Cardinality(Attempts) /\ 0 \in 0 .. FailureWindow
      BY LimiterAssumption, <1>8
    <3>3. CASE Live(source)
      <4>1. bucket'[source] = [bucket[source] EXCEPT !.count = bucket[source].count + 1]
        BY <1>2, <3>3
      <4> QED
        BY <1>4, <3>1, <4>1
    <3>4. CASE ~Live(source)
      BY <1>2, <3>2, <3>4
    <3> QED
      BY <3>3, <3>4
  <2>2. DOMAIN bucket' = Sources /\ bucket' = [x \in Sources |-> bucket'[x]]
    BY <1>2
  <2>3. attempt' \in [Attempts -> Sources \cup {NoSource}]
    BY <1>3 DEF FailureLimiterTypeOK
  <2> QED
    BY <1>6, <2>1, <2>2, <2>3 DEF FailureLimiterTypeOK
<1> QED
  BY <1>10, <1>11, <1>12

LEMMA SucceededInv ==
  ASSUME LimiterInv, NEW a \in Attempts, Succeeded(a) \/ Uncounted(a)
  PROVE  LimiterInv'
<1> USE DEF LimiterInv
<1>1. PICK source \in Sources : source = attempt[a]
  BY DEF Succeeded, Uncounted, FailureLimiterTypeOK
<1>2. attempt' = [attempt EXCEPT ![a] = NoSource] /\ source # NoSource
  BY <1>1 DEF Succeeded, Uncounted
<1>3. \A x \in Sources : bucket'[x] = bucket[x] \/ bucket'[x] = NoBucket
  BY <1>1 DEF Succeeded, Uncounted, FailureLimiterTypeOK
<1>4. /\ Cardinality(Pending(source)') = Cardinality(Pending(source)) - 1
      /\ \A x \in Sources : x # source => Pending(x)' = Pending(x)
  BY <1>1, <1>2, EndOfAttempt
<1>5. Overrun'
  <2> SUFFICES ASSUME NEW x \in Sources
               PROVE  bucket'[x].count + Cardinality(Pending(x)')
                        <= FailureLimit + Cardinality(Attempts) - 1
    BY DEF Overrun
  <2>1. /\ bucket[x].count + Cardinality(Pending(x)) <= FailureLimit + Cardinality(Attempts) - 1
        /\ bucket[x].count \in Nat /\ Cardinality(Pending(x)) \in Nat
        /\ Cardinality(Attempts) \in Nat /\ FailureLimit \in Nat
    BY LimiterAssumption, BucketFields, PendingType DEF Overrun
  <2>2. bucket'[x].count <= bucket[x].count /\ bucket'[x].count \in Nat
    BY <1>3, <2>1 DEF NoBucket
  <2>3. Cardinality(Pending(x)') = Cardinality(Pending(x))
        \/ Cardinality(Pending(x)') = Cardinality(Pending(x)) - 1
    BY <1>4
  <2> QED
    BY <2>1, <2>2, <2>3
<1>6. Bounded'
  <2>1. Buckets' \in SUBSET Buckets
    BY <1>3 DEF Buckets
  <2>2. IsFiniteSet(Buckets') /\ Cardinality(Buckets') <= Cardinality(Buckets)
    BY <2>1, FS_Subset DEF Bounded
  <2> QED
    BY LimiterAssumption, <2>2, FS_CardinalityType DEF Bounded
<1>7. FailureLimiterTypeOK'
  BY <1>1, <1>2 DEF Succeeded, Uncounted, FailureLimiterTypeOK
<1> QED
  BY <1>5, <1>6, <1>7

LEMMA AgeInv ==
  ASSUME LimiterInv, Age
  PROVE  LimiterInv'
<1> USE DEF LimiterInv
<1>1. \A x \in Sources :
        /\ bucket'[x].count = bucket[x].count
        /\ ~Live(x) => bucket'[x] = bucket[x]
        /\ Live(x) => bucket'[x] = [count |-> bucket[x].count, age |-> bucket[x].age + 1]
  <2>1. \A x \in Sources : bucket[x] \in [count : Nat, age : Nat]
    BY LimiterAssumption, FS_CardinalityType DEF FailureLimiterTypeOK, NoBucket
  <2> QED
    BY <2>1 DEF Age
<1>2. \A x : Pending(x)' = {a \in Attempts : attempt[a] = x}
  BY DEF Age, Pending
<1>3. Overrun'
  BY <1>1, <1>2 DEF Overrun, Pending
<1>4. Buckets' = Buckets
  <2>1. \A x \in Sources : x \in Buckets <=> bucket[x].count # 0
    BY BucketFields
  <2>2. ASSUME NEW x \in Sources
        PROVE  bucket'[x] # NoBucket <=> x \in Buckets
    <3>1. CASE Live(x)
      <4>1. x \in Buckets
        BY <3>1 DEF Live
      <4>2. bucket'[x].count # NoBucket.count
        BY <1>1, <2>1, <4>1 DEF NoBucket
      <4> QED
        BY <4>1, <4>2
    <3>2. CASE ~Live(x)
      BY <1>1, <3>2 DEF Buckets
    <3> QED
      BY <3>1, <3>2
  <2> QED
    BY <2>2 DEF Buckets
<1>5. FailureLimiterTypeOK'
  <2>1. ASSUME NEW x \in Sources, Live(x)
        PROVE  bucket'[x] \in [count : 1 .. FailureLimit + Cardinality(Attempts),
                               age : 0 .. FailureWindow]
    <3>1. bucket[x] \in [count : 1 .. FailureLimit + Cardinality(Attempts),
                         age : 0 .. FailureWindow]
      BY <2>1 DEF Live, Buckets, FailureLimiterTypeOK
    <3>2. bucket[x].age + 1 \in 0 .. FailureWindow
      BY LimiterAssumption, <2>1, <3>1 DEF Live, Expired
    <3>3. bucket[x].count \in 1 .. FailureLimit + Cardinality(Attempts)
      BY <3>1
    <3>4. bucket'[x] = [count |-> bucket[x].count, age |-> bucket[x].age + 1]
      BY <1>1, <2>1
    <3> QED
      BY <3>2, <3>3, <3>4
  <2>2. bucket' = [x \in Sources |-> bucket'[x]]
    BY DEF Age
  <2> QED
    BY <1>1, <2>1, <2>2 DEF FailureLimiterTypeOK, Age
<1> QED
  BY <1>3, <1>4, <1>5 DEF Bounded

LEMMA LimiterInvInit ==
  ASSUME FailureLimiterInit
  PROVE  LimiterInv
<1>1. \A s \in Sources : Pending(s) = {} /\ bucket[s] = NoBucket
  BY LimiterAssumption DEF Pending, FailureLimiterInit
<1>2. Buckets = {}
  BY <1>1 DEF Buckets
<1>3. Cardinality(Attempts) \in Nat
  BY LimiterAssumption, FS_CardinalityType
<1>4. FailureLimiterTypeOK
  BY DEF FailureLimiterInit, FailureLimiterTypeOK
<1>5. Overrun
  <2> SUFFICES ASSUME NEW s \in Sources
               PROVE  bucket[s].count + Cardinality(Pending(s))
                        <= FailureLimit + Cardinality(Attempts) - 1
    BY DEF Overrun
  <2>1. bucket[s].count = 0 /\ Cardinality(Pending(s)) = 0
    BY <1>1, FS_EmptySet DEF NoBucket
  <2> QED
    BY LimiterAssumption, <1>3, <2>1
<1>6. Bounded
  BY LimiterAssumption, <1>2, FS_EmptySet DEF Bounded
<1> QED
  BY <1>4, <1>5, <1>6 DEF LimiterInv

LEMMA LimiterInvStep ==
  ASSUME LimiterInv, [FailureLimiterNext]_flVars
  PROVE  LimiterInv'
<1>1. CASE UNCHANGED flVars
  BY <1>1 DEF flVars, LimiterInv, FailureLimiterTypeOK, Overrun, Bounded, Pending, Buckets
<1> QED
  BY <1>1, AdmitInv, FailedInv, SucceededInv, AgeInv DEF FailureLimiterNext

-----------------------------------------------------------------------------
(* The properties of authFailureLimiter.                                   *)

LEMMA LimiterInvariance ==
  FailureLimiterSpec => []LimiterInv
  BY LimiterInvInit, LimiterInvStep, PTL DEF FailureLimiterSpec

\* The buckets and the attempts keep their types: no count is beyond what attempts at once add.
THEOREM LimiterTypeOKAlways ==
  FailureLimiterSpec => []FailureLimiterTypeOK
<1>1. LimiterInv => FailureLimiterTypeOK
  BY DEF LimiterInv
<1> QED
  BY <1>1, LimiterInvariance, PTL

\* Attempts that were admitted together overrun the limit by less than their number.
THEOREM FailuresAreBoundedAlways ==
  FailureLimiterSpec => []FailuresAreBounded
<1>1. LimiterInv => FailuresAreBounded
  <2> SUFFICES ASSUME LimiterInv, NEW s \in Sources
               PROVE  bucket[s].count <= FailureLimit + Cardinality(Attempts) - 1
    BY DEF FailuresAreBounded
  <2>1. bucket[s].count \in Nat /\ Cardinality(Pending(s)) \in Nat
        /\ Cardinality(Attempts) \in Nat /\ FailureLimit \in Nat
    BY LimiterAssumption, BucketFields, PendingType DEF LimiterInv
  <2> QED
    BY <2>1 DEF LimiterInv, Overrun
<1> QED
  BY <1>1, LimiterInvariance, PTL

\* The map never has more than maxFailureBuckets entries.
THEOREM BucketsAreBoundedAlways ==
  FailureLimiterSpec => []BucketsAreBounded
<1>1. LimiterInv => BucketsAreBounded
  BY DEF LimiterInv, Bounded, BucketsAreBounded
<1> QED
  BY <1>1, LimiterInvariance, PTL

LEMMA LimitsStep ==
  ASSUME LimiterInv, [FailureLimiterNext]_flVars
  PROVE  KeepsLimits
<1> SUFFICES ASSUME NEW s \in Sources, Limited(s), bucket'[s] # NoBucket
             PROVE  bucket'[s].age >= bucket[s].age
  BY DEF KeepsLimits
<1>1. bucket[s].age \in Nat /\ Live(s) /\ bucket[s] \in [count : Nat, age : Nat]
  BY LimiterAssumption, BucketFields, FS_CardinalityType
     DEF LimiterInv, Limited, FailureLimiterTypeOK, NoBucket
<1>2. ASSUME NEW a \in Attempts, NEW x \in Sources, Admit(a, x)
      PROVE  bucket'[s].age = bucket[s].age
  BY <1>2 DEF Admit, LimiterInv, FailureLimiterTypeOK
<1>3. ASSUME NEW a \in Attempts, Failed(a)
      PROVE  bucket'[s].age = bucket[s].age
  BY <1>1, <1>3 DEF Failed
<1>4. ASSUME NEW a \in Attempts, Succeeded(a) \/ Uncounted(a)
      PROVE  bucket'[s].age = bucket[s].age
  BY <1>4 DEF Succeeded, Uncounted, LimiterInv, FailureLimiterTypeOK
<1>5. CASE Age
  BY <1>1, <1>5 DEF Age
<1>6. CASE UNCHANGED flVars
  BY <1>1, <1>6 DEF flVars
<1> QED
  BY <1>1, <1>2, <1>3, <1>4, <1>5, <1>6 DEF FailureLimiterNext

\* Neither attempts admitted before nor other sources prolong the window of a source that
\* is limited.
THEOREM LimitsAreNotExtendedAlways ==
  FailureLimiterSpec => LimitsAreNotExtended
<1>1. LimiterInv /\ [FailureLimiterNext]_flVars => [KeepsLimits]_flVars
  BY LimitsStep
<1> QED
  BY <1>1, LimiterInvariance, PTL DEF FailureLimiterSpec, LimitsAreNotExtended
=============================================================================
