-------------------------- MODULE AgentSync_proofs --------------------------
(***************************************************************************)
(* Proofs about AgentSync, for every value of its constants: types, what   *)
(* an observed revision is worth, and that the protocol keeps the promises *)
(* of Delivery.                                                            *)
(***************************************************************************)
EXTENDS AgentSync, TLAPS

\* The primary keys of assignments and of node_convergence, for one node.
IdsAreUnique == \A a, b \in assignments : a.id = b.id => a = b
RowsAreUnique == \A x, y \in rows : x.id = y.id => x = y

\* A cleanup is of an Assignment that is not delivered any more.
CleanupIsOfRemovals ==
  \A id \in owed \cup cleaned : \E a \in assignments : a.id = id /\ a.status = "removing"

\* From materialize to the end of its report the files stay where they are.
WrittenIsOnDisk ==
  /\ pass.at = "written" => Holds(pass.rev)
  /\ pass.at \in {"activated", "resolved"} /\ pass.ok => Holds(pass.rev)

\* An Assignment met by a report stays one of the bundle reported.
ResolvedIsOfItsBundle ==
  pass.at = "resolved" => \A a \in assignments : a.id = pass.id => a.bundle = pass.rev.bundle

Inv ==
  /\ TypeOK
  /\ IdsAreUnique
  /\ RowsAreUnique
  /\ CleanupIsOfRemovals
  /\ WrittenIsOnDisk
  /\ ResolvedIsOfItsBundle

-----------------------------------------------------------------------------
(* Types.                                                                  *)

\* Which fields a pass has follows from where it is.
LEMMA PassFields ==
  ASSUME pass \in Pass
  PROVE  /\ pass.at = "idle" => pass = Idle
         /\ pass.at \in {"idle", "asked", "answered", "working", "removed", "written", "activated",
                         "resolved"}
         /\ pass.at # "idle" => pass.revs \in SUBSET Rev
         /\ pass.at \notin {"idle", "asked"} => pass.cleanup \in SUBSET Instruction
         /\ pass.at = "removed" => pass.id \in Ids /\ pass.ok \in BOOLEAN
         /\ pass.at = "written" => pass.rev \in Rev
         /\ pass.at \in {"activated", "resolved"} => pass.rev \in Rev /\ pass.ok \in BOOLEAN
         /\ pass.at = "resolved" => pass.id \in Ids
  BY DEF Pass, Idle

LEMMA RowsOfRecord ==
  ASSUME TypeOK, NEW id \in Ids, NEW n \in 1 .. MaxRev, NEW ok \in BOOLEAN,
         RecordConvergence(id, n, ok)
  PROVE  rows' \in SUBSET Row
<1>1. MaxRev \in Nat
  BY AgentAssumption
<1>2. Observed(id) \in 0 .. MaxRev
  <2>1. CASE \E x \in rows : x.id = id
    <3>1. (CHOOSE x \in rows : x.id = id) \in rows
      BY <2>1
    <3> QED
      BY <2>1, <3>1 DEF Observed, TypeOK, Row
  <2>2. CASE ~ \E x \in rows : x.id = id
    BY <2>2, <1>1 DEF Observed
  <2> QED
    BY <2>1, <2>2
<1>3. [id |-> id, observed |-> IF ok THEN n ELSE Observed(id),
       result |-> IF ok THEN "ok" ELSE "failed"] \in Row
  BY <1>1, <1>2 DEF Row
<1> QED
  BY <1>3 DEF RecordConvergence, TypeOK

LEMMA RecordType ==
  ASSUME TypeOK, Record
  PROVE  rows' \in SUBSET Row
<1>1. pass.id \in Ids /\ pass.rev \in Rev /\ pass.ok \in BOOLEAN
  BY PassFields DEF Record, TypeOK
<1>2. pass.rev.n \in 1 .. MaxRev
  BY <1>1 DEF Rev
<1> QED
  BY <1>1, <1>2, RowsOfRecord DEF Record

LEMMA AgentType ==
  ASSUME TypeOK, Agent
  PROVE  TypeOK'
<1> USE PassFields
<1>1. CASE Poll
  <2>1. AssignedRevisions \in SUBSET Rev
    BY DEF AssignedRevisions, Received, RevOf, Rev, TypeOK, Assignment
  <2>2. pass' \in Pass
    BY <1>1, <2>1 DEF Poll, Pass
  <2> QED
    BY <1>1, <2>2 DEF Poll, TypeOK, revisions, core, state, files
<1>2. CASE Answer
  <2>1. PendingCleanup \in SUBSET Instruction
    BY DEF PendingCleanup, Instruction, TypeOK, Assignment
  <2>2. pass' \in Pass
    BY <1>2, <2>1 DEF Answer, Pass, TypeOK
  <2> QED
    BY <1>2, <2>2 DEF Answer, TypeOK, revisions, core, state, files
<1>3. CASE SaveETag
  <2>1. ETagOf(pass.revs, pass.cleanup) \in ETag
    BY <1>3 DEF SaveETag, ETagOf, ETag, Instruction, TypeOK
  <2>2. pass' \in Pass
    BY <1>3 DEF SaveETag, NextItem, Pass, TypeOK
  <2> QED
    BY <1>3, <2>1, <2>2 DEF SaveETag, TypeOK, revisions, core, state, files
<1>4. ASSUME NEW i \in Instruction, Remove(i)
      PROVE  TypeOK'
  <2>1. pass' \in Pass
    BY <1>4 DEF Remove, Acknowledge, Pass, TypeOK, Instruction
  <2> QED
    BY <1>4, <2>1 DEF Remove, TypeOK, revisions, core, state, files
<1>5. CASE ReportCleanup
  <2>1. pass' \in Pass
    BY <1>5 DEF ReportCleanup, NextItem, Pass, TypeOK
  <2> QED
    BY <1>5, <2>1 DEF ReportCleanup, TypeOK, revisions, core, state, files
<1>6. ASSUME NEW r \in Rev, Materialize(r)
      PROVE  TypeOK'
  <2>1. pass' \in Pass
    BY <1>6 DEF Materialize, Pass, TypeOK
  <2>2. disk' \subseteq File
    BY <1>6, AgentAssumption DEF Materialize, Write, TypeOK
  <2> QED
    BY <1>6, <2>1, <2>2 DEF Materialize, TypeOK, revisions, core, state, files
<1>7. CASE SaveManifest
  <2>1. pass' \in Pass
    BY <1>7 DEF SaveManifest, Activated, Pass, TypeOK
  <2>2. pass.rev \in Rev
    BY <1>7 DEF SaveManifest, TypeOK
  <2>3. [bundle |-> pass.rev.bundle, files |-> FilesOf[pass.rev]] \in Manifest
    BY <2>2, AgentAssumption DEF Manifest, Rev
  <2> QED
    BY <1>7, <2>1, <2>3 DEF SaveManifest, TypeOK, revisions, core, state, files
<1>8. CASE Report
  <2>1. pass' \in Pass
    BY <1>8 DEF Report, Record, NextItem, Pass, TypeOK
  <2> QED
    BY <1>8, <2>1, RecordType DEF Report, TypeOK, revisions, core, state, files
<1>9. CASE EndPass
  BY <1>9 DEF EndPass, TypeOK, revisions, core, state, files, Pass
<1>10. CASE Resolve
  <2>1. /\ pass.at = "activated" /\ pass.revs \in SUBSET Rev
        /\ pass.cleanup \in SUBSET Instruction /\ pass.rev \in Rev /\ pass.ok \in BOOLEAN
    BY <1>10 DEF Resolve, TypeOK
  <2>2. pass' \in Pass
    <3>1. CASE NextItem
      BY <2>1, <3>1 DEF NextItem, Pass
    <3>2. ASSUME NEW a \in Received,
                 pass' = [at |-> "resolved", revs |-> pass.revs, cleanup |-> pass.cleanup,
                          rev |-> pass.rev, ok |-> pass.ok, id |-> a.id]
          PROVE  pass' \in Pass
      <4>1. a.id \in Ids
        BY <3>2 DEF Received, TypeOK, Assignment
      <4> QED
        BY <2>1, <3>2, <4>1 DEF Pass
    <3> QED
      BY <1>10, <3>1, <3>2 DEF Resolve
  <2> QED
    BY <1>10, <2>2 DEF Resolve, TypeOK, revisions, core, state, files
<1>11. CASE ReportRefused
  <2>1. failures' \in 0 .. MaxFailures + 1
    BY <1>11, AgentAssumption DEF ReportRefused, TypeOK
  <2> QED
    BY <1>11, <2>1 DEF ReportRefused, TypeOK, revisions, core, state, files, Pass
<1> QED
  BY <1>1, <1>2, <1>3, <1>4, <1>5, <1>6, <1>7, <1>8, <1>9, <1>10, <1>11 DEF Agent

LEMMA AdministratorType ==
  ASSUME TypeOK, Administrator
  PROVE  TypeOK'
<1>1. ASSUME NEW id \in Ids, NEW b \in Bundles, NEW n \in 1 .. MaxRev, Assign(id, b, n)
      PROVE  TypeOK'
  <2>1. [id |-> id, bundle |-> b, n |-> n, member |-> TRUE, status |-> "active"] \in Assignment
    BY DEF Assignment
  <2> QED
    BY <1>1, <2>1 DEF Assign, TypeOK, revisions, state, files
<1>2. ASSUME NEW b \in Bundles, Publish(b)
      PROVE  TypeOK'
  <2>1. current[b] + 1 \in 1 .. MaxRev
    BY <1>2, AgentAssumption DEF Publish, TypeOK
  <2>2. current' \in [Bundles -> 0 .. MaxRev]
    BY <1>2, <2>1 DEF Publish, TypeOK
  <2>3. advancing' \subseteq Rev
    BY <1>2, <2>1 DEF Publish, TypeOK, Rev
  <2> QED
    BY <1>2, <2>2, <2>3 DEF Publish, TypeOK, state, files
<1>5. ASSUME NEW r \in Rev, AdvanceDesiredRevision(r)
      PROVE  TypeOK'
  <2>1. r.n \in 1 .. MaxRev
    BY DEF Rev
  <2>2. assignments' \subseteq Assignment
    BY <1>5, <2>1 DEF AdvanceDesiredRevision, TypeOK, Assignment
  <2> QED
    BY <1>5, <2>2 DEF AdvanceDesiredRevision, TypeOK, state, files
<1>3. ASSUME NEW a \in assignments, Unassign(a) \/ LeaveGroup(a) \/ JoinGroup(a)
      PROVE  TypeOK'
  <2>1. a \in Assignment
    BY DEF TypeOK
  <2>3. 1 \in 1 .. MaxRev
    BY AgentAssumption
  <2>4. Removed(a) \in Assignment
    BY <2>1, <2>3 DEF Assignment, Removed
  <2>2. /\ [a EXCEPT !.member = TRUE] \in Assignment
        /\ [a EXCEPT !.member = FALSE] \in Assignment
        /\ a.id \in Ids
    BY <2>1 DEF Assignment
  <2> QED
    BY <1>3, <2>2, <2>4 DEF Unassign, LeaveGroup, JoinGroup, TypeOK, revisions, state, files
<1>4. ASSUME NEW a \in assignments, DeleteNodeGroup(a)
      PROVE  TypeOK'
  BY <1>4 DEF DeleteNodeGroup, TypeOK, revisions, state, files
<1> QED
  BY <1>1, <1>2, <1>3, <1>4, <1>5 DEF Administrator

LEMMA FailType ==
  ASSUME TypeOK, Fail
  PROVE  failures' \in 0 .. MaxFailures + 1
  BY AgentAssumption DEF Fail, TypeOK

LEMMA FailureType ==
  ASSUME TypeOK, Failure
  PROVE  TypeOK'
<1> USE PassFields, FailType
<1>1. CASE Crash \/ CrashInSaveETag
  BY <1>1 DEF Crash, CrashInSaveETag, Pass, TypeOK, revisions, core, state, files
<1>2. CASE CrashInSaveManifest
  <2>1. pass.rev.bundle \in Bundles
    BY <1>2 DEF CrashInSaveManifest, TypeOK, Rev
  <2> QED
    BY <1>2, <2>1 DEF CrashInSaveManifest, Pass, TypeOK, revisions, core, state
<1>3. ASSUME NEW i \in Instruction, CleanupFails(i)
      PROVE  TypeOK'
  <2>1. pass' \in Pass
    BY <1>3 DEF CleanupFails, Acknowledge, Pass, TypeOK, Instruction
  <2> QED
    BY <1>3, <2>1 DEF CleanupFails, TypeOK, revisions, core, state, files
<1>4. ASSUME NEW i \in Instruction, NEW S \in SUBSET disk, RemoveSome(i, S)
      PROVE  TypeOK'
  <2>1. pass' \in Pass
    BY <1>4 DEF RemoveSome, Acknowledge, Pass, TypeOK, Instruction
  <2> QED
    BY <1>4, <2>1 DEF RemoveSome, TypeOK, revisions, core, state
<1>5. ASSUME NEW i \in Instruction, NEW S \in SUBSET disk, CrashInRemove(i, S)
      PROVE  TypeOK'
  BY <1>5 DEF CrashInRemove, Pass, TypeOK, revisions, core, state
<1>6. CASE LoseCleanupReport
  <2>1. pass' \in Pass
    BY <1>6 DEF LoseCleanupReport, NextItem, Pass, TypeOK
  <2> QED
    BY <1>6, <2>1 DEF LoseCleanupReport, TypeOK, revisions, core, state, files
<1>7. ASSUME NEW r \in Rev, NEW written \in SUBSET FilesOf[r],
             ActivationFails(r, written) \/ CrashInMaterialize(r, written)
      PROVE  TypeOK'
  <2>1. disk' \subseteq File
    BY <1>7, AgentAssumption DEF ActivationFails, CrashInMaterialize, Write, TypeOK
  <2>2. ASSUME ActivationFails(r, written)
        PROVE  pass' \in Pass
    BY <2>2 DEF ActivationFails, Activated, Pass, TypeOK
  <2>3. ASSUME CrashInMaterialize(r, written)
        PROVE  pass' \in Pass
    BY <2>3 DEF CrashInMaterialize, Pass
  <2>4. pass' \in Pass
    BY <1>7, <2>2, <2>3
  <2> QED
    BY <1>7, <2>1, <2>4 DEF ActivationFails, CrashInMaterialize, TypeOK, revisions, core, state
<1>8. CASE LoseReportReply
  BY <1>8, RecordType DEF LoseReportReply, Pass, TypeOK, revisions, state, files
<1> QED
  BY <1>1, <1>2, <1>3, <1>4, <1>5, <1>6, <1>7, <1>8 DEF Failure

LEMMA TypeStep ==
  ASSUME TypeOK, [Next]_vars
  PROVE  TypeOK'
<1>1. CASE UNCHANGED vars
  BY <1>1 DEF vars, TypeOK
<1> QED
  BY <1>1, AgentType, AdministratorType, FailureType DEF Next

LEMMA TypeInit ==
  ASSUME Init
  PROVE  TypeOK
<1>1. 0 \in 0 .. MaxRev /\ 0 \in 0 .. MaxFailures + 1
  BY AgentAssumption
<1>2. Idle \in Pass
  BY DEF Pass
<1> QED
  BY <1>1, <1>2 DEF Init, TypeOK

\* Every variable keeps its type, whatever fails and whatever Administrators do.
THEOREM TypeOKAlways ==
  Spec => []TypeOK
  BY TypeInit, TypeStep, PTL DEF Spec

-----------------------------------------------------------------------------
(* The invariant.                                                          *)

\* Steps that leave Core's tables alone.
LEMMA CoreKeepsInv ==
  ASSUME Inv, TypeOK', UNCHANGED <<assignments, owed, cleaned>>,
         RowsAreUnique', WrittenIsOnDisk', ResolvedIsOfItsBundle'
  PROVE  Inv'
  BY DEF Inv, IdsAreUnique, CleanupIsOfRemovals

\* Steps of Administrators, which touch neither files nor the pass.
LEMMA FilesKeepInv ==
  ASSUME Inv, TypeOK', UNCHANGED <<disk, pass>>, rows' \subseteq rows,
         IdsAreUnique', CleanupIsOfRemovals', ResolvedIsOfItsBundle'
  PROVE  Inv'
  BY DEF Inv, RowsAreUnique, WrittenIsOnDisk, Holds

LEMMA RecordKeepsRowsUnique ==
  ASSUME RowsAreUnique, Record
  PROVE  RowsAreUnique'
  BY DEF RowsAreUnique, Record, RecordConvergence

LEMMA AgentInv ==
  ASSUME Inv, Agent
  PROVE  Inv'
<1>1. TypeOK'
  BY AgentType DEF Inv
<1>2. CASE Poll \/ Answer \/ SaveETag \/ EndPass \/ ReportCleanup \/ ReportRefused
  <2>1. pass'.at \notin {"written", "activated", "resolved"}
    BY <1>2 DEF Poll, Answer, SaveETag, NextItem, EndPass, ReportCleanup, ReportRefused, Idle
  <2>2. CASE ReportCleanup
    <3>1. owed' \cup cleaned' = owed \cup cleaned
      BY <2>2 DEF ReportCleanup
    <3> QED
      BY <1>1, <2>1, <2>2, <3>1
         DEF ReportCleanup, Inv, IdsAreUnique, CleanupIsOfRemovals, RowsAreUnique,
             WrittenIsOnDisk, ResolvedIsOfItsBundle
  <2>3. CASE UNCHANGED core
    BY <1>1, <2>1, <2>3, CoreKeepsInv DEF core, Inv, RowsAreUnique, WrittenIsOnDisk,
                                             ResolvedIsOfItsBundle
  <2> QED
    BY <1>2, <2>2, <2>3 DEF Poll, Answer, SaveETag, EndPass, ReportRefused
<1>3. ASSUME NEW i \in Instruction, Remove(i)
      PROVE  Inv'
  <2>1. pass'.at \notin {"written", "activated", "resolved"} /\ UNCHANGED core
    BY <1>3 DEF Remove, Acknowledge
  <2> QED
    BY <1>1, <2>1, CoreKeepsInv DEF core, Inv, RowsAreUnique, WrittenIsOnDisk,
                                             ResolvedIsOfItsBundle
<1>4. ASSUME NEW r \in Rev, Materialize(r)
      PROVE  Inv'
  <2>1. pass'.at = "written" /\ pass'.rev = r /\ FilesOf[r] \subseteq disk' /\ UNCHANGED core
    BY <1>4 DEF Materialize, Write
  <2> QED
    BY <1>1, <2>1, CoreKeepsInv DEF core, Inv, RowsAreUnique, WrittenIsOnDisk,
                                             ResolvedIsOfItsBundle, Holds
<1>5. CASE SaveManifest
  <2>1. pass.at = "written" /\ pass'.rev = pass.rev /\ disk' = disk /\ UNCHANGED core
        /\ pass'.at = "activated"
    BY <1>5 DEF SaveManifest, Activated
  <2> QED
    BY <1>1, <2>1, CoreKeepsInv DEF core, Inv, RowsAreUnique, WrittenIsOnDisk,
                                             ResolvedIsOfItsBundle, Holds
<1>6. CASE Report
  <2>1. pass'.at = "working"
    BY <1>6 DEF Report, NextItem
  <2> QED
    BY <1>1, <1>6, <2>1, CoreKeepsInv, RecordKeepsRowsUnique DEF Report, Inv, WrittenIsOnDisk,
                                                                      ResolvedIsOfItsBundle
<1>7. CASE Resolve
  <2>1. pass.at = "activated" /\ disk' = disk /\ UNCHANGED core
    BY <1>7 DEF Resolve, files
  <2>2. CASE pass'.at = "working"
    BY <1>1, <2>1, <2>2, CoreKeepsInv DEF core, Inv, RowsAreUnique, WrittenIsOnDisk,
                                             ResolvedIsOfItsBundle
  <2>3. ASSUME NEW a \in Received, RevOf(a) = pass.rev,
               pass' = [at |-> "resolved", revs |-> pass.revs, cleanup |-> pass.cleanup,
                        rev |-> pass.rev, ok |-> pass.ok, id |-> a.id]
        PROVE  Inv'
    <3>1. pass'.at = "resolved" /\ pass'.rev = pass.rev /\ pass'.ok = pass.ok /\ pass'.id = a.id
      BY <2>3
    <3>2. WrittenIsOnDisk'
      BY <2>1, <3>1 DEF Inv, WrittenIsOnDisk, Holds
    <3>3. pass.rev.bundle = a.bundle /\ a \in assignments
      BY <2>3 DEF RevOf, Received
    <3>4. ResolvedIsOfItsBundle'
      BY <2>1, <3>1, <3>3 DEF Inv, IdsAreUnique, ResolvedIsOfItsBundle, core
    <3> QED
      BY <1>1, <2>1, <3>2, <3>4, CoreKeepsInv DEF core, Inv, RowsAreUnique
  <2> QED
    BY <1>7, <2>2, <2>3 DEF Resolve, NextItem
<1> QED
  BY <1>2, <1>3, <1>4, <1>5, <1>6, <1>7 DEF Agent

LEMMA FailureInv ==
  ASSUME Inv, Failure
  PROVE  Inv'
<1>1. TypeOK'
  BY FailureType DEF Inv
<1>2. UNCHANGED <<assignments, owed, cleaned>>
  BY DEF Failure, Crash, CrashInSaveETag, CrashInSaveManifest, CleanupFails, RemoveSome,
         CrashInRemove, LoseCleanupReport, ActivationFails, CrashInMaterialize,
         LoseReportReply, core
<1>3. UNCHANGED rows \/ Record
  BY DEF Failure, Crash, CrashInSaveETag, CrashInSaveManifest, CleanupFails, RemoveSome,
         CrashInRemove, LoseCleanupReport, ActivationFails, CrashInMaterialize,
         LoseReportReply, core
<1>4. RowsAreUnique'
  BY <1>3, RecordKeepsRowsUnique DEF Inv, RowsAreUnique
<1>5. pass'.at \notin {"written", "resolved"} /\ (pass'.at = "activated" => pass'.ok = FALSE)
  BY DEF Failure, Crash, CrashInSaveETag, CrashInSaveManifest, CleanupFails, RemoveSome,
         CrashInRemove, LoseCleanupReport, ActivationFails, CrashInMaterialize,
         LoseReportReply, Idle, Acknowledge, NextItem, Activated
<1> QED
  BY <1>1, <1>2, <1>4, <1>5, CoreKeepsInv DEF WrittenIsOnDisk, ResolvedIsOfItsBundle

LEMMA AdministratorInv ==
  ASSUME Inv, Administrator
  PROVE  Inv'
<1>1. TypeOK'
  BY AdministratorType DEF Inv
<1> USE DEF Inv, IdsAreUnique, CleanupIsOfRemovals, ResolvedIsOfItsBundle
<1>2. ASSUME NEW id \in Ids, NEW b \in Bundles, NEW n \in 1 .. MaxRev, Assign(id, b, n)
      PROVE  Inv'
  <2> DEFINE new == [id |-> id, bundle |-> b, n |-> n, member |-> TRUE, status |-> "active"]
  <2>1. /\ assignments' = assignments \cup {new}
        /\ \A a \in assignments : a.id # id
        /\ pass.at = "resolved" => pass.id # id
        /\ UNCHANGED <<owed, cleaned, rows, disk, pass>>
    BY <1>2 DEF Assign, Fresh, files
  <2>2. new.id = id
    OBVIOUS
  <2> HIDE DEF new
  <2>3. IdsAreUnique'
    BY <2>1, <2>2
  <2>4. CleanupIsOfRemovals'
    BY <2>1
  <2>5. ResolvedIsOfItsBundle'
    BY <2>1, <2>2
  <2> QED
    BY <1>1, <2>1, <2>3, <2>4, <2>5, FilesKeepInv
<1>6. ASSUME NEW b \in Bundles, Publish(b)
      PROVE  Inv'
  <2>1. UNCHANGED <<assignments, owed, cleaned, rows, disk, pass>>
    BY <1>6 DEF Publish, files
  <2> QED
    BY <1>1, <2>1, FilesKeepInv
<1>3. ASSUME NEW r \in Rev, AdvanceDesiredRevision(r)
      PROVE  Inv'
  <2> DEFINE Moved(a) == IF a.bundle = r.bundle /\ a.status = "active"
                         THEN [a EXCEPT !.n = r.n] ELSE a
  <2>1. /\ assignments' = {Moved(a) : a \in assignments}
        /\ UNCHANGED <<owed, cleaned, rows, disk, pass>>
    BY <1>3 DEF AdvanceDesiredRevision, files
  <2>2. ASSUME NEW a \in assignments
        PROVE  Moved(a).id = a.id /\ Moved(a).status = a.status /\ Moved(a).bundle = a.bundle
    BY DEF TypeOK, Assignment
  <2> HIDE DEF Moved
  <2>3. IdsAreUnique'
    BY <2>1, <2>2
  <2>4. CleanupIsOfRemovals'
    BY <2>1, <2>2
  <2>5. ResolvedIsOfItsBundle'
    BY <2>1, <2>2
  <2> QED
    BY <1>1, <2>1, <2>3, <2>4, <2>5, FilesKeepInv
<1>4. ASSUME NEW a \in assignments, Unassign(a) \/ LeaveGroup(a) \/ JoinGroup(a)
      PROVE  Inv'
  <2>1. PICK b :
          /\ assignments' = (assignments \ {a}) \cup {b}
          /\ b.id = a.id /\ b.bundle = a.bundle /\ a.status = "active"
          /\ \/ b.status = "removing" /\ owed' \subseteq owed \cup {a.id}
             \/ b.status = "active" /\ owed' = owed
          /\ UNCHANGED <<cleaned, rows, disk, pass>>
    <3>1. a \in Assignment
      BY DEF TypeOK
    <3>2. CASE Unassign(a)
      <4>1. /\ Removed(a).id = a.id /\ Removed(a).bundle = a.bundle
            /\ Removed(a).status = "removing"
        BY DEF Removed
      <4> QED
        BY <3>2, <4>1 DEF Unassign, files
    <3>3. CASE LeaveGroup(a)
      <4> DEFINE b == [a EXCEPT !.member = FALSE]
      <4>1. b.id = a.id /\ b.bundle = a.bundle /\ b.status = a.status
        BY <3>1 DEF Assignment
      <4> QED
        BY <3>3, <4>1 DEF LeaveGroup, files
    <3>4. CASE JoinGroup(a)
      <4> DEFINE b == [a EXCEPT !.member = TRUE]
      <4>1. b.id = a.id /\ b.bundle = a.bundle /\ b.status = a.status
        BY <3>1 DEF Assignment
      <4> QED
        BY <3>4, <4>1 DEF JoinGroup, files
    <3> QED
      BY <1>4, <3>2, <3>3, <3>4
  <2>2. IdsAreUnique'
    BY <2>1
  <2>3. CleanupIsOfRemovals'
    BY <2>1
  <2>4. ResolvedIsOfItsBundle'
    BY <2>1
  <2> QED
    BY <1>1, <2>1, <2>2, <2>3, <2>4, FilesKeepInv
<1>5. ASSUME NEW a \in assignments, DeleteNodeGroup(a)
      PROVE  Inv'
  <2>1. /\ assignments' = assignments \ {a}
        /\ owed' = owed \ {a.id} /\ cleaned' = cleaned \ {a.id}
        /\ rows' \subseteq rows
        /\ UNCHANGED <<disk, pass>>
    BY <1>5 DEF DeleteNodeGroup, files
  <2> QED
    BY <1>1, <2>1, FilesKeepInv
<1> QED
  BY <1>2, <1>3, <1>4, <1>5, <1>6 DEF Administrator

LEMMA InvInit ==
  ASSUME Init
  PROVE  Inv
  BY TypeInit DEF Init, Inv, IdsAreUnique, RowsAreUnique, CleanupIsOfRemovals,
                  WrittenIsOnDisk, ResolvedIsOfItsBundle, Idle

LEMMA InvStep ==
  ASSUME Inv, [Next]_vars
  PROVE  Inv'
<1>1. CASE UNCHANGED vars
  BY <1>1, TypeStep DEF vars, Inv, IdsAreUnique, RowsAreUnique, CleanupIsOfRemovals,
                        WrittenIsOnDisk, ResolvedIsOfItsBundle, Holds
<1> QED
  BY <1>1, AgentInv, AdministratorInv, FailureInv DEF Next

LEMMA Invariance ==
  Spec => []Inv
  BY InvInit, InvStep, PTL DEF Spec

-----------------------------------------------------------------------------
(* What an observed revision is worth.                                     *)

\* What a report does to the convergence rows: the row of the Assignment gets the revision
\* that is on the disk, or keeps the one it had.
LEMMA RecordEffect ==
  ASSUME Inv, Record
  PROVE  \E w \in Row :
           /\ rows' = {x \in rows : x.id # pass.id} \cup {w} /\ w.id = pass.id
           /\ \/ pass.ok /\ w.observed = pass.rev.n /\ Holds(pass.rev)
              \/ ~ pass.ok /\ w.observed = 0 /\ \A x \in rows : x.id # pass.id
              \/ ~ pass.ok /\ \E x \in rows : x.id = pass.id /\ x.observed = w.observed
<1> USE DEF Inv
<1>1. pass.ok \in BOOLEAN /\ pass.rev \in Rev /\ pass.id \in Ids /\ pass.at = "resolved"
  BY PassFields DEF TypeOK, Record
<1> DEFINE w == [id |-> pass.id, observed |-> IF pass.ok THEN pass.rev.n ELSE Observed(pass.id),
                 result |-> IF pass.ok THEN "ok" ELSE "failed"]
<1>2. rows' = {x \in rows : x.id # pass.id} \cup {w}
  BY DEF Record, RecordConvergence
<1>3. w \in Row
  BY <1>2, RecordType DEF TypeOK
<1>4. w.id = pass.id /\ w.observed = IF pass.ok THEN pass.rev.n ELSE Observed(pass.id)
  OBVIOUS
<1> HIDE DEF w
<1>5. CASE pass.ok
  BY <1>1, <1>2, <1>3, <1>4, <1>5 DEF WrittenIsOnDisk
<1>6. CASE ~ pass.ok /\ \E x \in rows : x.id = pass.id
  <2>1. PICK x \in rows : x = CHOOSE y \in rows : y.id = pass.id
    BY <1>6
  <2>2. x.id = pass.id /\ w.observed = x.observed
    BY <1>4, <1>6, <2>1 DEF Observed
  <2> QED
    BY <1>2, <1>3, <1>4, <1>6, <2>2
<1>7. CASE ~ pass.ok /\ ~ \E x \in rows : x.id = pass.id
  <2>1. w.observed = 0
    BY <1>4, <1>7 DEF Observed
  <2> QED
    BY <1>2, <1>3, <1>4, <1>7, <2>1
<1> QED
  BY <1>1, <1>5, <1>6, <1>7

\* Only a report changes a row; a deleted group takes rows away.
LEMMA RowsChange ==
  ASSUME [Next]_vars
  PROVE  rows' \subseteq rows \/ Record
<1>1. ASSUME Agent \/ Failure
      PROVE  UNCHANGED rows \/ Record
  BY <1>1 DEF Agent, Poll, Answer, SaveETag, Remove, ReportCleanup, Materialize, SaveManifest,
              Resolve, Report, ReportRefused, EndPass, Failure, Crash, CrashInSaveETag,
              CrashInSaveManifest, CleanupFails, RemoveSome, CrashInRemove, LoseCleanupReport,
              ActivationFails, CrashInMaterialize, LoseReportReply, core
<1>2. ASSUME Administrator
      PROVE  rows' \subseteq rows
  BY <1>2 DEF Administrator, Assign, Publish, AdvanceDesiredRevision, Unassign, LeaveGroup,
              JoinGroup, DeleteNodeGroup
<1> QED
  BY <1>1, <1>2 DEF Next, vars

\* "The observed revision only moves on success": when it moves, the files of the new one
\* are on the node's disk.
THEOREM ObservedIsOnDiskAlways ==
  Spec => ObservedIsOnDisk
<1> DEFINE Moves(x, a) ==
      /\ a.id = x.id /\ x.observed # 0
      /\ ~ \E y \in rows : y.id = x.id /\ y.observed = x.observed
<1>1. ASSUME Inv, [Next]_vars, NEW x \in rows' \ rows, NEW a \in assignments, Moves(x, a)
      PROVE  Holds([bundle |-> a.bundle, n |-> x.observed])
  <2>1. Record
    BY <1>1, RowsChange
  <2>2. PICK w \in Row :
          /\ rows' = {y \in rows : y.id # pass.id} \cup {w} /\ w.id = pass.id
          /\ \/ w.observed = pass.rev.n /\ Holds(pass.rev)
             \/ w.observed = 0 /\ \A y \in rows : y.id # pass.id
             \/ \E y \in rows : y.id = pass.id /\ y.observed = w.observed
    BY <1>1, <2>1, RecordEffect
  <2>3. x = w
    BY <1>1, <2>2
  <2>4. a.bundle = pass.rev.bundle
    BY <1>1, <2>1, <2>2, <2>3 DEF Inv, ResolvedIsOfItsBundle, Record
  <2>5. pass.rev \in Rev
    BY <1>1, <2>1, PassFields DEF Inv, TypeOK, Record
  <2>6. pass.rev = [bundle |-> a.bundle, n |-> pass.rev.n]
    BY <2>4, <2>5 DEF Rev
  <2> QED
    BY <1>1, <2>2, <2>3, <2>6
<1>2. Inv /\ [Next]_vars =>
        [\A x \in rows' \ rows : \A a \in assignments :
           Moves(x, a) => Holds([bundle |-> a.bundle, n |-> x.observed])]_vars
  BY <1>1
<1> QED
  BY <1>2, Invariance, PTL DEF Spec, ObservedIsOnDisk

-----------------------------------------------------------------------------
(* AgentSync implements Delivery.                                          *)

\* The refinement mapping of Promise, by name.
Desired == {[id |-> a.id, rev |-> RevOf(a)] : a \in Received}
Held == {r \in Rev : Holds(r)}
Reporting == {[id |-> a.id, rev |-> pass.rev] :
                a \in {x \in assignments : pass.at = "resolved" /\ pass.ok /\ x.id = pass.id}}
Observations == {[id |-> x.id, n |-> x.observed] : x \in {y \in rows : y.observed # 0}}

\* An Assignment as Delivery sees it.
Promised(a) == [id |-> a.id, rev |-> [bundle |-> a.bundle, n |-> a.n]]

LEMMA DesiredMembers ==
  /\ Desired = {Promised(a) : a \in {x \in assignments : x.status = "active" /\ x.member}}
  /\ Desired' = {Promised(a) : a \in {x \in assignments' : x.status = "active" /\ x.member}}
BY DEF Desired, Received, RevOf, Promised

\* What the node is reporting: nothing, or one revision of one Assignment.
LEMMA ReportingIsEmpty ==
  /\ pass.at # "resolved" => Reporting = {}
  /\ pass'.at # "resolved" => Reporting' = {}
BY DEF Reporting

LEMMA ReportingIsOne ==
  ASSUME pass.at = "resolved"
  PROVE  Reporting = IF pass.ok /\ AssignmentRemains THEN {[id |-> pass.id, rev |-> pass.rev]}
                     ELSE {}
BY DEF Reporting, AssignmentRemains

\* Administrators do not touch it, unless they delete the Assignment.
LEMMA ReportingStays ==
  ASSUME UNCHANGED pass,
         pass.at = "resolved" => (AssignmentRemains <=> AssignmentRemains')
  PROVE  UNCHANGED Reporting
BY DEF Reporting, AssignmentRemains

LEMMA PromiseInit ==
  ASSUME Init
  PROVE  Promise!DeliveryInit
<1>1. Desired = {} /\ Reporting = {} /\ Observations = {} /\ Held \subseteq Rev
  BY DEF Init, Desired, Received, Reporting, Observations, Held
<1> QED
  BY <1>1 DEF Init, Promise!DeliveryInit, Desired, Reporting, Observations, Held

LEMMA PromiseStutter ==
  ASSUME UNCHANGED <<Desired, Reporting, Observations, disk, owed, cleaned>>
  PROVE  UNCHANGED Promise!deliveryVars
<1>1. UNCHANGED Held
  BY DEF Held, Holds
<1> QED
  BY <1>1 DEF Promise!deliveryVars, Desired, Reporting, Observations, Held

LEMMA PromiseInstall ==
  ASSUME UNCHANGED <<assignments, rows, owed, cleaned>>,
         pass.at # "resolved", pass'.at # "resolved"
  PROVE  Promise!DeliveryNext
<1>1. UNCHANGED <<Desired, Reporting, Observations>> /\ Held' \subseteq Rev
  BY ReportingIsEmpty DEF Desired, Received, RevOf, Observations, Held
<1>2. Promise!Install
  BY <1>1 DEF Promise!Install, Desired, Reporting, Observations, Held
<1> QED
  BY <1>2 DEF Promise!DeliveryNext

LEMMA PromiseDirect ==
  ASSUME UNCHANGED <<Reporting, Observations, disk, owed, cleaned>>,
         \A x \in Desired' :
           /\ x.id \notin owed \cup cleaned
           /\ \A y \in Desired : x.id = y.id => x.rev.bundle = y.rev.bundle
  PROVE  Promise!DeliveryNext
<1>1. UNCHANGED Held
  BY DEF Held, Holds
<1>2. Promise!Direct
  BY <1>1 DEF Promise!Direct, Desired, Reporting, Observations, Held
<1> QED
  BY <1>2 DEF Promise!DeliveryNext

LEMMA PromiseResolve ==
  ASSUME Inv, Resolve
  PROVE  Promise!DeliveryNext \/ UNCHANGED Promise!deliveryVars
<1>1. UNCHANGED <<Desired, Observations, Held, disk, owed, cleaned>> /\ Reporting = {}
  BY ReportingIsEmpty
     DEF Resolve, core, files, Desired, Received, RevOf, Observations, Held, Holds
<1>2. CASE Reporting' = {}
  BY <1>1, <1>2, PromiseStutter
<1>3. ASSUME NEW a \in Received, RevOf(a) = pass.rev, pass.ok,
             pass' = [at |-> "resolved", revs |-> pass.revs, cleanup |-> pass.cleanup,
                      rev |-> pass.rev, ok |-> pass.ok, id |-> a.id]
      PROVE  Promise!DeliveryNext
  <2> DEFINE x == [id |-> a.id, rev |-> RevOf(a)]
  <2>1. pass'.at = "resolved" /\ pass'.ok /\ pass'.id = a.id /\ pass'.rev = RevOf(a)
    BY <1>3
  <2>2. a \in assignments' /\ UNCHANGED assignments
    BY <1>3 DEF Received, Resolve, core
  <2>3. Reporting' = {x}
    BY <2>1, <2>2 DEF Reporting
  <2>4. x \in Desired /\ x.rev = pass.rev
    BY <1>3 DEF Desired
  <2>5. pass.rev \in Held
    BY <1>3, PassFields DEF Resolve, Inv, TypeOK, WrittenIsOnDisk, Held
  <2> HIDE DEF x
  <2>6. Promise!Report(x)
    BY <1>1, <2>3, <2>4, <2>5 DEF Promise!Report, Desired, Reporting, Observations, Held
  <2> QED
    BY <2>4, <2>6 DEF Promise!DeliveryNext, Desired
<1>4. ASSUME NEW a \in Received, ~ pass.ok,
             pass' = [at |-> "resolved", revs |-> pass.revs, cleanup |-> pass.cleanup,
                      rev |-> pass.rev, ok |-> pass.ok, id |-> a.id]
      PROVE  Reporting' = {}
  <2>1. ~ pass'.ok
    BY <1>4
  <2> QED
    BY <2>1 DEF Reporting
<1>5. CASE NextItem
  <2>1. Reporting' = {}
    BY <1>5, ReportingIsEmpty DEF NextItem
  <2> QED
    BY <1>2, <2>1
<1> QED
  BY <1>2, <1>3, <1>4, <1>5 DEF Resolve

\* A report ends, in one way or the other.
LEMMA PromiseEnds ==
  ASSUME NEW x \in Reporting, Promise!Lose(x) \/ Promise!Observe(x)
  PROVE  Promise!DeliveryNext
BY Zenon DEF Promise!DeliveryNext, Reporting

\* A report that is not recorded.
LEMMA PromiseLose ==
  ASSUME UNCHANGED <<assignments, rows, disk, owed, cleaned>>, pass'.at # "resolved"
  PROVE  Promise!DeliveryNext \/ UNCHANGED Promise!deliveryVars
<1>1. UNCHANGED <<Desired, Observations, Held>> /\ Reporting' = {}
  BY ReportingIsEmpty DEF Desired, Received, RevOf, Observations, Held, Holds
<1>2. CASE Reporting = {}
  BY <1>1, <1>2, PromiseStutter
<1>3. CASE Reporting # {}
  <2>1. PICK x : Reporting = {x}
    BY <1>3, ReportingIsEmpty, ReportingIsOne
  <2>2. Promise!Lose(x)
    BY <1>1, <2>1 DEF Promise!Lose, Desired, Reporting, Observations, Held
  <2>3. x \in Reporting
    BY <2>1
  <2> QED
    BY <2>2, <2>3, PromiseEnds
<1> QED
  BY <1>2, <1>3

LEMMA PromiseRecord ==
  ASSUME Inv, Record, UNCHANGED <<assignments, disk, owed, cleaned>>, pass'.at # "resolved"
  PROVE  Promise!DeliveryNext \/ UNCHANGED Promise!deliveryVars
<1>1. UNCHANGED <<Desired, Held>> /\ Reporting' = {}
  BY ReportingIsEmpty DEF Desired, Received, RevOf, Held, Holds
<1>2. PICK w \in Row :
        /\ rows' = {x \in rows : x.id # pass.id} \cup {w} /\ w.id = pass.id
        /\ \/ pass.ok /\ w.observed = pass.rev.n /\ Holds(pass.rev)
           \/ ~ pass.ok /\ w.observed = 0 /\ \A x \in rows : x.id # pass.id
           \/ ~ pass.ok /\ \E x \in rows : x.id = pass.id /\ x.observed = w.observed
  BY RecordEffect
<1>3. CASE pass.ok /\ w.observed = pass.rev.n /\ Holds(pass.rev)
  <2>1. PICK x : x = [id |-> pass.id, rev |-> pass.rev]
    OBVIOUS
  <2>2. Reporting = {x} /\ x.id = pass.id /\ x.rev = pass.rev
    BY <1>3, <2>1, ReportingIsOne DEF Record
  <2>3. pass.rev \in Rev
    BY PassFields DEF Record, Inv, TypeOK
  <2>4. pass.rev \in Held /\ pass.rev.n # 0
    BY <1>3, <2>3, AgentAssumption DEF Held, Rev
  <2>5. Observations' = {y \in Observations : y.id # pass.id}
                        \cup {[id |-> pass.id, n |-> pass.rev.n]}
    BY <1>2, <1>3, <2>4 DEF Observations
  <2>6. Promise!Observe(x)
    BY <1>1, <2>2, <2>4, <2>5 DEF Promise!Observe, Desired, Reporting, Observations, Held
  <2>7. x \in Reporting
    BY <2>2
  <2> QED
    BY <2>6, <2>7, PromiseEnds
<1>4. ASSUME ~ pass.ok
      PROVE  Reporting = {}
  BY <1>4 DEF Reporting
<1>5. CASE ~ pass.ok /\ w.observed = 0 /\ \A x \in rows : x.id # pass.id
  <2>1. Observations' = Observations
    BY <1>2, <1>5 DEF Observations
  <2> QED
    BY <1>1, <1>4, <1>5, <2>1, PromiseStutter
<1>6. CASE ~ pass.ok /\ \E x \in rows : x.id = pass.id /\ x.observed = w.observed
  <2>1. Observations' = Observations
    BY <1>2, <1>6 DEF Observations, Inv, RowsAreUnique
  <2> QED
    BY <1>1, <1>4, <1>6, <2>1, PromiseStutter
<1> QED
  BY <1>2, <1>3, <1>5, <1>6

LEMMA PromiseReportCleanup ==
  ASSUME Inv, ReportCleanup
  PROVE  Promise!DeliveryNext \/ UNCHANGED Promise!deliveryVars
<1>1. UNCHANGED <<Desired, Held, Reporting, Observations>>
  <2>1. pass.at # "resolved" /\ pass'.at # "resolved"
    BY DEF ReportCleanup, NextItem
  <2> QED
    BY <2>1, ReportingIsEmpty
       DEF ReportCleanup, Desired, Received, RevOf, Held, Holds, Observations, files
<1>2. CASE pass.ok /\ pass.id \in owed
  <2>1. Promise!Confirm(pass.id)
    BY <1>1, <1>2 DEF ReportCleanup, Promise!Confirm, Desired, Held, Reporting, Observations
  <2>2. pass.id \in Ids
    BY <1>2 DEF Inv, TypeOK
  <2> QED
    BY <2>1, <2>2 DEF Promise!DeliveryNext
<1>3. CASE ~ (pass.ok /\ pass.id \in owed)
  <2>1. UNCHANGED <<Desired, Reporting, Observations, disk, owed, cleaned>>
    BY <1>1, <1>3 DEF ReportCleanup, files
  <2> QED
    BY <2>1, PromiseStutter
<1> QED
  BY <1>2, <1>3

LEMMA PromiseAgent ==
  ASSUME Inv, Agent \/ Failure
  PROVE  Promise!DeliveryNext \/ UNCHANGED Promise!deliveryVars
<1>1. CASE ReportCleanup
  BY <1>1, PromiseReportCleanup
<1>2. CASE Report \/ LoseReportReply
  <2>1. pass'.at # "resolved"
    BY <1>2 DEF Report, LoseReportReply, NextItem, Idle
  <2> QED
    BY <1>2, <2>1, PromiseRecord DEF Report, LoseReportReply, files
<1>3. CASE Resolve
  BY <1>3, PromiseResolve
<1>4. CASE Crash \/ ReportRefused
  <2>1. pass'.at # "resolved"
    BY <1>4 DEF Crash, ReportRefused, Idle
  <2> QED
    BY <1>4, <2>1, PromiseLose DEF Crash, ReportRefused, core, files
<1>5. CASE /\ UNCHANGED <<assignments, rows, owed, cleaned>>
           /\ pass.at # "resolved" /\ pass'.at # "resolved"
  BY <1>5, PromiseInstall
<1> QED
  BY <1>1, <1>2, <1>3, <1>4, <1>5
     DEF Agent, Poll, Answer, SaveETag, Remove, Materialize, SaveManifest, EndPass, Failure,
         CrashInSaveETag, CrashInSaveManifest, CleanupFails, RemoveSome, CrashInRemove,
         LoseCleanupReport, ActivationFails, CrashInMaterialize, core, Idle, Acknowledge,
         Activated, NextItem

\* Assignments come, go or move to other revisions of their bundles, and none is one to be
\* cleaned.
LEMMA PromiseAssignments ==
  ASSUME Inv, UNCHANGED <<rows, disk, owed, cleaned, Reporting>>,
         \A a \in assignments' : a.status = "active" /\ a.member =>
           \A b \in assignments : b.id = a.id => b.status = "active" /\ b.bundle = a.bundle
  PROVE  Promise!DeliveryNext
<1>1. UNCHANGED Observations
  BY DEF Observations
<1> SUFFICES ASSUME NEW x \in Desired'
             PROVE  /\ x.id \notin owed \cup cleaned
                    /\ \A y \in Desired : x.id = y.id => x.rev.bundle = y.rev.bundle
  BY <1>1, PromiseDirect
<1>2. PICK a \in assignments' : a.status = "active" /\ a.member /\ x = Promised(a)
  BY DesiredMembers
<1>3. x.id = a.id /\ x.rev.bundle = a.bundle
  BY <1>2 DEF Promised
<1>4. a.id \notin owed \cup cleaned
  BY <1>2 DEF Inv, CleanupIsOfRemovals
<1>5. ASSUME NEW y \in Desired, y.id = x.id
      PROVE  x.rev.bundle = y.rev.bundle
  <2>1. PICK b \in assignments : y = Promised(b)
    BY DesiredMembers
  <2>2. y.id = b.id /\ y.rev.bundle = b.bundle
    BY <2>1 DEF Promised
  <2> QED
    BY <1>2, <1>3, <1>5, <2>2
<1> QED
  BY <1>3, <1>4, <1>5

LEMMA PromiseAssign ==
  ASSUME Inv, NEW id \in Ids, NEW b \in Bundles, NEW n \in 1 .. MaxRev, Assign(id, b, n)
  PROVE  Promise!DeliveryNext
<1> DEFINE new == [id |-> id, bundle |-> b, n |-> n, member |-> TRUE, status |-> "active"]
<1>1. /\ assignments' = assignments \cup {new} /\ new.id = id
      /\ \A a \in assignments : a.id # id
      /\ pass.at = "resolved" => pass.id # id
      /\ UNCHANGED <<rows, disk, owed, cleaned, pass>>
  BY DEF Assign, Fresh, files
<1> HIDE DEF new
<1>2. ASSUME NEW a \in assignments, NEW c \in assignments, a.status = "active", c.id = a.id
      PROVE  c.status = "active" /\ c.bundle = a.bundle
  BY <1>2 DEF Inv, IdsAreUnique
<1>3. UNCHANGED Reporting
  BY <1>1, ReportingStays DEF AssignmentRemains
<1> QED
  BY <1>1, <1>2, <1>3, PromiseAssignments

LEMMA PromiseAdvance ==
  ASSUME Inv, NEW r \in Rev, AdvanceDesiredRevision(r)
  PROVE  Promise!DeliveryNext
<1> DEFINE Moved(a) == IF a.bundle = r.bundle /\ a.status = "active"
                       THEN [a EXCEPT !.n = r.n] ELSE a
<1>1. /\ assignments' = {Moved(a) : a \in assignments}
      /\ UNCHANGED <<rows, disk, owed, cleaned, pass>>
  BY DEF AdvanceDesiredRevision, files
<1>2. ASSUME NEW a \in assignments
      PROVE  Moved(a).id = a.id /\ Moved(a).status = a.status /\ Moved(a).bundle = a.bundle
  BY DEF Inv, TypeOK, Assignment
<1> HIDE DEF Moved
<1>3. ASSUME NEW a \in assignments, NEW c \in assignments,
             Moved(a).status = "active", c.id = Moved(a).id
      PROVE  c.status = "active" /\ c.bundle = Moved(a).bundle
  BY <1>2, <1>3 DEF Inv, IdsAreUnique
<1>4. UNCHANGED Reporting
  BY <1>1, <1>2, ReportingStays DEF AssignmentRemains
<1> QED
  BY <1>1, <1>3, <1>4, PromiseAssignments

LEMMA PromiseMember ==
  ASSUME Inv, NEW a \in assignments, LeaveGroup(a) \/ JoinGroup(a)
  PROVE  Promise!DeliveryNext
<1>1. a \in Assignment
  BY DEF Inv, TypeOK
<1>2. PICK m \in BOOLEAN : assignments' = (assignments \ {a}) \cup {[a EXCEPT !.member = m]}
  BY DEF LeaveGroup, JoinGroup
<1> DEFINE new == [a EXCEPT !.member = m]
<1>3. new.id = a.id /\ new.bundle = a.bundle /\ new.status = a.status
  BY <1>1 DEF Assignment
<1> HIDE DEF new
<1>4. a.status = "active" /\ UNCHANGED <<rows, disk, owed, cleaned, pass>>
  BY DEF LeaveGroup, JoinGroup, files
<1>5. ASSUME NEW x \in assignments', NEW c \in assignments, x.status = "active", c.id = x.id
      PROVE  c.status = "active" /\ c.bundle = x.bundle
  <2>1. PICK y \in assignments : x.id = y.id /\ x.bundle = y.bundle /\ x.status = y.status
    BY <1>2, <1>3 DEF new
  <2>2. c = y
    BY <1>5, <2>1 DEF Inv, IdsAreUnique
  <2> QED
    BY <1>5, <2>1, <2>2
<1>6. UNCHANGED Reporting
  BY <1>2, <1>3, <1>4, ReportingStays DEF AssignmentRemains, new
<1> QED
  BY <1>4, <1>5, <1>6, PromiseAssignments

LEMMA PromiseUnassign ==
  ASSUME Inv, NEW a \in assignments, Unassign(a)
  PROVE  Promise!DeliveryNext \/ UNCHANGED Promise!deliveryVars
<1>1. a.id \in Ids
  BY DEF Inv, TypeOK, Assignment
<1>2. Removed(a).id = a.id /\ Removed(a).status = "removing"
  BY DEF Removed
<1>3. assignments' = (assignments \ {a}) \cup {Removed(a)} /\ a.status = "active"
      /\ UNCHANGED <<rows, disk, cleaned, pass, Held, Observations>>
  BY DEF Unassign, files, Held, Holds, Observations
<1>4. Desired' = {Promised(x) : x \in {y \in assignments :
                                        y.status = "active" /\ y.member /\ y # a}}
  BY <1>2, <1>3, DesiredMembers
<1>5. UNCHANGED Reporting
  BY <1>2, <1>3, ReportingStays DEF AssignmentRemains
<1>6. CASE a.member
  <2>1. \E x \in Desired : x.id = a.id
    <3>1. Promised(a) \in Desired /\ Promised(a).id = a.id
      BY <1>3, <1>6, DesiredMembers DEF Promised
    <3> QED
      BY <3>1
  <2>2. Desired' = {x \in Desired : x.id # a.id}
    BY <1>4, DesiredMembers DEF Promised, Inv, IdsAreUnique
  <2>3. owed' = owed \cup {a.id}
    BY <1>6 DEF Unassign
  <2>4. Promise!Withdraw(a.id)
    BY <1>3, <1>5, <2>1, <2>2, <2>3
       DEF Promise!Withdraw, Desired, Held, Reporting, Observations
  <2> QED
    BY <1>1, <2>4 DEF Promise!DeliveryNext
<1>7. CASE ~ a.member
  <2>1. Desired' = Desired
    BY <1>4, <1>7, DesiredMembers
  <2>2. owed' = owed
    BY <1>7 DEF Unassign
  <2> QED
    BY <1>3, <1>5, <2>1, <2>2, PromiseStutter
<1> QED
  BY <1>6, <1>7

LEMMA PromiseDeleteNodeGroup ==
  ASSUME Inv, NEW a \in assignments, DeleteNodeGroup(a)
  PROVE  Promise!DeliveryNext
<1>1. a.id \in Ids /\ a.status = "removing"
  BY DEF DeleteNodeGroup, Inv, TypeOK, Assignment
<1>2. Desired' = Desired
  BY <1>1, DesiredMembers DEF DeleteNodeGroup
<1>3. \A x \in Desired : x.id # a.id
  BY <1>1, DesiredMembers DEF Promised, Inv, IdsAreUnique
<1>4. Desired' = {x \in Desired : x.id \notin {a.id}}
  BY <1>2, <1>3
<1>5. Observations' = {y \in Observations : y.id \notin {a.id}}
  BY DEF DeleteNodeGroup, Observations
<1>6. UNCHANGED Held
  BY DEF DeleteNodeGroup, files, Held, Holds
<1>7. Reporting' = {x \in Reporting : x.id \notin {a.id}}
  <2>1. assignments' = {x \in assignments : x.id # a.id} /\ UNCHANGED pass
    BY DEF DeleteNodeGroup, Inv, IdsAreUnique
  <2> QED
    BY <2>1 DEF Reporting
<1>8. Promise!Forget({a.id})
  BY <1>4, <1>5, <1>6, <1>7
     DEF DeleteNodeGroup, Promise!Forget, Desired, Held, Reporting, Observations
<1> QED
  BY <1>1, <1>8 DEF Promise!DeliveryNext

LEMMA PromisePublish ==
  ASSUME NEW b \in Bundles, Publish(b)
  PROVE  UNCHANGED Promise!deliveryVars
<1>1. UNCHANGED <<Desired, Reporting, Observations, disk, owed, cleaned>>
  BY DEF Publish, files, Desired, Received, RevOf, Reporting, Observations
<1> QED
  BY <1>1, PromiseStutter

LEMMA PromiseStep ==
  ASSUME Inv, [Next]_vars
  PROVE  Promise!DeliveryNext \/ UNCHANGED Promise!deliveryVars
<1>1. CASE UNCHANGED vars
  <2>1. UNCHANGED <<Desired, Reporting, Observations>>
    BY <1>1 DEF vars, Desired, Received, RevOf, Reporting, Observations
  <2> QED
    BY <1>1, <2>1, PromiseStutter DEF vars
<1>2. CASE Administrator
  BY <1>2, PromiseAssign, PromisePublish, PromiseAdvance, PromiseMember, PromiseUnassign,
     PromiseDeleteNodeGroup DEF Administrator
<1> QED
  BY <1>1, <1>2, PromiseAgent DEF Next

\* The whole protocol, with its failures, keeps what Delivery promises: every step is one of
\* Delivery's, or changes nothing that Delivery speaks of.
THEOREM Implementation ==
  Spec => ImplementsDelivery
<1>1. Init => Promise!DeliveryInit
  BY PromiseInit
<1>2. Inv /\ [Next]_vars => [Promise!DeliveryNext]_(Promise!deliveryVars)
  BY PromiseStep
<1> QED
  BY <1>1, <1>2, Invariance, PTL DEF Spec, ImplementsDelivery, Promise!DeliverySpec

-----------------------------------------------------------------------------
(* What a 304 is worth.                                                    *)

\* No two bundles of a node have a file at the same path.  Core does not check it: without
\* it a bundle may overwrite the files of another, and what follows does not hold.
PathsAreDisjoint ==
  \A r, s \in Rev : r.bundle # s.bundle =>
    \A f \in FilesOf[r], g \in FilesOf[s] : f.path # g.path

\* A node receives a bundle once.
OneSource == \A a, b \in Received : a.bundle = b.bundle => a = b

OneOfEach(revs) == \A r, s \in revs : r.bundle = s.bundle => r = s

ResponsesAreOfOneSource ==
  /\ pass.at # "idle" => OneOfEach(pass.revs)
  /\ \A t \in etag : OneOfEach(t.revs)

\* The node has been told to clean up this Assignment, and has not forgotten it.
Mentioned(id) ==
  \/ \E t \in etag : id \in t.cleanup
  \/ pass.at \notin {"idle", "asked"} /\ \E i \in pass.cleanup : i.id = id
  \/ pass.at = "removed" /\ pass.id = id

MentionedAreRemoved == \A a \in assignments : Mentioned(a.id) => a.status = "removing"

\* The pass is doing what the ETag that is saved stands for.
Doing(t) ==
  /\ pass.revs \subseteq t.revs
  /\ \A id \in t.cleanup :
       \/ id \notin owed
       \/ \E i \in pass.cleanup : i.id = id
       \/ pass.at = "removed" /\ pass.id = id
  /\ \A r \in t.revs : r \in pass.revs \/ Holds(r)
  /\ pass.at = "removed" => pass.ok /\ t.revs \subseteq pass.revs
  /\ pass.cleanup # {} => t.revs \subseteq pass.revs
  /\ pass.at \in {"written", "activated"} => pass.cleanup = {}
  /\ pass.at = "written" => pass.rev \in pass.revs

\* It is done.
Done(t) ==
  /\ \A id \in t.cleanup : id \notin owed
  /\ \A r \in t.revs : Holds(r)

ETagIsTrue ==
  failures = 0 =>
    /\ torn = {}
    /\ \A t \in etag :
         IF pass.at \in {"idle", "asked", "answered"} THEN Done(t) ELSE Doing(t)

ETagInv ==
  /\ Inv
  /\ OneSource
  /\ ResponsesAreOfOneSource
  /\ MentionedAreRemoved
  /\ ETagIsTrue

\* Writing the files of one bundle leaves those of the others.
LEMMA WriteKeepsOthers ==
  ASSUME PathsAreDisjoint, NEW r \in Rev, NEW s \in Rev, s.bundle # r.bundle, Holds(s),
         disk' = Write(FilesOf[r])
  PROVE  Holds(s)'
  BY DEF PathsAreDisjoint, Holds, Write

LEMMA OneSourceStep ==
  ASSUME ETagInv, [Next]_vars
  PROVE  OneSource'
<1> USE DEF OneSource, ETagInv
<1>1. CASE UNCHANGED assignments
  BY <1>1 DEF Received
<1>2. CASE Administrator
  <2>1. ASSUME NEW id \in Ids, NEW b \in Bundles, NEW n \in 1 .. MaxRev,
               Assign(id, b, n)
        PROVE  OneSource'
    <3> DEFINE new == [id |-> id, bundle |-> b, n |-> n, member |-> TRUE, status |-> "active"]
    <3>1. assignments' = assignments \cup {new} /\ new.bundle = b
          /\ \A a \in Received : a.bundle # b
      BY <2>1 DEF Assign
    <3> HIDE DEF new
    <3>2. Received' \subseteq Received \cup {new}
      BY <3>1 DEF Received
    <3> QED
      BY <3>1, <3>2
  <2>2. ASSUME NEW r \in Rev, AdvanceDesiredRevision(r)
        PROVE  OneSource'
    <3> DEFINE Moved(a) == IF a.bundle = r.bundle /\ a.status = "active"
                           THEN [a EXCEPT !.n = r.n] ELSE a
    <3>1. assignments' = {Moved(a) : a \in assignments}
      BY <2>2 DEF AdvanceDesiredRevision
    <3>2. ASSUME NEW a \in assignments
          PROVE  /\ Moved(a).status = a.status /\ Moved(a).bundle = a.bundle
                 /\ Moved(a).member = a.member
      BY DEF Inv, TypeOK, Assignment
    <3> HIDE DEF Moved
    <3> QED
      BY <3>1, <3>2 DEF Received
  <2>3. ASSUME NEW a \in assignments, Unassign(a) \/ LeaveGroup(a) \/ JoinGroup(a)
        PROVE  OneSource'
    <3>1. a \in Assignment
      BY DEF Inv, TypeOK
    <3>2. ASSUME Unassign(a) \/ LeaveGroup(a)
          PROVE  Received' \subseteq Received
      <4>1. Removed(a).status = "removing" /\ [a EXCEPT !.member = FALSE].member = FALSE
        BY <3>1 DEF Assignment, Removed
      <4> QED
        BY <3>2, <4>1 DEF Unassign, LeaveGroup, Received
    <3>3. ASSUME JoinGroup(a)
          PROVE  OneSource'
      <4> DEFINE new == [a EXCEPT !.member = TRUE]
      <4>1. new.bundle = a.bundle
        BY <3>1 DEF Assignment
      <4>2. Received' \subseteq Received \cup {new} /\ \A o \in Received : o.bundle # a.bundle
        BY <3>3 DEF JoinGroup, Received
      <4> HIDE DEF new
      <4> QED
        BY <4>1, <4>2
    <3> QED
      BY <2>3, <3>2, <3>3
  <2>4. ASSUME NEW a \in assignments, DeleteNodeGroup(a)
        PROVE  OneSource'
    BY <2>4 DEF DeleteNodeGroup, Received
  <2> QED
    BY <1>1, <1>2, <2>1, <2>2, <2>3, <2>4 DEF Administrator, Publish
<1> QED
  BY <1>1, <1>2
     DEF Next, vars, Agent, Poll, Answer, SaveETag, Remove, ReportCleanup, Materialize,
         SaveManifest, Resolve, Report, ReportRefused, EndPass, Failure, Crash, CrashInSaveETag,
         CrashInSaveManifest, CleanupFails, RemoveSome, CrashInRemove, LoseCleanupReport,
         ActivationFails, CrashInMaterialize, LoseReportReply, core

LEMMA ResponsesStep ==
  ASSUME ETagInv, [Next]_vars
  PROVE  ResponsesAreOfOneSource'
<1> USE DEF ETagInv, ResponsesAreOfOneSource, OneOfEach
<1>1. CASE Poll
  <2>1. OneOfEach(AssignedRevisions)
    BY DEF AssignedRevisions, OneSource, RevOf
  <2> QED
    BY <1>1, <2>1 DEF Poll, state
<1>2. CASE Answer
  BY <1>2 DEF Answer, state, Idle
<1>3. CASE SaveETag
  BY <1>3 DEF SaveETag, NextItem, ETagOf
<1>4. CASE UNCHANGED <<etag, pass>>
  BY <1>4
<1>5. CASE UNCHANGED etag /\ pass' = Idle
  BY <1>5 DEF Idle
<1>6. CASE UNCHANGED etag /\ pass.at # "idle" /\ pass'.revs \subseteq pass.revs
  BY <1>6
<1> QED
  BY <1>1, <1>2, <1>3, <1>4, <1>5, <1>6
     DEF Next, vars, Agent, Remove, ReportCleanup, Materialize, SaveManifest, Resolve, Report,
         ReportRefused, Record, EndPass, Acknowledge, NextItem, Activated, state, Failure, Crash,
         CrashInSaveETag, CrashInSaveManifest, CleanupFails, RemoveSome, CrashInRemove,
         LoseCleanupReport, ActivationFails, CrashInMaterialize, LoseReportReply,
         Administrator, Assign, Publish,
         AdvanceDesiredRevision, Unassign, LeaveGroup, JoinGroup, DeleteNodeGroup

\* An Agent learns of a cleanup only when it is owed.
LEMMA MentionedBefore ==
  ASSUME ETagInv, Agent \/ Failure, NEW id, Mentioned(id)'
  PROVE  Mentioned(id) \/ id \in owed
<1> USE DEF Mentioned
<1>1. CASE Answer
  <2>1. \A i \in PendingCleanup : i.id \in owed
    BY DEF PendingCleanup
  <2> QED
    BY <1>1, <2>1 DEF Answer, state, Idle
<1>2. CASE SaveETag
  BY <1>2 DEF SaveETag, NextItem, ETagOf
<1>3. ASSUME NEW i \in Instruction, Remove(i) \/ CleanupFails(i) \/ \E S : RemoveSome(i, S)
      PROVE  Mentioned(id)
  BY <1>3 DEF Remove, CleanupFails, RemoveSome, Acknowledge, state
<1>4. CASE UNCHANGED etag /\ pass'.at \in {"idle", "asked"}
  BY <1>4
<1>5. CASE UNCHANGED etag /\ pass'.at \notin {"removed"} /\ pass.at \notin {"idle", "asked"}
           /\ pass'.cleanup = pass.cleanup
  BY <1>5
<1> QED
  BY <1>1, <1>2, <1>3, <1>4, <1>5
     DEF Agent, Poll, ReportCleanup, Materialize, SaveManifest, Resolve, Report, Record,
         ReportRefused, EndPass, NextItem, Activated, Idle, state, Failure, Crash, CrashInSaveETag,
         CrashInSaveManifest, CrashInRemove, LoseCleanupReport, ActivationFails,
         CrashInMaterialize, LoseReportReply

LEMMA MentionedStep ==
  ASSUME ETagInv, [Next]_vars
  PROVE  MentionedAreRemoved'
<1> USE DEF ETagInv, MentionedAreRemoved
<1>1. CASE Agent \/ Failure
  <2>1. UNCHANGED assignments
    BY <1>1
       DEF Agent, Poll, Answer, SaveETag, Remove, ReportCleanup, Materialize, SaveManifest,
           Resolve, Report, ReportRefused, EndPass, Failure, Crash, CrashInSaveETag,
           CrashInSaveManifest, CleanupFails, RemoveSome, CrashInRemove, LoseCleanupReport,
           ActivationFails, CrashInMaterialize, LoseReportReply, core
  <2>2. \A a \in assignments : a.id \in owed => a.status = "removing"
    BY DEF Inv, IdsAreUnique, CleanupIsOfRemovals
  <2> QED
    BY <1>1, <2>1, <2>2, MentionedBefore
<1>2. CASE UNCHANGED vars
  BY <1>2 DEF vars, Mentioned
<1>3. CASE Administrator
  <2>1. UNCHANGED <<etag, pass>>
    BY <1>3 DEF Administrator, Assign, Publish, AdvanceDesiredRevision, Unassign, LeaveGroup,
                JoinGroup, DeleteNodeGroup, state
  <2>2. ASSUME NEW x \in assignments', Mentioned(x.id)
        PROVE  x.status = "removing"
    <3>1. ASSUME NEW id \in Ids, NEW b \in Bundles, NEW n \in 1 .. MaxRev,
               Assign(id, b, n)
          PROVE  x.status = "removing"
      BY <2>2, <3>1 DEF Assign, Fresh, Mentioned
    <3>2. ASSUME NEW r \in Rev, AdvanceDesiredRevision(r)
          PROVE  x.status = "removing"
      <4>1. PICK a \in assignments : x = IF a.bundle = r.bundle /\ a.status = "active"
                                       THEN [a EXCEPT !.n = r.n] ELSE a
        BY <3>2 DEF AdvanceDesiredRevision
      <4>2. x.id = a.id /\ x.status = a.status
        BY <4>1 DEF Inv, TypeOK, Assignment
      <4> QED
        BY <2>2, <4>2
    <3>3. ASSUME NEW a \in assignments, Unassign(a) \/ LeaveGroup(a) \/ JoinGroup(a)
          PROVE  x.status = "removing"
      <4>1. a \in Assignment
        BY DEF Inv, TypeOK
      <4>2. /\ Removed(a).status = "removing"
            /\ [a EXCEPT !.member = FALSE].id = a.id
            /\ [a EXCEPT !.member = TRUE].id = a.id
        BY <4>1 DEF Assignment, Removed
      <4> QED
        BY <2>2, <3>3, <4>2 DEF Unassign, LeaveGroup, JoinGroup
    <3>4. ASSUME NEW a \in assignments, DeleteNodeGroup(a)
          PROVE  x.status = "removing"
      BY <2>2, <3>4 DEF DeleteNodeGroup
    <3>5. ASSUME NEW b \in Bundles, Publish(b)
          PROVE  x.status = "removing"
      BY <2>2, <3>5 DEF Publish
    <3> QED
      BY <1>3, <3>1, <3>2, <3>3, <3>4, <3>5 DEF Administrator
  <2> QED
    BY <2>1, <2>2 DEF Mentioned
<1> QED
  BY <1>1, <1>2, <1>3 DEF Next

LEMMA ETagAdministrator ==
  ASSUME ETagInv, Administrator
  PROVE  ETagIsTrue'
<1>1. UNCHANGED <<etag, pass, disk, torn, failures>>
  BY DEF Administrator, Assign, Publish, AdvanceDesiredRevision, Unassign, LeaveGroup,
         JoinGroup, DeleteNodeGroup, state, files
<1>2. \A id \in owed' : id \in owed \/ ~ Mentioned(id)
  BY DEF Administrator, Assign, Publish, AdvanceDesiredRevision, Unassign, LeaveGroup,
         JoinGroup, DeleteNodeGroup, ETagInv, MentionedAreRemoved
<1>3. \A t \in etag : Done(t) => Done(t)'
  BY <1>1, <1>2 DEF Done, Holds, Mentioned
<1>4. \A t \in etag : Doing(t) => Doing(t)'
  BY <1>1, <1>2 DEF Doing, Holds, Mentioned
<1> QED
  BY <1>1, <1>3, <1>4 DEF ETagInv, ETagIsTrue

LEMMA ETagFailure ==
  ASSUME ETagInv, Failure
  PROVE  ETagIsTrue'
<1>1. failures' = failures + 1
  BY DEF Failure, Fail, Crash, CrashInSaveETag, CrashInSaveManifest,
         CleanupFails, RemoveSome, CrashInRemove, LoseCleanupReport, ActivationFails,
         CrashInMaterialize, LoseReportReply
<1>2. failures \in Nat
  BY AgentAssumption DEF ETagInv, Inv, TypeOK
<1> QED
  BY <1>1, <1>2 DEF ETagIsTrue

LEMMA ETagAgent ==
  ASSUME ETagInv, PathsAreDisjoint, Agent
  PROVE  ETagIsTrue'
<1>1. failures' = failures \/ failures' # 0
  BY DEF Agent, Poll, Answer, SaveETag, Remove, ReportCleanup, Materialize, SaveManifest,
         Resolve, Report, ReportRefused, EndPass
<1> SUFFICES ASSUME failures = 0, failures' = 0
             PROVE  ETagIsTrue'
  BY <1>1 DEF ETagIsTrue
<1>2. /\ torn = {}
      /\ \A t \in etag :
           IF pass.at \in {"idle", "asked", "answered"} THEN Done(t) ELSE Doing(t)
  BY DEF ETagInv, ETagIsTrue
<1>3. pass \in Pass
  BY DEF ETagInv, Inv, TypeOK
<1>4. CASE Poll \/ Answer
  <2>1. pass.at \in {"idle", "asked"} /\ pass'.at \in {"idle", "asked", "answered"}
        /\ UNCHANGED <<torn, etag, owed, disk>>
    BY <1>4 DEF Poll, Answer, Idle, core, state, files
  <2> QED
    BY <1>2, <2>1 DEF ETagIsTrue, Done, Holds
<1>5. CASE SaveETag
  <2>1. /\ etag' = {ETagOf(pass.revs, pass.cleanup)} /\ torn' = torn
        /\ pass'.at = "working" /\ pass'.revs = pass.revs /\ pass'.cleanup = pass.cleanup
    BY <1>5 DEF SaveETag, NextItem, files
  <2>2. Doing(ETagOf(pass.revs, pass.cleanup))'
    BY <2>1 DEF Doing, ETagOf
  <2> QED
    BY <1>2, <2>1, <2>2 DEF ETagIsTrue
<1>6. ASSUME NEW i \in Instruction, Remove(i)
      PROVE  ETagIsTrue'
  <2>1. /\ pass.at = "working" /\ i \in pass.cleanup
        /\ pass'.at = "removed" /\ pass'.revs = pass.revs /\ pass'.cleanup = pass.cleanup \ {i}
        /\ pass'.id = i.id /\ pass'.ok = (i.bundle \notin torn)
        /\ UNCHANGED <<torn, etag, owed>>
    BY <1>6 DEF Remove, Acknowledge, core, state
  <2>2. pass'.ok
    BY <1>2, <2>1
  <2>3. ASSUME NEW t \in etag
        PROVE  Doing(t)'
    BY <1>2, <2>1, <2>2 DEF Doing
  <2> QED
    BY <1>2, <2>1, <2>3 DEF ETagIsTrue
<1>7. CASE ReportCleanup
  <2>1. /\ pass.at = "removed" /\ pass'.at = "working"
        /\ pass'.revs = pass.revs /\ pass'.cleanup = pass.cleanup
        /\ owed' = owed \ (IF pass.ok THEN {pass.id} \cap owed ELSE {})
        /\ UNCHANGED <<torn, etag, disk>>
    BY <1>7 DEF ReportCleanup, NextItem, state, files
  <2>2. ASSUME NEW t \in etag
        PROVE  Doing(t)'
    BY <1>2, <2>1 DEF Doing, Holds
  <2> QED
    BY <1>2, <2>1, <2>2 DEF ETagIsTrue
<1>8. ASSUME NEW r \in Rev, Materialize(r)
      PROVE  ETagIsTrue'
  <2>1. /\ pass.at = "working" /\ pass.cleanup = {} /\ r \in pass.revs
        /\ pass'.at = "written" /\ pass'.rev = r
        /\ pass'.revs = pass.revs /\ pass'.cleanup = pass.cleanup
        /\ disk' = Write(FilesOf[r]) /\ UNCHANGED <<torn, etag, owed>>
    BY <1>8 DEF Materialize, core, state
  <2>2. ASSUME NEW t \in etag
        PROVE  Doing(t)'
    <3>1. Doing(t)
      BY <1>2, <2>1
    <3>2. t.revs \subseteq Rev /\ r \in t.revs /\ OneOfEach(t.revs)
      BY <2>1, <3>1 DEF Doing, ETagInv, Inv, TypeOK, ETag, ResponsesAreOfOneSource
    <3>3. ASSUME NEW s \in t.revs, s \notin pass.revs
          PROVE  Holds(s)'
      <4>1. Holds(s) /\ s \in Rev /\ s # r
        BY <2>1, <3>1, <3>2, <3>3 DEF Doing
      <4>2. s.bundle # r.bundle
        BY <3>2, <4>1 DEF OneOfEach
      <4> QED
        BY <2>1, <4>1, <4>2, WriteKeepsOthers
    <3> QED
      BY <2>1, <3>1, <3>3 DEF Doing
  <2> QED
    BY <1>2, <2>1, <2>2 DEF ETagIsTrue
<1>9. CASE SaveManifest
  <2>1. /\ pass.at = "written" /\ pass'.at = "activated"
        /\ pass'.revs = pass.revs \ {pass.rev} /\ pass'.cleanup = pass.cleanup
        /\ torn' \subseteq torn /\ UNCHANGED <<etag, owed, disk>>
    BY <1>9 DEF SaveManifest, Activated, core, state
  <2>2. Holds(pass.rev)
    BY <2>1 DEF ETagInv, Inv, WrittenIsOnDisk
  <2>3. ASSUME NEW t \in etag
        PROVE  Doing(t)'
    BY <1>2, <2>1, <2>2 DEF Doing, Holds
  <2> QED
    BY <1>2, <2>1, <2>3 DEF ETagIsTrue
<1>10. CASE Resolve \/ Report
  <2>1. /\ pass.at \in {"activated", "resolved"} /\ pass'.at \in {"working", "resolved"}
        /\ pass'.revs = pass.revs /\ pass'.cleanup = pass.cleanup
        /\ UNCHANGED <<torn, etag, owed, disk>>
    BY <1>10 DEF Resolve, Report, Record, NextItem, core, state, files
  <2>2. ASSUME NEW t \in etag
        PROVE  Doing(t)'
    BY <1>2, <2>1 DEF Doing, Holds
  <2> QED
    BY <1>2, <2>1, <2>2 DEF ETagIsTrue
<1>11. CASE EndPass
  <2>1. /\ pass.at = "working" /\ pass.cleanup = {} /\ pass.revs = {} /\ pass'.at = "idle"
        /\ UNCHANGED <<torn, etag, owed, disk>>
    BY <1>11 DEF EndPass, Idle, core, state, files
  <2>2. ASSUME NEW t \in etag
        PROVE  Done(t)'
    BY <1>2, <2>1 DEF Doing, Done, Holds
  <2> QED
    BY <1>2, <2>1, <2>2 DEF ETagIsTrue
<1>12. ~ ReportRefused
  BY DEF ReportRefused
<1> QED
  BY <1>4, <1>5, <1>6, <1>7, <1>8, <1>9, <1>10, <1>11, <1>12 DEF Agent

LEMMA ETagStep ==
  ASSUME PathsAreDisjoint, ETagInv, [Next]_vars
  PROVE  ETagInv'
<1>1. Inv' /\ OneSource' /\ ResponsesAreOfOneSource' /\ MentionedAreRemoved'
  BY InvStep, OneSourceStep, ResponsesStep, MentionedStep DEF ETagInv
<1>2. CASE UNCHANGED vars
  <2>1. ETagIsTrue'
    BY <1>2 DEF vars, ETagInv, ETagIsTrue, Done, Doing, Holds
  <2> QED
    BY <1>1, <2>1 DEF ETagInv
<1> QED
  BY <1>1, <1>2, ETagAgent, ETagAdministrator, ETagFailure DEF Next, ETagInv

LEMMA ETagInit ==
  ASSUME Init
  PROVE  ETagInv
  BY InvInit DEF Init, ETagInv, OneSource, Received, ResponsesAreOfOneSource,
                 MentionedAreRemoved, ETagIsTrue, Idle

\* As long as nothing has failed, and paths are disjoint, a 304 to an Agent between two passes
\* means that all that is assigned is on its disk and that no cleanup is left.
THEOREM NotModifiedIsDoneAlways ==
  ASSUME PathsAreDisjoint
  PROVE  Spec => []NotModifiedIsDone
<1>1. ETagInv => NotModifiedIsDone
  <2> SUFFICES ASSUME ETagInv, failures = 0, pass = Idle,
                      ETagOf(AssignedRevisions, PendingCleanup) \in etag
               PROVE  PendingCleanup = {} /\ \A r \in AssignedRevisions : Holds(r)
    BY DEF NotModifiedIsDone
  <2>1. Done(ETagOf(AssignedRevisions, PendingCleanup))
    BY DEF ETagInv, ETagIsTrue, Idle
  <2>2. \A i \in PendingCleanup : i.id \in owed
    BY DEF PendingCleanup
  <2> QED
    BY <2>1, <2>2 DEF Done, ETagOf
<1>2. ETagInv /\ [Next]_vars => ETagInv'
  BY ETagStep
<1>3. Init => ETagInv
  BY ETagInit
<1> QED
  BY <1>1, <1>2, <1>3, PTL DEF Spec
-----------------------------------------------------------------------------
(* What "cleaned" is worth.                                                *)

\* The revisions of a bundle have files at the same paths.  Otherwise a file of an earlier
\* revision stays when the manifest is replaced, and no cleanup knows of it.
PathsAreStable ==
  \A r, s \in Rev : r.bundle = s.bundle =>
    \A f \in FilesOf[r] : \E g \in FilesOf[s] : g.path = f.path

\* No Assignment is taken away between the two reads of a poll, if the first has seen no
\* other of its bundle.
ReadsAgree ==
  pass.at = "asked" =>
    \A r \in pass.revs : \E a \in assignments : a.bundle = r.bundle /\ a.status = "active"

\* A group is deleted when this node has confirmed the cleanup of its Assignments.
DeletesOnlyCleaned == \A a \in assignments : DeleteNodeGroup(a) => a.id \in cleaned

\* The files of a bundle that are on the disk.
FilesLeft(b) == {f \in disk : \E r \in Rev : r.bundle = b /\ f \in FilesOf[r]}

\* The Assignments of a bundle that the node has not confirmed to be gone.
Uncleaned(b) == {a \in assignments : a.bundle = b /\ a.id \notin cleaned}

Answered == pass.at \notin {"idle", "asked"}

\* The pass is to clean up this Assignment, or about to report that it has.
Named(id) ==
  /\ Answered
  /\ \/ \E i \in pass.cleanup : i.id = id
     \/ pass.at = "removed" /\ pass.id = id

\* A manifest names what is on the disk, or is about to.
FilesAreRecorded ==
  \A b \in Bundles :
    IF pass.at = "written" /\ pass.rev.bundle = b
    THEN FilesLeft(b) \subseteq FilesOf[pass.rev]
    ELSE FilesLeft(b) \subseteq Recorded(b)

\* What is cleaned up is what the Assignment delivered.
InstructionsMatch ==
  Answered => \A i \in pass.cleanup, a \in assignments : i.id = a.id => i.bundle = a.bundle

\* Nothing is reported that is not done.
ReportedIsGone ==
  pass.at = "removed" => \A a \in assignments : a.id = pass.id => FilesLeft(a.bundle) = {}

\* For files on the disk some Assignment is still to be cleaned up, or active.
FilesAreOwed == \A b \in Bundles : FilesLeft(b) # {} => Uncleaned(b) # {}

\* And for the files the pass will write, one that this pass will not report as cleaned.
RevisionsAreOwed ==
  Answered => \A r \in pass.revs : \E a \in Uncleaned(r.bundle) : ~ Named(a.id)

CleanInv ==
  /\ torn = {}
  /\ FilesAreRecorded
  /\ InstructionsMatch
  /\ ReportedIsGone
  /\ FilesAreOwed
  /\ RevisionsAreOwed

\* What steps of Administrators do to Assignments.
LEMMA AdministratorKeeps ==
  ASSUME Inv, Administrator, DeletesOnlyCleaned
  PROVE  /\ UNCHANGED <<pass, disk, manifests, torn>> /\ cleaned' \subseteq cleaned
         /\ \A a \in assignments : a.id \notin cleaned =>
              \E x \in assignments' : x.id = a.id /\ x.bundle = a.bundle
         /\ \A x \in assignments' :
              \/ ~ Named(x.id)
              \/ \E a \in assignments : x.id = a.id /\ x.bundle = a.bundle
<1>1. UNCHANGED <<pass, disk, manifests, torn>> /\ cleaned' \subseteq cleaned
  BY DEF Administrator, Assign, Publish, AdvanceDesiredRevision, Unassign, LeaveGroup,
         JoinGroup, DeleteNodeGroup, files
<1>2. ASSUME NEW id \in Ids, NEW b \in Bundles, NEW n \in 1 .. MaxRev,
               Assign(id, b, n)
      PROVE  /\ assignments \subseteq assignments'
             /\ \A x \in assignments' : x \in assignments \/ ~ Named(x.id)
  BY <1>2 DEF Assign, Fresh, Named, Answered
<1>3. ASSUME NEW r \in Rev, AdvanceDesiredRevision(r)
      PROVE  /\ \A a \in assignments : \E x \in assignments' : x.id = a.id /\ x.bundle = a.bundle
             /\ \A x \in assignments' : \E a \in assignments : x.id = a.id /\ x.bundle = a.bundle
  <2> DEFINE Moved(a) == IF a.bundle = r.bundle /\ a.status = "active"
                         THEN [a EXCEPT !.n = r.n] ELSE a
  <2>1. assignments' = {Moved(a) : a \in assignments}
    BY <1>3 DEF AdvanceDesiredRevision
  <2>2. \A a \in assignments : Moved(a).id = a.id /\ Moved(a).bundle = a.bundle
    BY DEF Inv, TypeOK, Assignment
  <2> HIDE DEF Moved
  <2> QED
    BY <2>1, <2>2
<1>4. ASSUME NEW a \in assignments, Unassign(a) \/ LeaveGroup(a) \/ JoinGroup(a)
      PROVE  \E x : /\ assignments' = (assignments \ {a}) \cup {x}
                    /\ x.id = a.id /\ x.bundle = a.bundle
  <2>1. a \in Assignment
    BY DEF Inv, TypeOK
  <2>2. \A x \in {Removed(a), [a EXCEPT !.member = FALSE],
                  [a EXCEPT !.member = TRUE]} : x.id = a.id /\ x.bundle = a.bundle
    BY <2>1 DEF Assignment, Removed
  <2> QED
    BY <1>4, <2>2 DEF Unassign, LeaveGroup, JoinGroup
<1>5. ASSUME NEW a \in assignments, DeleteNodeGroup(a)
      PROVE  assignments' = assignments \ {a} /\ a.id \in cleaned
  BY <1>5 DEF DeleteNodeGroup, DeletesOnlyCleaned
<1>6. ASSUME NEW b \in Bundles, Publish(b)
      PROVE  UNCHANGED assignments
  BY <1>6 DEF Publish
<1> QED
  BY <1>1, <1>2, <1>3, <1>4, <1>5, <1>6 DEF Administrator

LEMMA CleanAdministrator ==
  ASSUME Inv, CleanInv, Administrator, DeletesOnlyCleaned
  PROVE  CleanInv'
<1>1. /\ UNCHANGED <<pass, disk, manifests, torn>> /\ cleaned' \subseteq cleaned
      /\ \A a \in assignments : a.id \notin cleaned =>
           \E x \in assignments' : x.id = a.id /\ x.bundle = a.bundle
      /\ \A x \in assignments' :
           \/ ~ Named(x.id)
           \/ \E a \in assignments : x.id = a.id /\ x.bundle = a.bundle
  BY AdministratorKeeps
<1>2. torn' = {} /\ FilesAreRecorded'
  BY <1>1 DEF CleanInv, FilesAreRecorded, FilesLeft, Recorded
<1>3. InstructionsMatch'
  BY <1>1 DEF CleanInv, InstructionsMatch, Named, Answered
<1>4. ReportedIsGone'
  BY <1>1 DEF CleanInv, ReportedIsGone, FilesLeft, Named, Answered
<1>5. FilesAreOwed'
  BY <1>1 DEF CleanInv, FilesAreOwed, FilesLeft, Uncleaned
<1>6. RevisionsAreOwed'
  <2>1. \A id : Named(id)' <=> Named(id)
    BY <1>1 DEF Named, Answered
  <2> QED
    BY <1>1, <2>1 DEF CleanInv, RevisionsAreOwed, Uncleaned, Answered
<1> QED
  BY <1>2, <1>3, <1>4, <1>5, <1>6 DEF CleanInv

\* Materialize replaces what the bundle has on the disk, and nothing else.
LEMMA MaterializeLeaves ==
  ASSUME PathsAreDisjoint, PathsAreStable, NEW r \in Rev, NEW b \in Bundles,
         disk' = Write(FilesOf[r])
  PROVE  FilesLeft(b)' \subseteq IF b = r.bundle THEN FilesOf[r] ELSE FilesLeft(b)
<1>1. ASSUME NEW f \in FilesLeft(b)', b = r.bundle
      PROVE  f \in FilesOf[r]
  BY <1>1 DEF FilesLeft, Write, PathsAreStable
<1>2. ASSUME NEW f \in FilesLeft(b)', b # r.bundle
      PROVE  f \in FilesLeft(b)
  BY <1>2 DEF FilesLeft, Write, PathsAreDisjoint
<1> QED
  BY <1>1, <1>2

\* A step of the pass, other than those below, that only drops what it has done.
LEMMA CleanPass ==
  ASSUME CleanInv, UNCHANGED <<assignments, cleaned, disk, manifests, torn>>,
         pass.at # "written", pass'.at \notin {"written", "removed"},
         Answered' => /\ Answered
                      /\ pass'.revs \subseteq pass.revs /\ pass'.cleanup \subseteq pass.cleanup
  PROVE  CleanInv'
<1>1. torn' = {} /\ FilesAreRecorded'
  BY DEF CleanInv, FilesAreRecorded, FilesLeft, Recorded
<1>2. InstructionsMatch' /\ ReportedIsGone'
  BY DEF CleanInv, InstructionsMatch, ReportedIsGone
<1>3. FilesAreOwed'
  BY DEF CleanInv, FilesAreOwed, FilesLeft, Uncleaned
<1>4. RevisionsAreOwed'
  <2>1. \A id : Named(id)' => Named(id)
    BY DEF Named
  <2> QED
    BY <2>1 DEF CleanInv, RevisionsAreOwed, Uncleaned
<1> QED
  BY <1>1, <1>2, <1>3, <1>4 DEF CleanInv

LEMMA CleanAnswer ==
  ASSUME Inv, CleanInv, ReadsAgree, Answer
  PROVE  CleanInv'
<1>1. UNCHANGED <<assignments, owed, cleaned, disk, manifests, torn>> /\ pass.at = "asked"
  BY DEF Answer, core, files
<1>2. CASE pass' = Idle
  BY <1>1, <1>2, CleanPass DEF Idle, Answered
<1>3. CASE pass' = [at |-> "answered", revs |-> pass.revs, cleanup |-> PendingCleanup]
  <2>1. pass'.at = "answered" /\ pass'.revs = pass.revs /\ pass'.cleanup = PendingCleanup
    BY <1>3
  <2>2. \A i \in PendingCleanup :
          i.id \in owed /\ \E x \in assignments : x.id = i.id /\ x.bundle = i.bundle
    BY DEF PendingCleanup
  <2>3. torn' = {} /\ FilesAreRecorded'
    BY <1>1, <2>1 DEF CleanInv, FilesAreRecorded, FilesLeft, Recorded
  <2>4. InstructionsMatch' /\ ReportedIsGone'
    BY <1>1, <2>1, <2>2 DEF InstructionsMatch, ReportedIsGone, Inv, IdsAreUnique
  <2>5. FilesAreOwed'
    BY <1>1 DEF CleanInv, FilesAreOwed, FilesLeft, Uncleaned
  <2>6. \A a \in assignments : a.status = "active" => a.id \notin owed \cup cleaned
    BY DEF Inv, IdsAreUnique, CleanupIsOfRemovals
  <2>7. RevisionsAreOwed'
    <3> SUFFICES ASSUME NEW r \in pass.revs
                 PROVE  \E a \in assignments :
                          a.bundle = r.bundle /\ a.id \notin cleaned /\ ~ Named(a.id)'
      BY <1>1, <2>1 DEF RevisionsAreOwed, Uncleaned
    <3>1. PICK a \in assignments : a.bundle = r.bundle /\ a.status = "active"
      BY <1>1 DEF ReadsAgree
    <3>2. ~ Named(a.id)'
      BY <2>1, <2>2, <2>6, <3>1 DEF Named
    <3> QED
      BY <2>6, <3>1, <3>2
  <2> QED
    BY <2>3, <2>4, <2>5, <2>7 DEF CleanInv
<1> QED
  BY <1>2, <1>3 DEF Answer

LEMMA CleanRemove ==
  ASSUME Inv, CleanInv, NEW i \in Instruction, Remove(i)
  PROVE  CleanInv'
<1>1. /\ pass.at = "working" /\ i \in pass.cleanup
      /\ pass'.at = "removed" /\ pass'.revs = pass.revs /\ pass'.cleanup = pass.cleanup \ {i}
      /\ pass'.id = i.id
      /\ disk' = disk \ Recorded(i.bundle)
      /\ manifests' = {m \in manifests : m.bundle # i.bundle}
      /\ UNCHANGED <<assignments, cleaned, torn>>
  BY DEF Remove, Acknowledge, core, CleanInv
<1>2. i.bundle \in Bundles
  BY DEF Instruction
<1>3. \A b \in Bundles : FilesLeft(b) \subseteq Recorded(b)
  BY <1>1 DEF CleanInv, FilesAreRecorded
<1>4. FilesLeft(i.bundle)' = {}
  BY <1>1, <1>2, <1>3 DEF FilesLeft
<1>5. \A b \in Bundles : FilesLeft(b)' \subseteq FilesLeft(b)
  BY <1>1 DEF FilesLeft
<1>6. \A b \in Bundles : b # i.bundle => Recorded(b)' = Recorded(b)
  BY <1>1 DEF Recorded
<1>7. torn' = {} /\ FilesAreRecorded'
  BY <1>1, <1>3, <1>4, <1>5, <1>6 DEF CleanInv, FilesAreRecorded
<1>8. InstructionsMatch'
  BY <1>1 DEF CleanInv, InstructionsMatch, Answered
<1>9. ReportedIsGone'
  BY <1>1, <1>4 DEF CleanInv, InstructionsMatch, ReportedIsGone, Answered
<1>10. FilesAreOwed'
  BY <1>1, <1>5 DEF CleanInv, FilesAreOwed, Uncleaned
<1>11. RevisionsAreOwed'
  <2>1. \A id : Named(id)' => Named(id)
    BY <1>1 DEF Named, Answered
  <2> QED
    BY <1>1, <2>1 DEF CleanInv, RevisionsAreOwed, Uncleaned, Answered
<1> QED
  BY <1>7, <1>8, <1>9, <1>10, <1>11 DEF CleanInv

LEMMA CleanReport ==
  ASSUME Inv, CleanInv, ReportCleanup
  PROVE  CleanInv'
<1>1. /\ pass.at = "removed" /\ pass'.at = "working"
      /\ pass'.revs = pass.revs /\ pass'.cleanup = pass.cleanup
      /\ cleaned' \subseteq cleaned \cup {pass.id}
      /\ UNCHANGED <<assignments, disk, manifests, torn>>
  BY DEF ReportCleanup, NextItem, files
<1>2. torn' = {} /\ FilesAreRecorded'
  BY <1>1 DEF CleanInv, FilesAreRecorded, FilesLeft, Recorded
<1>3. InstructionsMatch' /\ ReportedIsGone'
  BY <1>1 DEF CleanInv, InstructionsMatch, ReportedIsGone, Answered
<1>4. FilesAreOwed'
  <2> SUFFICES ASSUME NEW b \in Bundles, FilesLeft(b) # {}
               PROVE  Uncleaned(b)' # {}
    BY <1>1 DEF FilesAreOwed, FilesLeft
  <2>1. PICK a \in assignments : a.bundle = b /\ a.id \notin cleaned
    BY DEF CleanInv, FilesAreOwed, Uncleaned
  <2>2. a.id # pass.id
    BY <1>1, <2>1 DEF CleanInv, ReportedIsGone
  <2> QED
    BY <1>1, <2>1, <2>2 DEF Uncleaned
<1>5. RevisionsAreOwed'
  <2> SUFFICES ASSUME NEW r \in pass.revs
               PROVE  \E a \in Uncleaned(r.bundle)' : ~ Named(a.id)'
    BY <1>1 DEF RevisionsAreOwed
  <2>1. PICK a \in Uncleaned(r.bundle) : ~ Named(a.id)
    BY <1>1 DEF CleanInv, RevisionsAreOwed, Answered
  <2>2. a.id # pass.id /\ ~ Named(a.id)'
    BY <1>1, <2>1 DEF Named, Answered
  <2>3. a \in Uncleaned(r.bundle)'
    BY <1>1, <2>1, <2>2 DEF Uncleaned
  <2> QED
    BY <2>2, <2>3
<1> QED
  BY <1>2, <1>3, <1>4, <1>5 DEF CleanInv

LEMMA CleanMaterialize ==
  ASSUME PathsAreDisjoint, PathsAreStable, Inv, CleanInv, NEW r \in Rev, Materialize(r)
  PROVE  CleanInv'
<1>1. /\ pass.at = "working" /\ r \in pass.revs
      /\ pass'.at = "written" /\ pass'.rev = r
      /\ pass'.revs = pass.revs /\ pass'.cleanup = pass.cleanup
      /\ disk' = Write(FilesOf[r])
      /\ UNCHANGED <<assignments, cleaned, manifests, torn>>
  BY DEF Materialize, core
<1>2. \A b \in Bundles : FilesLeft(b)' \subseteq IF b = r.bundle THEN FilesOf[r] ELSE FilesLeft(b)
  BY <1>1, MaterializeLeaves
<1>3. torn' = {} /\ FilesAreRecorded'
  BY <1>1, <1>2 DEF CleanInv, FilesAreRecorded, Recorded
<1>4. InstructionsMatch' /\ ReportedIsGone'
  BY <1>1 DEF CleanInv, InstructionsMatch, ReportedIsGone, Answered
<1>5. Uncleaned(r.bundle) # {}
  BY <1>1 DEF CleanInv, RevisionsAreOwed, Answered
<1>6. FilesAreOwed'
  BY <1>1, <1>2, <1>5 DEF CleanInv, FilesAreOwed, Uncleaned
<1>7. RevisionsAreOwed'
  <2>1. \A id : Named(id)' => Named(id)
    BY <1>1 DEF Named, Answered
  <2> QED
    BY <1>1, <2>1 DEF CleanInv, RevisionsAreOwed, Uncleaned, Answered
<1> QED
  BY <1>3, <1>4, <1>6, <1>7 DEF CleanInv

LEMMA CleanManifest ==
  ASSUME Inv, CleanInv, SaveManifest
  PROVE  CleanInv'
<1>1. /\ pass.at = "written" /\ pass'.at = "activated"
      /\ pass'.revs \subseteq pass.revs /\ pass'.cleanup = pass.cleanup
      /\ manifests' = {m \in manifests : m.bundle # pass.rev.bundle}
                      \cup {[bundle |-> pass.rev.bundle, files |-> FilesOf[pass.rev]]}
      /\ torn' \subseteq torn
      /\ UNCHANGED <<assignments, cleaned, disk>>
  BY DEF SaveManifest, Activated, core
<1>2. torn' = {} /\ FilesAreRecorded'
  <2>1. \A b \in Bundles : b = pass.rev.bundle => FilesOf[pass.rev] \subseteq Recorded(b)'
    <3> DEFINE m == [bundle |-> pass.rev.bundle, files |-> FilesOf[pass.rev]]
    <3>1. m \in manifests' /\ m.bundle = pass.rev.bundle /\ m.files = FilesOf[pass.rev]
      BY <1>1
    <3> HIDE DEF m
    <3> QED
      BY <3>1 DEF Recorded
  <2>2. \A b \in Bundles : b # pass.rev.bundle => Recorded(b)' = Recorded(b)
    BY <1>1 DEF Recorded
  <2> QED
    BY <1>1, <2>1, <2>2 DEF CleanInv, FilesAreRecorded, FilesLeft
<1>3. InstructionsMatch' /\ ReportedIsGone'
  BY <1>1 DEF CleanInv, InstructionsMatch, ReportedIsGone, Answered
<1>4. FilesAreOwed'
  BY <1>1 DEF CleanInv, FilesAreOwed, FilesLeft, Uncleaned
<1>5. RevisionsAreOwed'
  <2>1. \A id : Named(id)' => Named(id)
    BY <1>1 DEF Named, Answered
  <2> QED
    BY <1>1, <2>1 DEF CleanInv, RevisionsAreOwed, Uncleaned, Answered
<1> QED
  BY <1>2, <1>3, <1>4, <1>5 DEF CleanInv

LEMMA CleanStep ==
  ASSUME PathsAreDisjoint, PathsAreStable, MaxFailures = 0, Inv, CleanInv, ReadsAgree,
         [Next]_vars, [DeletesOnlyCleaned]_vars
  PROVE  CleanInv'
<1>1. CASE UNCHANGED vars
  BY <1>1
     DEF vars, CleanInv, FilesAreRecorded, FilesLeft, Recorded, InstructionsMatch, ReportedIsGone,
         FilesAreOwed, Uncleaned, RevisionsAreOwed, Named, Answered
<1>2. CASE Administrator /\ DeletesOnlyCleaned
  BY <1>2, CleanAdministrator
<1>3. CASE Poll \/ SaveETag \/ Resolve \/ Report \/ ReportRefused \/ EndPass
  <2>1. UNCHANGED <<assignments, cleaned, disk, manifests, torn>>
    BY <1>3 DEF Poll, SaveETag, Resolve, Report, ReportRefused, EndPass, core, files
  <2>2. pass.at # "written" /\ pass'.at \notin {"written", "removed"}
    BY <1>3 DEF Poll, SaveETag, Resolve, Report, Record, ReportRefused, EndPass, NextItem, Idle
  <2>3. Answered' => Answered /\ pass'.revs = pass.revs /\ pass'.cleanup = pass.cleanup
    BY <1>3 DEF Poll, SaveETag, Resolve, Report, Record, ReportRefused, EndPass, NextItem,
                Idle, Answered
  <2> QED
    BY <2>1, <2>2, <2>3, CleanPass
<1>4. CASE Agent
  BY <1>3, <1>4, CleanAnswer, CleanRemove, CleanReport, CleanMaterialize, CleanManifest DEF Agent
<1>5. ~ Failure
  <2>1. ~ Fail
    BY AgentAssumption DEF Fail, Inv, TypeOK
  <2> QED
    BY <2>1 DEF Failure, Crash, CrashInSaveETag, CrashInSaveManifest, CleanupFails, RemoveSome,
                CrashInRemove, LoseCleanupReport, ActivationFails, CrashInMaterialize,
                LoseReportReply
<1> QED
  BY <1>1, <1>2, <1>4, <1>5 DEF Next

\* handleDesired, ReportCleanupTask and remove_manifest_files: a bundle whose Assignments are
\* all cleaned has no file left on the node, as long as nothing fails, no Assignment is taken
\* away between the two reads of a poll and no group is deleted before its cleanup.
THEOREM CleanedIsGoneWithoutRace ==
  ASSUME PathsAreDisjoint, PathsAreStable, MaxFailures = 0
  PROVE  Spec /\ []ReadsAgree /\ [][DeletesOnlyCleaned]_vars => []CleanedIsGone
<1>1. Init => CleanInv
  BY DEF Init, Idle, CleanInv, FilesAreRecorded, FilesLeft, Recorded, InstructionsMatch,
         ReportedIsGone, FilesAreOwed, RevisionsAreOwed, Answered
<1>2. Inv /\ CleanInv /\ ReadsAgree /\ [Next]_vars /\ [DeletesOnlyCleaned]_vars => CleanInv'
  BY CleanStep
<1>3. CleanInv => CleanedIsGone
  <2> SUFFICES ASSUME CleanInv, NEW b \in Bundles,
                      \A a \in assignments : a.bundle = b => a.id \in cleaned,
                      NEW n \in 1 .. MaxRev
               PROVE  disk \cap FilesOf[[bundle |-> b, n |-> n]] = {}
    BY DEF CleanedIsGone
  <2>1. FilesLeft(b) = {}
    BY DEF CleanInv, FilesAreOwed, Uncleaned
  <2>2. [bundle |-> b, n |-> n] \in Rev
    BY DEF Rev
  <2> QED
    BY <2>1, <2>2 DEF FilesLeft
<1> QED
  BY <1>1, <1>2, <1>3, Invariance, PTL DEF Spec
=============================================================================
