---------------------------- MODULE Fleet_proofs ----------------------------
(***************************************************************************)
(* Proofs about Fleet, for every value of its constants.                   *)
(*                                                                         *)
(* "Inv" is what the locks and the indexes of the database keep, however   *)
(* many transactions run at once.  What a check of Core is worth when its  *)
(* transaction commits depends on what ran in between: three theorems name *)
(* the overlaps that matter, one for each check, and allow all others.     *)
(***************************************************************************)
EXTENDS Fleet, FiniteSetTheorems, TLAPS

\* The id identifies an Assignment, removed or not.
IdsAreUnique == \A a, b \in assignments : a.id = b.id => a = b

\* An Unassign in flight holds the lock of an Assignment that is still active,
\* and no other Unassign holds it too.
UnassignsAreOfActive ==
  /\ \A q \in Unassigns : \E a \in assignments : a.id = q.assignment /\ a.status = "active"
  /\ \A p, q \in Unassigns : p.assignment = q.assignment => p = q

Inv ==
  /\ TypeOK
  /\ IdsAreUnique
  /\ UnassignsAreOfActive
  /\ TasksAreOfRemovals

-----------------------------------------------------------------------------
(* Type correctness.                                                       *)

LEMMA RequestForms ==
  ASSUME NEW q \in Request
  PROVE  /\ q.op = "member" => q \in MemberRequest
         /\ q.op = "assign" => q \in AssignRequest
         /\ q.op = "unassign" => q \in UnassignRequest
         /\ q.op = "delete_group" => q \in DeleteGroupRequest
         /\ q.op = "delete_bundle" => q \in DeleteBundleRequest
  BY DEF Request, MemberRequest, AssignRequest, UnassignRequest, DeleteGroupRequest,
         DeleteBundleRequest

LEMMA BecomesType ==
  ASSUME TypeOK, NEW T, NEW status \in TaskStatus
  PROVE  Becomes(T, status) \subseteq Task
  BY DEF TypeOK, Becomes, Task

LEMMA TypeStep ==
  ASSUME TypeOK, [Next]_vars
  PROVE  TypeOK'
<1>1. ASSUME NEW n \in Nodes, CreateNode(n) \/ DeleteNode(n)
      PROVE  TypeOK'
  BY <1>1 DEF TypeOK, CreateNode, DeleteNode
<1>2. ASSUME NEW g \in Groups, CreateNodeGroup(g)
      PROVE  TypeOK'
  BY <1>2 DEF TypeOK, CreateNodeGroup
<1>3. ASSUME NEW g \in Groups, DeleteGroupCount(g)
      PROVE  TypeOK'
  BY <1>3 DEF TypeOK, DeleteGroupCount, Arrive, Request, DeleteGroupRequest
<1>4. ASSUME NEW g \in Groups, NEW n \in Nodes, MemberCheck(g, n)
      PROVE  TypeOK'
  <2>1. [op |-> "member", group |-> g, node |-> n, inserted |-> n \notin MembersOf(g)]
          \in MemberRequest
    BY DEF MemberRequest
  <2> QED
    BY <1>4, <2>1 DEF TypeOK, MemberCheck, Arrive, Request
<1>5. ASSUME NEW g \in Groups, NEW b \in Bundles, AssignCheck(g, b)
      PROVE  TypeOK'
  BY <1>5 DEF TypeOK, AssignCheck, Arrive, Request, AssignRequest
<1>6. ASSUME NEW b \in Bundles, FirstPublish(b)
      PROVE  TypeOK'
  BY <1>6 DEF TypeOK, FirstPublish
<1>7. ASSUME NEW b \in Bundles, DeleteBundleCount(b)
      PROVE  TypeOK'
  BY <1>7 DEF TypeOK, DeleteBundleCount, Arrive, Request, DeleteBundleRequest
<1>8. ASSUME NEW m \in members, RemoveGroupMember(m)
      PROVE  TypeOK'
  BY <1>8 DEF TypeOK, RemoveGroupMember
<1>9. ASSUME NEW a \in assignments, UnassignInsert(a)
      PROVE  TypeOK'
  <2>1. [op |-> "unassign", assignment |-> a.id, nodes |-> MembersOf(a.group)]
          \in UnassignRequest
    BY DEF TypeOK, Assignment, UnassignRequest, MembersOf
  <2> QED
    BY <1>9, <2>1 DEF TypeOK, UnassignInsert, Arrive, Request
<1>10. ASSUME NEW a \in assignments, AbandonCleanupConfirmation(a)
       PROVE  TypeOK'
  BY <1>10, BecomesType DEF TypeOK, AbandonCleanupConfirmation, TaskStatus
<1>11. ASSUME NEW t \in tasks, NEW result \in {"cleaned", "failed"},
              ReportCleanupTask(t, result)
       PROVE  TypeOK'
  BY <1>11, BecomesType DEF TypeOK, ReportCleanupTask, TaskStatus
<1>12. ASSUME NEW q \in inflight, DeleteGroupCommit(q) \/ DeleteBundleCommit(q)
       PROVE  TypeOK'
  BY <1>12 DEF TypeOK, DeleteGroupCommit, DeleteBundleCommit, End
<1>13. ASSUME NEW q \in inflight, MemberCommit(q)
       PROVE  TypeOK'
  <2>1. q \in MemberRequest
    BY <1>13, RequestForms DEF TypeOK, MemberCommit
  <2> QED
    BY <1>13, <2>1 DEF TypeOK, MemberCommit, End, Member, MemberRequest
<1>14. ASSUME NEW q \in inflight, NEW id \in Ids, AssignInsert(q, id)
       PROVE  TypeOK'
  <2>1. q \in AssignRequest
    BY <1>14, RequestForms DEF TypeOK, AssignInsert
  <2>2. [id |-> id, group |-> q.group, bundle |-> q.bundle, status |-> "active"]
          \in Assignment
    BY <2>1 DEF AssignRequest, Assignment
  <2> QED
    BY <1>14, <2>2 DEF TypeOK, AssignInsert, End
<1>15. ASSUME NEW q \in inflight, UnassignCommit(q)
       PROVE  TypeOK'
  <2>1. q \in UnassignRequest
    BY <1>15, RequestForms DEF TypeOK, UnassignCommit
  <2>2. assignments' \subseteq Assignment
    BY <1>15 DEF TypeOK, UnassignCommit, Assignment
  <2>3. tasks' \subseteq Task
    BY <1>15, <2>1 DEF TypeOK, UnassignCommit, UnassignRequest, Task, TaskStatus
  <2> QED
    BY <1>15, <2>2, <2>3 DEF TypeOK, UnassignCommit, End
<1>16. ASSUME NEW q \in inflight, Abandon(q)
       PROVE  TypeOK'
  BY <1>16 DEF TypeOK, Abandon, End
<1>17. CASE UNCHANGED vars
  BY <1>17 DEF TypeOK, vars
<1> QED
  BY <1>1, <1>2, <1>3, <1>4, <1>5, <1>6, <1>7, <1>8, <1>9, <1>10, <1>11, <1>12, <1>13,
     <1>14, <1>15, <1>16, <1>17 DEF Next

-----------------------------------------------------------------------------
(* What holds however many transactions run.                               *)

\* A report or an Abandon changes the status of tasks and nothing else.
LEMMA BecomesKeepsTasks ==
  ASSUME Inv, NEW T, NEW status \in TaskStatus, tasks' = Becomes(T, status),
         UNCHANGED <<assignments, inflight>>, TypeOK'
  PROVE  Inv'
<1>1. ASSUME NEW u \in tasks'
      PROVE  \E t \in tasks : /\ u.assignment = t.assignment /\ u.node = t.node
                              /\ u = IF t \in T THEN [t EXCEPT !.status = status] ELSE t
  BY DEF Inv, TypeOK, Task, Becomes
<1>2. TasksAreOfRemovals'
  BY <1>1 DEF Inv, TasksAreOfRemovals
<1> QED
  BY <1>2 DEF Inv, IdsAreUnique, UnassignsAreOfActive, Unassigns

\* A cascade that waits for the locks of the Assignments it takes away.
LEMMA CascadeKeepsInv ==
  ASSUME Inv, NEW q \in inflight, NEW gone \in SUBSET assignments,
         AssignmentsAreFree(gone), End(q),
         assignments' = assignments \ gone, tasks' = tasks \ TasksOf(gone), TypeOK'
  PROVE  Inv'
<1>1. IdsAreUnique'
  BY DEF Inv, IdsAreUnique
<1>2. UnassignsAreOfActive'
  BY DEF Inv, UnassignsAreOfActive, Unassigns, AssignmentsAreFree, End
<1>3. TasksAreOfRemovals'
  <2>1. ASSUME NEW t \in tasks'
        PROVE  \E a \in assignments' : a.id = t.assignment /\ a.status = "removing"
    BY DEF Inv, TasksAreOfRemovals, TasksOf
  <2>2. \A t, u \in tasks' : t.assignment = u.assignment /\ t.node = u.node => t = u
    BY DEF Inv, TasksAreOfRemovals
  <2> QED
    BY <2>1, <2>2 DEF TasksAreOfRemovals
<1> QED
  BY <1>1, <1>2, <1>3 DEF Inv

\* A new request that is not an Unassign, or the end of one, disturbs nothing.
LEMMA RequestsKeepInv ==
  ASSUME Inv, TypeOK', tasks' \subseteq tasks, UNCHANGED assignments,
         \A q \in inflight' : q.op = "unassign" => q \in inflight
  PROVE  Inv'
<1>1. UnassignsAreOfActive'
  BY DEF Inv, UnassignsAreOfActive, Unassigns
<1>2. TasksAreOfRemovals'
  BY DEF Inv, TasksAreOfRemovals
<1> QED
  BY <1>1, <1>2 DEF Inv, IdsAreUnique

LEMMA UnassignInsertKeepsInv ==
  ASSUME Inv, NEW a \in assignments, UnassignInsert(a), TypeOK'
  PROVE  Inv'
<1> DEFINE new == [op |-> "unassign", assignment |-> a.id, nodes |-> MembersOf(a.group)]
<1>1. inflight' = inflight \cup {new} /\ UNCHANGED <<assignments, tasks>>
  BY DEF UnassignInsert, Arrive
<1>2. a.status = "active" /\ \A q \in Unassigns : q.assignment # a.id
  BY DEF UnassignInsert, AssignmentsAreFree
<1>3. Unassigns' = Unassigns \cup {new}
  BY <1>1 DEF Unassigns
<1>4. UnassignsAreOfActive'
  BY <1>1, <1>2, <1>3 DEF Inv, UnassignsAreOfActive
<1> QED
  BY <1>1, <1>4 DEF Inv, IdsAreUnique, TasksAreOfRemovals

LEMMA AssignInsertKeepsInv ==
  ASSUME Inv, NEW q \in inflight, NEW id \in Ids, AssignInsert(q, id), TypeOK'
  PROVE  Inv'
<1> DEFINE new == [id |-> id, group |-> q.group, bundle |-> q.bundle, status |-> "active"]
<1>1. /\ assignments' = assignments \cup {new} /\ new.id = id
      /\ \A a \in assignments : a.id # id
      /\ inflight' = inflight \ {q} /\ tasks' = tasks
  BY DEF AssignInsert, End
<1>2. IdsAreUnique'
  BY <1>1 DEF Inv, IdsAreUnique
<1>3. UnassignsAreOfActive'
  BY <1>1 DEF Inv, UnassignsAreOfActive, Unassigns
<1>4. TasksAreOfRemovals'
  BY <1>1 DEF Inv, TasksAreOfRemovals
<1> QED
  BY <1>2, <1>3, <1>4 DEF Inv

\* An Assignment after the commit of Unassign q is one from before, perhaps removed.
LEMMA UnassignedRows ==
  ASSUME Inv, NEW q \in inflight, UnassignCommit(q)
  PROVE  /\ \A a \in assignments : \E b \in assignments' :
              /\ b.id = a.id /\ b.group = a.group /\ b.bundle = a.bundle
              /\ b.status = IF a.id = q.assignment THEN "removing" ELSE a.status
         /\ \A b \in assignments' : \E a \in assignments :
              /\ b.id = a.id /\ b.group = a.group /\ b.bundle = a.bundle
              /\ b.status = IF a.id = q.assignment THEN "removing" ELSE a.status
              /\ b = IF a.id = q.assignment THEN [a EXCEPT !.status = "removing"] ELSE a
<1> DEFINE after(a) == IF a.id = q.assignment THEN [a EXCEPT !.status = "removing"] ELSE a
<1>1. assignments' = {after(a) : a \in assignments}
  BY DEF UnassignCommit
<1>2. ASSUME NEW a \in assignments
      PROVE  /\ after(a).id = a.id /\ after(a).group = a.group /\ after(a).bundle = a.bundle
             /\ after(a).status = IF a.id = q.assignment THEN "removing" ELSE a.status
  BY DEF Inv, TypeOK, Assignment
<1> HIDE DEF after
<1>3. \A a \in assignments : after(a) \in assignments'
  BY <1>1
<1>4. \A b \in assignments' : \E a \in assignments : b = after(a)
  BY <1>1
<1>5. \A a \in assignments :
        after(a) = IF a.id = q.assignment THEN [a EXCEPT !.status = "removing"] ELSE a
  BY DEF after
<1>6. \A a \in assignments : \E b \in assignments' :
        /\ b.id = a.id /\ b.group = a.group /\ b.bundle = a.bundle
        /\ b.status = IF a.id = q.assignment THEN "removing" ELSE a.status
  BY <1>2, <1>3
<1>7. \A b \in assignments' : \E a \in assignments :
        /\ b.id = a.id /\ b.group = a.group /\ b.bundle = a.bundle
        /\ b.status = IF a.id = q.assignment THEN "removing" ELSE a.status
        /\ b = IF a.id = q.assignment THEN [a EXCEPT !.status = "removing"] ELSE a
  BY <1>2, <1>4, <1>5
<1> QED
  BY <1>6, <1>7

LEMMA UnassignCommitKeepsInv ==
  ASSUME Inv, NEW q \in inflight, UnassignCommit(q), TypeOK'
  PROVE  Inv'
<1> DEFINE new == {[assignment |-> q.assignment, node |-> n, status |-> "pending"] :
                     n \in q.nodes}
<1>1. tasks' = tasks \cup new /\ inflight' = inflight \ {q} /\ q \in Unassigns
  BY DEF UnassignCommit, End, Unassigns
<1>2. IdsAreUnique'
  BY UnassignedRows DEF Inv, IdsAreUnique
<1>3. UnassignsAreOfActive'
  <2>1. Unassigns' = Unassigns \ {q}
    BY <1>1 DEF Unassigns
  <2>2. ASSUME NEW p \in Unassigns'
        PROVE  \E b \in assignments' : b.id = p.assignment /\ b.status = "active"
    <3>1. p \in Unassigns /\ p.assignment # q.assignment
      BY <1>1, <2>1 DEF Inv, UnassignsAreOfActive
    <3> QED
      BY <3>1, UnassignedRows DEF Inv, UnassignsAreOfActive
  <2> QED
    BY <2>1, <2>2 DEF Inv, UnassignsAreOfActive
<1>4. TasksAreOfRemovals'
  <2>1. PICK a \in assignments : a.id = q.assignment /\ a.status = "active"
    BY <1>1 DEF Inv, UnassignsAreOfActive
  <2>2. \A t \in tasks : t.assignment # q.assignment
    BY <2>1 DEF Inv, TasksAreOfRemovals, IdsAreUnique
  <2>3. \A t \in new : t.assignment = q.assignment
    OBVIOUS
  <2>4. \A t, u \in tasks' : t.assignment = u.assignment /\ t.node = u.node => t = u
    BY <1>1, <2>2, <2>3 DEF Inv, TasksAreOfRemovals
  <2>5. ASSUME NEW t \in tasks'
        PROVE  \E b \in assignments' : b.id = t.assignment /\ b.status = "removing"
    <3>1. CASE t \in tasks
      <4>1. PICK c \in assignments : c.id = t.assignment /\ c.status = "removing"
        BY <3>1 DEF Inv, TasksAreOfRemovals
      <4> QED
        BY <4>1, UnassignedRows
    <3>2. CASE t \in new
      BY <2>1, <2>3, <3>2, UnassignedRows
    <3> QED
      BY <1>1, <3>1, <3>2
  <2> QED
    BY <2>4, <2>5 DEF TasksAreOfRemovals
<1> QED
  BY <1>2, <1>3, <1>4 DEF Inv

LEMMA InvInit ==
  Init => Inv
BY DEF Init, Inv, TypeOK, IdsAreUnique, UnassignsAreOfActive, Unassigns, TasksAreOfRemovals

LEMMA InvStep ==
  ASSUME Inv, [Next]_vars
  PROVE  Inv'
<1>0. TypeOK'
  BY TypeStep DEF Inv
<1>1. ASSUME NEW n \in Nodes, CreateNode(n) \/ DeleteNode(n)
      PROVE  Inv'
  BY <1>0, <1>1, RequestsKeepInv DEF CreateNode, DeleteNode
<1>2. ASSUME NEW g \in Groups, CreateNodeGroup(g)
      PROVE  Inv'
  BY <1>0, <1>2, RequestsKeepInv DEF CreateNodeGroup
<1>3. ASSUME NEW g \in Groups, DeleteGroupCount(g)
      PROVE  Inv'
  BY <1>0, <1>3, RequestsKeepInv DEF DeleteGroupCount, Arrive
<1>4. ASSUME NEW g \in Groups, NEW n \in Nodes, MemberCheck(g, n)
      PROVE  Inv'
  BY <1>0, <1>4, RequestsKeepInv DEF MemberCheck, Arrive
<1>5. ASSUME NEW g \in Groups, NEW b \in Bundles, AssignCheck(g, b)
      PROVE  Inv'
  BY <1>0, <1>5, RequestsKeepInv DEF AssignCheck, Arrive
<1>6. ASSUME NEW b \in Bundles, FirstPublish(b)
      PROVE  Inv'
  BY <1>0, <1>6, RequestsKeepInv DEF FirstPublish
<1>7. ASSUME NEW b \in Bundles, DeleteBundleCount(b)
      PROVE  Inv'
  BY <1>0, <1>7, RequestsKeepInv DEF DeleteBundleCount, Arrive
<1>8. ASSUME NEW m \in members, RemoveGroupMember(m)
      PROVE  Inv'
  BY <1>0, <1>8, RequestsKeepInv DEF RemoveGroupMember
<1>9. ASSUME NEW a \in assignments, UnassignInsert(a)
      PROVE  Inv'
  BY <1>0, <1>9, UnassignInsertKeepsInv
<1>10. ASSUME NEW a \in assignments, AbandonCleanupConfirmation(a)
       PROVE  Inv'
  BY <1>0, <1>10, BecomesKeepsTasks DEF AbandonCleanupConfirmation, TaskStatus
<1>11. ASSUME NEW t \in tasks, NEW result \in {"cleaned", "failed"},
              ReportCleanupTask(t, result)
       PROVE  Inv'
  BY <1>0, <1>11, BecomesKeepsTasks DEF ReportCleanupTask, TaskStatus
<1>12. ASSUME NEW q \in inflight, DeleteGroupCommit(q)
       PROVE  Inv'
  BY <1>0, <1>12, CascadeKeepsInv DEF DeleteGroupCommit
<1>13. ASSUME NEW q \in inflight, DeleteBundleCommit(q)
       PROVE  Inv'
  BY <1>0, <1>13, CascadeKeepsInv DEF DeleteBundleCommit
<1>14. ASSUME NEW q \in inflight, MemberCommit(q)
       PROVE  Inv'
  BY <1>0, <1>14, RequestsKeepInv DEF MemberCommit, End
<1>15. ASSUME NEW q \in inflight, NEW id \in Ids, AssignInsert(q, id)
       PROVE  Inv'
  BY <1>0, <1>15, AssignInsertKeepsInv
<1>16. ASSUME NEW q \in inflight, UnassignCommit(q)
       PROVE  Inv'
  BY <1>0, <1>16, UnassignCommitKeepsInv
<1>17. ASSUME NEW q \in inflight, Abandon(q)
       PROVE  Inv'
  BY <1>0, <1>17, RequestsKeepInv DEF Abandon, End
<1>18. CASE UNCHANGED vars
  BY <1>0, <1>18, RequestsKeepInv DEF vars
<1> QED
  BY <1>1, <1>2, <1>3, <1>4, <1>5, <1>6, <1>7, <1>8, <1>9, <1>10, <1>11, <1>12, <1>13,
     <1>14, <1>15, <1>16, <1>17, <1>18 DEF Next

-----------------------------------------------------------------------------
(* A confirmed cleanup is final.                                           *)

LEMMA CleanedStep ==
  ASSUME Inv, [Next]_vars, NEW t \in tasks, t.status = "cleaned"
  PROVE  \/ t \in tasks'
         \/ t.node \notin nodes'
         \/ ~ \E a \in assignments' : a.id = t.assignment
<1> DEFINE Final == \/ t \in tasks'
                    \/ t.node \notin nodes'
                    \/ ~ \E a \in assignments' : a.id = t.assignment
<1>1. ASSUME NEW n \in Nodes, DeleteNode(n)
      PROVE  Final
  BY <1>1 DEF DeleteNode
<1>2. ASSUME NEW q \in inflight, DeleteGroupCommit(q)
      PROVE  Final
  BY <1>2 DEF DeleteGroupCommit, TasksOf, Inv, IdsAreUnique
<1>3. ASSUME NEW q \in inflight, DeleteBundleCommit(q)
      PROVE  Final
  BY <1>3 DEF DeleteBundleCommit, TasksOf, Inv, IdsAreUnique
<1>4. ASSUME NEW a \in assignments, AbandonCleanupConfirmation(a)
      PROVE  Final
  BY <1>4 DEF AbandonCleanupConfirmation, Becomes
<1>5. ASSUME NEW u \in tasks, NEW result \in {"cleaned", "failed"},
             ReportCleanupTask(u, result)
      PROVE  Final
  BY <1>5 DEF ReportCleanupTask, Outstanding, Becomes
<1>6. ASSUME NEW q \in inflight, UnassignCommit(q)
      PROVE  Final
  BY <1>6 DEF UnassignCommit
<1>7. ASSUME UNCHANGED tasks
      PROVE  Final
  BY <1>7
<1> QED
  BY <1>1, <1>2, <1>3, <1>4, <1>5, <1>6, <1>7
     DEF Next, vars, CreateNode, CreateNodeGroup, DeleteGroupCount, MemberCheck, AssignCheck,
         FirstPublish, DeleteBundleCount, RemoveGroupMember, UnassignInsert, MemberCommit,
         AssignInsert, Abandon

-----------------------------------------------------------------------------
(* Theorems about any number of transactions.                              *)

\* What the locks and indexes keep is kept in every reachable state.
THEOREM Invariance ==
  Spec => []Inv
<1>1. Inv /\ [Next]_vars => Inv'
  BY InvStep
<1> QED
  BY InvInit, <1>1, PTL DEF Spec

\* Every state of the fleet is well typed.
THEOREM TypeCorrect ==
  Spec => []TypeOK
<1>1. Inv => TypeOK
  BY DEF Inv
<1> QED
  BY Invariance, <1>1, PTL

\* A node is only ever told to clean up for an Assignment that is no longer delivered,
\* and once for each.
THEOREM TasksAreOfRemovalsAlways ==
  Spec => []TasksAreOfRemovals
<1>1. Inv => TasksAreOfRemovals
  BY DEF Inv
<1> QED
  BY Invariance, <1>1, PTL

\* Whatever order reports, abandonments and deletions take, a confirmed cleanup is not
\* taken back.
THEOREM CleanedStaysFinal ==
  Spec => CleanedIsFinal
<1>1. Inv /\ [Next]_vars => [\A t \in tasks : t.status = "cleaned" =>
                                \/ t \in tasks'
                                \/ t.node \notin nodes'
                                \/ ~ \E a \in assignments' : a.id = t.assignment]_vars
  BY CleanedStep
<1> QED
  BY Invariance, <1>1, PTL DEF Spec, CleanedIsFinal

-----------------------------------------------------------------------------
(* What the checks of Core are worth.  Each is made some steps before its  *)
(* transaction commits, and stands as long as certain others keep away.    *)

\* Transactions that may give a node a bundle: members to be, and Assignments to be.
Sources == Joins \cup {q \in inflight : q.op = "assign"}

\* AddGroupMember and CreateAssignment run one at a time.
SourcesComeAlone == \A p, q \in Sources : p = q

\* No member joins a group while an Assignment of it is being removed.
JoinsAvoidUnassigns ==
  \A p \in Joins, q \in Unassigns, a \in assignments :
    a.id = q.assignment => a.group # p.group

\* No Assignment is created to a group, or of an environment, that is being deleted.
AssignsAvoidDeletes ==
  \A p, q \in inflight :
    p.op = "assign" =>
      /\ q.op = "delete_group" => q.group # p.group
      /\ q.op = "delete_bundle" => q.bundle # p.bundle

\* The conflict a request has excluded is still excluded.
ConflictsAreCurrent ==
  /\ \A q \in Joins : ~ MemberConflict(q.group, q.node)
  /\ \A q \in inflight : q.op = "assign" => ~ AssignmentConflict(q.group, q.bundle)

\* The nodes an Unassign has read still include the members.
NodesAreCurrent ==
  \A q \in Unassigns, a \in assignments :
    a.id = q.assignment => MembersOf(a.group) \subseteq q.nodes

\* What is about to be deleted still has nothing assigned.
CountsAreCurrent ==
  \A q \in inflight, a \in Active :
    /\ q.op = "delete_group" => a.group # q.group
    /\ q.op = "delete_bundle" => a.bundle # q.bundle

\* The index on active Assignments.
OneActiveEach ==
  \A a, b \in Active : a.group = b.group /\ a.bundle = b.bundle => a = b

\* A step that gives no node a bundle and makes no request.
Shrinks ==
  /\ members' \subseteq members
  /\ Active' \subseteq Active
  /\ \A a \in assignments' : \E b \in assignments : b.id = a.id /\ b.group = a.group
  /\ inflight' \subseteq inflight

\* A request that begins with a check that holds.
Checked(q) ==
  /\ inflight' = inflight \cup {q}
  /\ UNCHANGED <<members, assignments>>
  /\ q.op = "member" /\ q.inserted => ~ MemberConflict(q.group, q.node)
  /\ q.op = "assign" => ~ AssignmentConflict(q.group, q.bundle)
  /\ q.op = "unassign" => \A a \in assignments :
       a.id = q.assignment => MembersOf(a.group) \subseteq q.nodes
  /\ q.op = "delete_group" => \A a \in Active : a.group # q.group
  /\ q.op = "delete_bundle" => \A a \in Active : a.bundle # q.bundle

LEMMA UnassignShrinks ==
  ASSUME Inv, NEW q \in inflight, UnassignCommit(q)
  PROVE  Shrinks
<1>1. members' = members /\ inflight' \subseteq inflight
  BY DEF UnassignCommit, End
<1>2. \A b \in assignments' : \E a \in assignments : a.id = b.id /\ a.group = b.group
  BY UnassignedRows
<1>3. ASSUME NEW b \in assignments', b.status = "active"
      PROVE  b \in assignments
  BY <1>3, UnassignedRows
<1> QED
  BY <1>1, <1>2, <1>3 DEF Shrinks, Active

LEMMA StepShapes ==
  ASSUME Inv, [Next]_vars
  PROVE  \/ Shrinks
         \/ \E q : Checked(q)
         \/ \E q \in inflight : MemberCommit(q)
         \/ \E q \in inflight : \E id \in Ids : AssignInsert(q, id)
<1>1. ASSUME members' \subseteq members, assignments' \subseteq assignments,
             inflight' \subseteq inflight
      PROVE  Shrinks
  BY <1>1 DEF Shrinks, Active
<1>2. ASSUME NEW g \in Groups, DeleteGroupCount(g)
      PROVE  \E q : Checked(q)
  <2>1. Checked([op |-> "delete_group", group |-> g])
    BY <1>2 DEF DeleteGroupCount, Arrive, Checked
  <2> QED
    BY <2>1
<1>3. ASSUME NEW b \in Bundles, DeleteBundleCount(b)
      PROVE  \E q : Checked(q)
  <2>1. Checked([op |-> "delete_bundle", bundle |-> b])
    BY <1>3 DEF DeleteBundleCount, Arrive, Checked
  <2> QED
    BY <2>1
<1>4. ASSUME NEW g \in Groups, NEW n \in Nodes, MemberCheck(g, n)
      PROVE  \E q : Checked(q)
  <2>1. Checked([op |-> "member", group |-> g, node |-> n, inserted |-> n \notin MembersOf(g)])
    BY <1>4 DEF MemberCheck, Arrive, Checked
  <2> QED
    BY <2>1
<1>5. ASSUME NEW g \in Groups, NEW b \in Bundles, AssignCheck(g, b)
      PROVE  \E q : Checked(q)
  <2>1. Checked([op |-> "assign", group |-> g, bundle |-> b])
    BY <1>5 DEF AssignCheck, Arrive, Checked
  <2> QED
    BY <2>1
<1>6. ASSUME NEW a \in assignments, UnassignInsert(a)
      PROVE  \E q : Checked(q)
  <2>1. \A b \in assignments : b.id = a.id => b = a
    BY DEF Inv, IdsAreUnique
  <2>2. Checked([op |-> "unassign", assignment |-> a.id, nodes |-> MembersOf(a.group)])
    BY <1>6, <2>1 DEF UnassignInsert, Arrive, Checked
  <2> QED
    BY <2>2
<1>7. ASSUME NEW q \in inflight,
             DeleteGroupCommit(q) \/ DeleteBundleCommit(q) \/ Abandon(q)
      PROVE  Shrinks
  BY <1>1, <1>7 DEF DeleteGroupCommit, DeleteBundleCommit, Abandon, End
<1> QED
  BY <1>1, <1>2, <1>3, <1>4, <1>5, <1>6, <1>7, UnassignShrinks
     DEF Next, vars, CreateNode, DeleteNode, CreateNodeGroup, FirstPublish, RemoveGroupMember,
         AbandonCleanupConfirmation, ReportCleanupTask

-----------------------------------------------------------------------------
(* One source of a bundle.                                                 *)

SourceInv == ConflictsAreCurrent /\ OneActiveEach /\ SingleSource

LEMMA SourceShrinks ==
  ASSUME SourceInv, Shrinks
  PROVE  SourceInv'
<1>1. /\ Active' \subseteq Active /\ inflight' \subseteq inflight /\ Joins' \subseteq Joins
      /\ \A g : MembersOf(g)' \subseteq MembersOf(g)
  BY DEF Shrinks, Joins, MembersOf
<1>2. \A q \in Joins' : ~ MemberConflict(q.group, q.node)'
  BY <1>1 DEF SourceInv, ConflictsAreCurrent, MemberConflict
<1>3. \A q \in inflight' : q.op = "assign" => ~ AssignmentConflict(q.group, q.bundle)'
  BY <1>1 DEF SourceInv, ConflictsAreCurrent, AssignmentConflict
<1>4. OneActiveEach' /\ SingleSource'
  BY <1>1 DEF SourceInv, OneActiveEach, SingleSource
<1> QED
  BY <1>2, <1>3, <1>4 DEF SourceInv, ConflictsAreCurrent

LEMMA SourceChecked ==
  ASSUME SourceInv, NEW q, Checked(q)
  PROVE  SourceInv'
<1>1. Active' = Active /\ \A g : MembersOf(g)' = MembersOf(g)
  BY DEF Checked, Active, MembersOf
<1>2. \A p \in Joins' : ~ MemberConflict(p.group, p.node)'
  BY <1>1 DEF Checked, Joins, MemberConflict, SourceInv, ConflictsAreCurrent
<1>3. \A p \in inflight' : p.op = "assign" => ~ AssignmentConflict(p.group, p.bundle)'
  BY <1>1 DEF Checked, AssignmentConflict, SourceInv, ConflictsAreCurrent
<1> QED
  BY <1>1, <1>2, <1>3 DEF SourceInv, ConflictsAreCurrent, OneActiveEach, SingleSource

\* When the only request of this kind has ended there is no check to keep.
LEMMA SourceAlone ==
  ASSUME SourcesComeAlone, NEW q \in Sources, End(q)
  PROVE  ConflictsAreCurrent'
  BY DEF SourcesComeAlone, Sources, ConflictsAreCurrent, Joins, End

LEMMA SourceMember ==
  ASSUME SourceInv, SourcesComeAlone, NEW q \in inflight, MemberCommit(q)
  PROVE  SourceInv'
<1>1. Active' = Active
  BY DEF MemberCommit, Active
<1>2. CASE ~ q.inserted
  <2>1. Shrinks
    BY <1>1, <1>2 DEF MemberCommit, End, Shrinks
  <2> QED
    BY <2>1, SourceShrinks
<1>3. CASE q.inserted
  <2>1. q \in Joins /\ q \in Sources
    BY <1>3 DEF Joins, Sources, MemberCommit
  <2>2. members' = members \cup {[group |-> q.group, node |-> q.node]}
    BY <1>3 DEF MemberCommit
  <2>3. ASSUME NEW g, NEW n \in MembersOf(g)'
        PROVE  n \in MembersOf(g) \/ (g = q.group /\ n = q.node)
    BY <2>2 DEF MembersOf
  <2>4. ASSUME NEW a \in Active, NEW b \in Active, a.bundle = b.bundle,
               NEW n \in MembersOf(a.group)', n \in MembersOf(b.group)'
        PROVE  a = b
    <3>1. CASE n \in MembersOf(a.group) /\ n \in MembersOf(b.group)
      BY <2>4, <3>1 DEF SourceInv, SingleSource
    <3>2. CASE a.group = b.group
      BY <2>4, <3>2 DEF SourceInv, OneActiveEach
    <3>3. CASE a.group = q.group /\ n = q.node /\ b.group # q.group
      <4>1. n \in MembersOf(b.group)
        BY <2>3, <2>4, <3>3
      <4> QED
        BY <2>1, <2>4, <3>3, <4>1 DEF SourceInv, ConflictsAreCurrent, MemberConflict
    <3>4. CASE b.group = q.group /\ n = q.node /\ a.group # q.group
      <4>1. n \in MembersOf(a.group)
        BY <2>3, <2>4, <3>4
      <4> QED
        BY <2>1, <2>4, <3>4, <4>1 DEF SourceInv, ConflictsAreCurrent, MemberConflict
    <3> QED
      BY <2>3, <2>4, <3>1, <3>2, <3>3, <3>4
  <2>5. SingleSource'
    BY <1>1, <2>4 DEF SingleSource
  <2>6. OneActiveEach'
    BY <1>1 DEF SourceInv, OneActiveEach
  <2>7. ConflictsAreCurrent'
    BY <2>1, SourceAlone DEF MemberCommit
  <2> QED
    BY <2>5, <2>6, <2>7 DEF SourceInv
<1> QED
  BY <1>2, <1>3

LEMMA SourceAssign ==
  ASSUME SourceInv, SourcesComeAlone, NEW q \in inflight, NEW id \in Ids, AssignInsert(q, id)
  PROVE  SourceInv'
<1> DEFINE new == [id |-> id, group |-> q.group, bundle |-> q.bundle, status |-> "active"]
<1>1. Active' = Active \cup {new} /\ \A g : MembersOf(g)' = MembersOf(g)
  BY DEF AssignInsert, Active, MembersOf
<1>2. \A a \in Active : ~ (a.group = q.group /\ a.bundle = q.bundle)
  BY DEF AssignInsert
<1>3. \A a \in Active : a.bundle = q.bundle => MembersOf(q.group) \cap MembersOf(a.group) = {}
  BY <1>2 DEF AssignInsert, SourceInv, ConflictsAreCurrent, AssignmentConflict
<1>4. OneActiveEach'
  BY <1>1, <1>2 DEF SourceInv, OneActiveEach
<1>5. SingleSource'
  BY <1>1, <1>3 DEF SourceInv, SingleSource
<1>6. ConflictsAreCurrent'
  BY SourceAlone DEF AssignInsert, Sources
<1> QED
  BY <1>4, <1>5, <1>6 DEF SourceInv

LEMMA SourceStep ==
  ASSUME Inv, SourceInv, SourcesComeAlone, [Next]_vars
  PROVE  SourceInv'
  BY StepShapes, SourceShrinks, SourceChecked, SourceMember, SourceAssign

\* AddGroupMember and CreateAssignment: their two conflict checks leave every node one source
\* of a bundle, provided that these two run one at a time.  Unassign, deletions, removals of
\* members and cleanup reports may overlap with them and with one another.
THEOREM SingleSourceWithoutOverlap ==
  Spec /\ []SourcesComeAlone => []SingleSource
<1>1. Init => SourceInv
  BY DEF Init, SourceInv, ConflictsAreCurrent, OneActiveEach, SingleSource, Joins, Active
<1>2. Inv /\ SourceInv /\ SourcesComeAlone /\ [Next]_vars => SourceInv'
  BY SourceStep
<1>3. SourceInv => SingleSource
  BY DEF SourceInv
<1> QED
  BY <1>1, <1>2, <1>3, Invariance, PTL DEF Spec

-----------------------------------------------------------------------------
(* A task for every node that was receiving the bundle.                    *)

LEMMA NodesStep ==
  ASSUME Inv, NodesAreCurrent, JoinsAvoidUnassigns, [Next]_vars
  PROVE  NodesAreCurrent'
<1>1. CASE Shrinks
  <2>1. Unassigns' \subseteq Unassigns /\ \A g : MembersOf(g)' \subseteq MembersOf(g)
    BY <1>1 DEF Shrinks, Unassigns, MembersOf
  <2> QED
    BY <1>1, <2>1 DEF Shrinks, NodesAreCurrent
<1>2. ASSUME NEW q, Checked(q)
      PROVE  NodesAreCurrent'
  BY <1>2 DEF Checked, NodesAreCurrent, Unassigns, MembersOf
<1>3. ASSUME NEW q \in inflight, MemberCommit(q)
      PROVE  NodesAreCurrent'
  <2>1. Unassigns' \subseteq Unassigns /\ assignments' = assignments
    BY <1>3 DEF MemberCommit, End, Unassigns
  <2>2. \A g : g # q.group \/ q \notin Joins => MembersOf(g)' \subseteq MembersOf(g)
    BY <1>3 DEF MemberCommit, MembersOf, Joins
  <2> QED
    BY <2>1, <2>2 DEF NodesAreCurrent, JoinsAvoidUnassigns
<1>4. ASSUME NEW q \in inflight, NEW id \in Ids, AssignInsert(q, id)
      PROVE  NodesAreCurrent'
  <2> DEFINE new == [id |-> id, group |-> q.group, bundle |-> q.bundle, status |-> "active"]
  <2>1. /\ assignments' = assignments \cup {new} /\ new.id = id
        /\ \A a \in assignments : a.id # id
        /\ Unassigns' \subseteq Unassigns /\ members' = members
    BY <1>4 DEF AssignInsert, End, Unassigns
  <2> HIDE DEF new
  <2>2. \A u \in Unassigns : u.assignment # id
    BY <2>1 DEF Inv, UnassignsAreOfActive
  <2> QED
    BY <2>1, <2>2 DEF NodesAreCurrent, MembersOf
<1> QED
  BY <1>1, <1>2, <1>3, <1>4, StepShapes

\* The removal of an active Assignment, by whatever step, leaves a task on every node.
LEMMA RemovalStep ==
  ASSUME Inv, NodesAreCurrent, [Next]_vars, NEW a \in Active,
         [a EXCEPT !.status = "removing"] \in assignments', NEW n \in MembersOf(a.group)
  PROVE  \E t \in tasks' : t.assignment = a.id /\ t.node = n
<1> DEFINE gone == [a EXCEPT !.status = "removing"]
<1>1. /\ a \in assignments /\ a.status = "active"
      /\ gone.id = a.id /\ gone.status = "removing"
  BY DEF Active, Inv, TypeOK, Assignment
<1>2. gone \notin assignments
  BY <1>1 DEF Inv, IdsAreUnique
<1>3. ASSUME NEW q \in inflight, UnassignCommit(q)
      PROVE  \E t \in tasks' : t.assignment = a.id /\ t.node = n
  <2>1. PICK b \in assignments : /\ gone.id = b.id
                                 /\ gone = IF b.id = q.assignment
                                             THEN [b EXCEPT !.status = "removing"] ELSE b
    BY <1>3, UnassignedRows
  <2>2. b.id = q.assignment
    BY <1>2, <2>1
  <2>3. a.id = q.assignment
    BY <1>1, <2>1, <2>2
  <2>4. n \in q.nodes
    BY <1>1, <1>3, <2>3 DEF UnassignCommit, NodesAreCurrent, Unassigns
  <2> DEFINE task == [assignment |-> q.assignment, node |-> n, status |-> "pending"]
  <2>5. task \in tasks'
    BY <1>3, <2>4 DEF UnassignCommit
  <2>6. task.assignment = a.id /\ task.node = n
    BY <2>3
  <2> QED
    BY <2>5, <2>6
<1>4. ASSUME NEW q \in inflight, NEW id \in Ids, AssignInsert(q, id)
      PROVE  FALSE
  BY <1>1, <1>2, <1>4 DEF AssignInsert
<1>5. ASSUME assignments' \subseteq assignments
      PROVE  FALSE
  BY <1>2, <1>5
<1> QED
  BY <1>3, <1>4, <1>5
     DEF Next, vars, CreateNode, DeleteNode, CreateNodeGroup, DeleteGroupCount, MemberCheck,
         AssignCheck, FirstPublish, DeleteBundleCount, RemoveGroupMember, UnassignInsert,
         AbandonCleanupConfirmation, ReportCleanupTask, DeleteGroupCommit, DeleteBundleCommit,
         MemberCommit, Abandon

\* Unassign: delivery never stops for a node without a task for it in the same commit,
\* provided that no member joins the group in between.  Any other transactions may overlap.
THEOREM RemovalsAreTaskedWithoutJoins ==
  Spec /\ []JoinsAvoidUnassigns => RemovalsAreTasked
<1>1. Init => NodesAreCurrent
  BY DEF Init, NodesAreCurrent, Unassigns
<1>2. Inv /\ NodesAreCurrent /\ JoinsAvoidUnassigns /\ [Next]_vars => NodesAreCurrent'
  BY NodesStep
<1>3. Inv /\ NodesAreCurrent /\ [Next]_vars =>
        [\A a \in Active : [a EXCEPT !.status = "removing"] \in assignments' =>
           \A n \in MembersOf(a.group) : \E t \in tasks' : t.assignment = a.id /\ t.node = n]_vars
  BY RemovalStep
<1> QED
  BY <1>1, <1>2, <1>3, Invariance, PTL DEF Spec, RemovalsAreTasked

-----------------------------------------------------------------------------
(* Deliveries end by Unassign.                                             *)

LEMMA CountsStep ==
  ASSUME Inv, CountsAreCurrent, AssignsAvoidDeletes, [Next]_vars
  PROVE  CountsAreCurrent'
<1>1. CASE Shrinks
  BY <1>1 DEF Shrinks, CountsAreCurrent
<1>2. ASSUME NEW q, Checked(q)
      PROVE  CountsAreCurrent'
  BY <1>2 DEF Checked, CountsAreCurrent, Active
<1>3. ASSUME NEW q \in inflight, MemberCommit(q)
      PROVE  CountsAreCurrent'
  BY <1>3 DEF MemberCommit, End, CountsAreCurrent, Active
<1>4. ASSUME NEW q \in inflight, NEW id \in Ids, AssignInsert(q, id)
      PROVE  CountsAreCurrent'
  <2> DEFINE new == [id |-> id, group |-> q.group, bundle |-> q.bundle, status |-> "active"]
  <2>1. Active' = Active \cup {new} /\ new.group = q.group /\ new.bundle = q.bundle
        /\ inflight' \subseteq inflight /\ q.op = "assign"
    BY <1>4 DEF AssignInsert, End, Active
  <2> HIDE DEF new
  <2> QED
    BY <2>1 DEF CountsAreCurrent, AssignsAvoidDeletes
<1> QED
  BY <1>1, <1>2, <1>3, <1>4, StepShapes

LEMMA ActiveStep ==
  ASSUME Inv, CountsAreCurrent, [Next]_vars, NEW a \in Active
  PROVE  \E b \in assignments' : b.id = a.id
<1> DEFINE Stays == \E b \in assignments' : b.id = a.id
<1>1. a \in assignments
  BY DEF Active
<1>2. ASSUME NEW q \in inflight, DeleteGroupCommit(q) \/ DeleteBundleCommit(q)
      PROVE  Stays
  BY <1>1, <1>2 DEF DeleteGroupCommit, DeleteBundleCommit, CountsAreCurrent
<1>3. ASSUME NEW q \in inflight, UnassignCommit(q)
      PROVE  Stays
  BY <1>1, <1>3, UnassignedRows
<1>4. ASSUME assignments \subseteq assignments'
      PROVE  Stays
  BY <1>1, <1>4
<1> QED
  BY <1>2, <1>3, <1>4
     DEF Next, vars, CreateNode, DeleteNode, CreateNodeGroup, DeleteGroupCount, MemberCheck,
         AssignCheck, FirstPublish, DeleteBundleCount, RemoveGroupMember, UnassignInsert,
         AbandonCleanupConfirmation, ReportCleanupTask, MemberCommit, AssignInsert, Abandon

\* DeleteNodeGroup and DeleteEnvironment never end a delivery, provided that no Assignment to
\* what they delete is created between their count and their DELETE.
THEOREM ActiveEndsByUnassignWithoutAssigns ==
  Spec /\ []AssignsAvoidDeletes => ActiveEndsByUnassign
<1>1. Init => CountsAreCurrent
  BY DEF Init, CountsAreCurrent
<1>2. Inv /\ CountsAreCurrent /\ AssignsAvoidDeletes /\ [Next]_vars => CountsAreCurrent'
  BY CountsStep
<1>3. Inv /\ CountsAreCurrent /\ [Next]_vars =>
        [\A a \in Active : \E n \in assignments' : n.id = a.id]_vars
  BY ActiveStep
<1> QED
  BY <1>1, <1>2, <1>3, Invariance, PTL DEF Spec, ActiveEndsByUnassign

-----------------------------------------------------------------------------
(* One transaction at a time.                                              *)

OneInFlight ==
  /\ IsFiniteSet(inflight)
  /\ \A p, q \in inflight : p = q

LEMMA OneInFlightStep ==
  ASSUME MaxInFlight <= 1, OneInFlight, [Next]_vars
  PROVE  OneInFlight'
<1>1. ASSUME NEW q, Arrive(q)
      PROVE  OneInFlight'
  <2>1. Cardinality(inflight) \in Nat /\ Cardinality(inflight) < 1
    BY <1>1, FS_CardinalityType, FleetAssumption DEF OneInFlight, Arrive
  <2>2. inflight = {}
    BY <2>1, FS_EmptySet DEF OneInFlight
  <2>3. inflight' = {q}
    BY <1>1, <2>2 DEF Arrive
  <2> QED
    BY <2>3, FS_Singleton DEF OneInFlight
<1>2. ASSUME inflight' \subseteq inflight
      PROVE  OneInFlight'
  BY <1>2, FS_Subset DEF OneInFlight
<1> QED
  BY <1>1, <1>2
     DEF Next, vars, CreateNode, DeleteNode, CreateNodeGroup, DeleteGroupCount, MemberCheck,
         AssignCheck, FirstPublish, DeleteBundleCount, RemoveGroupMember, UnassignInsert,
         AbandonCleanupConfirmation, ReportCleanupTask, DeleteGroupCommit, DeleteBundleCommit,
         MemberCommit, AssignInsert, UnassignCommit, Abandon, End

\* One transaction at a time is a case of all three conditions.
LEMMA SerialAvoids ==
  ASSUME MaxInFlight <= 1
  PROVE  Spec => [](SourcesComeAlone /\ JoinsAvoidUnassigns /\ AssignsAvoidDeletes)
<1>1. Init => OneInFlight
  BY FS_EmptySet DEF Init, OneInFlight
<1>2. OneInFlight /\ [Next]_vars => OneInFlight'
  BY OneInFlightStep
<1>3. OneInFlight => SourcesComeAlone /\ JoinsAvoidUnassigns /\ AssignsAvoidDeletes
  BY DEF OneInFlight, SourcesComeAlone, Sources, JoinsAvoidUnassigns, Joins, Unassigns,
         AssignsAvoidDeletes
<1> QED
  BY <1>1, <1>2, <1>3, PTL DEF Spec

\* What the checks of Core achieve when nothing runs between a check and its commit: a node
\* has one source of a bundle, a removal leaves a task on every node that was receiving it,
\* and a delivery ends by Unassign only.
THEOREM SerialFleet ==
  ASSUME MaxInFlight <= 1
  PROVE  Spec => []SingleSource /\ RemovalsAreTasked /\ ActiveEndsByUnassign
  BY SerialAvoids, SingleSourceWithoutOverlap, RemovalsAreTaskedWithoutJoins,
     ActiveEndsByUnassignWithoutAssigns, PTL
-----------------------------------------------------------------------------
(* Fleet implements Delivery, node by node, however many transactions run.  *)

Promised(a) == [id |-> a.id, rev |-> [bundle |-> a.bundle, n |-> 1]]

\* The refinement mapping of Promise(n), by name.
Desired(n) == {[id |-> a.id, rev |-> [bundle |-> a.bundle, n |-> 1]] : a \in DesiredBy(n)}
Owed(n) == {t.assignment : t \in OwedBy(n)}
Cleaned(n) == {t.assignment : t \in CleanedBy(n)}

LEMMA PromiseInit ==
  ASSUME Init, NEW n \in Nodes
  PROVE  Promise(n)!DeliveryInit
  BY DEF Init, Promise!DeliveryInit, DesiredBy, Active, OwedBy, CleanedBy

LEMMA PromiseStutter ==
  ASSUME UNCHANGED vars, NEW n \in Nodes
  PROVE  UNCHANGED Promise(n)!deliveryVars
  BY DEF vars, Promise!deliveryVars, DesiredBy, Active, Unassigns, MembersOf, OwedBy, CleanedBy

\* What a transaction does that leaves the node's tasks as they are: an Assignment does not
\* change its bundle, and one with a task is not active.
LEMMA PromiseDirect ==
  ASSUME Inv, Inv', NEW n \in Nodes, UNCHANGED <<Owed(n), Cleaned(n)>>,
         \A a \in assignments : \A b \in assignments' : a.id = b.id => a.bundle = b.bundle
  PROVE  Promise(n)!DeliveryNext
<1>1. ASSUME NEW x \in Desired(n)'
      PROVE  /\ x.id \notin Owed(n) \cup Cleaned(n)
             /\ \A y \in Desired(n) : x.id = y.id => x.rev.bundle = y.rev.bundle
  <2>1. PICK b \in assignments' : b.status = "active" /\ x = Promised(b)
    BY <1>1 DEF Desired, DesiredBy, Active, Promised
  <2>2. x.id = b.id /\ x.rev.bundle = b.bundle
    BY <2>1 DEF Promised
  <2>3. \A t \in tasks' : t.assignment # x.id
    BY <2>1, <2>2 DEF Inv, TasksAreOfRemovals, IdsAreUnique
  <2>4. x.id \notin Owed(n)' \cup Cleaned(n)'
    BY <2>3 DEF Owed, Cleaned, OwedBy, CleanedBy
  <2>5. ASSUME NEW y \in Desired(n), x.id = y.id
        PROVE  x.rev.bundle = y.rev.bundle
    <3>1. PICK a \in assignments : y = Promised(a)
      BY <2>5 DEF Desired, DesiredBy, Active, Promised
    <3>2. y.id = a.id /\ y.rev.bundle = a.bundle
      BY <3>1 DEF Promised
    <3> QED
      BY <2>2, <2>5, <3>2
  <2> QED
    BY <2>4, <2>5
<1>2. Promise(n)!Direct
  BY <1>1 DEF Promise!Direct, Desired, Owed, Cleaned
<1> QED
  BY <1>2 DEF Promise!DeliveryNext

\* The rows of the Assignments stay as they are, and so do the node's tasks.
LEMMA PromiseRows ==
  ASSUME Inv, Inv', NEW n \in Nodes, assignments' \subseteq assignments,
         UNCHANGED <<OwedBy(n), CleanedBy(n)>>
  PROVE  Promise(n)!DeliveryNext
  BY PromiseDirect DEF Inv, IdsAreUnique, Owed, Cleaned

LEMMA PromiseDeleteNode ==
  ASSUME Inv, Inv', NEW n \in Nodes, NEW m \in Nodes, DeleteNode(m)
  PROVE  Promise(n)!DeliveryNext
<1>1. CASE m # n
  BY <1>1, PromiseRows DEF DeleteNode, OwedBy, CleanedBy
<1>2. CASE m = n
  <2>1. DesiredBy(n)' = {}
    BY <1>2 DEF DeleteNode, NodeIsFree, DesiredBy, Active, MembersOf, Unassigns
  <2>2. OwedBy(n)' = {} /\ CleanedBy(n)' = {}
    BY <1>2 DEF DeleteNode, OwedBy, CleanedBy
  <2>3. Desired(n)' = {} /\ Owed(n)' = {} /\ Cleaned(n)' = {}
    BY <2>1, <2>2 DEF Desired, Owed, Cleaned
  <2>4. \A x \in Desired(n) : x.id \in Ids
    BY DEF Inv, TypeOK, Assignment, Desired, DesiredBy, Active
  <2>5. Owed(n) \subseteq Ids /\ Cleaned(n) \subseteq Ids
    BY DEF Inv, TypeOK, Task, Owed, Cleaned, OwedBy, CleanedBy
  <2>6. /\ Desired(n)' = {x \in Desired(n) : x.id \notin Ids}
        /\ Owed(n)' = Owed(n) \ Ids
        /\ Cleaned(n)' = Cleaned(n) \ Ids
    BY <2>3, <2>4, <2>5
  <2>7. Promise(n)!Forget(Ids)
    BY <2>6 DEF Promise!Forget, Desired, Owed, Cleaned
  <2> QED
    BY <2>7 DEF Promise!DeliveryNext
<1> QED
  BY <1>1, <1>2

\* A cascade that takes the Assignments "gone" takes their tasks too; the nodes of the others
\* stay theirs.
LEMMA PromiseCascade ==
  ASSUME Inv, NEW n \in Nodes, NEW gone \in SUBSET assignments,
         assignments' = assignments \ gone, tasks' = tasks \ TasksOf(gone),
         \A a \in assignments \ gone : MembersOf(a.group)' = MembersOf(a.group),
         Unassigns' = Unassigns
  PROVE  Promise(n)!DeliveryNext
<1> DEFINE S == {a.id : a \in gone}
<1>1. S \in SUBSET Ids
  BY DEF Inv, TypeOK, Assignment
<1>2. \A a \in assignments : a.id \in S <=> a \in gone
  BY DEF Inv, IdsAreUnique
<1>3. \A t \in tasks : t \in TasksOf(gone) <=> t.assignment \in S
  BY DEF TasksOf
<1> HIDE DEF S
<1>4. DesiredBy(n)' = {a \in DesiredBy(n) : a.id \notin S}
  BY <1>2 DEF DesiredBy, Active
<1>5. Desired(n)' = {x \in Desired(n) : x.id \notin S}
  BY <1>4 DEF Desired
<1>6. /\ OwedBy(n)' = {t \in OwedBy(n) : t.assignment \notin S}
      /\ CleanedBy(n)' = {t \in CleanedBy(n) : t.assignment \notin S}
  BY <1>3 DEF OwedBy, CleanedBy
<1>7. Owed(n)' = Owed(n) \ S /\ Cleaned(n)' = Cleaned(n) \ S
  BY <1>6 DEF Owed, Cleaned
<1>8. Promise(n)!Forget(S)
  BY <1>5, <1>7 DEF Promise!Forget, Desired, Owed, Cleaned
<1> QED
  BY <1>1, <1>8 DEF Promise!DeliveryNext

LEMMA PromiseDeletions ==
  ASSUME Inv, NEW n \in Nodes, NEW q \in inflight, DeleteGroupCommit(q) \/ DeleteBundleCommit(q)
  PROVE  Promise(n)!DeliveryNext
<1>1. CASE DeleteGroupCommit(q)
  <2> DEFINE gone == {a \in assignments : a.group = q.group}
  <2>1. /\ assignments' = assignments \ gone /\ tasks' = tasks \ TasksOf(gone)
        /\ members' = {m \in members : m.group # q.group}
        /\ Unassigns' = Unassigns
    BY <1>1 DEF DeleteGroupCommit, End, Unassigns
  <2>2. \A a \in assignments \ gone : MembersOf(a.group)' = MembersOf(a.group)
    BY <2>1 DEF MembersOf
  <2> HIDE DEF gone
  <2>3. gone \in SUBSET assignments
    BY DEF gone
  <2> QED
    BY <2>1, <2>2, <2>3, PromiseCascade
<1>2. CASE DeleteBundleCommit(q)
  <2> DEFINE gone == {a \in assignments : a.bundle = q.bundle}
  <2>1. /\ assignments' = assignments \ gone /\ tasks' = tasks \ TasksOf(gone)
        /\ members' = members
        /\ Unassigns' = Unassigns
    BY <1>2 DEF DeleteBundleCommit, End, Unassigns
  <2>2. \A a \in assignments \ gone : MembersOf(a.group)' = MembersOf(a.group)
    BY <2>1 DEF MembersOf
  <2>3. gone \in SUBSET assignments
    OBVIOUS
  <2> HIDE DEF gone
  <2> QED
    BY <2>1, <2>2, <2>3, PromiseCascade
<1> QED
  BY <1>1, <1>2
\* The tasks after one UPDATE of some that are not confirmed: the rows are the same ones.
LEMMA UpdatedTasks ==
  ASSUME Inv, NEW T \in SUBSET tasks, NEW status \in TaskStatus, tasks' = Becomes(T, status),
         \A t \in T : t.status # "cleaned", NEW n \in Nodes
  PROVE  /\ Owed(n)' = {id \in Owed(n) : status = "cleaned" =>
                          \A t \in T : t.node = n => t.assignment # id}
         /\ Cleaned(n)' = Cleaned(n) \cup
              {t.assignment : t \in {u \in T : u.node = n /\ status = "cleaned"}}
<1> DEFINE after(t) == IF t \in T THEN [t EXCEPT !.status = status] ELSE t
<1>1. tasks' = {after(t) : t \in tasks}
  BY DEF Becomes
<1>2. ASSUME NEW t \in tasks
      PROVE  /\ after(t).assignment = t.assignment /\ after(t).node = t.node
             /\ after(t).status = IF t \in T THEN status ELSE t.status
  BY DEF Inv, TypeOK, Task
<1> HIDE DEF after
<1>3. \A t, u \in tasks : t.assignment = u.assignment /\ t.node = u.node => t = u
  BY DEF Inv, TasksAreOfRemovals
<1>4. ASSUME NEW id
      PROVE  id \in Owed(n)' <=>
               \E t \in tasks : /\ t.assignment = id /\ t.node = n
                                /\ (IF t \in T THEN status ELSE t.status) # "cleaned"
  BY <1>1, <1>2 DEF Owed, OwedBy
<1>5. ASSUME NEW id
      PROVE  id \in Cleaned(n)' <=>
               \E t \in tasks : /\ t.assignment = id /\ t.node = n
                                /\ (IF t \in T THEN status ELSE t.status) = "cleaned"
  BY <1>1, <1>2 DEF Cleaned, CleanedBy
<1>6. ASSUME NEW id
      PROVE  /\ id \in Owed(n) <=>
                  \E t \in tasks : t.assignment = id /\ t.node = n /\ t.status # "cleaned"
             /\ id \in Cleaned(n) <=>
                  \E t \in tasks : t.assignment = id /\ t.node = n /\ t.status = "cleaned"
  BY DEF Owed, OwedBy, Cleaned, CleanedBy
<1>7. Owed(n)' = {id \in Owed(n) : status = "cleaned" =>
                    \A t \in T : t.node = n => t.assignment # id}
  BY <1>3, <1>4, <1>6
<1>8. Cleaned(n)' = Cleaned(n) \cup
        {t.assignment : t \in {u \in T : u.node = n /\ status = "cleaned"}}
  BY <1>5, <1>6
<1> QED
  BY <1>7, <1>8

LEMMA PromiseTasks ==
  ASSUME Inv, Inv', NEW n \in Nodes,
         \/ \E a \in assignments : AbandonCleanupConfirmation(a)
         \/ \E t \in tasks : \E result \in {"cleaned", "failed"} : ReportCleanupTask(t, result)
  PROVE  Promise(n)!DeliveryNext
<1>1. UNCHANGED assignments
  BY DEF AbandonCleanupConfirmation, ReportCleanupTask
<1>2. \A a \in assignments : \A b \in assignments' : a.id = b.id => a.bundle = b.bundle
  BY <1>1 DEF Inv, IdsAreUnique
<1>3. ASSUME NEW T \in SUBSET tasks, NEW status \in TaskStatus \ {"cleaned"},
             tasks' = Becomes(T, status), \A t \in T : t.status # "cleaned"
      PROVE  Promise(n)!DeliveryNext
  <2>1. /\ Owed(n)' = {id \in Owed(n) : status = "cleaned" =>
                          \A t \in T : t.node = n => t.assignment # id}
        /\ Cleaned(n)' = Cleaned(n) \cup
              {t.assignment : t \in {u \in T : u.node = n /\ status = "cleaned"}}
    BY <1>3, UpdatedTasks
  <2>2. status # "cleaned"
    BY <1>3
  <2>3. Owed(n)' = Owed(n)
    BY <2>1, <2>2
  <2>4. Cleaned(n)' = Cleaned(n)
    BY <2>1, <2>2
  <2> QED
    BY <1>2, <2>3, <2>4, PromiseDirect
<1>4. ASSUME NEW a \in assignments, AbandonCleanupConfirmation(a)
      PROVE  Promise(n)!DeliveryNext
  <2> DEFINE waiting == {t \in TasksOf({a}) : t.status \in {"pending", "failed", "offline"}}
  <2>1. waiting \in SUBSET tasks /\ \A t \in waiting : t.status # "cleaned"
    BY DEF TasksOf
  <2>2. tasks' = Becomes(waiting, "cleanup_unconfirmed")
    BY <1>4 DEF AbandonCleanupConfirmation
  <2> HIDE DEF waiting
  <2> QED
    BY <1>3, <2>1, <2>2 DEF TaskStatus
<1>5. ASSUME NEW t \in tasks, ReportCleanupTask(t, "failed")
      PROVE  Promise(n)!DeliveryNext
  <2>1. tasks' = Becomes({t}, "failed") /\ t.status # "cleaned"
    BY <1>5 DEF ReportCleanupTask, Outstanding
  <2> QED
    BY <1>3, <2>1 DEF TaskStatus
<1>6. ASSUME NEW t \in tasks, ReportCleanupTask(t, "cleaned")
      PROVE  Promise(n)!DeliveryNext
  <2>1. tasks' = Becomes({t}, "cleaned") /\ t.status # "cleaned" /\ t.assignment \in Ids
    BY <1>6 DEF ReportCleanupTask, Outstanding, Inv, TypeOK, Task
  <2>2. /\ Owed(n)' = {id \in Owed(n) : t.node = n => t.assignment # id}
        /\ Cleaned(n)' = Cleaned(n) \cup {u.assignment : u \in {w \in {t} : w.node = n}}
    BY <2>1, UpdatedTasks DEF TaskStatus
  <2>3. CASE t.node # n
    BY <1>2, <2>2, <2>3, PromiseDirect
  <2>4. CASE t.node = n
    <3>1. t.assignment \in Owed(n)
      BY <2>1, <2>4 DEF Owed, OwedBy
    <3>2. Owed(n)' = Owed(n) \ {t.assignment}
      BY <2>2, <2>4
    <3>3. Cleaned(n)' = Cleaned(n) \cup {t.assignment}
      BY <2>2, <2>4
    <3>4. Desired(n)' = Desired(n)
      BY <1>6 DEF ReportCleanupTask, Desired, DesiredBy, Active, MembersOf, Unassigns
    <3>5. Promise(n)!Confirm(t.assignment)
      BY <3>1, <3>2, <3>3, <3>4 DEF Promise!Confirm, Desired, Owed, Cleaned
    <3> QED
      BY <2>1, <3>5 DEF Promise!DeliveryNext
  <2> QED
    BY <2>3, <2>4
<1> QED
  BY <1>4, <1>5, <1>6

LEMMA PromiseUnassignCommit ==
  ASSUME Inv, Inv', NEW n \in Nodes, NEW q \in inflight, UnassignCommit(q)
  PROVE  Promise(n)!DeliveryNext
<1> DEFINE new == {[assignment |-> q.assignment, node |-> m, status |-> "pending"] :
                     m \in q.nodes}
<1>1. /\ q \in Unassigns /\ Unassigns' = Unassigns \ {q}
      /\ tasks' = tasks \cup new /\ members' = members
  BY DEF UnassignCommit, End, Unassigns
<1>2. PICK a \in assignments : a.id = q.assignment /\ a.status = "active"
  BY <1>1 DEF Inv, UnassignsAreOfActive
<1>3. a.id \in Ids
  BY DEF Inv, TypeOK, Assignment
<1>4. Cleaned(n)' = Cleaned(n)
  <2>1. CleanedBy(n)' = CleanedBy(n)
    BY <1>1 DEF CleanedBy
  <2> QED
    BY <2>1 DEF Cleaned
<1>5. CASE n \notin q.nodes
  <2>1. OwedBy(n)' = OwedBy(n)
    BY <1>1, <1>5 DEF OwedBy
  <2>2. Owed(n)' = Owed(n)
    BY <2>1 DEF Owed
  <2>3. \A c \in assignments : \A b \in assignments' : c.id = b.id => c.bundle = b.bundle
    BY UnassignedRows DEF Inv, IdsAreUnique
  <2> QED
    BY <1>4, <2>2, <2>3, PromiseDirect
<1>6. CASE n \in q.nodes
  <2>1. Promised(a) \in Desired(n) /\ Promised(a).id = a.id
    BY <1>1, <1>2, <1>6 DEF Desired, DesiredBy, Active, Promised
  <2>2. Owed(n)' = Owed(n) \cup {a.id}
    <3> DEFINE row == [assignment |-> q.assignment, node |-> n, status |-> "pending"]
    <3>1. OwedBy(n)' = OwedBy(n) \cup {row}
      BY <1>1, <1>6 DEF OwedBy
    <3>2. row.assignment = a.id
      BY <1>2
    <3> HIDE DEF row
    <3> QED
      BY <3>1, <3>2 DEF Owed
  <2>3. DesiredBy(n)' = {c \in DesiredBy(n) : c.id # a.id}
    <3>1. ASSUME NEW c \in assignments, c.id # a.id
          PROVE  c \in assignments'
      BY <1>2, <3>1 DEF UnassignCommit
    <3>2. ASSUME NEW c \in assignments', c.status = "active"
          PROVE  c \in assignments /\ c.id # a.id
      BY <1>2, <3>2, UnassignedRows
    <3>3. ASSUME NEW c \in assignments, c.id # a.id
          PROVE  (\E p \in Unassigns' : p.assignment = c.id /\ n \in p.nodes)
                   <=> \E p \in Unassigns : p.assignment = c.id /\ n \in p.nodes
      BY <1>1, <1>2, <3>3
    <3>4. \A c : MembersOf(c.group)' = MembersOf(c.group)
      BY <1>1 DEF MembersOf
    <3> QED
      BY <3>1, <3>2, <3>3, <3>4 DEF DesiredBy, Active
  <2>4. Desired(n)' = {x \in Desired(n) : x.id # a.id}
    BY <2>3 DEF Desired
  <2>5. Promise(n)!Withdraw(a.id)
    BY <1>4, <2>1, <2>2, <2>4 DEF Promise!Withdraw, Desired, Owed, Cleaned
  <2> QED
    BY <1>3, <2>5 DEF Promise!DeliveryNext
<1> QED
  BY <1>5, <1>6

LEMMA PromiseStep ==
  ASSUME Inv, Inv', [Next]_vars, NEW n \in Nodes
  PROVE  [Promise(n)!DeliveryNext]_(Promise(n)!deliveryVars)
<1>1. ASSUME assignments' \subseteq assignments, UNCHANGED tasks
      PROVE  Promise(n)!DeliveryNext
  BY <1>1, PromiseRows DEF OwedBy, CleanedBy
<1>2. ASSUME NEW m \in Nodes, DeleteNode(m)
      PROVE  Promise(n)!DeliveryNext
  BY <1>2, PromiseDeleteNode
<1>3. ASSUME NEW q \in inflight, DeleteGroupCommit(q) \/ DeleteBundleCommit(q)
      PROVE  Promise(n)!DeliveryNext
  BY <1>3, PromiseDeletions
<1>4. ASSUME NEW q \in inflight, UnassignCommit(q)
      PROVE  Promise(n)!DeliveryNext
  BY <1>4, PromiseUnassignCommit
<1>5. ASSUME NEW q \in inflight, NEW id \in Ids, AssignInsert(q, id)
      PROVE  Promise(n)!DeliveryNext
  <2>1. \A a \in assignments : \A b \in assignments' : a.id = b.id => a.bundle = b.bundle
    BY <1>5 DEF AssignInsert, Inv, IdsAreUnique
  <2>2. UNCHANGED <<Owed(n), Cleaned(n)>>
    BY <1>5 DEF AssignInsert, Owed, Cleaned, OwedBy, CleanedBy
  <2> QED
    BY <2>1, <2>2, PromiseDirect
<1>6. ASSUME \/ \E a \in assignments : AbandonCleanupConfirmation(a)
             \/ \E t \in tasks : \E result \in {"cleaned", "failed"} : ReportCleanupTask(t, result)
      PROVE  Promise(n)!DeliveryNext
  BY <1>6, PromiseTasks
<1>7. CASE UNCHANGED vars
  BY <1>7, PromiseStutter
<1> QED
  BY <1>1, <1>2, <1>3, <1>4, <1>5, <1>6, <1>7
     DEF Next, CreateNode, CreateNodeGroup, DeleteGroupCount, MemberCheck, AssignCheck,
         FirstPublish, DeleteBundleCount, RemoveGroupMember, UnassignInsert, MemberCommit,
         Abandon

\* However many transactions run at once, every node is dealt with as Delivery promises: an
\* Assignment that is owed a cleanup was the node's and is not again, a report confirms what
\* is owed and nothing else, and what is confirmed stays so until it is deleted.
THEOREM EveryNodeIsPromised ==
  ASSUME NEW n \in Nodes
  PROVE  Spec => Promise(n)!DeliverySpec
<1>1. Init => Promise(n)!DeliveryInit
  BY PromiseInit
<1>2. Inv /\ Inv' /\ [Next]_vars => [Promise(n)!DeliveryNext]_(Promise(n)!deliveryVars)
  BY PromiseStep
<1> QED
  BY <1>1, <1>2, Invariance, PTL DEF Spec, Promise!DeliverySpec

\* The same, of all nodes at once.
THEOREM FleetImplementsDelivery ==
  Spec => ImplementsDelivery
<1>1. Init => \A n \in Nodes : Promise(n)!DeliveryInit
  BY PromiseInit
<1>2. Inv /\ Inv' /\ [Next]_vars =>
        [\A n \in Nodes : [Promise(n)!DeliveryNext]_(Promise(n)!deliveryVars)]_vars
  BY PromiseStep
<1> QED
  BY <1>1, <1>2, Invariance, PTL DEF Spec, ImplementsDelivery
=============================================================================
