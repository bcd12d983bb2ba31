------------------------------- MODULE Fleet -------------------------------
(***************************************************************************)
(* The fleet half of Core: Managed Nodes, Node Groups, Assignments and the *)
(* Unassignment Tasks a removal leaves behind.  It decides which bundles a *)
(* node receives and which it must clean up; what a bundle holds is the    *)
(* business of Publication.                                                *)
(*                                                                         *)
(* A transaction at READ COMMITTED that reads before it commits is a       *)
(* record of "inflight" between the two.  It holds the row locks of what   *)
(* it wrote: whoever needs them waits, which is an action not enabled.     *)
(* Ids are never used twice; an id that no row and no request mentions is  *)
(* as good as a fresh one, so the finite sets of ids bound what exists at  *)
(* one time, not what a long run creates.                                  *)
(***************************************************************************)
EXTENDS Naturals, FiniteSets

CONSTANTS
  Nodes,         \* ids of Managed Nodes
  Groups,        \* ids of Node Groups
  Bundles,       \* Secret Bundles: an application and an environment of it
  Ids,           \* ids of Assignments
  MaxInFlight    \* bound on the transactions in flight at once

ASSUME FleetAssumption == MaxInFlight \in Nat

VARIABLES
  nodes,         \* nodes that have a row
  groups,        \* groups that have a row
  bundles,       \* bundles that have a published revision
  members,       \* group_members
  assignments,   \* assignments, the tombstones of removed ones included
  tasks,         \* unassignment_tasks
  inflight       \* transactions between two of their steps

vars == <<nodes, groups, bundles, members, assignments, tasks, inflight>>

-----------------------------------------------------------------------------
(* Rows and transactions.                                                  *)

Member == [group : Groups, node : Nodes]

Assignment == [id : Ids, group : Groups, bundle : Bundles, status : {"active", "removing"}]

TaskStatus == {"pending", "cleaned", "failed", "offline", "cleanup_unconfirmed"}

\* What PendingCleanupInstructions delivers and ReportCleanupTask accepts.
Outstanding == {"pending", "failed", "cleanup_unconfirmed"}

Task == [assignment : Ids, node : Nodes, status : TaskStatus]

MemberRequest == [op : {"member"}, group : Groups, node : Nodes, inserted : BOOLEAN]

AssignRequest == [op : {"assign"}, group : Groups, bundle : Bundles]

UnassignRequest == [op : {"unassign"}, assignment : Ids, nodes : SUBSET Nodes]

DeleteGroupRequest == [op : {"delete_group"}, group : Groups]

DeleteBundleRequest == [op : {"delete_bundle"}, bundle : Bundles]

Request == UNION {MemberRequest, AssignRequest, UnassignRequest, DeleteGroupRequest,
                  DeleteBundleRequest}

TypeOK ==
  /\ nodes \subseteq Nodes
  /\ groups \subseteq Groups
  /\ bundles \subseteq Bundles
  /\ members \subseteq Member
  /\ assignments \subseteq Assignment
  /\ tasks \subseteq Task
  /\ inflight \subseteq Request

Init ==
  /\ nodes = {} /\ groups = {} /\ bundles = {}
  /\ members = {}
  /\ assignments = {}
  /\ tasks = {}
  /\ inflight = {}

Active == {a \in assignments : a.status = "active"}

MembersOf(g) == {n \in Nodes : [group |-> g, node |-> n] \in members}

TasksOf(A) == {t \in tasks : \E a \in A : a.id = t.assignment}

Arrive(q) ==
  /\ Cardinality(inflight) < MaxInFlight
  /\ inflight' = inflight \cup {q}

End(q) == inflight' = inflight \ {q}

\* An error, a dropped connection or a restart of Core: the transaction rolls back.
Abandon(q) ==
  /\ End(q)
  /\ UNCHANGED <<nodes, groups, bundles, members, assignments, tasks>>

-----------------------------------------------------------------------------
(* Row locks.  A foreign key holds the row it refers to; an UPDATE holds    *)
(* the row it changes.                                                     *)

Joins == {q \in inflight : q.op = "member" /\ q.inserted}

Unassigns == {q \in inflight : q.op = "unassign"}

GroupIsFree(g) == \A q \in Joins : q.group # g

NodeIsFree(n) ==
  /\ \A q \in Joins : q.node # n
  /\ \A q \in Unassigns : n \notin q.nodes

AssignmentsAreFree(A) == \A q \in Unassigns : \A a \in A : a.id # q.assignment

-----------------------------------------------------------------------------
(* Nodes, groups and bundles.                                              *)

\* CreatePendingNode and RegisterNode.
CreateNode(n) ==
  /\ n \notin nodes
  /\ nodes' = nodes \cup {n}
  /\ UNCHANGED <<groups, bundles, members, assignments, tasks, inflight>>

\* One statement; its members and tasks cascade.
DeleteNode(n) ==
  /\ n \in nodes
  /\ NodeIsFree(n)
  /\ nodes' = nodes \ {n}
  /\ members' = {m \in members : m.node # n}
  /\ tasks' = {t \in tasks : t.node # n}
  /\ UNCHANGED <<groups, bundles, assignments, inflight>>

CreateNodeGroup(g) ==
  /\ g \notin groups
  /\ \A q \in inflight : q.op \in {"member", "assign", "delete_group"} => q.group # g
  /\ groups' = groups \cup {g}
  /\ UNCHANGED <<nodes, bundles, members, assignments, tasks, inflight>>

\* Defect: the group is deleted whatever it is assigned.
DeleteAnyGroup(g) ==
  /\ g \in groups
  /\ Arrive([op |-> "delete_group", group |-> g])
  /\ UNCHANGED <<nodes, groups, bundles, members, assignments, tasks>>

\* DeleteNodeGroup, outside any transaction: CountActiveAssignmentsForNodeGroup.
DeleteGroupCount(g) ==
  /\ g \in groups
  /\ ~ \E a \in Active : a.group = g
  /\ Arrive([op |-> "delete_group", group |-> g])
  /\ UNCHANGED <<nodes, groups, bundles, members, assignments, tasks>>

\* DeleteNodeGroupByID: members, assignments and their tasks cascade.
DeleteGroupCommit(q) ==
  LET gone == {a \in assignments : a.group = q.group}
  IN /\ q.op = "delete_group"
     /\ q.group \in groups
     /\ GroupIsFree(q.group)
     /\ AssignmentsAreFree(gone)
     /\ groups' = groups \ {q.group}
     /\ members' = {m \in members : m.group # q.group}
     /\ assignments' = assignments \ gone
     /\ tasks' = tasks \ TasksOf(gone)
     /\ End(q)
     /\ UNCHANGED <<nodes, bundles>>

\* The first Publish of an environment: from now on it can be assigned.
FirstPublish(b) ==
  /\ b \notin bundles
  /\ \A q \in inflight : q.op \in {"assign", "delete_bundle"} => q.bundle # b
  /\ bundles' = bundles \cup {b}
  /\ UNCHANGED <<nodes, groups, members, assignments, tasks, inflight>>

\* DeleteEnvironment, before its transaction.
DeleteBundleCount(b) ==
  /\ b \in bundles
  /\ ~ \E a \in Active : a.bundle = b
  /\ Arrive([op |-> "delete_bundle", bundle |-> b])
  /\ UNCHANGED <<nodes, groups, bundles, members, assignments, tasks>>

\* Its revisions cascade, and with them every assignment that points at one.
DeleteBundleCommit(q) ==
  LET gone == {a \in assignments : a.bundle = q.bundle}
  IN /\ q.op = "delete_bundle"
     /\ q.bundle \in bundles
     /\ AssignmentsAreFree(gone)
     /\ bundles' = bundles \ {q.bundle}
     /\ assignments' = assignments \ gone
     /\ tasks' = tasks \ TasksOf(gone)
     /\ End(q)
     /\ UNCHANGED <<nodes, groups, members>>

-----------------------------------------------------------------------------
(* Membership.                                                             *)

\* SelectGroupMemberConflict: node n already gets a bundle of g through another group.
MemberConflict(g, n) ==
  \E a, o \in Active :
    a.group = g /\ o.group # g /\ o.bundle = a.bundle /\ n \in MembersOf(o.group)

\* AddGroupMember, up to its check.  Another transaction that inserts the same row waits.
MemberCheck(g, n) ==
  /\ g \in groups /\ n \in nodes
  /\ ~ \E q \in Joins : q.group = g /\ q.node = n
  /\ ~ MemberConflict(g, n)
  /\ Arrive([op |-> "member", group |-> g, node |-> n, inserted |-> n \notin MembersOf(g)])
  /\ UNCHANGED <<nodes, groups, bundles, members, assignments, tasks>>

\* COMMIT.  When the row was there already, ON CONFLICT DO NOTHING did nothing.
MemberCommit(q) ==
  /\ q.op = "member"
  /\ members' = members \cup (IF q.inserted THEN {[group |-> q.group, node |-> q.node]} ELSE {})
  /\ End(q)
  /\ UNCHANGED <<nodes, groups, bundles, assignments, tasks>>

\* No task, no check: the row goes.
RemoveGroupMember(m) ==
  /\ members' = members \ {m}
  /\ UNCHANGED <<nodes, groups, bundles, assignments, tasks, inflight>>

-----------------------------------------------------------------------------
(* Assignments.                                                            *)

\* SelectAssignmentConflict: a node of g already gets bundle b through another group.
AssignmentConflict(g, b) ==
  \E a \in Active : a.bundle = b /\ a.group # g /\ MembersOf(g) \cap MembersOf(a.group) # {}

\* Defect: only the assignments of the group itself are looked at.
AssignUnchecked(g, b) ==
  /\ g \in groups /\ b \in bundles
  /\ Arrive([op |-> "assign", group |-> g, bundle |-> b])
  /\ UNCHANGED <<nodes, groups, bundles, members, assignments, tasks>>

\* CreateAssignment, up to SelectAssignmentConflict.
AssignCheck(g, b) ==
  /\ g \in groups /\ b \in bundles
  /\ ~ AssignmentConflict(g, b)
  /\ Arrive([op |-> "assign", group |-> g, bundle |-> b])
  /\ UNCHANGED <<nodes, groups, bundles, members, assignments, tasks>>

\* InsertAssignment, under its foreign keys and the index on active rows, and COMMIT.
AssignInsert(q, id) ==
  /\ q.op = "assign"
  /\ q.group \in groups /\ q.bundle \in bundles
  /\ ~ \E a \in Active : a.group = q.group /\ a.bundle = q.bundle
  /\ ~ \E a \in assignments : a.id = id
  /\ assignments' = assignments \cup
       {[id |-> id, group |-> q.group, bundle |-> q.bundle, status |-> "active"]}
  /\ End(q)
  /\ UNCHANGED <<nodes, groups, bundles, members, tasks>>

\* Defect: a status that was read without the lock of its row.
UnassignUnlocked(a) ==
  /\ a.status = "active"
  /\ Arrive([op |-> "unassign", assignment |-> a.id, nodes |-> MembersOf(a.group)])
  /\ UNCHANGED <<nodes, groups, bundles, members, assignments, tasks>>

\* Unassign: MarkAssignmentRemoving and InsertUnassignmentTasks, not yet visible.
UnassignInsert(a) ==
  /\ a.status = "active"
  /\ AssignmentsAreFree({a})
  /\ Arrive([op |-> "unassign", assignment |-> a.id, nodes |-> MembersOf(a.group)])
  /\ UNCHANGED <<nodes, groups, bundles, members, assignments, tasks>>

\* Defect: a status the CHECK of the table does not know.
UnassignToRemoved(q) ==
  /\ q.op = "unassign"
  /\ assignments' = {IF a.id = q.assignment THEN [a EXCEPT !.status = "removed"] ELSE a :
                       a \in assignments}
  /\ End(q)
  /\ UNCHANGED <<nodes, groups, bundles, members, tasks>>

\* Defect: delivery stops in a transaction of its own, before the tasks are there.
UnassignWithoutTasks(q) ==
  /\ q.op = "unassign"
  /\ assignments' = {IF a.id = q.assignment THEN [a EXCEPT !.status = "removing"] ELSE a :
                       a \in assignments}
  /\ End(q)
  /\ UNCHANGED <<nodes, groups, bundles, members, tasks>>

\* Defect: the tasks are there in a transaction of their own, before delivery stops.
UnassignTasksOnly(q) ==
  /\ q.op = "unassign"
  /\ tasks' = tasks \cup
       {[assignment |-> q.assignment, node |-> n, status |-> "pending"] : n \in q.nodes}
  /\ End(q)
  /\ UNCHANGED <<nodes, groups, bundles, members, assignments>>

\* COMMIT: the Assignment becomes a tombstone, and its tasks appear.
UnassignCommit(q) ==
  /\ q.op = "unassign"
  /\ assignments' = {IF a.id = q.assignment THEN [a EXCEPT !.status = "removing"] ELSE a :
                       a \in assignments}
  /\ tasks' = tasks \cup
       {[assignment |-> q.assignment, node |-> n, status |-> "pending"] : n \in q.nodes}
  /\ End(q)
  /\ UNCHANGED <<nodes, groups, bundles, members>>

-----------------------------------------------------------------------------
(* Unassignment Tasks: each is one UPDATE.                                 *)

Becomes(T, status) == {IF t \in T THEN [t EXCEPT !.status = status] ELSE t : t \in tasks}

\* Defect: UPDATE without "AND status IN (...)".
ReportAnyTask(t, result) ==
  /\ tasks' = Becomes({t}, result)
  /\ UNCHANGED <<nodes, groups, bundles, members, assignments, inflight>>

\* An agent reports "cleaned" or "failed"; a task that is cleaned refuses both.
ReportCleanupTask(t, result) ==
  /\ t.status \in Outstanding
  /\ tasks' = Becomes({t}, result)
  /\ UNCHANGED <<nodes, groups, bundles, members, assignments, inflight>>

AbandonCleanupConfirmation(a) ==
  LET waiting == {t \in TasksOf({a}) : t.status \in {"pending", "failed", "offline"}}
  IN /\ waiting # {}
     /\ tasks' = Becomes(waiting, "cleanup_unconfirmed")
     /\ UNCHANGED <<nodes, groups, bundles, members, assignments, inflight>>

-----------------------------------------------------------------------------

Next ==
  \/ \E n \in Nodes : CreateNode(n) \/ DeleteNode(n)
  \/ \E g \in Groups :
       \/ CreateNodeGroup(g)
       \/ DeleteGroupCount(g)
       \/ \E n \in Nodes : MemberCheck(g, n)
       \/ \E b \in Bundles : AssignCheck(g, b)
  \/ \E b \in Bundles : FirstPublish(b) \/ DeleteBundleCount(b)
  \/ \E m \in members : RemoveGroupMember(m)
  \/ \E a \in assignments : UnassignInsert(a) \/ AbandonCleanupConfirmation(a)
  \/ \E t \in tasks : \E result \in {"cleaned", "failed"} : ReportCleanupTask(t, result)
  \/ \E q \in inflight :
       \/ DeleteGroupCommit(q)
       \/ DeleteBundleCommit(q)
       \/ MemberCommit(q)
       \/ \E id \in Ids : AssignInsert(q, id)
       \/ UnassignCommit(q)
       \/ Abandon(q)

Spec == Init /\ [][Next]_vars

-----------------------------------------------------------------------------
(* Properties.                                                             *)

\* PendingCleanupInstructions never tells a node to clean up for an Assignment that is
\* still delivered: a task belongs to a removing Assignment, and a node has one task of it.
TasksAreOfRemovals ==
  /\ \A t \in tasks : \E a \in assignments : a.id = t.assignment /\ a.status = "removing"
  /\ \A t, u \in tasks : t.assignment = u.assignment /\ t.node = u.node => t = u

\* "Core rejects any membership or Assignment change that would give one Managed Node
\* multiple sources for the same Application and Environment": no node receives a
\* bundle through two groups.
SingleSource ==
  \A a, b \in Active :
    a.bundle = b.bundle /\ MembersOf(a.group) \cap MembersOf(b.group) # {} => a = b

\* A late or repeated report, or an Abandon, never takes back a confirmed cleanup.
CleanedIsFinal ==
  [][\A t \in tasks : t.status = "cleaned" =>
       \/ t \in tasks'
       \/ t.node \notin nodes'
       \/ ~ \E a \in assignments' : a.id = t.assignment]_vars

\* When delivery stops (the Assignment turns to removing), every node that was receiving
\* the bundle has a task in the same commit.
RemovalsAreTasked ==
  [][\A a \in Active : [a EXCEPT !.status = "removing"] \in assignments' =>
       \A n \in MembersOf(a.group) : \E t \in tasks' : t.assignment = a.id /\ t.node = n]_vars

\* DeleteNodeGroup and DeleteEnvironment refuse while something is assigned: an active
\* Assignment only ever ends by Unassign.
ActiveEndsByUnassign ==
  [][\A a \in Active : \E n \in assignments' : n.id = a.id]_vars

\* "Core will not delete the relationship or claim success when cleanup is unconfirmed":
\* a task its node has not confirmed stays until the node itself is deleted.
UnconfirmedCleanupIsKept ==
  [][\A t \in tasks : t.status # "cleaned" /\ t.node \in nodes' =>
       \E u \in tasks' : u.assignment = t.assignment /\ u.node = t.node]_vars

\* What node n is to receive.  An Unassign that has read it as a member still counts,
\* whether or not it left the group since.
DesiredBy(n) ==
  {a \in Active :
     \/ n \in MembersOf(a.group)
     \/ \E q \in Unassigns : q.assignment = a.id /\ n \in q.nodes}

OwedBy(n) == {t \in tasks : t.node = n /\ t.status # "cleaned"}

CleanedBy(n) == {t \in tasks : t.node = n /\ t.status = "cleaned"}

\* Delivery as node n sees it, of the one revision a bundle has here; what the node holds
\* and reports is the business of AgentSync.
Promise(n) == INSTANCE Delivery WITH
  Revs <- [bundle : Bundles, n : {1}],
  desired <- {[id |-> a.id, rev |-> [bundle |-> a.bundle, n |-> 1]] : a \in DesiredBy(n)},
  held <- {},
  reporting <- {},
  observed <- {},
  owed <- {t.assignment : t \in OwedBy(n)},
  cleaned <- {t.assignment : t \in CleanedBy(n)}

\* However the transactions of Core interleave, every node is dealt with as Delivery
\* promises.
ImplementsDelivery ==
  /\ \A n \in Nodes : Promise(n)!DeliveryInit
  /\ [][\A n \in Nodes :
         [Promise(n)!DeliveryNext]_(Promise(n)!deliveryVars)]_vars
=============================================================================
