----------------------------- MODULE AgentSync -----------------------------
(***************************************************************************)
(* One Managed Node: the Agent's convergence pass (sync_once), the files   *)
(* it keeps, and what Core serves it and records of it.                    *)
(*                                                                         *)
(* Core's side is projected on this node: the Assignments it has anything  *)
(* to do with, the cleanup it still owes, and its node_convergence rows.   *)
(* Administrators change that side at any time.  The Agent is sequential:  *)
(* "pass" says where the one pass is.  A pass fails, or dies with its      *)
(* process, in steps of their own, so that fairness never forces a failure.*)
(***************************************************************************)
EXTENDS Naturals, FiniteSets

CONSTANTS
  Bundles,       \* Secret Bundles
  Ids,           \* ids of Assignments
  Paths,         \* File Binding paths
  Contents,      \* contents of files
  FilesOf,       \* FilesOf[r]: the files of revision r
  MaxRev,        \* bound on the revisions of one bundle
  MaxFailures    \* bound on the failures

Rev == [bundle : Bundles, n : 1 .. MaxRev]

File == [path : Paths, content : Contents]

ASSUME AgentAssumption ==
  /\ MaxRev \in Nat \ {0} /\ MaxFailures \in Nat
  /\ FilesOf \in [Rev -> SUBSET File]
  /\ \A r \in Rev : \A f, g \in FilesOf[r] : f.path = g.path => f = g

VARIABLES
  current,       \* current[b]: how many revisions of b are published
  advancing,     \* published revisions the active Assignments have yet to be moved to
  assignments,   \* Assignments of this node's groups, present and past
  owed,          \* ids whose unassignment_tasks row for this node is not "cleaned"
  cleaned,       \* ids whose row is "cleaned"
  rows,          \* node_convergence rows of this node
  etag,          \* the ETag in state.json: none, or the one saved last
  unreadable,    \* is state.json torn?
  disk,          \* files below bundle_dir
  manifests,     \* manifests/<bundle>.json
  torn,          \* bundles whose manifest is torn
  pass,          \* where the convergence pass is
  failures       \* failures so far

vars == <<current, advancing, assignments, owed, cleaned, rows, etag, unreadable, disk,
          manifests, torn, pass, failures>>

revisions == <<current, advancing>>
core == <<revisions, assignments, owed, cleaned, rows>>
state == <<etag, unreadable>>
files == <<disk, manifests, torn>>

-----------------------------------------------------------------------------
(* Rows, files and passes.                                                 *)

Assignment == [id : Ids, bundle : Bundles, n : 1 .. MaxRev, member : BOOLEAN,
               status : {"active", "removing"}]

Row == [id : Ids, observed : 0 .. MaxRev, result : {"ok", "failed"}]

Manifest == [bundle : Bundles, files : SUBSET File]

\* A cleanupInstruction: an Assignment, and its bundle.
Instruction == [id : Ids, bundle : Bundles]

\* A stable hash of the ids of a response.
ETag == [revs : SUBSET Rev, cleanup : SUBSET Ids]

Idle == [at |-> "idle"]

Pass ==
  {Idle}
  \cup [at : {"asked"}, revs : SUBSET Rev]
  \cup [at : {"answered", "working"}, revs : SUBSET Rev, cleanup : SUBSET Instruction]
  \cup [at : {"removed"}, revs : SUBSET Rev, cleanup : SUBSET Instruction, id : Ids, ok : BOOLEAN]
  \cup [at : {"written"}, revs : SUBSET Rev, cleanup : SUBSET Instruction, rev : Rev]
  \cup [at : {"activated"}, revs : SUBSET Rev, cleanup : SUBSET Instruction, rev : Rev,
         ok : BOOLEAN]
  \cup [at : {"resolved"}, revs : SUBSET Rev, cleanup : SUBSET Instruction, rev : Rev, ok : BOOLEAN,
         id : Ids]

TypeOK ==
  /\ current \in [Bundles -> 0 .. MaxRev]
  /\ advancing \subseteq Rev
  /\ assignments \subseteq Assignment
  /\ owed \subseteq Ids /\ cleaned \subseteq Ids
  /\ rows \subseteq Row
  /\ etag \subseteq ETag
  /\ unreadable \in BOOLEAN
  /\ disk \subseteq File
  /\ manifests \subseteq Manifest
  /\ torn \subseteq Bundles
  /\ pass \in Pass
  /\ failures \in 0 .. MaxFailures + 1

Init ==
  /\ current = [b \in Bundles |-> 0] /\ advancing = {}
  /\ assignments = {} /\ owed = {} /\ cleaned = {} /\ rows = {}
  /\ etag = {} /\ unreadable = FALSE
  /\ disk = {} /\ manifests = {} /\ torn = {}
  /\ pass = Idle
  /\ failures = 0

\* What this node receives: active Assignments of the groups it is a member of.
Received == {a \in assignments : a.status = "active" /\ a.member}

RevOf(a) == [bundle |-> a.bundle, n |-> a.n]

AssignedRevisions == {RevOf(a) : a \in Received}

PendingCleanup ==
  {[id |-> a.id, bundle |-> a.bundle] : a \in {x \in assignments : x.id \in owed}}

Write(F) == {f \in disk : \A g \in F : g.path # f.path} \cup F

-----------------------------------------------------------------------------
(* Administrators.  What several requests at once can do is in Fleet and    *)
(* in Publication; here each takes effect in one step.                      *)

\* An id nothing mentions is as good as a fresh one.
Fresh(id) ==
  /\ \A a \in assignments : a.id # id
  /\ \A t \in etag : id \notin t.cleanup
  /\ pass.at \notin {"idle", "asked"} => \A i \in pass.cleanup : i.id # id
  /\ pass.at \in {"removed", "resolved"} => pass.id # id

\* Defect: the assignment points at the revision that will be published next.
AssignNext(id, b, n) ==
  /\ Fresh(id)
  /\ \A a \in Received : a.bundle # b
  /\ assignments' = assignments \cup {[id |-> id, bundle |-> b, n |-> current[b] + 1,
                                       member |-> TRUE, status |-> "active"]}
  /\ UNCHANGED <<revisions, owed, cleaned, rows, state, files, pass, failures>>

\* CreateAssignment for a group of this node, SelectAssignmentConflict finding nothing.  It
\* has read the Desired Revision before, and revisions may have been published since.
Assign(id, b, n) ==
  /\ Fresh(id)
  /\ n <= current[b]
  /\ \A a \in Received : a.bundle # b
  /\ assignments' = assignments \cup {[id |-> id, bundle |-> b, n |-> n,
                                       member |-> TRUE, status |-> "active"]}
  /\ UNCHANGED <<revisions, owed, cleaned, rows, state, files, pass, failures>>

\* Publish or Rollback commits; its request has yet to move the Assignments, or is cut off.
Publish(b) ==
  /\ current[b] < MaxRev
  /\ current' = [current EXCEPT ![b] = @ + 1]
  /\ advancing' = advancing \cup {[bundle |-> b, n |-> current[b] + 1]}
  /\ UNCHANGED <<assignments, owed, cleaned, rows, state, files, pass, failures>>

\* AdvanceDesiredRevision, in the order the requests get to it: it may move them back.
AdvanceDesiredRevision(r) ==
  /\ r \in advancing
  /\ advancing' = advancing \ {r}
  /\ assignments' = {IF a.bundle = r.bundle /\ a.status = "active"
                       THEN [a EXCEPT !.n = r.n] ELSE a : a \in assignments}
  /\ UNCHANGED <<current, owed, cleaned, rows, state, files, pass, failures>>

\* An Assignment that is being removed.  Nothing reads its revision or the membership of its
\* group again, so one value of each stands for all.
Removed(a) == [id |-> a.id, bundle |-> a.bundle, n |-> 1, member |-> FALSE, status |-> "removing"]

\* Unassign: no task for a node that is no longer a member.
Unassign(a) ==
  /\ a.status = "active"
  /\ assignments' = (assignments \ {a}) \cup {Removed(a)}
  /\ owed' = owed \cup (IF a.member THEN {a.id} ELSE {})
  /\ UNCHANGED <<revisions, cleaned, rows, state, files, pass, failures>>

\* RemoveGroupMember: nothing is owed.
LeaveGroup(a) ==
  /\ a.member /\ a.status = "active"
  /\ assignments' = (assignments \ {a}) \cup {[a EXCEPT !.member = FALSE]}
  /\ UNCHANGED <<revisions, owed, cleaned, rows, state, files, pass, failures>>

\* AddGroupMember, SelectGroupMemberConflict finding nothing.
JoinGroup(a) ==
  /\ ~ a.member /\ a.status = "active"
  /\ \A o \in Received : o.bundle # a.bundle
  /\ assignments' = (assignments \ {a}) \cup {[a EXCEPT !.member = TRUE]}
  /\ UNCHANGED <<revisions, owed, cleaned, rows, state, files, pass, failures>>

\* DeleteNodeGroup: a group with removed Assignments only takes them along.
DeleteNodeGroup(a) ==
  /\ a.status = "removing"
  /\ assignments' = assignments \ {a}
  /\ owed' = owed \ {a.id}
  /\ cleaned' = cleaned \ {a.id}
  /\ rows' = {r \in rows : r.id # a.id}
  /\ UNCHANGED <<revisions, state, files, pass, failures>>

-----------------------------------------------------------------------------
(* Polling.                                                                *)

\* load_etag, and handleDesired's first read.
Poll ==
  /\ pass = Idle
  /\ ~ unreadable
  /\ pass' = [at |-> "asked", revs |-> AssignedRevisions]
  /\ UNCHANGED <<core, state, files, failures>>

\* Defect: the cleanup a node owes is not part of its ETag.
ETagOfRevisions(revs, instructions) == [revs |-> revs, cleanup |-> {}]

\* Defect: the ETag names the bundles delivered, not their revisions.
ETagOfBundles(revs, instructions) ==
  [revs |-> {[r EXCEPT !.n = 1] : r \in revs}, cleanup |-> {i.id : i \in instructions}]

ETagOf(revs, instructions) == [revs |-> revs, cleanup |-> {i.id : i \in instructions}]

\* PendingCleanupInstructions, and the comparison with If-None-Match: 304 ends the pass.
Answer ==
  /\ pass.at = "asked"
  /\ pass' = IF ETagOf(pass.revs, PendingCleanup) \in etag THEN Idle
             ELSE [at |-> "answered", revs |-> pass.revs, cleanup |-> PendingCleanup]
  /\ UNCHANGED <<core, state, files, failures>>

NextItem == pass' = [at |-> "working", revs |-> pass.revs, cleanup |-> pass.cleanup]

\* save_etag, before anything the response asks for is done.
SaveETag ==
  /\ pass.at = "answered"
  /\ etag' = {ETagOf(pass.revs, pass.cleanup)}
  /\ NextItem
  /\ UNCHANGED <<core, unreadable, files, failures>>

-----------------------------------------------------------------------------
(* Cleanup.                                                                *)

\* The files of the manifests of bundle b that still have the content recorded.
Recorded(b) == UNION {m.files : m \in {x \in manifests : x.bundle = b}}

Acknowledge(i, ok) ==
  pass' = [at |-> "removed", revs |-> pass.revs, cleanup |-> pass.cleanup \ {i},
           id |-> i.id, ok |-> ok]

\* remove_manifest_files.  A torn manifest cannot be read: the cleanup has failed.
Remove(i) ==
  /\ pass.at = "working" /\ i \in pass.cleanup
  /\ IF i.bundle \in torn
     THEN UNCHANGED <<disk, manifests>>
     ELSE /\ disk' = disk \ Recorded(i.bundle)
          /\ manifests' = {m \in manifests : m.bundle # i.bundle}
  /\ Acknowledge(i, i.bundle \notin torn)
  /\ UNCHANGED <<core, state, torn, failures>>

\* ReportCleanupTask: "failed" leaves the cleanup owed; without a task it is an error,
\* which the Agent logs.
ReportCleanup ==
  /\ pass.at = "removed"
  /\ LET confirmed == IF pass.ok THEN {pass.id} \cap owed ELSE {}
     IN /\ owed' = owed \ confirmed
        /\ cleaned' = cleaned \cup confirmed
  /\ NextItem
  /\ UNCHANGED <<revisions, assignments, rows, state, files, failures>>

-----------------------------------------------------------------------------
(* Activation.                                                             *)

Activated(r, ok) ==
  pass' = [at |-> "activated", revs |-> pass.revs \ {r}, cleanup |-> pass.cleanup,
           rev |-> r, ok |-> ok]

\* Cleanup is done with, one way or another; materialize succeeds.
Materialize(r) ==
  /\ pass.at = "working" /\ pass.cleanup = {} /\ r \in pass.revs
  /\ disk' = Write(FilesOf[r])
  /\ pass' = [at |-> "written", revs |-> pass.revs, cleanup |-> pass.cleanup, rev |-> r]
  /\ UNCHANGED <<core, state, manifests, torn, failures>>

\* save_manifest replaces what the last activation recorded.
SaveManifest ==
  /\ pass.at = "written"
  /\ manifests' = {m \in manifests : m.bundle # pass.rev.bundle}
                  \cup {[bundle |-> pass.rev.bundle, files |-> FilesOf[pass.rev]]}
  /\ torn' = torn \ {pass.rev.bundle}
  /\ Activated(pass.rev, TRUE)
  /\ UNCHANGED <<core, state, disk, failures>>

\* Defect: a report is taken for any Assignment of its bundle, whichever revision that points
\* at by now.
ResolveByBundle ==
  /\ pass.at = "activated"
  /\ \/ (\A a \in Received : a.bundle # pass.rev.bundle) /\ NextItem
     \/ \E a \in Received :
          /\ a.bundle = pass.rev.bundle
          /\ pass' = [at |-> "resolved", revs |-> pass.revs, cleanup |-> pass.cleanup,
                      rev |-> pass.rev, ok |-> pass.ok, id |-> a.id]
  /\ UNCHANGED <<core, state, files, failures>>

\* handleReport: AssignmentForNodeRevision.  A revision no Assignment of the node points at
\* is not recorded.
Resolve ==
  /\ pass.at = "activated"
  /\ \/ pass.rev \notin AssignedRevisions /\ NextItem
     \/ \E a \in Received :
          /\ RevOf(a) = pass.rev
          /\ pass' = [at |-> "resolved", revs |-> pass.revs, cleanup |-> pass.cleanup,
                      rev |-> pass.rev, ok |-> pass.ok, id |-> a.id]
  /\ UNCHANGED <<core, state, files, failures>>

\* The revision observed of an Assignment before a report; none is at first.
Observed(id) == IF \E x \in rows : x.id = id THEN (CHOOSE x \in rows : x.id = id).observed ELSE 0

\* Defect: the observed revision moves on failure too.
RecordAny(id, n, ok) ==
  rows' = {x \in rows : x.id # id}
          \cup {[id |-> id, observed |-> n, result |-> IF ok THEN "ok" ELSE "failed"]}

RecordConvergence(id, n, ok) ==
  rows' = {x \in rows : x.id # id}
          \cup {[id |-> id, observed |-> IF ok THEN n ELSE Observed(id),
                 result |-> IF ok THEN "ok" ELSE "failed"]}

\* The row refers to its Assignment, which may have been deleted since.
AssignmentRemains == \E a \in assignments : a.id = pass.id

\* handleReport: RecordConvergence, whatever has become of the Assignment.
Record ==
  /\ pass.at = "resolved"
  /\ AssignmentRemains
  /\ RecordConvergence(pass.id, pass.rev.n, pass.ok)

Report ==
  /\ Record
  /\ NextItem
  /\ UNCHANGED <<revisions, assignments, owed, cleaned, state, files, failures>>

\* Otherwise the report is answered with an error, which ends the pass.  It may happen with no
\* failure left to happen: the first is counted, whatever MaxFailures.
ReportRefused ==
  /\ pass.at = "resolved"
  /\ ~ AssignmentRemains
  /\ pass' = Idle
  /\ failures' = IF failures = 0 THEN 1 ELSE failures
  /\ UNCHANGED <<core, state, files>>

EndPass ==
  /\ pass.at = "working" /\ pass.cleanup = {} /\ pass.revs = {}
  /\ pass' = Idle
  /\ UNCHANGED <<core, state, files, failures>>

Agent ==
  \/ Poll \/ Answer \/ SaveETag
  \/ \E i \in Instruction : Remove(i)
  \/ ReportCleanup
  \/ \E r \in Rev : Materialize(r)
  \/ SaveManifest \/ Resolve \/ Report \/ ReportRefused \/ EndPass

-----------------------------------------------------------------------------
(* Failures.                                                               *)

Fail ==
  /\ failures < MaxFailures
  /\ failures' = failures + 1

\* The process dies, or a request of it fails and the exception ends the pass.
Crash ==
  /\ Fail
  /\ pass # Idle
  /\ pass' = Idle
  /\ UNCHANGED <<core, state, files>>

\* write_text truncates the file first.
CrashInSaveETag ==
  /\ Fail
  /\ pass.at = "answered"
  /\ unreadable' = TRUE
  /\ pass' = Idle
  /\ UNCHANGED <<core, etag, files>>

CrashInSaveManifest ==
  /\ Fail
  /\ pass.at = "written"
  /\ torn' = torn \cup {pass.rev.bundle}
  /\ pass' = Idle
  /\ UNCHANGED <<core, state, disk, manifests>>

\* Each file is replaced atomically, the set of them is not.
CrashInMaterialize(r, written) ==
  /\ Fail
  /\ pass.at = "working" /\ pass.cleanup = {} /\ r \in pass.revs
  /\ written \subseteq FilesOf[r]
  /\ disk' = Write(written)
  /\ pass' = Idle
  /\ UNCHANGED <<core, state, manifests, torn>>

\* The manifest goes last.
CrashInRemove(i, gone) ==
  /\ Fail
  /\ pass.at = "working" /\ i \in pass.cleanup
  /\ i.bundle \notin torn
  /\ gone \subseteq Recorded(i.bundle)
  /\ disk' = disk \ gone
  /\ pass' = Idle
  /\ UNCHANGED <<core, state, manifests, torn>>

\* Stopping a unit, reading the manifest or the connection fails: "failed" is reported,
\* or that report fails too.
CleanupFails(i) ==
  /\ Fail
  /\ pass.at = "working" /\ i \in pass.cleanup
  /\ Acknowledge(i, FALSE)
  /\ UNCHANGED <<core, state, files>>

\* An unlink that fails is skipped: the file stays, its manifest goes.
RemoveSome(i, kept) ==
  /\ Fail
  /\ pass.at = "working" /\ i \in pass.cleanup
  /\ i.bundle \notin torn
  /\ kept # {} /\ kept \subseteq Recorded(i.bundle)
  /\ disk' = disk \ (Recorded(i.bundle) \ kept)
  /\ manifests' = {m \in manifests : m.bundle # i.bundle}
  /\ Acknowledge(i, TRUE)
  /\ UNCHANGED <<core, state, torn>>

\* The request that says "cleaned" is lost, and so is the one that says "failed".
LoseCleanupReport ==
  /\ Fail
  /\ pass.at = "removed"
  /\ NextItem
  /\ UNCHANGED <<core, state, files>>

\* An envelope that is refused, a disk that is full: some files are written.
ActivationFails(r, written) ==
  /\ Fail
  /\ pass.at = "working" /\ pass.cleanup = {} /\ r \in pass.revs
  /\ written \subseteq FilesOf[r]
  /\ disk' = Write(written)
  /\ Activated(r, FALSE)
  /\ UNCHANGED <<core, state, manifests, torn>>

\* The report is recorded, its reply lost: the exception ends the pass.
LoseReportReply ==
  /\ Fail
  /\ Record
  /\ pass' = Idle
  /\ UNCHANGED <<revisions, assignments, owed, cleaned, state, files>>

Failure ==
  \/ Crash \/ CrashInSaveETag \/ CrashInSaveManifest
  \/ \E i \in Instruction :
       CleanupFails(i) \/ \E S \in SUBSET disk : RemoveSome(i, S) \/ CrashInRemove(i, S)
  \/ LoseCleanupReport
  \/ \E r \in Rev : \E written \in SUBSET FilesOf[r] :
       ActivationFails(r, written) \/ CrashInMaterialize(r, written)
  \/ LoseReportReply

Administrator ==
  \/ \E id \in Ids, b \in Bundles, n \in 1 .. MaxRev : Assign(id, b, n)
  \/ \E b \in Bundles : Publish(b)
  \/ \E r \in Rev : AdvanceDesiredRevision(r)
  \/ \E a \in assignments :
       Unassign(a) \/ LeaveGroup(a) \/ JoinGroup(a) \/ DeleteNodeGroup(a)

Next == Agent \/ Administrator \/ Failure

\* serve polls forever; requests time out.  Nobody owes a change, and nothing a failure.
Spec == Init /\ [][Next]_vars /\ WF_vars(Agent)

-----------------------------------------------------------------------------
(* Properties.                                                             *)

Holds(r) == FilesOf[r] \subseteq disk

\* "The observed revision only moves on success": at the moment it moves, all files of
\* the new one are on the node's disk.
ObservedIsOnDisk ==
  [][\A x \in rows' \ rows : \A a \in assignments :
       /\ a.id = x.id /\ x.observed # 0
       /\ ~ \E y \in rows : y.id = x.id /\ y.observed = x.observed
       => Holds([bundle |-> a.bundle, n |-> x.observed])]_vars

Promise == INSTANCE Delivery WITH
  Revs <- Rev,
  desired <- {[id |-> a.id, rev |-> RevOf(a)] : a \in Received},
  held <- {r \in Rev : Holds(r)},
  reporting <- {[id |-> a.id, rev |-> pass.rev] :
                  a \in {x \in assignments : pass.at = "resolved" /\ pass.ok /\ x.id = pass.id}},
  observed <- {[id |-> x.id, n |-> x.observed] : x \in {y \in rows : y.observed # 0}}

\* Polls, answers, lost reports, crashes and Administrators' requests in between come down to
\* what Delivery promises: a revision is recorded as observed only with all its files on the
\* node, and only of an Assignment that pointed at it when the node reported it; only an
\* Assignment taken from the node is owed a cleanup, and a cleanup that was confirmed stays so.
ImplementsDelivery == Promise!DeliverySpec

\* 304 is right: between passes, when the ETag the node saved is the one Core would compute
\* now, everything assigned is on its disk and no cleanup is left, unless something failed.
NotModifiedIsDone ==
  failures = 0 /\ pass = Idle /\ ETagOf(AssignedRevisions, PendingCleanup) \in etag =>
    PendingCleanup = {} /\ \A r \in AssignedRevisions : Holds(r)

\* While nothing fails, no revision stays Desired without getting to the node's disk.
DesiredIsDelivered ==
  \A r \in Rev : []<>(r \notin AssignedRevisions \/ Holds(r) \/ failures > 0)

\* While nothing fails, no cleanup stays owed: the node confirms it.
CleanupIsConfirmed == \A id \in Ids : []<>(id \notin owed \/ failures > 0)

\* "the agent reports it; the next convergence pass retries": an activation reported as
\* failed does not stay that way while its Assignment stays as it is and nothing else fails.
FailedActivationIsRetried ==
  \A a \in Assignment :
    (a \in Received /\ \E x \in rows : x.id = a.id /\ x.result = "failed")
      ~> (a \notin Received \/ \E x \in rows : x.id = a.id /\ x.result = "ok")

\* "Unassignment cleanup can remove exactly the delivered set": between passes, when every
\* Assignment of a bundle is cleaned, none of its files is left.
CleanedIsGone ==
  pass = Idle =>
    \A b \in Bundles :
      /\ \E a \in assignments : a.bundle = b
      /\ \A a \in assignments : a.bundle = b => a.id \in cleaned
      => \A n \in 1 .. MaxRev : disk \cap FilesOf[[bundle |-> b, n |-> n]] = {}
=============================================================================
