# Verification of AutoSecrets

TLA+ models of AutoSecrets, the TLC runs that check them and the TLAPS proofs of
what matters most. Every definition is translated from the code; `PROJECT.json`
names the lines of each one.

    tlc -config publication.cfg MCPublication.tla      # any run of PROJECT.json
    tlapm Publication_proofs.tla                       # any module named *_proofs

## The system

Core (Go, PostgreSQL) holds Applications, their Environments, and the Secrets of
each Environment. Administrators edit the **Draft** of an Environment; **Publish**
freezes it into an immutable **Bundle Revision**. Managed Nodes belong to **Node
Groups**; an **Assignment** delivers the bundle of an Environment to a group. The
**Agent** on each node polls its Desired State, writes the files, and reports.

| Component | State | Operations | What is hard | What makes it correct |
|---|---|---|---|---|
| Secrets, Drafts, Revisions (`database/domain.go`, `secrets/handler.go`) | secrets, versions, bindings, draft version and selections, revisions and their files | create, rotate, rebind, edit with If-Match, Publish, Rollback, delete | READ COMMITTED: the statements of one transaction see different snapshots; handlers of several transactions; checks outside them; cascades | a Draft version determines its contents; no lost edit; revisions immutable and deliverable; Assignments follow the newest |
| Groups, Assignments, cleanup tasks (`domain.go`, `unassignment.go`, `fleet/handler.go`) | members, active and removing Assignments, tasks | join, leave, assign, unassign, report, abandon, delete | write skew between two checks, counts before deletes, cascades over tombstones | one source per node and bundle; delivery never stops without cleanup; cleaned is final; unconfirmed cleanup is kept |
| Delivery and convergence (`fleet/delivery.go`, `convergence.go`) | nothing between requests; one row per node and Assignment | desired, report, cleanup report, heartbeat | two reads per answer, late reports, an ETag that must cover everything | 304 only when there is nothing to do; observed only what is on disk |
| Agent (`agent/`) | saved ETag, files, manifests | the convergence pass, forever | crash and failure between any two steps, lost replies, non-atomic writes | what is desired gets to disk; cleanup removes it and is confirmed; failures are retried |
| Node state (`fleet/nodestate.go`) | none | projection | rows of removed Assignments | an unassigned node is never failed |
| Enrollment (`fleet/enroll.go`, `agent/cli.py`, `agent/identity.py`) | tokens, nodes and the serial of their certificate; four files on the host | install command, enroll, delete | separate transactions, late answers, two tokens of one node, crashes between files | a token enrolls once; who is accepted can read what is sealed for the node; enrolled is accepted; deleted is final |
| Identity (`identity/`, `database/identity.go`) | the Administrator, sessions and their grants, challenges, TOTP, recovery codes, login policies, bindings | bootstrap, sign in, renew, step up, change credentials, enroll, bind, unbind | policies checked outside the transaction, replays, revocations that meet requests under way | one Administrator; a way to sign in remains; a code works once; nothing granted before a revocation outlives it |
| Failure limiter (`identity/rate_limit.go`) | a bucket of failures per client source, in memory | ask before an attempt, tell after it | two calls with the attempt between them; the full map | bounded failures; nobody is locked out for good |
| Paginated lists (`database/pagination.go`, `store.go`, `fleet/handler.go`) | none; the client holds a cursor | first page, next page, page by number | rows that come and go between two pages, rows of one moment | a walk shows every row once |
| Activation Policies | action and units of an Environment | replace | required before the first Assignment | |
| Keys and envelopes, search, configuration, console | | | | not modelled, see below |

Components interact through the database (Publish moves the Assignments that
delivery reads; Unassign creates the tasks that delivery hands out) and, between
Core and Agent, through four HTTP requests the Agent makes: desired, report,
cleanup, heartbeat.

## Modules

| Module | Models |
|---|---|
| `Publication` | the publication half of Core, one or more environments |
| `Fleet` | the fleet half of Core |
| `AgentSync` | one node: the Agent's pass against what Core serves and records |
| `Delivery` | what Core promises about one node, without the protocol and without transactions; `AgentSync` and `Fleet` both implement it |
| `Enrollment` | hosts that become nodes: tokens, `handleEnroll`, the Agent's `enroll` |
| `SignIn` | how the Administrator comes by a session, and what ends it |
| `SecondFactor` | TOTP enrollment, TOTP and recovery codes, turning TOTP off |
| `FailureLimiter` | failed attempts per client source |
| `Pages` | a walk through a paginated list |
| `MC*` | instances for TLC |
| `*_proofs` | the theorems about a module and their proofs: `Publication`, `Fleet`, `Enrollment`, `AgentSync`, `SignIn`, `Pages`; `Attempts_proofs` is about `SecondFactor` and `FailureLimiter`, `Identity_proofs` about what `MCIdentity` composes |

### Publication

Each table is a variable, most of them a set of rows. A request that is between
two of its steps is a record of `inflight`; it carries what the handler has read
into local variables, so that what is stale is visible. Where a step begins:

* A transaction whose statements may see different snapshots is one step per
  snapshot that matters: `Publish` is BEGIN (which fixes `created_at`), the read of
  the Draft version, the count of selections, and the copy. The last copying
  statement and COMMIT are one step: nothing is read in between.
* `UpdateDraftSelections` locks the Draft row before it reads, so it is one step.
  Its author is not: `GetDraft` is two statements (`EditVersion`, `EditView`), and
  the PUT comes any time later with the version that was read.
* `DeleteSecretCommit` is one step although the code has two statements:
  `revision_files.secret_id` does not cascade, so a file that appears between the
  purge and the delete makes the delete fail and the transaction roll back.
* `AdvanceDesiredRevision` is a transaction of its own after that of Publish or
  Rollback, and a step of its own. `Abandon` ends a request anywhere; with
  `MayFail` also there, after the revision is committed.
* Requests in the same state would do the same thing, so `inflight` is a set. The
  time a transaction begins doubles as the revision's id.
* The conflict check of `CreateAssignment` across groups belongs to `Fleet`; here
  an Assignment is a group, an environment and a revision. `MarkAssignmentRemoving`
  is also what the cascade of a deleted group does to these rows.

### Fleet

Transactions that read before they write are records of `inflight` between the
two. PostgreSQL's row locks decide what may overlap: `GroupIsFree`, `NodeIsFree`
and `AssignmentsAreFree` say which rows a transaction in flight holds (foreign key
locks of an inserted member or task, the row an UPDATE has changed); a request
that needs one of them waits, which is an action that is not enabled. What the
code does not lock is just as visible: `MemberCheck` and `AssignCheck` read
without holding anything the other needs.
Ids are recycled once no row and no request mentions them, so that two ids stand
for a run of any length. The status `offline` of a task exists in the schema and is
never written.

### AgentSync

Core's side is projected on one node: the Assignments of its groups, what cleanup
it owes (`owed` merges the statuses pending, failed and cleanup_unconfirmed, which
delivery treats alike), what it has confirmed, and its convergence rows.
Administrators act in single steps, but for a publication: `Publish` is the commit of a
Publish or a Rollback, and `AdvanceDesiredRevision` the transaction its handler begins after
that, so that two of them may move an Assignment in the other order, and back (`advancing`
holds what has yet to be moved; a request that is cut off never is). `Assign` has read its
revision before, and may insert an old one. What else these requests do to each other is the
subject of the other two modules. An Assignment that is being removed keeps nothing but its id
and its bundle (`Removed`): no query reads its revision or its group again.

The Agent's pass is a record that moves through
`sync_once`: the two reads of `handleDesired` (`Poll`, `Answer`), `SaveETag`,
cleanup one instruction at a time, then activation one envelope at a time:
files, manifest, report. Core handles a report in two statements without a transaction:
`Resolve` finds the Assignment that points at the revision, `Report` upserts its row whatever
has become of it since. Only if the row of the Assignment is gone does the foreign key refuse
it, and the error ends the pass (`ReportRefused`). An ETag is the set of ids it hashes.
Everything that may fail is an action of its own, bounded by `MaxFailures`: the
process dies at any point, also in the middle of writing `state.json` or a
manifest; a request or its reply is lost; a unit does not stop; an unlink fails and
is skipped; some files are written and others not. A request that is lost in
"desired" is `Crash` at "asked": nothing has happened yet. Left out is a report that Core is
still working on when the Agent has given up: here it is either recorded before the pass goes
on (`LoseReportReply`) or not at all.

### Delivery

The abstract specification of what `AgentSync` and `Fleet` do about one node: `desired` (Assignments with their
revisions), `held` (revisions that are on the node), `reporting` (what the node has begun to
report), `observed`, `owed` and `cleaned`.
It knows no requests, no ETag and no manifest. It promises that a revision becomes
observed of an Assignment only if it was desired of it when the node reported it, and only
while its files are on the node; that an Assignment becomes
`cleaned` only out of `owed`, that what is owed or cleaned does not come back, and that an
Assignment keeps its bundle, whatever revisions it moves to. It does not promise that what is
observed is desired at the time it is recorded, nor that an Assignment moves to later
revisions only: the code does neither (`follow` shows the second). `AgentSync!Promise` is the
refinement mapping:
`desired` is made of the active Assignments and their revisions, `held` of the revisions
whose files are all on the disk, `reporting` of the report between its two statements,
`observed` of the observed revision of each
convergence row; the rest of the Agent's process and its saved ETag do not appear,
so polls, saves, crashes and lost replies are stutters. `AgentSync!ImplementsDelivery`
is checked by `agent`; it is about safety, and `DesiredIsDelivered` and `CleanupIsConfirmed` say that it goes
on.

`AgentSync` lets Administrators act one at a time and follows the wire; `Fleet` lets
their transactions overlap and knows no wire. `Fleet!Promise(n)` maps it to `Delivery` for
node `n`: `desired` is what the active Assignments of its groups deliver, `owed` and
`cleaned` are its tasks, and nothing is held, reported or observed. An Assignment counts as desired of a node as long as an Unassign in
flight has read the node as a member: the node may leave the group before the commit, and is
owed the cleanup of what it was receiving. So both halves keep one contract: what the
transactions of Core do to each other never shows on a node, except as the steps of
`Delivery`. What this does not say is that delivery stops with a cleanup (a node that leaves
its group, or joins it during an Unassign, is `Direct`); `RemovalsAreTasked` does.

### SignIn

The rows of `admins`, `sessions` with their step-up grants, the two policies of
`organization_config`, the two bindings; the browser's login challenge and its external
transaction; `ready`, the providers the process was started with. A request is a record of
a slot, cut where the code commits: `passwordLoginAvailable`, `rejectLastExternalUnbind`
and the policy proof are read before the transaction they decide about, so anything may
commit in between; so may it between the proof of a step-up and `UpsertStepUpGrant`. What is
left in one step with the statement it precedes tells nothing apart. The session a confirmation
or a bind comes from may end before the transaction begins, which then leaves what it leaves
when that session is logged out right after it. `StartLogin` and `StartBinding` look at the
binding, the session and the proof before they insert a transaction row, which grants nothing:
the callback asks for the binding and the session again. A revocation is one step, as its transaction is. Passwords, codes and
external identities that are wrong change nothing here (what they cost is in
`FailureLimiter` and `SecondFactor`).

`since` is a history variable in the rows: "fresh", "stale" for what a revocation should
have ended and did not, "late" for what is issued to a request, or on a challenge, that a
revocation met under way; a grant is told apart likewise, by the proof it was written on. The
code prevents the second and not the third, and the
properties tell them apart. A row inserted between the DELETE and the COMMIT of a revocation
escapes it just as one inserted right after the COMMIT does, and needs no step of its own. `crossed` marks that a change of the ways to sign in committed
while another one was past its checks: no lock excludes it, and the last external identity
may then be unbound while passwords are closed. That is not a lock-out, because
`passwordLoginAvailable` opens passwords by itself when no external login is available.

### SecondFactor

Starting, verifying and confirming an enrollment are requests of their own, the start is two
statements, and `verifySecondFactor` reads the enrollment before it moves the counter.
`DisableTOTP` is its two DELETEs, each with a snapshot of its own: from the first one on it
holds the row it has deleted (`LockedByDisable`) and `organization_config`, so it is alone and
nothing is confirmed (`Disabling`); an enrollment it has missed may be started and verified
before the second one takes all recovery codes.
A code is the enrollment and the period it belongs to; one recovery code of an enrollment
stands for the ten. The codes of an enrollment that is replaced before it is confirmed stay
in their table. `accepted` is a bag, so that a code taken twice is seen. `overtaken` marks a
confirmation between the check of a start and its DELETE, `stripped` the enrollments verified
between the two DELETEs, which are left without recovery codes and may be confirmed all the
same.

### FailureLimiter

The mutex makes `limited`, `failed` and `succeeded` a step each. `attempt` is what lies
between them. The bucket that a full map evicts is whichever the iteration meets.

### Pages

One walk from the first page, or from a page by its number, with any limit, while rows are
inserted and deleted between pages. A row has the time its transaction began, so that an
earlier one may appear after a later one; a time is a second and a fraction of it. A result
is a set of rows in which each has an index, the number of rows that come before it, and
LIMIT and OFFSET are bounds on the index (`Slice`). `due` are the rows that must be met,
`cut` those that a cursor was made of. The list walked is a variable: the handlers differ in where the
cursor comes from (Assignments: the response, which has no fraction of a second; Nodes:
the last row shown, and the list in memory).

### MCIdentity

`SignIn`, `SecondFactor`, `FailureLimiter` and `Pages` share no variable, so no step of one
enables or disables a step of another, and a state of all four is a state of each.
`MCIdentity` extends them and explores one at a time: `part` says which, and the others stay
where they started. The properties of its run are the ones the modules define and the
theorems are about. `SignIn` is explored four times without some of what it can do, since
all of it is too much (`Starts`, `Through` and the operators next to them say what is left
out): the sessions and what revokes them; the ways to sign in with
both providers and restarts, with one session; the two policies against logins under way;
the bindings against step-ups and logins.

### Enrollment

A key pair is the number of the attempt that made it; its certificate, and the serial
in it, are the same number, for Core issues one per request and serials are random.
0 is a file that does not exist or is empty. Where a step begins:

* An administrator's request is `CreatePendingNode` (both ways to reserve a node), then
  `CreateNodeEnrollmentToken` in a transaction of its own, which only needs the node to
  exist: `handleNodeInstallCommand` renders a command for a node that is enrolled, too.
* `handleEnroll` is `ConsumeEnrollmentToken`, one transaction under a row lock;
  `ActivatePendingNode`, issuing the certificate and one UPDATE; and `Reply`. Anything
  may happen in between: `inflight` holds the requests, and `Abandon` loses one
  anywhere. A token that is unknown, expired, used or has gone with its node is
  refused alike.
* `enroll` on the host is `Enroll` (load or make the age key, make the mTLS key, send),
  the reply, and one `SaveIdentity` per file. `GiveUp` is the timeout of 30 seconds;
  Core serves the request nevertheless, and nobody hears the reply. `ca.pem`, the same
  for every node, is written with `cert.pem`.
* `Crash` ends the process before a file is opened, or when it has been truncated.
  The files may then be of two identities. `broken` remembers these hosts until an
  enrollment has finished there; the properties judge no host in between.
* `AcceptedAs` is how any later request of the host is treated: a certificate of the CA
  whose serial is found in `nodes`.

Tokens without a node (`CreateEnrollmentToken`, used by tests only), the expiry of
certificates (nothing renews them) and a service that runs while its host is
enrolled again are left out.

## What is checked

Passing runs:

| Run | Instance | Shows |
|---|---|---|
| `publication` | one environment, two secrets with a path each, one group, two requests in flight | `LabelDeterminesContents`: the "no changes to publish" refusal is right; `EditsSeeWhatTheyReplace`: no lost edit; `EveryRevisionIsDeliverable`; `RevisionsOnlyLoseDeletedSecrets` |
| `bundles` | two environments of one application, one secret each | `BundlesAreIsolated`; deletion of an environment and of the application |
| `fleet` | two nodes, two groups, one bundle, two Assignments, two transactions in flight | `TasksAreOfRemovals`, `CleanedIsFinal`, and `ImplementsDelivery` of each node |
| `serial` | the same with two bundles, one transaction in flight | `SingleSource`, `RemovalsAreTasked`, `ActiveEndsByUnassign`: what the checks achieve when nothing overlaps |
| `enrollment` | two nodes, two hosts, three tokens, three attempts | `TokensAreSingleUse`, `AcceptedCanRead`, `EnrolledIsAccepted`, `DeletedStaysOut` |
| `agent` | one bundle, two revisions, two Assignments, two files, one failure | `NotModifiedIsDone`, `ObservedIsOnDisk`, `ImplementsDelivery`, and under fairness `DesiredIsDelivered`, `CleanupIsConfirmed` |
| `identity` | the four machines of the Administrator's side, see below | sessions: `OneAdministrator`, `SessionsAreCurrent`, `GrantsAreCurrent`, `FactorIsEnforced`, `WaysInAreOpen`, `ChallengesAllowOneAttempt`, `ClosedPasswordHasBinding`; factors: `RequiredIsConfirmed`, `CodesWorkOnce`; limiter: `FailuresAreBounded`, `BucketsAreBounded`, `LimitsAreNotExtended`; lists: `NothingIsShownTwice`, `OnlyCursorsAreSkipped` |

Runs that find a disagreement between the code and what is written about it:

| Run | Finds |
|---|---|
| `follow` | Two publications that advance in the other order, or an Assignment that inserts the revision it read before a publication, leave an active Assignment behind with every request successful. |
| `sources` | `AddGroupMember` and `CreateAssignment` at once: write skew. |
| `retained` | `DeleteNodeGroup` after `Unassign`: the cascade takes the tombstone and its pending tasks. |
| `retry` | A failed activation is not retried: the ETag was saved first, and the next answer is 304. |
| `race` | An Unassign between the two reads of `handleDesired`: cleaned, reported, and written again. |

Under concurrency `RemovalsAreTasked` fails too (a member whose insertion commits
between `InsertUnassignmentTasks` and COMMIT has no task), and so does
`ActiveEndsByUnassign` (an Assignment created after `DeleteNodeGroup` has counted).
Both are listed with their hazards. Processing envelopes before cleanup would not
be caught by `NotModifiedIsDone`: the confirmation changes the ETag, so the next pass
writes the files again.

Three disagreements are in passing runs, as exceptions that their properties name:
`OnlyCursorsAreSkipped` excepts the row at every page boundary, which `trimPage` makes the
cursor of without showing it although `Cursor` is documented as "the last visible row's";
`RequiredIsConfirmed` excepts the start of an enrollment that overwrites one confirmed in
between, although the comment says that "a confirmed enrollment is never overwritten", and an
enrollment verified between the two DELETEs of a `DisableTOTP`, which may be confirmed without
recovery codes although disabling "atomically ... deletes enrollment material and Recovery Codes"
and "Re-enablement always creates a new seed and Recovery Codes".
Without the exceptions TLC finds all three, the last one in 21 steps.

### Bounds

Two requests at once are the smallest number that can race; every race found needs
two. `MaxDraft = 3`, `MaxSeq = 2` and `MaxRevision = 2` allow a creation, a change and a
further one around a publication and a second one, in any order. Two Assignment ids
let one be removed while another of the same bundle is delivered. One failure is
enough to break every promise the code does not keep under failure. `MaxRev = 2`
gives one revision that is superseded, with both orders of the two moves to them. `agent` has
1.6 million states, and its liveness is checked on all of them; `identity` is the largest run,
with 2.4 million. Three attempts on two hosts let one enrollment
succeed, one be late and one replace either; three tokens, two of one node and one of
another, or all of one. In `identity`: two requests at once and two sessions, the one that
a revocation comes from and another; two Bootstrap Codes; one challenge and one external
transaction at a time, those of one browser; two enrollments, the second replacing the
first, three periods and the tolerance of one; three sources for a map of two buckets,
a limit of two and three attempts, so that both overrun; four rows of two seconds with
two fractions each, pages of one or two, and page numbers up to two. The theorems below hold without bounds on
the number of environments, secrets, groups and requests.

`CHECK_DEADLOCK FALSE` is set where the system really stops: in `Publication` once
the environments are deleted or the bounds are reached, in `AgentSync` once a crash
has torn `state.json` and no administrator has anything left to do, in `Enrollment` once
nodes, tokens and attempts are used up, in `MCIdentity` once a walk has ended. `Fleet` is checked for deadlock. Symmetry
(of nodes, groups, bundles and ids; of nodes, hosts and tokens) is used in the runs of
`MCFleet` and `MCEnrollment`, which check no liveness.

### Fairness

Weak fairness of the Agent's steps only (`WF_vars(Agent)` in `AgentSync`): `serve` is
a `while True` that catches every exception, and every request has a timeout, so a
step that is possible is taken. Administrators owe nothing. Failures are separate actions and
never forced; the liveness properties claim nothing once one has happened, because
`retry` shows that nothing can be claimed then. `Publication`, `Fleet`, `Enrollment`
and the modules of `identity` have no liveness properties: a request of Core may be
abandoned at any point.

## What is proved

`Publication_proofs` proves, for all values of the constants that satisfy
`ConstantsAssumption` (functions with the right domains, bounds that are natural
numbers), that `Spec` implies `[]` of every invariant the runs `publication` and
`bundles` check, and the action property `RevisionsOnlyLoseDeletedSecrets`.

`LabelDeterminesContents` is not inductive alone. An edit bumps the version, and the
new one must be a version no revision carries yet: *VersionsArePast*, every version a
request or a revision carries is at most the present one. A Rollback has read the
label of its source in an earlier step than it copies the files, and must still mean
the same revision: *NamesAreStable*, which needs stamps that are never given twice,
*StampsAreUnique*. A deletion takes a secret out of selections and revisions and, by
`live`, out of what an editor may expect to see, in one step, so every file must name
a secret that exists: *DraftsAreSound*, *RevisionsAreSound*, *ViewsAreOwn*. `Inv` is the
conjunction of these with *TypeOK*, *RowsExist*, *PublishedExists*, *AssignmentsExist*
and the properties themselves. The proof has `Init => Inv`, one lemma per action for
`Inv /\ action => Inv'`, and one temporal theorem; the lemmas about `DraftFiles` under
each kind of change come first.

`FollowsWithoutOverlap` says what `AssignmentsFollowTheBundle` takes, which `follow`
refutes. Its hypotheses are that no request dies between its transactions (`MayFail` is
FALSE) and *OneAtATime*: no two requests that insert a revision of one bundle, or are
about to point an Assignment at one, are under way at once. Edits, deletions and what
concerns other bundles may overlap as they like. Then the revision a request holds is the
newest of its bundle, or will be when it is inserted (*NewestIsHeld*), and an Assignment
that is behind has a request that will advance it (*NewestIsDesired*).

Two more theorems say what a check is worth that a handler makes before it commits, with the
one overlap that defeats it as their hypothesis. Neither property holds without it, so no
run has them: the counterexample is the window itself. `NoEmptyPublicationWithoutPurge`:
Publish and Rollback count what they will copy, and a revision that is empty from the start
takes the deletion of a secret between the count and the copy (*PurgesAvoidCopies*,
*CountsAreCurrent*). `AssignedStaysWholeWithoutAssigns`: the deletions of secrets,
environments and applications count active Assignments first, and what is assigned loses
something only if an Assignment was created in between (*DeletesAvoidAssigns*,
*DeletesAreOfUnassigned*).

`Fleet_proofs` is about any nodes, groups, bundles and ids.

`Inv` holds with any number of transactions in flight, and gives `TypeOK`,
`TasksAreOfRemovals` and `CleanedIsFinal`. It rests on the primary key
(*IdsAreUnique*) and on the row lock an Unassign holds on an Assignment that is still
active (*UnassignsAreOfActive*): the lock makes a cascade wait, so the tasks of the
commit always find their tombstone, and it keeps a second Unassign from adding tasks
a second time.

`FleetImplementsDelivery` rests on the same invariant. Most steps leave the tasks of a node
as they are and come down to `Direct` (lemma `PromiseDirect`: an Assignment that is active
has no task, and its id keeps its bundle); a cascade is `Forget` of all it takes, an Unassign
is `Withdraw` for the nodes it has read, and a report is `Confirm` for the one node that
sent it, since a node has one task of an Assignment. `EveryNodeIsPromised` is the same as
an implication between specifications; the property is written out because TLC does not take
a specification under a quantifier.

The checks of Core are made before a transaction commits, and what they are worth depends
on what ran in between. Three theorems name the overlaps that matter, one per check, and
allow all others, in any number:

* `SingleSourceWithoutOverlap`: *SourcesComeAlone*, `AddGroupMember` and
  `CreateAssignment` run one at a time, as one lock taken by both would have it. The conflict
  a request has excluded is then still excluded (*ConflictsAreCurrent*). Two groups that share
  no node say nothing of one another, so `SingleSource` alone does not survive a new member:
  *OneActiveEach*, the partial unique index, is needed for two Assignments of one group.
* `RemovalsAreTaskedWithoutJoins`: *JoinsAvoidUnassigns*, no member joins the group while
  an Unassign of it is open. The nodes an Unassign has read then include the members
  (*NodesAreCurrent*).
* `ActiveEndsByUnassignWithoutAssigns`: *AssignsAvoidDeletes*, no Assignment is being
  created to what is being deleted. What was counted as none is then none
  (*CountsAreCurrent*).

`StepShapes` reduces every step to four shapes, one of which (*Shrinks*) only takes members,
Assignments and requests away and breaks no check. `SerialFleet` is the case of
`MaxInFlight <= 1`, which the run `serial` checks. The conditions are needed: `sources`
refutes `SingleSource` with two transactions.

`Enrollment_proofs` proves all of what `enrollment` checks, for any nodes, hosts, tokens
and number of attempts. Its `Inv` follows one key pair. As long as its request is in
flight, no file has it and no certificate but the one activated for it
(*RequestsAreUnique*, *RequestsAreOfProcesses*); a token that a request has consumed is
spent, and on that request alone (*TokensAreSpent*); after the reply, the process
writes what Core has activated (*ProcessesAreSound*), and files that nothing has torn
belong together (*DisksAreSound*). That an age key stays what it was while attempts are
refused or lost is in the last two: a process has the age key of its disk, and a serial
that Core has on record is recorded with it. *RowsAreCertified* ties both sides together:
the serial of a node comes from a certificate, and only deletion takes it away. The
effects of the steps, field by field, come first; then one lemma per action.

`AgentSync_proofs` has two invariants, both for any files, groups, revisions and failures.

`Inv` gives `TypeOK`, `ObservedIsOnDisk` and the refinement. An observed revision is worth
something because of what the Agent's pass carries: *WrittenIsOnDisk*, from the writing of an
envelope's files to the end of its report, between the two statements of Core included, the
files stay on disk. *ResolvedIsOfItsBundle* says that the Assignment a report has met is still
one of the bundle reported when its row is written, whatever it points at by then and whether
or not it is being removed, and
*CleanupIsOfRemovals* that whatever is owed or cleaned is of an Assignment being removed.
For `Implementation` every step of the Agent and of the
Administrator is mapped in a lemma of its own: the answer of a poll, saving, manifests,
crashes and lost replies to stutters, `Resolve` to `Report`, `Record` to `Observe`, a report
that is cut off or refused to `Lose` or a stutter, a cleanup report to the
confirmation, an advance to `Direct`, and each Administrator's action to its counterpart.
Theorem `Implementation` is
about safety: that delivery goes on is checked by `agent`.

`ETagInv` adds what a 304 needs while nothing has failed (*ETagIsTrue*: an ETag that is saved,
or will be, is of work that is done, or that the pass still has before it). It assumes
*PathsAreDisjoint*, that no two bundles of the node have a file at the same path, which Core
does not check: without it one bundle overwrites the files of another, and nothing is told.

`CleanedIsGoneWithoutRace` says what `CleanedIsGone` takes, which `race` refutes. Its
hypotheses are each something the code does not see to: nothing fails; the Assignments behind
the first read of a poll are not all taken away before the second (*ReadsAgree*, the window
`race` uses); no group is deleted before the node has confirmed (*DeletesOnlyCleaned*,
compare `retained`); paths are disjoint; and the revisions of a bundle have files at the same
paths (*PathsAreStable*: `save_manifest` replaces the manifest, so a file whose path the next
revision does not have stays, and no cleanup knows of it). Publications, new Assignments,
other Unassigns and changes of membership may come at any point of a pass. The invariant
*CleanInv* has two halves. Manifests name what is on the disk, or will (*FilesAreRecorded*).
Files on the disk, and files the pass will still write, have an Assignment that is not
confirmed, and for the latter one this pass will not confirm (*FilesAreOwed*,
*RevisionsAreOwed*), since an Assignment that comes back as a new one is served the old
one's cleanup and its own revision in one response.

`Attempts_proofs`, on `FailureLimiter`: the bound on failures is not inductive, since attempts that are under
way may all fail. *Overrun* counts them as failures already, and what `Admit` adds to it is
paid for by its guard. `LimiterAssumption` asks for positive limits and finitely many attempts.

`Attempts_proofs`, on `SecondFactor`: `RequiredIsConfirmed` needs *NoStartBehind*, that a start which has
passed its check meets no confirmed enrollment unless the confirmation has overtaken it;
*Disables*, that one `DisableTOTP` at most is between its DELETEs, and that it either holds the
row there is or has missed one that is not confirmed, and not verified unless `stripped` has it;
and *HandedOut*, that
the number of an enrollment that is new was never used. `CodesWorkOnce` needs
*CountedCodes*, no TOTP code that was taken is beyond the counter, and *TakenCodes*, no
recovery code that was taken is ever unused again, also not through an enrollment that is
started anew.

`SignIn_proofs` proves all seven properties from one invariant, for any number of sessions,
requests and Bootstrap Codes. *Fine* says what a request under way may rely on, whatever has happened since
it was checked. Lemma `RevokeStep` is the center of it: a revocation changes what requests
rely on, and keeps *Fine* because it makes all others "late". *Alone* is the lock of a
bootstrap and the single use of a challenge, *Nobody* that nothing precedes the first
Administrator. `FactorIsEnforced` follows from *OnePlain*, as the session that is kept
when TOTP is turned on is one.

`Pages_proofs` proves both properties for any rows, times, limits and page numbers. The
lemmas about the operators come first: each list is a strict linear order (`AheadIsStrict`,
`AheadIsTotal`, `AheadIsTransitive`), rows
of a finite set have different indices that fill the numbers from 0 on (`IndexExists`), and a
slice is an initial part of a set once what is before it is left out. The invariant has two
halves: *ShownIsPassed*, every row that was shown is at or before the cursor in the order of
the list, and *DueIsAhead*, every row that is due and was not shown lies beyond the cursor or
is one that the cursors excuse. A keyset query meets all of the second half and none of the
first, whatever was inserted or deleted since. That indices fill the numbers is proved by
counting (an injection into a set of the same size reaches every element), since induction
is not available.

`Identity_proofs` carries these results to `IdentitySpec`, which the run `identity` explores:
each of its seven parts takes steps of one machine and leaves the others alone, and the four
selections of requests for `SignIn` only forbid steps. So `IdentitySpec` implies each of the
four specifications (`SignInIsExplored` and its siblings), and with them `IdentityTypeOK` and
everything else the run checks (`IdentityIsSafe`). The converse is not claimed: `sessions`,
`ways`, `policies` and `bindings` together explore less than `SignIn` can do, and what they
leave out rests on `SignIn_proofs`.

The assumptions on constants are those the modules state (`...Assumption`), which TLC
evaluates on every run.

Model-checked only: the liveness properties, which are outside of what the prover does.

## Not modelled

* Cryptography and formats: sealing, envelopes, certificates, TOTP codes as such; what an
  external provider answers, PKCE and the verification of its tokens.
* Names, modes, owners, validation of paths; operation reasons and risk levels.
* Audit events as such, filters, totals, search, overview: appended or read, never decided
  upon.
* The deletion of expired rows where a query already ignores them.
* The legacy columns of `nodes` (desired_etag, observed_revision, last_result): the
  migrations call them compatibility data.
* The polling interval: the time between passes is any time.
* systemd: a unit that does not stop is `CleanupFails`.
* Two Agents on one node (a manual `sync` beside `serve`).
* The console, deployment, scripts, generated code.

## Plan

1. The node state projection over the convergence rows, as operators checked against the
   rows `AgentSync` can produce.
2. Activation Policies, and the delivery of an envelope although cleanup has failed.
3. An abstract specification of who may act (a way in is open, what was granted is
   current) that `SignIn` implements.
