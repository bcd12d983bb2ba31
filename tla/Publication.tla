---------------------------- MODULE Publication ----------------------------
(***************************************************************************)
(* The publication half of Core: Secrets, their Secret Versions and File   *)
(* Bindings, the Draft of each Environment, the Bundle Revisions published *)
(* from it, and the revision every active Assignment points at.            *)
(*                                                                         *)
(* Each table of the database is a variable, most of them sets of rows.    *)
(* Every transaction runs at READ COMMITTED, so a transaction whose        *)
(* statements can see different snapshots is several steps, and so is a    *)
(* handler that runs several transactions.  A request between two such     *)
(* steps is a record of "inflight".  A transaction that locks the rows it  *)
(* depends on before it reads them (or reads nothing) is one step.         *)
(***************************************************************************)
EXTENDS Naturals, FiniteSets

CONSTANTS
  Environments,  \* ids of environments; an id is never used again
  Applications,  \* ids of applications
  AppOf,         \* AppOf[e] is the application environment e belongs to
  Secrets,       \* ids of secrets; an id is never used again
  Home,          \* Home[s] is the environment secret s is created in
  Paths,         \* File Binding paths
  NamePath,      \* NamePath[s] is the path equal to the name of secret s
  Groups,        \* Node Groups
  MayFail        \* may a request die between its transactions?

CONSTANTS        \* bounds on what is unbounded in the program
  MaxSeq,        \* Secret Versions of one secret
  MaxDraft,      \* version of a Draft
  MaxRevision,   \* transactions that insert a Bundle Revision
  MaxInFlight    \* requests in flight at once

ASSUME ConstantsAssumption ==
  /\ AppOf \in [Environments -> Applications]
  /\ Home \in [Secrets -> Environments]
  /\ NamePath \in [Secrets -> Paths]
  /\ MayFail \in BOOLEAN
  /\ MaxSeq \in Nat \ {0} /\ MaxDraft \in Nat
  /\ MaxRevision \in Nat /\ MaxInFlight \in Nat

VARIABLES
  environments,  \* environments that have a row
  live,          \* secrets that have a row
  latest,        \* latest[s]: highest seq in secret_versions, 0 before the secret exists
  binding,       \* binding[s]: the path of the one File Binding of s
  draft,         \* draft[e]: version of the Draft, 0 while it has no row
  selections,    \* draft_selections
  revisions,     \* bundle_revisions, each with its revision_files
  clock,         \* revision transactions begun: created_at is the transaction's start
  assignments,   \* active rows of assignments
  inflight       \* requests between two of their steps

vars == <<environments, live, latest, binding, draft, selections, revisions,
          clock, assignments, inflight>>

secretVars == <<live, latest, binding>>
draftVars == <<draft, selections>>

-----------------------------------------------------------------------------
(* Rows and requests.                                                      *)

Stamp == 1 .. MaxRevision

File == [secret : Secrets, seq : 1 .. MaxSeq, path : Paths]

Selection == [env : Environments, secret : Secrets, seq : 1 .. MaxSeq]

\* created_at orders revisions and stands for the id: no two begin at one instant.
Revision == [id : Stamp, env : Environments, draft : 0 .. MaxDraft, files : SUBSET File]

Assignment == [group : Groups, env : Environments, rev : Stamp]

PublishRequest ==
  [op : {"publish"}, env : Environments, draft : 0 .. MaxDraft, rev : {0},
   at : {"drafted", "checked"}]
  \cup [op : {"publish"}, env : Environments, draft : 0 .. MaxDraft, rev : Stamp,
        at : {"begun", "read", "counted", "published"}]

RollbackRequest ==
  [op : {"rollback"}, env : Environments, src : Stamp, draft : 0 .. MaxDraft, rev : Stamp,
   at : {"begun", "counted", "published"}]

EditRequest ==
  [op : {"edit"}, env : Environments, draft : 1 .. MaxDraft, view : SUBSET File,
   at : {"versioned", "viewed"}]

AssignRequest == [op : {"assign"}, group : Groups, env : Environments, rev : Stamp]

DeleteSecretRequest == [op : {"delete_secret"}, secret : Secrets]

DeleteRequest == [op : {"delete"}, scope : SUBSET Environments]

Request == UNION {PublishRequest, RollbackRequest, EditRequest, AssignRequest,
                  DeleteSecretRequest, DeleteRequest}

SelectionsOf(e) == {d \in selections : d.env = e}

RevisionsOf(e) == {r \in revisions : r.env = e}

\* What InsertRevisionFilesFromDraft would copy now: selections joined with bindings.
DraftFiles(e) ==
  {[secret |-> d.secret, seq |-> d.seq, path |-> binding[d.secret]] : d \in SelectionsOf(e)}

\* ORDER BY created_at DESC LIMIT 1.
IsLatest(r) ==
  /\ r \in revisions
  /\ \A o \in RevisionsOf(r.env) : o.id <= r.id

\* The files that survive the deletion of the secrets outside S.
FilesOf(files, S) == {f \in files : f.secret \in S}

TypeOK ==
  /\ environments \subseteq Environments
  /\ live \subseteq Secrets
  /\ latest \in [Secrets -> 0 .. MaxSeq]
  /\ binding \in [Secrets -> Paths]
  /\ draft \in [Environments -> 0 .. MaxDraft]
  /\ selections \subseteq Selection
  /\ revisions \subseteq Revision
  /\ clock \in 0 .. MaxRevision
  /\ assignments \subseteq Assignment
  /\ inflight \subseteq Request

Init ==
  /\ environments = Environments
  /\ live = {}
  /\ latest = [s \in Secrets |-> 0]
  /\ binding = NamePath
  /\ draft = [e \in Environments |-> 0]
  /\ selections = {}
  /\ revisions = {}
  /\ clock = 0
  /\ assignments = {}
  /\ inflight = {}

-----------------------------------------------------------------------------
(* Requests: one arrives, moves to its next step, or ends.  Requests in the *)
(* same state would do the same, the later ones to be refused: a set is      *)
(* enough.                                                                   *)

Arrive(q) ==
  /\ Cardinality(inflight) < MaxInFlight
  /\ inflight' = inflight \cup {q}

Become(q, p) == inflight' = (inflight \ {q}) \cup {p}

End(q) == inflight' = inflight \ {q}

\* A refusal, an error, a dropped connection or a restart of Core: the open
\* transaction rolls back and nothing of the request remains.  What an earlier
\* transaction of the request committed stays, which is a failure of its own.
Abandon(q) ==
  /\ q.op \in {"publish", "rollback"} /\ q.at = "published" => MayFail
  /\ End(q)
  /\ UNCHANGED <<environments, secretVars, draftVars, revisions, clock, assignments>>

-----------------------------------------------------------------------------
(* Secrets, versions and bindings.                                         *)

BumpDraft(e) ==
  /\ draft[e] < MaxDraft
  /\ draft' = [draft EXCEPT ![e] = @ + 1]

\* The selections after n becomes the selected version of s in environment e.
Reselect(e, s, n) ==
  {IF d.env = e /\ d.secret = s THEN [d EXCEPT !.seq = n] ELSE d : d \in selections}

\* Defect: the Draft selects the version before the first.
CreateSelectingNothing(s) ==
  /\ Home[s] \in environments /\ latest[s] = 0
  /\ live' = live \cup {s}
  /\ latest' = [latest EXCEPT ![s] = 1]
  /\ selections' = selections \cup {[env |-> Home[s], secret |-> s, seq |-> 0]}
  /\ BumpDraft(Home[s])
  /\ UNCHANGED <<environments, binding, revisions, clock, assignments, inflight>>

CreateSecretWithValue(s) ==
  /\ Home[s] \in environments
  /\ latest[s] = 0
  /\ \A o \in live : Home[o] = Home[s] => NamePath[o] # NamePath[s]
  /\ live' = live \cup {s}
  /\ latest' = [latest EXCEPT ![s] = 1]
  /\ binding' = [binding EXCEPT ![s] = NamePath[s]]
  /\ selections' = selections \cup {[env |-> Home[s], secret |-> s, seq |-> 1]}
  /\ BumpDraft(Home[s])
  /\ UNCHANGED <<environments, revisions, clock, assignments, inflight>>

\* Defect: a new Secret Version is selected, and the Draft keeps its version.
AddVersionWithoutBump(s) ==
  /\ s \in live /\ latest[s] < MaxSeq
  /\ latest' = [latest EXCEPT ![s] = @ + 1]
  /\ selections' = Reselect(Home[s], s, latest[s] + 1)
  /\ UNCHANGED <<environments, live, binding, draft, revisions, clock, assignments, inflight>>

AddSecretVersion(s) ==
  /\ s \in live
  /\ latest[s] < MaxSeq
  /\ latest' = [latest EXCEPT ![s] = @ + 1]
  /\ selections' = Reselect(Home[s], s, latest[s] + 1)
  /\ BumpDraft(Home[s])
  /\ UNCHANGED <<environments, live, binding, revisions, clock, assignments, inflight>>

\* Defect: the binding moves, and the Draft keeps its version.
UpdateBindingWithoutBump(s, p) ==
  /\ s \in live
  /\ binding' = [binding EXCEPT ![s] = p]
  /\ UNCHANGED <<environments, live, latest, draftVars, revisions, clock, assignments, inflight>>

UpdateBinding(s, p) ==
  /\ s \in live
  /\ binding' = [binding EXCEPT ![s] = p]
  /\ BumpDraft(Home[s])
  /\ UNCHANGED <<environments, live, latest, selections, revisions, clock, assignments,
                 inflight>>

-----------------------------------------------------------------------------
(* Draft editing: GET the Draft, then PUT selections with If-Match.        *)

\* GetDraft, first statement: the version.
EditVersion(e) ==
  /\ draft[e] > 0
  /\ Arrive([op |-> "edit", env |-> e, draft |-> draft[e], view |-> {}, at |-> "versioned"])
  /\ UNCHANGED <<environments, secretVars, draftVars, revisions, clock, assignments>>

\* GetDraft, second statement: the selections and their bindings.
EditView(q) ==
  /\ q.op = "edit" /\ q.at = "versioned"
  /\ Become(q, [q EXCEPT !.view = DraftFiles(q.env), !.at = "viewed"])
  /\ UNCHANGED <<environments, secretVars, draftVars, revisions, clock, assignments>>

\* Defect: SelectDraftSelectionExists without the join that ties secret and Draft.
SubmitAnySecret(q, chosen) ==
  /\ q.op = "edit" /\ q.at = "viewed"
  /\ draft[q.env] = q.draft
  /\ \A s \in DOMAIN chosen : s \in live /\ chosen[s] <= latest[s]
  /\ selections' = {d \in selections : ~(d.env = q.env /\ d.secret \in DOMAIN chosen)}
                   \cup {[env |-> q.env, secret |-> s, seq |-> chosen[s]] : s \in DOMAIN chosen}
  /\ BumpDraft(q.env)
  /\ End(q)
  /\ UNCHANGED <<environments, secretVars, revisions, clock, assignments>>

\* UpdateDraftSelections: the Draft row is locked first, so this is one step.
\* "chosen" maps each secret of the request to the version it selects.
EditSubmit(q, chosen) ==
  /\ q.op = "edit" /\ q.at = "viewed"
  /\ draft[q.env] = q.draft
  /\ \A s \in DOMAIN chosen : s \in live /\ Home[s] = q.env /\ chosen[s] <= latest[s]
  /\ selections' = {d \in selections : ~(d.env = q.env /\ d.secret \in DOMAIN chosen)}
                   \cup {[env |-> q.env, secret |-> s, seq |-> chosen[s]] : s \in DOMAIN chosen}
  /\ BumpDraft(q.env)
  /\ End(q)
  /\ UNCHANGED <<environments, secretVars, revisions, clock, assignments>>

-----------------------------------------------------------------------------
(* Publish: two reads, a transaction of four statements, and an update.    *)

\* GetEnvironment and GetDraft.
PublishDraft(e) ==
  /\ e \in environments
  /\ draft[e] > 0
  /\ Arrive([op |-> "publish", env |-> e, draft |-> draft[e], rev |-> 0, at |-> "drafted"])
  /\ UNCHANGED <<environments, secretVars, draftVars, revisions, clock, assignments>>

\* ListRevisions: refuse when the newest one carries the Draft version just read.
PublishCheck(q) ==
  /\ q.op = "publish" /\ q.at = "drafted"
  /\ \A r \in RevisionsOf(q.env) : IsLatest(r) => r.draft # q.draft
  /\ Become(q, [q EXCEPT !.at = "checked"])
  /\ UNCHANGED <<environments, secretVars, draftVars, revisions, clock, assignments>>

\* BEGIN fixes now(), and with it created_at.
PublishBegin(q) ==
  /\ q.op = "publish" /\ q.at = "checked"
  /\ clock < MaxRevision
  /\ clock' = clock + 1
  /\ Become(q, [q EXCEPT !.rev = clock + 1, !.at = "begun"])
  /\ UNCHANGED <<environments, secretVars, draftVars, revisions, assignments>>

\* SelectDraftIDVersion: the version the revision will be labelled with.
PublishRead(q) ==
  /\ q.op = "publish" /\ q.at = "begun"
  /\ draft[q.env] > 0
  /\ Become(q, [q EXCEPT !.draft = draft[q.env], !.at = "read"])
  /\ UNCHANGED <<environments, secretVars, draftVars, revisions, clock, assignments>>

\* CountDraftSelections: an empty Draft is refused.
PublishCount(q) ==
  /\ q.op = "publish" /\ q.at = "read"
  /\ SelectionsOf(q.env) # {}
  /\ Become(q, [q EXCEPT !.at = "counted"])
  /\ UNCHANGED <<environments, secretVars, draftVars, revisions, clock, assignments>>

\* Defect: publishing a Draft version again replaces the revision that has its label.
PublishOver(q) ==
  /\ q.op = "publish" /\ q.at = "counted"
  /\ q.env \in environments
  /\ revisions' = {r \in revisions : r.env # q.env \/ r.draft # q.draft}
                  \cup {[id |-> q.rev, env |-> q.env, draft |-> q.draft, files |-> DraftFiles(q.env)]}
  /\ Become(q, [q EXCEPT !.at = "published"])
  /\ UNCHANGED <<environments, secretVars, draftVars, clock, assignments>>

\* InsertBundleRevision, InsertRevisionFilesFromDraft, COMMIT.
PublishCommit(q) ==
  /\ q.op = "publish" /\ q.at = "counted"
  /\ q.env \in environments
  /\ revisions' = revisions \cup {[id |-> q.rev, env |-> q.env, draft |-> q.draft,
                                   files |-> DraftFiles(q.env)]}
  /\ Become(q, [q EXCEPT !.at = "published"])
  /\ UNCHANGED <<environments, secretVars, draftVars, clock, assignments>>

-----------------------------------------------------------------------------
(* Rollback: copy an earlier revision into a new one.                      *)

\* GetEnvironment and BEGIN; the source is a revision the client has seen, of any bundle.
RollbackBegin(e, src) ==
  /\ e \in environments
  /\ \E r \in revisions : r.id = src
  /\ clock < MaxRevision
  /\ clock' = clock + 1
  /\ Arrive([op |-> "rollback", env |-> e, src |-> src, draft |-> 0, rev |-> clock + 1,
             at |-> "begun"])
  /\ UNCHANGED <<environments, secretVars, draftVars, revisions, assignments>>

\* SelectRevisionDraftVersion and CountRevisionFiles: a draft_version never changes.
RollbackRead(q) ==
  /\ q.op = "rollback" /\ q.at = "begun"
  /\ \E r \in RevisionsOf(q.env) :
       /\ r.id = q.src
       /\ r.files # {}
       /\ Become(q, [q EXCEPT !.draft = r.draft, !.at = "counted"])
  /\ UNCHANGED <<environments, secretVars, draftVars, revisions, clock, assignments>>

\* InsertBundleRevision, InsertRevisionFilesCopy, COMMIT.
RollbackCommit(q) ==
  /\ q.op = "rollback" /\ q.at = "counted"
  /\ \E r \in RevisionsOf(q.env) :
       /\ r.id = q.src
       /\ revisions' = revisions \cup {[id |-> q.rev, env |-> q.env, draft |-> q.draft,
                                        files |-> r.files]}
  /\ Become(q, [q EXCEPT !.at = "published"])
  /\ UNCHANGED <<environments, secretVars, draftVars, clock, assignments>>

\* The second transaction of Publish and of Rollback.
AdvanceDesiredRevision(q) ==
  /\ q.op \in {"publish", "rollback"} /\ q.at = "published"
  /\ assignments' = {IF a.env = q.env THEN [a EXCEPT !.rev = q.rev] ELSE a : a \in assignments}
  /\ End(q)
  /\ UNCHANGED <<environments, secretVars, draftVars, revisions, clock>>

-----------------------------------------------------------------------------
(* Assignments, as far as publication sees them.                           *)

\* CreateAssignment, up to SelectLatestRevision: without a revision it is refused.
AssignRead(g, e) ==
  /\ e \in environments
  /\ \E r \in RevisionsOf(e) :
       /\ IsLatest(r)
       /\ Arrive([op |-> "assign", group |-> g, env |-> e, rev |-> r.id])
  /\ UNCHANGED <<environments, secretVars, draftVars, revisions, clock, assignments>>

\* InsertAssignment and COMMIT: the foreign key and the partial unique index.
AssignInsert(q) ==
  /\ q.op = "assign"
  /\ \E r \in revisions : r.id = q.rev
  /\ ~ \E a \in assignments : a.group = q.group /\ a.env = q.env
  /\ assignments' = assignments \cup {[group |-> q.group, env |-> q.env, rev |-> q.rev]}
  /\ End(q)
  /\ UNCHANGED <<environments, secretVars, draftVars, revisions, clock>>

\* MarkAssignmentRemoving: the row leaves the active ones for good.
MarkAssignmentRemoving(a) ==
  /\ assignments' = assignments \ {a}
  /\ UNCHANGED <<environments, secretVars, draftVars, revisions, clock, inflight>>

-----------------------------------------------------------------------------
(* Deletion: a count outside the transaction, then the transaction.        *)

Assigned(E) == \E a \in assignments : a.env \in E

\* DeleteSecret: CountActiveAssignmentsForSecret.
DeleteSecretCount(s) ==
  /\ s \in live
  /\ ~ Assigned({Home[s]})
  /\ Arrive([op |-> "delete_secret", secret |-> s])
  /\ UNCHANGED <<environments, secretVars, draftVars, revisions, clock, assignments>>

\* Defect: the files stay behind, and nothing refers them to their secret.
DeleteSecretOnly(q) ==
  /\ q.op = "delete_secret" /\ q.secret \in live
  /\ live' = live \ {q.secret}
  /\ selections' = {d \in selections : d.secret # q.secret}
  /\ End(q)
  /\ UNCHANGED <<environments, latest, binding, draft, revisions, clock, assignments>>

\* DeleteRevisionFilesForSecret, DeleteSecretByID, COMMIT.  revision_files.secret_id does
\* not cascade: a row that appears between the two statements makes the second one fail,
\* so the transaction succeeds only as one step.  Versions and selections cascade.
DeleteSecretCommit(q) ==
  /\ q.op = "delete_secret"
  /\ q.secret \in live
  /\ live' = live \ {q.secret}
  /\ selections' = {d \in selections : d.secret # q.secret}
  /\ revisions' = {[r EXCEPT !.files = FilesOf(r.files, Secrets \ {q.secret})] : r \in revisions}
  /\ End(q)
  /\ UNCHANGED <<environments, latest, binding, draft, clock, assignments>>

\* DeleteEnvironment and DeleteApplication differ in the environments they take along.
Scopes == {{e} : e \in Environments} \cup {{e \in Environments : AppOf[e] = a} : a \in Applications}

\* CountActiveAssignmentsForEnvironment, CountActiveAssignmentsForApplication.
DeleteCount(S) ==
  /\ S \cap environments # {}
  /\ ~ Assigned(S)
  /\ Arrive([op |-> "delete", scope |-> S])
  /\ UNCHANGED <<environments, secretVars, draftVars, revisions, clock, assignments>>

\* Everything below the environments goes with them, by ON DELETE CASCADE.
DeleteCommit(q) ==
  /\ q.op = "delete"
  /\ q.scope \cap environments # {}
  /\ environments' = environments \ q.scope
  /\ live' = {s \in live : Home[s] \notin q.scope}
  /\ draft' = [e \in Environments |-> IF e \in q.scope THEN 0 ELSE draft[e]]
  /\ selections' = {d \in selections : d.env \notin q.scope}
  /\ revisions' = {r \in revisions : r.env \notin q.scope}
  /\ assignments' = {a \in assignments : a.env \notin q.scope}
  /\ End(q)
  /\ UNCHANGED <<latest, binding, clock>>

-----------------------------------------------------------------------------

Next ==
  \/ \E s \in Secrets :
       \/ CreateSecretWithValue(s)
       \/ AddSecretVersion(s)
       \/ \E p \in Paths : UpdateBinding(s, p)
       \/ DeleteSecretCount(s)
  \/ \E e \in Environments :
       \/ EditVersion(e)
       \/ PublishDraft(e)
       \/ \E src \in Stamp : RollbackBegin(e, src)
       \/ \E g \in Groups : AssignRead(g, e)
  \/ \E q \in inflight :
       \/ EditView(q)
       \/ \E S \in SUBSET Secrets \ {{}} : \E c \in [S -> 1 .. MaxSeq] : EditSubmit(q, c)
       \/ PublishCheck(q)
       \/ PublishBegin(q)
       \/ PublishRead(q)
       \/ PublishCount(q)
       \/ PublishCommit(q)
       \/ RollbackRead(q)
       \/ RollbackCommit(q)
       \/ AdvanceDesiredRevision(q)
       \/ AssignInsert(q)
       \/ DeleteSecretCommit(q)
       \/ DeleteCommit(q)
       \/ Abandon(q)
  \/ \E a \in assignments : MarkAssignmentRemoving(a)
  \/ \E S \in Scopes : DeleteCount(S)

Spec == Init /\ [][Next]_vars

-----------------------------------------------------------------------------
(* Properties.                                                             *)

\* The version a revision is labelled with is read before its files are copied, every
\* edit bumps the version, and a deletion takes the secret out of both.  So a revision
\* whose label is the current Draft version holds exactly what the Draft holds: when
\* handlePublish refuses with "no changes to publish", there are none.
LabelDeterminesContents ==
  \A r \in revisions : r.draft = draft[r.env] => r.files = DraftFiles(r.env)

\* Optimistic concurrency: whenever the If-Match of a PUT /draft would be accepted, what
\* its author looked at is the Draft as it stands, less the secrets deleted since.
\* UpdateDraftSelections never overwrites a change its author has not seen.
EditsSeeWhatTheyReplace ==
  \A q \in inflight :
    q.op = "edit" /\ q.at = "viewed" /\ q.draft = draft[q.env]
      => DraftFiles(q.env) = FilesOf(q.view, live)

\* handleDesired can build the envelope of every revision: each file names a secret that
\* still has a row, and a Secret Version that exists.
EveryRevisionIsDeliverable ==
  \A r \in revisions : \A f \in r.files : f.secret \in live /\ f.seq <= latest[f.secret]

\* Nothing crosses environments: Drafts select, and revisions hold, secrets of their own
\* environment, and an Assignment delivers an existing revision of its own bundle.
BundlesAreIsolated ==
  /\ \A d \in selections : Home[d.secret] = d.env
  /\ \A r \in revisions : \A f \in r.files : Home[f.secret] = r.env
  /\ \A a \in assignments : \E r \in revisions : r.id = a.rev /\ r.env = a.env

\* A committed revision stays as it is for as long as its environment exists, except that
\* deleting a secret takes that secret's file out of it (DeleteRevisionFilesForSecret).
RevisionsOnlyLoseDeletedSecrets ==
  [][\A r \in revisions : r.env \in environments' =>
       [r EXCEPT !.files = FilesOf(r.files, live')] \in revisions']_vars

\* "follows the Bundle's current Desired Revision instead of pinning an obsolete
\* snapshot": with no request in flight, active Assignments point at the newest revision.
AssignmentsFollowTheBundle ==
  inflight = {} =>
    \A a \in assignments : \E r \in revisions : IsLatest(r) /\ r.env = a.env /\ r.id = a.rev
=============================================================================
