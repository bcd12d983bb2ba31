------------------------- MODULE Publication_proofs -------------------------
(***************************************************************************)
(* Proofs about Publication, for every value of its constants.             *)
(*                                                                         *)
(* None of the safety properties is inductive: what a commit inserts was   *)
(* read steps earlier, by a request that holds no lock.  "Inv" says what   *)
(* remains true of such a request while others run: the Draft version it   *)
(* read is no later than the Draft's, the creation stamp it holds is       *)
(* nobody else's, the revision it names has not become another one.        *)
(***************************************************************************)
EXTENDS Publication, TLAPS

\* A request whose transaction will insert the revision stamped q.rev.
Inserting(q) ==
  \/ q.op = "publish" /\ q.at \in {"begun", "read", "counted"}
  \/ q.op = "rollback" /\ q.at \in {"begun", "counted"}

\* A request that holds a Draft version it has read, or copied from a revision.
HoldsVersion(q) ==
  \/ q.op = "publish" /\ q.at \in {"read", "counted"}
  \/ q.op = "rollback" /\ q.at = "counted"
  \/ q.op = "edit"

\* What the cascades keep: rows refer to rows that exist.
RowsExist ==
  /\ \A s \in live : Home[s] \in environments
  /\ \A e \in Environments \ environments : draft[e] = 0
  /\ \A r \in revisions : r.env \in environments

\* A Draft selects versions that exist of secrets of its own environment.
DraftsAreSound ==
  \A d \in selections :
    d.secret \in live /\ d.seq <= latest[d.secret] /\ Home[d.secret] = d.env

\* And so does every revision copied from one.
RevisionsAreSound ==
  \A r \in revisions : \A f \in r.files :
    f.secret \in live /\ f.seq <= latest[f.secret] /\ Home[f.secret] = r.env

\* The creation stamp identifies a revision.
IdsAreUnique == \A r, o \in revisions : r.id = o.id => r = o

\* A creation stamp belongs to one revision or to one transaction, for good.
StampsAreUnique ==
  /\ \A r \in revisions : r.id <= clock
  /\ IdsAreUnique
  /\ \A q \in inflight : Inserting(q) => q.rev <= clock
  /\ \A q \in inflight : Inserting(q) => \A r \in revisions : r.id # q.rev
  /\ \A p, q \in inflight : Inserting(p) /\ Inserting(q) /\ p.rev = q.rev => p = q

\* The versions that revisions and requests carry are not from the future.
VersionsArePast ==
  /\ \A r \in revisions : r.draft <= draft[r.env]
  /\ \A q \in inflight :
       HoldsVersion(q) /\ q.env \in environments => q.draft <= draft[q.env]

\* A revision a request names is the one it meant, as long as it exists.
NamesAreStable ==
  /\ \A q \in inflight : q.op = "rollback" /\ Inserting(q) =>
       /\ q.src <= clock
       /\ \A p \in inflight : Inserting(p) => p.rev # q.src
       /\ q.at = "counted" => \A r \in revisions : r.id = q.src => r.draft = q.draft
  /\ \A q \in inflight : q.op = "assign" =>
       /\ q.rev <= clock
       /\ \A p \in inflight : Inserting(p) => p.rev # q.rev
       /\ \A r \in revisions : r.id = q.rev => r.env = q.env

\* What the author of an edit looked at belongs to the environment edited.
ViewsAreOwn ==
  \A q \in inflight : q.op = "edit" => \A f \in q.view : Home[f.secret] = q.env

\* A revision about to be made the Desired Revision is there, unless its bundle is gone.
PublishedExists ==
  \A q \in inflight :
    q.op \in {"publish", "rollback"} /\ q.at = "published" /\ q.env \in environments
      => \E r \in revisions : r.id = q.rev /\ r.env = q.env

\* An Assignment delivers an existing revision of its own bundle.
AssignmentsExist ==
  \A a \in assignments : \E r \in revisions : r.id = a.rev /\ r.env = a.env

Inv ==
  /\ TypeOK
  /\ RowsExist
  /\ DraftsAreSound
  /\ RevisionsAreSound
  /\ StampsAreUnique
  /\ VersionsArePast
  /\ NamesAreStable
  /\ ViewsAreOwn
  /\ PublishedExists
  /\ AssignmentsExist
  /\ LabelDeterminesContents
  /\ EditsSeeWhatTheyReplace

-----------------------------------------------------------------------------
(* Type correctness.                                                       *)

LEMMA RequestForms ==
  ASSUME NEW q \in Request
  PROVE  /\ q.op = "publish" => q \in PublishRequest
         /\ q.op = "rollback" => q \in RollbackRequest
         /\ q.op = "edit" => q \in EditRequest
         /\ q.op = "assign" => q \in AssignRequest
         /\ q.op = "delete_secret" => q \in DeleteSecretRequest
         /\ q.op = "delete" => q \in DeleteRequest
  BY DEF Request, PublishRequest, RollbackRequest, EditRequest, AssignRequest,
         DeleteSecretRequest, DeleteRequest

LEMMA DraftFilesType ==
  ASSUME TypeOK, NEW e \in Environments
  PROVE  DraftFiles(e) \subseteq File
  BY DEF TypeOK, DraftFiles, SelectionsOf, Selection, File

LEMMA TypeStep ==
  ASSUME TypeOK, [Next]_vars
  PROVE  TypeOK'
<1> USE ConstantsAssumption
<1>1. ASSUME NEW s \in Secrets, CreateSecretWithValue(s)
      PROVE  TypeOK'
  <2>1. selections' \subseteq Selection
    BY <1>1 DEF TypeOK, Selection, CreateSecretWithValue
  <2>2. latest' \in [Secrets -> 0 .. MaxSeq]
    BY <1>1 DEF TypeOK, CreateSecretWithValue
  <2>3. draft' \in [Environments -> 0 .. MaxDraft]
    BY <1>1 DEF TypeOK, CreateSecretWithValue, BumpDraft
  <2> QED
    BY <1>1, <2>1, <2>2, <2>3 DEF TypeOK, CreateSecretWithValue
<1>2. ASSUME NEW s \in Secrets, AddSecretVersion(s)
      PROVE  TypeOK'
  <2>1. latest' \in [Secrets -> 0 .. MaxSeq] /\ latest[s] + 1 \in 1 .. MaxSeq
    BY <1>2 DEF TypeOK, AddSecretVersion
  <2>2. selections' \subseteq Selection
    BY <1>2, <2>1 DEF TypeOK, Selection, AddSecretVersion, Reselect
  <2>3. draft' \in [Environments -> 0 .. MaxDraft]
    BY <1>2 DEF TypeOK, AddSecretVersion, BumpDraft
  <2> QED
    BY <1>2, <2>1, <2>2, <2>3 DEF TypeOK, AddSecretVersion
<1>3. ASSUME NEW s \in Secrets, NEW p \in Paths, UpdateBinding(s, p)
      PROVE  TypeOK'
  <2>1. draft' \in [Environments -> 0 .. MaxDraft]
    BY <1>3 DEF TypeOK, UpdateBinding, BumpDraft
  <2> QED
    BY <1>3, <2>1 DEF TypeOK, UpdateBinding
<1>4. ASSUME NEW s \in Secrets, DeleteSecretCount(s)
      PROVE  TypeOK'
  <2>1. inflight' \subseteq Request
    BY <1>4 DEF TypeOK, DeleteSecretCount, Arrive, Request, DeleteSecretRequest
  <2> QED
    BY <1>4, <2>1 DEF TypeOK, DeleteSecretCount, secretVars, draftVars
<1>5. ASSUME NEW e \in Environments, EditVersion(e)
      PROVE  TypeOK'
  <2>1. inflight' \subseteq Request
    BY <1>5 DEF TypeOK, EditVersion, Arrive, Request, EditRequest
  <2> QED
    BY <1>5, <2>1 DEF TypeOK, EditVersion, secretVars, draftVars
<1>6. ASSUME NEW e \in Environments, PublishDraft(e)
      PROVE  TypeOK'
  <2>1. inflight' \subseteq Request
    BY <1>6 DEF TypeOK, PublishDraft, Arrive, Request, PublishRequest
  <2> QED
    BY <1>6, <2>1 DEF TypeOK, PublishDraft, secretVars, draftVars
<1>7. ASSUME NEW e \in Environments, NEW src \in Stamp, RollbackBegin(e, src)
      PROVE  TypeOK'
  <2>1. clock' \in 0 .. MaxRevision /\ clock + 1 \in Stamp
    BY <1>7 DEF TypeOK, RollbackBegin, Stamp
  <2>2. inflight' \subseteq Request
    BY <1>7, <2>1 DEF TypeOK, RollbackBegin, Arrive, Request, RollbackRequest
  <2> QED
    BY <1>7, <2>1, <2>2 DEF TypeOK, RollbackBegin, secretVars, draftVars
<1>8. ASSUME NEW e \in Environments, NEW g \in Groups, AssignRead(g, e)
      PROVE  TypeOK'
  <2>1. inflight' \subseteq Request
    BY <1>8 DEF TypeOK, AssignRead, Arrive, Request, AssignRequest, RevisionsOf, Revision
  <2> QED
    BY <1>8, <2>1 DEF TypeOK, AssignRead, secretVars, draftVars
<1>9. ASSUME NEW q \in inflight, EditView(q)
      PROVE  TypeOK'
  <2>1. q \in EditRequest
    BY <1>9, RequestForms DEF TypeOK, EditView
  <2>2. DraftFiles(q.env) \in SUBSET File
    BY <2>1, DraftFilesType DEF EditRequest
  <2>3. [q EXCEPT !.view = DraftFiles(q.env), !.at = "viewed"] \in EditRequest
    BY <2>1, <2>2 DEF EditRequest
  <2>4. inflight' \subseteq Request
    BY <1>9, <2>3 DEF TypeOK, EditView, Become, Request
  <2> QED
    BY <1>9, <2>4 DEF TypeOK, EditView, secretVars, draftVars
<1>10. ASSUME NEW q \in inflight, NEW S \in SUBSET Secrets, NEW c \in [S -> 1 .. MaxSeq],
              EditSubmit(q, c)
       PROVE  TypeOK'
  <2>1. q \in EditRequest
    BY <1>10, RequestForms DEF TypeOK, EditSubmit
  <2>2. selections' \subseteq Selection
    BY <1>10, <2>1 DEF TypeOK, Selection, EditSubmit, EditRequest
  <2>3. draft' \in [Environments -> 0 .. MaxDraft]
    BY <1>10, <2>1 DEF TypeOK, EditSubmit, BumpDraft, EditRequest
  <2> QED
    BY <1>10, <2>2, <2>3 DEF TypeOK, EditSubmit, secretVars, End
<1>11. ASSUME NEW q \in inflight, PublishCheck(q)
       PROVE  TypeOK'
  <2>1. q \in PublishRequest
    BY <1>11, RequestForms DEF TypeOK, PublishCheck
  <2>2. [q EXCEPT !.at = "checked"] \in PublishRequest
    BY <1>11, <2>1 DEF PublishRequest, PublishCheck
  <2>3. inflight' \subseteq Request
    BY <1>11, <2>2 DEF TypeOK, PublishCheck, Become, Request
  <2> QED
    BY <1>11, <2>3 DEF TypeOK, PublishCheck, secretVars, draftVars
<1>12. ASSUME NEW q \in inflight, PublishBegin(q)
       PROVE  TypeOK'
  <2>1. q \in PublishRequest
    BY <1>12, RequestForms DEF TypeOK, PublishBegin
  <2>2. clock' \in 0 .. MaxRevision /\ clock + 1 \in Stamp
    BY <1>12 DEF TypeOK, PublishBegin, Stamp
  <2>3. [q EXCEPT !.rev = clock + 1, !.at = "begun"] \in PublishRequest
    BY <2>1, <2>2 DEF PublishRequest
  <2>4. inflight' \subseteq Request
    BY <1>12, <2>3 DEF TypeOK, PublishBegin, Become, Request
  <2> QED
    BY <1>12, <2>2, <2>4 DEF TypeOK, PublishBegin, secretVars, draftVars
<1>13. ASSUME NEW q \in inflight, PublishRead(q)
       PROVE  TypeOK'
  <2>1. q \in PublishRequest
    BY <1>13, RequestForms DEF TypeOK, PublishRead
  <2>2. draft[q.env] \in 0 .. MaxDraft
    BY <2>1 DEF TypeOK, PublishRequest
  <2>3. [q EXCEPT !.draft = draft[q.env], !.at = "read"] \in PublishRequest
    BY <1>13, <2>1, <2>2 DEF PublishRead, PublishRequest
  <2>4. inflight' \subseteq Request
    BY <1>13, <2>3 DEF TypeOK, PublishRead, Become, Request
  <2> QED
    BY <1>13, <2>4 DEF TypeOK, PublishRead, secretVars, draftVars
<1>14. ASSUME NEW q \in inflight, PublishCount(q)
       PROVE  TypeOK'
  <2>1. q \in PublishRequest
    BY <1>14, RequestForms DEF TypeOK, PublishCount
  <2>2. [q EXCEPT !.at = "counted"] \in PublishRequest
    BY <1>14, <2>1 DEF PublishCount, PublishRequest
  <2>3. inflight' \subseteq Request
    BY <1>14, <2>2 DEF TypeOK, PublishCount, Become, Request
  <2> QED
    BY <1>14, <2>3 DEF TypeOK, PublishCount, secretVars, draftVars
<1>15. ASSUME NEW q \in inflight, PublishCommit(q)
       PROVE  TypeOK'
  <2>1. q \in PublishRequest
    BY <1>15, RequestForms DEF TypeOK, PublishCommit
  <2>2. [q EXCEPT !.at = "published"] \in PublishRequest
    BY <1>15, <2>1 DEF PublishCommit, PublishRequest
  <2>3. inflight' \subseteq Request
    BY <1>15, <2>2 DEF TypeOK, PublishCommit, Become, Request
  <2>4. q.env \in Environments /\ q.draft \in 0 .. MaxDraft /\ q.rev \in Stamp
    BY <1>15, <2>1 DEF PublishCommit, PublishRequest
  <2>5. DraftFiles(q.env) \in SUBSET File
    BY <2>4, DraftFilesType
  <2>6. revisions' \subseteq Revision
    BY <1>15, <2>4, <2>5 DEF TypeOK, PublishCommit, Revision
  <2> QED
    BY <1>15, <2>3, <2>6 DEF TypeOK, PublishCommit, secretVars, draftVars
<1>16. ASSUME NEW q \in inflight, RollbackRead(q)
       PROVE  TypeOK'
  <2>1. q \in RollbackRequest
    BY <1>16, RequestForms DEF TypeOK, RollbackRead
  <2>2. PICK r \in RevisionsOf(q.env) : Become(q, [q EXCEPT !.draft = r.draft, !.at = "counted"])
    BY <1>16 DEF RollbackRead
  <2>3. r.draft \in 0 .. MaxDraft
    BY DEF TypeOK, RevisionsOf, Revision
  <2>4. [q EXCEPT !.draft = r.draft, !.at = "counted"] \in RollbackRequest
    BY <2>1, <2>3 DEF RollbackRequest
  <2>5. inflight' \subseteq Request
    BY <2>2, <2>4 DEF TypeOK, Become, Request
  <2> QED
    BY <1>16, <2>5 DEF TypeOK, RollbackRead, secretVars, draftVars
<1>17. ASSUME NEW q \in inflight, RollbackCommit(q)
       PROVE  TypeOK'
  <2>1. q \in RollbackRequest
    BY <1>17, RequestForms DEF TypeOK, RollbackCommit
  <2>2. [q EXCEPT !.at = "published"] \in RollbackRequest
    BY <2>1 DEF RollbackRequest
  <2>3. inflight' \subseteq Request
    BY <1>17, <2>2 DEF TypeOK, RollbackCommit, Become, Request
  <2>4. revisions' \subseteq Revision
    BY <1>17, <2>1 DEF TypeOK, RollbackCommit, RevisionsOf, Revision, RollbackRequest
  <2> QED
    BY <1>17, <2>3, <2>4 DEF TypeOK, RollbackCommit, secretVars, draftVars
<1>18. ASSUME NEW q \in inflight, AdvanceDesiredRevision(q)
       PROVE  TypeOK'
  <2>1. q.rev \in Stamp
    BY <1>18, RequestForms
    DEF TypeOK, AdvanceDesiredRevision, PublishRequest, RollbackRequest
  <2>2. assignments' \subseteq Assignment
    BY <1>18, <2>1 DEF TypeOK, AdvanceDesiredRevision, Assignment
  <2> QED
    BY <1>18, <2>2 DEF TypeOK, AdvanceDesiredRevision, secretVars, draftVars, End
<1>19. ASSUME NEW q \in inflight, AssignInsert(q)
       PROVE  TypeOK'
  <2>1. q \in AssignRequest
    BY <1>19, RequestForms DEF TypeOK, AssignInsert
  <2>2. assignments' \subseteq Assignment
    BY <1>19, <2>1 DEF TypeOK, AssignInsert, Assignment, AssignRequest
  <2> QED
    BY <1>19, <2>2 DEF TypeOK, AssignInsert, secretVars, draftVars, End
<1>20. ASSUME NEW q \in inflight, DeleteSecretCommit(q)
       PROVE  TypeOK'
  <2>1. revisions' \subseteq Revision
    BY <1>20 DEF TypeOK, DeleteSecretCommit, Revision, FilesOf
  <2> QED
    BY <1>20, <2>1 DEF TypeOK, DeleteSecretCommit, End
<1>21. ASSUME NEW q \in inflight, DeleteCommit(q)
       PROVE  TypeOK'
  <2>1. draft' \in [Environments -> 0 .. MaxDraft]
    BY <1>21 DEF TypeOK, DeleteCommit
  <2> QED
    BY <1>21, <2>1 DEF TypeOK, DeleteCommit, End
<1>22. ASSUME NEW q \in inflight, Abandon(q)
       PROVE  TypeOK'
  BY <1>22 DEF TypeOK, Abandon, End, secretVars, draftVars
<1>23. ASSUME NEW a \in assignments, MarkAssignmentRemoving(a)
       PROVE  TypeOK'
  BY <1>23 DEF TypeOK, MarkAssignmentRemoving, secretVars, draftVars
<1>24. ASSUME NEW S \in Scopes, DeleteCount(S)
       PROVE  TypeOK'
  <2>1. inflight' \subseteq Request
    BY <1>24 DEF TypeOK, DeleteCount, Scopes, Arrive, Request, DeleteRequest
  <2> QED
    BY <1>24, <2>1 DEF TypeOK, DeleteCount, secretVars, draftVars
<1>25. CASE UNCHANGED vars
  BY <1>25 DEF TypeOK, vars, secretVars, draftVars
<1>26. QED
  BY <1>1, <1>2, <1>3, <1>4, <1>5, <1>6, <1>7, <1>8, <1>9, <1>10, <1>11, <1>12, <1>13, <1>14,
     <1>15, <1>16, <1>17, <1>18, <1>19, <1>20, <1>21, <1>22, <1>23, <1>24, <1>25 DEF Next

-----------------------------------------------------------------------------
(* The tables.                                                             *)

\* A step that writes no table but, perhaps, the creation clock.
Quiet == UNCHANGED <<environments, secretVars, draftVars, revisions, assignments>>

\* The steps that are not quiet.
LEMMA TableSteps ==
  ASSUME [Next]_vars
  PROVE  \/ Quiet
         \/ \E s \in Secrets :
              \/ CreateSecretWithValue(s)
              \/ AddSecretVersion(s)
              \/ \E p \in Paths : UpdateBinding(s, p)
         \/ \E q \in inflight :
              \/ \E S \in SUBSET Secrets : \E c \in [S -> 1 .. MaxSeq] : EditSubmit(q, c)
              \/ PublishCommit(q)
              \/ RollbackCommit(q)
              \/ AdvanceDesiredRevision(q)
              \/ AssignInsert(q)
              \/ DeleteSecretCommit(q)
              \/ DeleteCommit(q)
         \/ \E a \in assignments : MarkAssignmentRemoving(a)
<1>1. CASE UNCHANGED vars
  BY <1>1 DEF vars, Quiet, secretVars, draftVars
<1>2. ASSUME NEW s \in Secrets, DeleteSecretCount(s)
      PROVE  Quiet
  BY <1>2 DEF DeleteSecretCount, Quiet
<1>3. ASSUME NEW e \in Environments,
             \/ EditVersion(e)
             \/ PublishDraft(e)
             \/ \E src \in Stamp : RollbackBegin(e, src)
             \/ \E g \in Groups : AssignRead(g, e)
      PROVE  Quiet
  BY <1>3 DEF EditVersion, PublishDraft, RollbackBegin, AssignRead, Quiet
<1>4. ASSUME NEW q \in inflight,
             \/ EditView(q) \/ PublishCheck(q) \/ PublishBegin(q) \/ PublishRead(q)
             \/ PublishCount(q) \/ RollbackRead(q) \/ Abandon(q)
      PROVE  Quiet
  BY <1>4 DEF EditView, PublishCheck, PublishBegin, PublishRead, PublishCount, RollbackRead,
              Abandon, Quiet
<1>5. ASSUME NEW S \in Scopes, DeleteCount(S)
      PROVE  Quiet
  BY <1>5 DEF DeleteCount, Quiet
<1>6. QED
  BY <1>1, <1>2, <1>3, <1>4, <1>5 DEF Next

LEMMA RowsStep ==
  ASSUME TypeOK, RowsExist, [Next]_vars
  PROVE  RowsExist'
<1> USE ConstantsAssumption
<1>1. CASE Quiet
  BY <1>1 DEF Quiet, secretVars, draftVars, RowsExist
<1>2. ASSUME NEW s \in Secrets, CreateSecretWithValue(s)
      PROVE  RowsExist'
  BY <1>2 DEF TypeOK, RowsExist, CreateSecretWithValue, BumpDraft
<1>3. ASSUME NEW s \in Secrets, AddSecretVersion(s)
      PROVE  RowsExist'
  BY <1>3 DEF TypeOK, RowsExist, AddSecretVersion, BumpDraft
<1>4. ASSUME NEW s \in Secrets, NEW p \in Paths, UpdateBinding(s, p)
      PROVE  RowsExist'
  BY <1>4 DEF TypeOK, RowsExist, UpdateBinding, BumpDraft
<1>5. ASSUME NEW q \in inflight, NEW S \in SUBSET Secrets, NEW c \in [S -> 1 .. MaxSeq],
             EditSubmit(q, c)
      PROVE  RowsExist'
  <2>1. q \in EditRequest
    BY <1>5, RequestForms DEF TypeOK, EditSubmit
  <2> QED
    BY <1>5, <2>1 DEF TypeOK, RowsExist, EditSubmit, EditRequest, BumpDraft, secretVars
<1>6. ASSUME NEW q \in inflight, PublishCommit(q)
      PROVE  RowsExist'
  BY <1>6 DEF RowsExist, PublishCommit, secretVars, draftVars
<1>7. ASSUME NEW q \in inflight, RollbackCommit(q)
      PROVE  RowsExist'
  BY <1>7 DEF RowsExist, RollbackCommit, RevisionsOf, secretVars, draftVars
<1>8. ASSUME NEW q \in inflight, AdvanceDesiredRevision(q) \/ AssignInsert(q)
      PROVE  RowsExist'
  BY <1>8 DEF RowsExist, AdvanceDesiredRevision, AssignInsert, secretVars, draftVars
<1>9. ASSUME NEW q \in inflight, DeleteSecretCommit(q)
      PROVE  RowsExist'
  BY <1>9 DEF TypeOK, RowsExist, DeleteSecretCommit, Revision
<1>10. ASSUME NEW q \in inflight, DeleteCommit(q)
       PROVE  RowsExist'
  BY <1>10 DEF TypeOK, RowsExist, DeleteCommit
<1>11. ASSUME NEW a \in assignments, MarkAssignmentRemoving(a)
       PROVE  RowsExist'
  BY <1>11 DEF RowsExist, MarkAssignmentRemoving, secretVars, draftVars
<1>12. QED
  BY <1>1, <1>2, <1>3, <1>4, <1>5, <1>6, <1>7, <1>8, <1>9, <1>10, <1>11, TableSteps

LEMMA DraftsStep ==
  ASSUME TypeOK, DraftsAreSound, [Next]_vars
  PROVE  DraftsAreSound'
<1> USE ConstantsAssumption
<1>1. CASE Quiet
  BY <1>1 DEF Quiet, secretVars, draftVars, DraftsAreSound
<1>2. ASSUME NEW s \in Secrets, CreateSecretWithValue(s)
      PROVE  DraftsAreSound'
  BY <1>2 DEF TypeOK, Selection, DraftsAreSound, CreateSecretWithValue
<1>3. ASSUME NEW s \in Secrets, AddSecretVersion(s)
      PROVE  DraftsAreSound'
  BY <1>3 DEF TypeOK, Selection, DraftsAreSound, AddSecretVersion, Reselect
<1>4. ASSUME NEW s \in Secrets, NEW p \in Paths, UpdateBinding(s, p)
      PROVE  DraftsAreSound'
  BY <1>4 DEF DraftsAreSound, UpdateBinding
<1>5. ASSUME NEW q \in inflight, NEW S \in SUBSET Secrets, NEW c \in [S -> 1 .. MaxSeq],
             EditSubmit(q, c)
      PROVE  DraftsAreSound'
  BY <1>5 DEF DraftsAreSound, EditSubmit, secretVars
<1>6. ASSUME NEW q \in inflight,
             PublishCommit(q) \/ RollbackCommit(q) \/ AdvanceDesiredRevision(q) \/ AssignInsert(q)
      PROVE  DraftsAreSound'
  BY <1>6 DEF DraftsAreSound, PublishCommit, RollbackCommit, AdvanceDesiredRevision,
              AssignInsert, secretVars, draftVars
<1>7. ASSUME NEW q \in inflight, DeleteSecretCommit(q)
      PROVE  DraftsAreSound'
  BY <1>7 DEF DraftsAreSound, DeleteSecretCommit
<1>8. ASSUME NEW q \in inflight, DeleteCommit(q)
      PROVE  DraftsAreSound'
  BY <1>8 DEF DraftsAreSound, DeleteCommit
<1>9. ASSUME NEW a \in assignments, MarkAssignmentRemoving(a)
      PROVE  DraftsAreSound'
  BY <1>9 DEF DraftsAreSound, MarkAssignmentRemoving, secretVars, draftVars
<1>10. QED
  BY <1>1, <1>2, <1>3, <1>4, <1>5, <1>6, <1>7, <1>8, <1>9, TableSteps

\* What is copied from a sound Draft is sound.
LEMMA DraftFilesSound ==
  ASSUME TypeOK, DraftsAreSound, NEW e \in Environments, NEW f \in DraftFiles(e)
  PROVE  f.secret \in live /\ f.seq <= latest[f.secret] /\ Home[f.secret] = e
  BY DEF TypeOK, Selection, DraftsAreSound, DraftFiles, SelectionsOf

LEMMA RevisionsStep ==
  ASSUME TypeOK, DraftsAreSound, RevisionsAreSound, [Next]_vars
  PROVE  RevisionsAreSound'
<1> USE ConstantsAssumption
<1>1. CASE Quiet
  BY <1>1 DEF Quiet, secretVars, draftVars, RevisionsAreSound
<1>2. ASSUME NEW s \in Secrets, CreateSecretWithValue(s)
      PROVE  RevisionsAreSound'
  BY <1>2 DEF TypeOK, Revision, File, RevisionsAreSound, CreateSecretWithValue
<1>3. ASSUME NEW s \in Secrets, AddSecretVersion(s)
      PROVE  RevisionsAreSound'
  BY <1>3 DEF TypeOK, Revision, File, RevisionsAreSound, AddSecretVersion
<1>4. ASSUME NEW s \in Secrets, NEW p \in Paths, UpdateBinding(s, p)
      PROVE  RevisionsAreSound'
  BY <1>4 DEF RevisionsAreSound, UpdateBinding
<1>5. ASSUME NEW q \in inflight, NEW S \in SUBSET Secrets, NEW c \in [S -> 1 .. MaxSeq],
             EditSubmit(q, c)
      PROVE  RevisionsAreSound'
  BY <1>5 DEF RevisionsAreSound, EditSubmit, secretVars
<1>6. ASSUME NEW q \in inflight, PublishCommit(q)
      PROVE  RevisionsAreSound'
  <2>1. q.env \in Environments
    BY <1>6 DEF TypeOK, PublishCommit
  <2>2. \A f \in DraftFiles(q.env) :
          f.secret \in live /\ f.seq <= latest[f.secret] /\ Home[f.secret] = q.env
    BY <2>1, DraftFilesSound
  <2> QED
    BY <1>6, <2>2 DEF RevisionsAreSound, PublishCommit, secretVars
<1>7. ASSUME NEW q \in inflight, RollbackCommit(q)
      PROVE  RevisionsAreSound'
  BY <1>7 DEF RevisionsAreSound, RollbackCommit, RevisionsOf, secretVars
<1>8. ASSUME NEW q \in inflight, AdvanceDesiredRevision(q) \/ AssignInsert(q)
      PROVE  RevisionsAreSound'
  BY <1>8 DEF RevisionsAreSound, AdvanceDesiredRevision, AssignInsert, secretVars
<1>9. ASSUME NEW q \in inflight, DeleteSecretCommit(q)
      PROVE  RevisionsAreSound'
  BY <1>9 DEF TypeOK, Revision, File, RevisionsAreSound, DeleteSecretCommit, FilesOf
<1>10. ASSUME NEW q \in inflight, DeleteCommit(q)
       PROVE  RevisionsAreSound'
  BY <1>10 DEF RevisionsAreSound, DeleteCommit
<1>11. ASSUME NEW a \in assignments, MarkAssignmentRemoving(a)
       PROVE  RevisionsAreSound'
  BY <1>11 DEF RevisionsAreSound, MarkAssignmentRemoving, secretVars
<1>12. QED
  BY <1>1, <1>2, <1>3, <1>4, <1>5, <1>6, <1>7, <1>8, <1>9, <1>10, <1>11, TableSteps

-----------------------------------------------------------------------------
(* What requests hold.                                                     *)

\* The steps that write no request: those of one statement, and stuttering.
OneStatement ==
  \/ \E s \in Secrets :
       \/ CreateSecretWithValue(s)
       \/ AddSecretVersion(s)
       \/ \E p \in Paths : UpdateBinding(s, p)
  \/ \E a \in assignments : MarkAssignmentRemoving(a)
  \/ UNCHANGED vars

LEMMA OneStatementKeeps ==
  ASSUME OneStatement
  PROVE  /\ UNCHANGED <<environments, revisions, clock, inflight>>
         /\ \A e \in Environments : TypeOK => draft'[e] \in Nat /\ draft[e] <= draft'[e]
<1> USE ConstantsAssumption
<1>1. ASSUME NEW s \in Secrets, CreateSecretWithValue(s)
      PROVE  /\ UNCHANGED <<environments, revisions, clock, inflight>>
             /\ \A e \in Environments : TypeOK => draft'[e] \in Nat /\ draft[e] <= draft'[e]
  BY <1>1 DEF CreateSecretWithValue, BumpDraft, TypeOK
<1>2. ASSUME NEW s \in Secrets, AddSecretVersion(s)
      PROVE  /\ UNCHANGED <<environments, revisions, clock, inflight>>
             /\ \A e \in Environments : TypeOK => draft'[e] \in Nat /\ draft[e] <= draft'[e]
  BY <1>2 DEF AddSecretVersion, BumpDraft, TypeOK
<1>3. ASSUME NEW s \in Secrets, NEW p \in Paths, UpdateBinding(s, p)
      PROVE  /\ UNCHANGED <<environments, revisions, clock, inflight>>
             /\ \A e \in Environments : TypeOK => draft'[e] \in Nat /\ draft[e] <= draft'[e]
  BY <1>3 DEF UpdateBinding, BumpDraft, TypeOK
<1>4. CASE (\E a \in assignments : MarkAssignmentRemoving(a)) \/ UNCHANGED vars
  BY <1>4 DEF MarkAssignmentRemoving, vars, draftVars, TypeOK
<1>5. QED
  BY <1>1, <1>2, <1>3, <1>4 DEF OneStatement

\* The steps that end a request.
Ending(q) ==
  \/ \E S \in SUBSET Secrets : \E c \in [S -> 1 .. MaxSeq] : EditSubmit(q, c)
  \/ AdvanceDesiredRevision(q)
  \/ AssignInsert(q)
  \/ DeleteSecretCommit(q)
  \/ DeleteCommit(q)
  \/ Abandon(q)

\* Deleting a secret takes files out of revisions, and nothing else.
LEMMA PurgeKeeps ==
  ASSUME TypeOK, NEW q \in inflight, DeleteSecretCommit(q)
  PROVE  /\ \A r \in revisions : \E n \in revisions' :
              n.id = r.id /\ n.env = r.env /\ n.draft = r.draft
         /\ \A n \in revisions' : \E r \in revisions :
              n.id = r.id /\ n.env = r.env /\ n.draft = r.draft
         /\ IdsAreUnique => IdsAreUnique'
<1> DEFINE kept(r) == [r EXCEPT !.files = FilesOf(r.files, Secrets \ {q.secret})]
<1>1. \A r \in revisions :
        kept(r).id = r.id /\ kept(r).env = r.env /\ kept(r).draft = r.draft
  BY DEF TypeOK, Revision
<1>2. revisions' = {kept(r) : r \in revisions}
  BY DEF DeleteSecretCommit
<1> HIDE DEF kept
<1>3. QED
  BY <1>1, <1>2 DEF IdsAreUnique

\* Everything a request compares itself with only shrinks or grows, as below.
LEMMA EndingKeeps ==
  ASSUME TypeOK, NEW q \in inflight, Ending(q)
  PROVE  /\ inflight' = inflight \ {q}
         /\ UNCHANGED clock
         /\ environments' \subseteq environments
         /\ \A r \in revisions' : \E o \in revisions :
              r.id = o.id /\ r.env = o.env /\ r.draft = o.draft
         /\ IdsAreUnique => IdsAreUnique'
         /\ \A e \in environments' : draft'[e] \in Nat /\ draft[e] <= draft'[e]
<1> USE ConstantsAssumption
<1>1. ASSUME NEW S \in SUBSET Secrets, NEW c \in [S -> 1 .. MaxSeq], EditSubmit(q, c)
      PROVE  /\ inflight' = inflight \ {q}
             /\ UNCHANGED <<clock, environments, revisions>>
             /\ \A e \in environments' : draft'[e] \in Nat /\ draft[e] <= draft'[e]
  BY <1>1 DEF EditSubmit, End, BumpDraft, TypeOK
<1>2. CASE AdvanceDesiredRevision(q) \/ AssignInsert(q) \/ Abandon(q)
  BY <1>2 DEF AdvanceDesiredRevision, AssignInsert, Abandon, End, draftVars, TypeOK,
              IdsAreUnique
<1>3. CASE DeleteSecretCommit(q)
  <2>5. inflight' = inflight \ {q} /\ UNCHANGED <<clock, environments, draft>>
    BY <1>3 DEF DeleteSecretCommit, End
  <2>6. \A e \in environments' : draft'[e] \in Nat /\ draft[e] <= draft'[e]
    BY <2>5 DEF TypeOK
  <2> QED
    BY <1>3, <2>5, <2>6, PurgeKeeps
<1>4. CASE DeleteCommit(q)
  BY <1>4 DEF DeleteCommit, End, TypeOK, IdsAreUnique
<1>5. QED
  BY <1>1, <1>2, <1>3, <1>4 DEF Ending, IdsAreUnique

\* The steps that begin a transaction inserting a revision: a fresh stamp.
LEMMA BeginMoves ==
  ASSUME TypeOK, NEW q \in inflight, PublishBegin(q)
  PROVE  \E p \in PublishRequest :
           /\ inflight' = (inflight \ {q}) \cup {p}
           /\ p.op = "publish" /\ p.at = "begun" /\ p.env = q.env /\ p.rev = clock + 1
           /\ clock' = clock + 1
           /\ Quiet
<1>1. q \in PublishRequest
  BY RequestForms DEF TypeOK, PublishBegin
<1>2. clock + 1 \in Stamp
  BY ConstantsAssumption DEF TypeOK, PublishBegin, Stamp
<1> DEFINE p == [q EXCEPT !.rev = clock + 1, !.at = "begun"]
<1>3. /\ p \in PublishRequest
      /\ p.op = "publish" /\ p.at = "begun" /\ p.env = q.env /\ p.rev = clock + 1
  BY <1>1, <1>2 DEF PublishRequest
<1>4. inflight' = (inflight \ {q}) \cup {p} /\ clock' = clock + 1 /\ Quiet
  BY DEF PublishBegin, Become, Quiet
<1> HIDE DEF p
<1>5. QED
  BY <1>3, <1>4

\* The steps inside such a transaction that only read.
LEMMA ReadMoves ==
  ASSUME TypeOK, NEW q \in inflight, PublishRead(q) \/ PublishCount(q) \/ RollbackRead(q)
  PROVE  \E p :
           /\ inflight' = (inflight \ {q}) \cup {p}
           /\ Inserting(q) /\ Inserting(p)
           /\ p.op = q.op /\ p.env = q.env /\ p.rev = q.rev
           /\ p.at \in {"read", "counted"} /\ HoldsVersion(p)
           /\ PublishRead(q) => p.draft = draft[q.env]
           /\ PublishCount(q) => p.draft = q.draft /\ HoldsVersion(q)
           /\ RollbackRead(q) =>
                /\ p.op = "rollback" /\ p.src = q.src
                /\ \E r \in revisions : r.id = q.src /\ r.env = q.env /\ r.draft = p.draft
           /\ UNCHANGED clock
           /\ Quiet
<1>1. CASE PublishRead(q)
  <2>1. q \in PublishRequest
    BY <1>1, RequestForms DEF TypeOK, PublishRead
  <2> DEFINE p == [q EXCEPT !.draft = draft[q.env], !.at = "read"]
  <2>2. /\ p.op = "publish" /\ p.at = "read" /\ p.env = q.env /\ p.rev = q.rev
        /\ p.draft = draft[q.env]
    BY <1>1, <2>1 DEF PublishRead, PublishRequest
  <2>3. inflight' = (inflight \ {q}) \cup {p} /\ UNCHANGED clock /\ Quiet
    BY <1>1 DEF PublishRead, Become, Quiet
  <2> HIDE DEF p
  <2> QED
    BY <1>1, <2>2, <2>3 DEF PublishRead, PublishCount, RollbackRead, Inserting, HoldsVersion
<1>2. CASE PublishCount(q)
  <2>1. q \in PublishRequest
    BY <1>2, RequestForms DEF TypeOK, PublishCount
  <2> DEFINE p == [q EXCEPT !.at = "counted"]
  <2>2. /\ p.op = "publish" /\ p.at = "counted" /\ p.env = q.env /\ p.rev = q.rev
        /\ p.draft = q.draft
    BY <1>2, <2>1 DEF PublishCount, PublishRequest
  <2>3. inflight' = (inflight \ {q}) \cup {p} /\ UNCHANGED clock /\ Quiet
    BY <1>2 DEF PublishCount, Become, Quiet
  <2> HIDE DEF p
  <2> QED
    BY <1>2, <2>2, <2>3 DEF PublishRead, PublishCount, RollbackRead, Inserting, HoldsVersion
<1>3. CASE RollbackRead(q)
  <2>1. q \in RollbackRequest
    BY <1>3, RequestForms DEF TypeOK, RollbackRead
  <2>2. PICK r \in RevisionsOf(q.env) :
          r.id = q.src /\ Become(q, [q EXCEPT !.draft = r.draft, !.at = "counted"])
    BY <1>3 DEF RollbackRead
  <2> DEFINE p == [q EXCEPT !.draft = r.draft, !.at = "counted"]
  <2>3. /\ p.op = "rollback" /\ p.at = "counted" /\ p.env = q.env /\ p.rev = q.rev
        /\ p.src = q.src /\ p.draft = r.draft
    BY <1>3, <2>1 DEF RollbackRead, RollbackRequest
  <2>4. inflight' = (inflight \ {q}) \cup {p} /\ UNCHANGED clock /\ Quiet
    BY <1>3, <2>2 DEF RollbackRead, Become, Quiet
  <2>5. r \in revisions /\ r.id = q.src /\ r.env = q.env
    BY <2>2 DEF RevisionsOf
  <2> HIDE DEF p
  <2> QED
    BY <1>3, <2>3, <2>4, <2>5
    DEF PublishRead, PublishCount, RollbackRead, Inserting, HoldsVersion
<1>4. QED
  BY <1>1, <1>2, <1>3

\* The commits: one revision more, with the stamp and the version the request held.
LEMMA CommitMoves ==
  ASSUME TypeOK, NEW q \in inflight, PublishCommit(q) \/ RollbackCommit(q)
  PROVE  \E p, r :
           /\ inflight' = (inflight \ {q}) \cup {p}
           /\ Inserting(q) /\ HoldsVersion(q) /\ ~ Inserting(p)
           /\ p.op \in {"publish", "rollback"} /\ p.at = "published"
           /\ p.env = q.env /\ p.rev = q.rev
           /\ revisions' = revisions \cup {r}
           /\ r.id = q.rev /\ r.env = q.env /\ r.draft = q.draft
           /\ PublishCommit(q) => q.env \in environments /\ r.files = DraftFiles(q.env)
           /\ RollbackCommit(q) =>
                /\ q.op = "rollback" /\ q.at = "counted"
                /\ \E o \in revisions : o.id = q.src /\ o.env = q.env /\ r.files = o.files
           /\ UNCHANGED <<environments, secretVars, draftVars, clock, assignments>>
<1>1. CASE PublishCommit(q)
  <2>1. q \in PublishRequest
    BY <1>1, RequestForms DEF TypeOK, PublishCommit
  <2> DEFINE p == [q EXCEPT !.at = "published"]
             r == [id |-> q.rev, env |-> q.env, draft |-> q.draft, files |-> DraftFiles(q.env)]
  <2>2. p.op = "publish" /\ p.at = "published" /\ p.env = q.env /\ p.rev = q.rev
    BY <1>1, <2>1 DEF PublishCommit, PublishRequest
  <2>3. r.id = q.rev /\ r.env = q.env /\ r.draft = q.draft /\ r.files = DraftFiles(q.env)
    OBVIOUS
  <2>4. inflight' = (inflight \ {q}) \cup {p} /\ revisions' = revisions \cup {r}
    BY <1>1 DEF PublishCommit, Become
  <2> HIDE DEF p, r
  <2> QED
    BY <1>1, <2>2, <2>3, <2>4 DEF PublishCommit, RollbackCommit, Inserting, HoldsVersion
<1>2. CASE RollbackCommit(q)
  <2>1. q \in RollbackRequest
    BY <1>2, RequestForms DEF TypeOK, RollbackCommit
  <2>2. PICK o \in RevisionsOf(q.env) :
          /\ o.id = q.src
          /\ revisions' = revisions \cup {[id |-> q.rev, env |-> q.env, draft |-> q.draft,
                                           files |-> o.files]}
    BY <1>2 DEF RollbackCommit
  <2> DEFINE p == [q EXCEPT !.at = "published"]
             r == [id |-> q.rev, env |-> q.env, draft |-> q.draft, files |-> o.files]
  <2>3. p.op = "rollback" /\ p.at = "published" /\ p.env = q.env /\ p.rev = q.rev
    BY <1>2, <2>1 DEF RollbackCommit, RollbackRequest
  <2>4. r.id = q.rev /\ r.env = q.env /\ r.draft = q.draft /\ r.files = o.files
    OBVIOUS
  <2>5. inflight' = (inflight \ {q}) \cup {p} /\ revisions' = revisions \cup {r}
    BY <1>2, <2>2 DEF RollbackCommit, Become
  <2>6. o \in revisions /\ o.id = q.src /\ o.env = q.env
    BY <2>2 DEF RevisionsOf
  <2> HIDE DEF p, r
  <2> QED
    BY <1>2, <2>3, <2>4, <2>5, <2>6 DEF PublishCommit, RollbackCommit, Inserting, HoldsVersion
<1>3. QED
  BY <1>1, <1>2

\* The steps that neither insert nor hold a stamp: what they leave in flight.
Looking ==
  \/ \E s \in Secrets : DeleteSecretCount(s)
  \/ \E e \in Environments :
       \/ EditVersion(e)
       \/ PublishDraft(e)
       \/ \E g \in Groups : AssignRead(g, e)
  \/ \E q \in inflight : EditView(q) \/ PublishCheck(q)
  \/ \E S \in Scopes : DeleteCount(S)

\* What such a step leaves in flight.
Looked(p) ==
  /\ inflight' \subseteq inflight \cup {p}
  /\ ~ Inserting(p)
  /\ ~ (p.op \in {"publish", "rollback"} /\ p.at = "published")
  /\ p.op = "edit" =>
       \/ p.at = "versioned" /\ p.draft = draft[p.env]
       \/ /\ p.view = DraftFiles(p.env)
          /\ \E q \in inflight : q.op = "edit" /\ p.env = q.env /\ p.draft = q.draft
  /\ p.op = "assign" => \E r \in revisions : r.id = p.rev /\ r.env = p.env
  /\ UNCHANGED clock
  /\ Quiet

LEMMA LookingMoves ==
  ASSUME TypeOK, Looking
  PROVE  \E p : Looked(p)
<1>1. ASSUME NEW s \in Secrets, DeleteSecretCount(s)
      PROVE  Looked([op |-> "delete_secret", secret |-> s])
  BY <1>1 DEF DeleteSecretCount, Arrive, Quiet, Looked, Inserting
<1>2. ASSUME NEW e \in Environments, EditVersion(e)
      PROVE  Looked([op |-> "edit", env |-> e, draft |-> draft[e], view |-> {},
                     at |-> "versioned"])
  BY <1>2 DEF EditVersion, Arrive, Quiet, Looked, Inserting
<1>3. ASSUME NEW e \in Environments, PublishDraft(e)
      PROVE  Looked([op |-> "publish", env |-> e, draft |-> draft[e], rev |-> 0,
                     at |-> "drafted"])
  BY <1>3 DEF PublishDraft, Arrive, Quiet, Looked, Inserting
<1>4. ASSUME NEW e \in Environments, NEW g \in Groups, AssignRead(g, e)
      PROVE  \E p : Looked(p)
  <2>1. PICK r \in RevisionsOf(e) :
          Arrive([op |-> "assign", group |-> g, env |-> e, rev |-> r.id])
    BY <1>4 DEF AssignRead
  <2>2. Looked([op |-> "assign", group |-> g, env |-> e, rev |-> r.id])
    BY <1>4, <2>1 DEF AssignRead, Arrive, Quiet, RevisionsOf, Looked, Inserting
  <2> QED
    BY <2>2
<1>5. ASSUME NEW q \in inflight, EditView(q)
      PROVE  \E p : Looked(p)
  <2>1. q \in EditRequest
    BY <1>5, RequestForms DEF TypeOK, EditView
  <2> DEFINE p == [q EXCEPT !.view = DraftFiles(q.env), !.at = "viewed"]
  <2>2. p.op = "edit" /\ p.env = q.env /\ p.draft = q.draft /\ p.view = DraftFiles(q.env)
    BY <2>1 DEF EditRequest
  <2>3. inflight' = (inflight \ {q}) \cup {p}
    BY <1>5 DEF EditView, Become
  <2> HIDE DEF p
  <2> QED
    BY <1>5, <2>2, <2>3 DEF EditView, Quiet, Looked, Inserting
<1>6. ASSUME NEW q \in inflight, PublishCheck(q)
      PROVE  \E p : Looked(p)
  <2>1. q \in PublishRequest
    BY <1>6, RequestForms DEF TypeOK, PublishCheck
  <2> DEFINE p == [q EXCEPT !.at = "checked"]
  <2>2. p.op = "publish" /\ p.at = "checked"
    BY <2>1 DEF PublishRequest
  <2>3. inflight' = (inflight \ {q}) \cup {p}
    BY <1>6 DEF PublishCheck, Become
  <2> HIDE DEF p
  <2> QED
    BY <1>6, <2>2, <2>3 DEF PublishCheck, Quiet, Looked, Inserting
<1>7. ASSUME NEW S \in Scopes, DeleteCount(S)
      PROVE  Looked([op |-> "delete", scope |-> S])
  BY <1>7 DEF DeleteCount, Arrive, Quiet, Looked, Inserting
<1>8. QED
  BY <1>1, <1>2, <1>3, <1>4, <1>5, <1>6, <1>7 DEF Looking

\* The whole next-state relation, by shape.
LEMMA StepShapes ==
  ASSUME [Next]_vars
  PROVE  \/ OneStatement
         \/ Looking
         \/ \E q \in inflight : Ending(q)
         \/ \E q \in inflight : PublishBegin(q)
         \/ \E e \in Environments, src \in Stamp : RollbackBegin(e, src)
         \/ \E q \in inflight : PublishRead(q) \/ PublishCount(q) \/ RollbackRead(q)
         \/ \E q \in inflight : PublishCommit(q) \/ RollbackCommit(q)
  BY DEF Next, OneStatement, Looking, Ending

LEMMA StampsStep ==
  ASSUME TypeOK, StampsAreUnique, [Next]_vars
  PROVE  StampsAreUnique'
<1> USE ConstantsAssumption
<1>0. clock \in Nat /\ \A r \in revisions : r.id \in Nat
  BY DEF TypeOK, Revision, Stamp
<1>1. CASE OneStatement
  BY <1>1, OneStatementKeeps DEF StampsAreUnique, IdsAreUnique
<1>2. CASE Looking
  <2>1. PICK p : Looked(p)
    BY <1>2, LookingMoves
  <2> QED
    BY <2>1 DEF Looked, Quiet, StampsAreUnique, IdsAreUnique
<1>3. ASSUME NEW q \in inflight, Ending(q)
      PROVE  StampsAreUnique'
  BY <1>3, EndingKeeps DEF StampsAreUnique
<1>4. ASSUME NEW q \in inflight, PublishBegin(q)
      PROVE  StampsAreUnique'
  <2>1. PICK p \in PublishRequest :
           /\ inflight' = (inflight \ {q}) \cup {p}
           /\ p.rev = clock + 1
           /\ clock' = clock + 1
           /\ UNCHANGED revisions
    BY <1>4, BeginMoves DEF Quiet
  <2>2. \A x \in inflight : Inserting(x) => x.rev \in Nat
    BY RequestForms DEF TypeOK, Inserting, PublishRequest, RollbackRequest, Stamp
  <2> QED
    BY <1>0, <2>1, <2>2 DEF StampsAreUnique, IdsAreUnique
<1>5. ASSUME NEW e \in Environments, NEW src \in Stamp, RollbackBegin(e, src)
      PROVE  StampsAreUnique'
  <2>1. PICK p :
           /\ inflight' = inflight \cup {p}
           /\ p.rev = clock + 1
           /\ clock' = clock + 1
           /\ UNCHANGED revisions
    BY <1>5 DEF RollbackBegin, Arrive
  <2>2. \A x \in inflight : Inserting(x) => x.rev \in Nat
    BY RequestForms DEF TypeOK, Inserting, PublishRequest, RollbackRequest, Stamp
  <2> QED
    BY <1>0, <2>1, <2>2 DEF StampsAreUnique, IdsAreUnique
<1>6. ASSUME NEW q \in inflight, PublishRead(q) \/ PublishCount(q) \/ RollbackRead(q)
      PROVE  StampsAreUnique'
  <2>1. PICK p :
           /\ inflight' = (inflight \ {q}) \cup {p}
           /\ Inserting(q) /\ Inserting(p) /\ p.rev = q.rev
           /\ UNCHANGED <<clock, revisions>>
    BY <1>6, ReadMoves DEF Quiet
  <2> QED
    BY <2>1 DEF StampsAreUnique, IdsAreUnique
<1>7. ASSUME NEW q \in inflight, PublishCommit(q) \/ RollbackCommit(q)
      PROVE  StampsAreUnique'
  <2>1. PICK p, r :
           /\ inflight' = (inflight \ {q}) \cup {p}
           /\ Inserting(q) /\ ~ Inserting(p)
           /\ revisions' = revisions \cup {r} /\ r.id = q.rev
           /\ UNCHANGED clock
    BY <1>7, CommitMoves
  <2> QED
    BY <2>1 DEF StampsAreUnique, IdsAreUnique
<1>8. QED
  BY <1>1, <1>2, <1>3, <1>4, <1>5, <1>6, <1>7, StepShapes

LEMMA VersionsStep ==
  ASSUME TypeOK, RowsExist, VersionsArePast, [Next]_vars
  PROVE  VersionsArePast'
<1> USE ConstantsAssumption
<1>0. /\ \A e \in Environments : draft[e] \in Nat
      /\ \A r \in revisions : r.draft \in Nat /\ r.env \in environments
      /\ \A x \in inflight : HoldsVersion(x) => x.draft \in Nat
      /\ environments \subseteq Environments
  BY RequestForms DEF TypeOK, Revision, RowsExist, HoldsVersion, PublishRequest, RollbackRequest,
                      EditRequest
<1>1. CASE OneStatement
  BY <1>0, <1>1, OneStatementKeeps DEF TypeOK, VersionsArePast
<1>2. CASE Looking
  <2>1. PICK p : Looked(p)
    BY <1>2, LookingMoves
  <2>2. HoldsVersion(p) /\ p.env \in environments => p.draft <= draft[p.env]
    BY <1>0, <2>1 DEF Looked, HoldsVersion, Inserting, VersionsArePast
  <2> QED
    BY <2>1, <2>2 DEF Looked, Quiet, draftVars, VersionsArePast
<1>3. ASSUME NEW q \in inflight, Ending(q)
      PROVE  VersionsArePast'
  <2>1. RowsExist'
    BY RowsStep
  <2> QED
    BY <1>0, <1>3, <2>1, EndingKeeps DEF VersionsArePast, RowsExist
<1>4. ASSUME NEW q \in inflight, PublishBegin(q)
      PROVE  VersionsArePast'
  BY <1>4, BeginMoves DEF Quiet, draftVars, HoldsVersion, VersionsArePast
<1>5. ASSUME NEW e \in Environments, NEW src \in Stamp, RollbackBegin(e, src)
      PROVE  VersionsArePast'
  BY <1>5 DEF RollbackBegin, Arrive, draftVars, HoldsVersion, VersionsArePast
<1>6. ASSUME NEW q \in inflight, PublishRead(q) \/ PublishCount(q) \/ RollbackRead(q)
      PROVE  VersionsArePast'
  <2>1. PICK p :
           /\ inflight' = (inflight \ {q}) \cup {p}
           /\ p.env = q.env
           /\ PublishRead(q) => p.draft = draft[q.env]
           /\ PublishCount(q) => p.draft = q.draft /\ HoldsVersion(q)
           /\ RollbackRead(q) =>
                \E r \in revisions : r.id = q.src /\ r.env = q.env /\ r.draft = p.draft
           /\ Quiet
    BY <1>6, ReadMoves
  <2>2. p.env \in environments => p.draft <= draft[p.env]
    BY <1>0, <1>6, <2>1 DEF VersionsArePast
  <2> QED
    BY <2>1, <2>2 DEF Quiet, draftVars, VersionsArePast
<1>7. ASSUME NEW q \in inflight, PublishCommit(q) \/ RollbackCommit(q)
      PROVE  VersionsArePast'
  <2>1. PICK p, r :
           /\ inflight' = (inflight \ {q}) \cup {p}
           /\ HoldsVersion(q)
           /\ p.op \in {"publish", "rollback"} /\ p.at = "published"
           /\ revisions' = revisions \cup {r} /\ r.env = q.env /\ r.draft = q.draft
           /\ PublishCommit(q) => q.env \in environments
           /\ RollbackCommit(q) => \E o \in revisions : o.env = q.env
           /\ UNCHANGED <<environments, draftVars>>
    BY <1>7, CommitMoves
  <2>2. q.env \in environments
    BY <1>0, <1>7, <2>1
  <2> QED
    BY <2>1, <2>2 DEF HoldsVersion, draftVars, VersionsArePast
<1>8. QED
  BY <1>1, <1>2, <1>3, <1>4, <1>5, <1>6, <1>7, StepShapes

LEMMA NamesStep ==
  ASSUME TypeOK, StampsAreUnique, NamesAreStable, [Next]_vars
  PROVE  NamesAreStable'
<1> USE ConstantsAssumption
<1>0. /\ clock \in Nat /\ \A r \in revisions : r.id \in Nat
      /\ \A x \in inflight : Inserting(x) => x.rev \in Nat
      /\ \A x \in inflight : x.op = "assign" => x.rev \in Nat
      /\ \A x \in inflight : x.op = "rollback" => x.src \in Nat
  BY RequestForms
  DEF TypeOK, Revision, Stamp, Inserting, PublishRequest, RollbackRequest, AssignRequest
<1>1. CASE OneStatement
  BY <1>1, OneStatementKeeps DEF NamesAreStable
<1>2. CASE Looking
  <2>1. PICK p : Looked(p)
    BY <1>2, LookingMoves
  <2>2. p.op = "assign" =>
          /\ p.rev <= clock
          /\ \A x \in inflight : Inserting(x) => x.rev # p.rev
          /\ \A r \in revisions : r.id = p.rev => r.env = p.env
    BY <2>1 DEF Looked, StampsAreUnique, IdsAreUnique
  <2>3. \A x \in inflight' : (x \in inflight \/ x = p) /\ (Inserting(x) => x \in inflight)
    BY <2>1 DEF Looked
  <2> QED
    BY <2>1, <2>2, <2>3 DEF Looked, Quiet, NamesAreStable
<1>3. ASSUME NEW q \in inflight, Ending(q)
      PROVE  NamesAreStable'
  BY <1>3, EndingKeeps DEF NamesAreStable
<1>4. ASSUME NEW q \in inflight, PublishBegin(q)
      PROVE  NamesAreStable'
  <2>1. PICK p :
           /\ inflight' = (inflight \ {q}) \cup {p}
           /\ p.op = "publish" /\ p.rev = clock + 1
           /\ clock' = clock + 1
           /\ UNCHANGED revisions
    BY <1>4, BeginMoves DEF Quiet
  <2> QED
    BY <1>0, <2>1 DEF NamesAreStable
<1>5. ASSUME NEW e \in Environments, NEW src \in Stamp, RollbackBegin(e, src)
      PROVE  NamesAreStable'
  <2> DEFINE p == [op |-> "rollback", env |-> e, src |-> src, draft |-> 0, rev |-> clock + 1,
                   at |-> "begun"]
  <2>1. /\ inflight' = inflight \cup {p} /\ clock' = clock + 1 /\ UNCHANGED revisions
        /\ \E r \in revisions : r.id = src
    BY <1>5 DEF RollbackBegin, Arrive
  <2>2. p.op = "rollback" /\ p.at = "begun" /\ p.src = src /\ p.rev = clock + 1
    OBVIOUS
  <2> HIDE DEF p
  <2>3. /\ src \in Nat /\ src <= clock
        /\ \A x \in inflight : Inserting(x) => x.rev # src
    BY <2>1 DEF StampsAreUnique, Stamp
  <2> QED
    BY <1>0, <2>1, <2>2, <2>3 DEF NamesAreStable
<1>6. ASSUME NEW q \in inflight, PublishRead(q) \/ PublishCount(q) \/ RollbackRead(q)
      PROVE  NamesAreStable'
  <2>1. PICK p :
           /\ inflight' = (inflight \ {q}) \cup {p}
           /\ Inserting(q) /\ Inserting(p) /\ p.op = q.op /\ p.rev = q.rev
           /\ RollbackRead(q) =>
                /\ p.src = q.src
                /\ \E r \in revisions : r.id = q.src /\ r.draft = p.draft
           /\ UNCHANGED <<clock, revisions>>
    BY <1>6, ReadMoves DEF Quiet
  <2>2. p.op = "rollback" => RollbackRead(q)
    BY <1>6, <2>1 DEF PublishRead, PublishCount
  <2>3. p.op = "rollback" =>
          /\ p.src = q.src
          /\ \A r \in revisions : r.id = p.src => r.draft = p.draft
    BY <2>1, <2>2 DEF StampsAreUnique, IdsAreUnique
  <2>4. p.op # "assign"
    BY <2>1 DEF Inserting
  <2> QED
    BY <2>1, <2>3, <2>4 DEF NamesAreStable
<1>7. ASSUME NEW q \in inflight, PublishCommit(q) \/ RollbackCommit(q)
      PROVE  NamesAreStable'
  <2>1. PICK p, r :
           /\ inflight' = (inflight \ {q}) \cup {p}
           /\ Inserting(q) /\ ~ Inserting(p) /\ p.op # "assign"
           /\ revisions' = revisions \cup {r} /\ r.id = q.rev
           /\ UNCHANGED clock
    BY <1>7, CommitMoves
  <2> QED
    BY <2>1 DEF NamesAreStable
<1>8. QED
  BY <1>1, <1>2, <1>3, <1>4, <1>5, <1>6, <1>7, StepShapes

LEMMA PublishedStep ==
  ASSUME TypeOK, PublishedExists, [Next]_vars
  PROVE  PublishedExists'
<1>1. CASE OneStatement
  BY <1>1, OneStatementKeeps DEF PublishedExists
<1>2. CASE Looking
  <2>1. PICK p : Looked(p)
    BY <1>2, LookingMoves
  <2> QED
    BY <2>1 DEF Looked, Quiet, PublishedExists
<1>3. ASSUME NEW q \in inflight, Ending(q)
      PROVE  PublishedExists'
  <2>1. inflight' \subseteq inflight /\ environments' \subseteq environments
    BY <1>3, EndingKeeps
  <2>2. \A o \in revisions :
          o.env \in environments' => \E r \in revisions' : r.id = o.id /\ r.env = o.env
    <3>1. CASE DeleteSecretCommit(q)
      BY <3>1, PurgeKeeps
    <3>2. CASE DeleteCommit(q)
      BY <3>2 DEF DeleteCommit
    <3> QED
      BY <1>3, <3>1, <3>2 DEF Ending, EditSubmit, AdvanceDesiredRevision, AssignInsert, Abandon
  <2> QED
    BY <2>1, <2>2 DEF PublishedExists
<1>4. ASSUME NEW q \in inflight, PublishBegin(q)
      PROVE  PublishedExists'
  BY <1>4, BeginMoves DEF Quiet, PublishedExists
<1>5. ASSUME NEW e \in Environments, NEW src \in Stamp, RollbackBegin(e, src)
      PROVE  PublishedExists'
  BY <1>5 DEF RollbackBegin, Arrive, PublishedExists
<1>6. ASSUME NEW q \in inflight, PublishRead(q) \/ PublishCount(q) \/ RollbackRead(q)
      PROVE  PublishedExists'
  BY <1>6, ReadMoves DEF Quiet, PublishedExists
<1>7. ASSUME NEW q \in inflight, PublishCommit(q) \/ RollbackCommit(q)
      PROVE  PublishedExists'
  <2>1. PICK p, r :
           /\ inflight' = (inflight \ {q}) \cup {p}
           /\ p.env = q.env /\ p.rev = q.rev
           /\ revisions' = revisions \cup {r} /\ r.id = q.rev /\ r.env = q.env
           /\ UNCHANGED environments
    BY <1>7, CommitMoves
  <2> QED
    BY <2>1 DEF PublishedExists
<1>8. QED
  BY <1>1, <1>2, <1>3, <1>4, <1>5, <1>6, <1>7, StepShapes

-----------------------------------------------------------------------------
(* Assignments.                                                            *)

LEMMA AssignmentsStep ==
  ASSUME TypeOK, RowsExist, NamesAreStable, PublishedExists, AssignmentsExist, [Next]_vars
  PROVE  AssignmentsExist'
<1>1. CASE Quiet
  BY <1>1 DEF Quiet, AssignmentsExist
<1>2. ASSUME NEW s \in Secrets,
             \/ CreateSecretWithValue(s)
             \/ AddSecretVersion(s)
             \/ \E p \in Paths : UpdateBinding(s, p)
      PROVE  AssignmentsExist'
  BY <1>2 DEF CreateSecretWithValue, AddSecretVersion, UpdateBinding, AssignmentsExist
<1>3. ASSUME NEW q \in inflight, NEW S \in SUBSET Secrets, NEW c \in [S -> 1 .. MaxSeq],
             EditSubmit(q, c)
      PROVE  AssignmentsExist'
  BY <1>3 DEF EditSubmit, AssignmentsExist
<1>4. ASSUME NEW q \in inflight, PublishCommit(q) \/ RollbackCommit(q)
      PROVE  AssignmentsExist'
  BY <1>4, CommitMoves DEF AssignmentsExist
<1>5. ASSUME NEW q \in inflight, AdvanceDesiredRevision(q)
      PROVE  AssignmentsExist'
  <2>1. \A b \in assignments' : \E a \in assignments :
          b.env = a.env /\ (IF a.env = q.env THEN b.rev = q.rev ELSE b = a)
    BY <1>5 DEF AdvanceDesiredRevision, TypeOK, Assignment
  <2>2. \A a \in assignments : a.env \in environments
    BY DEF AssignmentsExist, RowsExist
  <2>3. q.env \in environments => \E r \in revisions : r.id = q.rev /\ r.env = q.env
    BY <1>5 DEF AdvanceDesiredRevision, PublishedExists
  <2> QED
    BY <1>5, <2>1, <2>2, <2>3 DEF AdvanceDesiredRevision, AssignmentsExist
<1>6. ASSUME NEW q \in inflight, AssignInsert(q)
      PROVE  AssignmentsExist'
  BY <1>6 DEF AssignInsert, NamesAreStable, AssignmentsExist
<1>7. ASSUME NEW q \in inflight, DeleteSecretCommit(q)
      PROVE  AssignmentsExist'
  <2>1. UNCHANGED assignments
    BY <1>7 DEF DeleteSecretCommit
  <2> QED
    BY <1>7, <2>1, PurgeKeeps DEF AssignmentsExist
<1>8. ASSUME NEW q \in inflight, DeleteCommit(q)
      PROVE  AssignmentsExist'
  BY <1>8 DEF DeleteCommit, AssignmentsExist
<1>9. ASSUME NEW a \in assignments, MarkAssignmentRemoving(a)
      PROVE  AssignmentsExist'
  BY <1>9 DEF MarkAssignmentRemoving, AssignmentsExist
<1>10. QED
  BY <1>1, <1>2, <1>3, <1>4, <1>5, <1>6, <1>7, <1>8, <1>9, TableSteps

-----------------------------------------------------------------------------
(* Draft versions and contents.                                            *)

\* An edit bumps the Draft it changes, and no other Draft.
LEMMA BumpMoves ==
  ASSUME TypeOK, RowsExist, DraftsAreSound,
         \/ \E s \in Secrets :
              \/ CreateSecretWithValue(s)
              \/ AddSecretVersion(s)
              \/ \E p \in Paths : UpdateBinding(s, p)
         \/ \E q \in inflight : \E S \in SUBSET Secrets : \E c \in [S -> 1 .. MaxSeq] :
              EditSubmit(q, c)
  PROVE  \E e \in environments :
           /\ draft'[e] = draft[e] + 1
           /\ \A x \in Environments \ {e} :
                draft'[x] = draft[x] /\ DraftFiles(x)' = DraftFiles(x)
           /\ \A s \in Secrets : Home[s] # e => (s \in live' <=> s \in live)
           /\ inflight' \subseteq inflight
           /\ UNCHANGED <<environments, revisions>>
<1> USE ConstantsAssumption
<1>1. ASSUME NEW s \in Secrets, CreateSecretWithValue(s)
      PROVE  /\ Home[s] \in environments
             /\ draft'[Home[s]] = draft[Home[s]] + 1
             /\ \A x \in Environments \ {Home[s]} : draft'[x] = draft[x]
             /\ \A x \in Environments \ {Home[s]} : DraftFiles(x)' = DraftFiles(x)
             /\ \A t \in Secrets : Home[t] # Home[s] => (t \in live' <=> t \in live)
             /\ UNCHANGED <<environments, revisions, inflight>>
  <2>1. \A x \in Environments \ {Home[s]} : SelectionsOf(x)' = SelectionsOf(x)
    BY <1>1 DEF CreateSecretWithValue, SelectionsOf
  <2>2. \A d \in selections : d.env # Home[s] => binding'[d.secret] = binding[d.secret]
    BY <1>1 DEF CreateSecretWithValue, DraftsAreSound, TypeOK, Selection
  <2>3. \A x \in Environments \ {Home[s]} : DraftFiles(x)' = DraftFiles(x)
    BY <2>1, <2>2 DEF DraftFiles, SelectionsOf
  <2> QED
    BY <1>1, <2>3 DEF CreateSecretWithValue, BumpDraft, TypeOK
<1>2. ASSUME NEW s \in Secrets, AddSecretVersion(s)
      PROVE  /\ Home[s] \in environments
             /\ draft'[Home[s]] = draft[Home[s]] + 1
             /\ \A x \in Environments \ {Home[s]} : draft'[x] = draft[x]
             /\ \A x \in Environments \ {Home[s]} : DraftFiles(x)' = DraftFiles(x)
             /\ UNCHANGED <<live, environments, revisions, inflight>>
  <2> DEFINE moved(d) == IF d.env = Home[s] /\ d.secret = s
                         THEN [d EXCEPT !.seq = latest[s] + 1] ELSE d
  <2>1. \A d \in selections : moved(d).env = d.env /\ (d.env # Home[s] => moved(d) = d)
    BY DEF TypeOK, Selection
  <2>2. selections' = {moved(d) : d \in selections}
    BY <1>2 DEF AddSecretVersion, Reselect
  <2> HIDE DEF moved
  <2>3. \A x \in Environments \ {Home[s]} : SelectionsOf(x)' = SelectionsOf(x)
    BY <2>1, <2>2 DEF SelectionsOf
  <2>4. \A x \in Environments \ {Home[s]} : DraftFiles(x)' = DraftFiles(x)
    BY <1>2, <2>3 DEF DraftFiles, AddSecretVersion
  <2> QED
    BY <1>2, <2>4 DEF AddSecretVersion, BumpDraft, TypeOK, RowsExist
<1>3. ASSUME NEW s \in Secrets, NEW p \in Paths, UpdateBinding(s, p)
      PROVE  /\ Home[s] \in environments
             /\ draft'[Home[s]] = draft[Home[s]] + 1
             /\ \A x \in Environments \ {Home[s]} : draft'[x] = draft[x]
             /\ \A x \in Environments \ {Home[s]} : DraftFiles(x)' = DraftFiles(x)
             /\ UNCHANGED <<live, environments, revisions, inflight>>
  <2>1. \A d \in selections : d.env # Home[s] => binding'[d.secret] = binding[d.secret]
    BY <1>3 DEF UpdateBinding, DraftsAreSound, TypeOK, Selection
  <2>2. \A x \in Environments \ {Home[s]} : DraftFiles(x)' = DraftFiles(x)
    BY <1>3, <2>1 DEF DraftFiles, SelectionsOf, UpdateBinding
  <2> QED
    BY <1>3, <2>2 DEF UpdateBinding, BumpDraft, TypeOK, RowsExist
<1>4. ASSUME NEW q \in inflight, NEW S \in SUBSET Secrets, NEW c \in [S -> 1 .. MaxSeq],
             EditSubmit(q, c)
      PROVE  /\ q.env \in environments
             /\ draft'[q.env] = draft[q.env] + 1
             /\ \A x \in Environments \ {q.env} : draft'[x] = draft[x]
             /\ \A x \in Environments \ {q.env} : DraftFiles(x)' = DraftFiles(x)
             /\ inflight' \subseteq inflight
             /\ UNCHANGED <<live, environments, revisions>>
  <2>1. q \in EditRequest
    BY <1>4, RequestForms DEF TypeOK, EditSubmit
  <2>2. q.env \in environments
    BY <1>4, <2>1 DEF EditSubmit, EditRequest, RowsExist
  <2>3. \A x \in Environments \ {q.env} : SelectionsOf(x)' = SelectionsOf(x)
    BY <1>4 DEF EditSubmit, SelectionsOf
  <2>4. \A x \in Environments \ {q.env} : DraftFiles(x)' = DraftFiles(x)
    BY <1>4, <2>3 DEF DraftFiles, EditSubmit, secretVars
  <2> QED
    BY <1>4, <2>2, <2>4 DEF EditSubmit, BumpDraft, TypeOK, End, secretVars
<1>5. CASE \E s \in Secrets : CreateSecretWithValue(s)
  <2>1. PICK s \in Secrets : CreateSecretWithValue(s)
    BY <1>5
  <2> QED
    BY <1>1, <2>1
<1>6. CASE \E s \in Secrets : AddSecretVersion(s)
  <2>1. PICK s \in Secrets : AddSecretVersion(s)
    BY <1>6
  <2> QED
    BY <1>2, <2>1
<1>7. CASE \E s \in Secrets, p \in Paths : UpdateBinding(s, p)
  <2>1. PICK s \in Secrets, p \in Paths : UpdateBinding(s, p)
    BY <1>7
  <2> QED
    BY <1>3, <2>1
<1>8. CASE \E q \in inflight : \E S \in SUBSET Secrets : \E c \in [S -> 1 .. MaxSeq] :
             EditSubmit(q, c)
  <2>1. PICK q \in inflight, S \in SUBSET Secrets : \E c \in [S -> 1 .. MaxSeq] : EditSubmit(q, c)
    BY <1>8
  <2> QED
    BY <1>4, <2>1
<1>9. QED
  BY <1>5, <1>6, <1>7, <1>8

\* Deletions take the same secrets out of Drafts and revisions.
LEMMA PurgeShrinks ==
  ASSUME TypeOK, NEW q \in inflight, DeleteSecretCommit(q), NEW e \in Environments
  PROVE  DraftFiles(e)' = FilesOf(DraftFiles(e), Secrets \ {q.secret})
<1>1. \A d \in selections : d.secret \in Secrets
  BY DEF TypeOK, Selection
<1>2. \A d : d \in selections' <=> d \in selections /\ d.secret # q.secret
  BY DEF DeleteSecretCommit
<1>3. binding' = binding
  BY DEF DeleteSecretCommit
<1>4. QED
  BY <1>1, <1>2, <1>3 DEF DraftFiles, SelectionsOf, FilesOf

LEMMA DeleteKeepsOthers ==
  ASSUME NEW q \in inflight, DeleteCommit(q), NEW e \in Environments, e \notin q.scope
  PROVE  DraftFiles(e)' = DraftFiles(e) /\ draft'[e] = draft[e]
  BY DEF DeleteCommit, DraftFiles, SelectionsOf

LEMMA LabelStep ==
  ASSUME TypeOK, RowsExist, DraftsAreSound, StampsAreUnique, VersionsArePast, NamesAreStable,
         LabelDeterminesContents, [Next]_vars
  PROVE  LabelDeterminesContents'
<1> USE ConstantsAssumption
<1>0. /\ \A e \in Environments : draft[e] \in Nat
      /\ \A r \in revisions : r.draft \in Nat /\ r.env \in Environments
  BY DEF TypeOK, Revision
<1>1. CASE Quiet
  BY <1>1 DEF Quiet, secretVars, draftVars, LabelDeterminesContents, DraftFiles, SelectionsOf
<1>2. CASE \/ \E s \in Secrets :
                \/ CreateSecretWithValue(s)
                \/ AddSecretVersion(s)
                \/ \E p \in Paths : UpdateBinding(s, p)
           \/ \E q \in inflight : \E S \in SUBSET Secrets : \E c \in [S -> 1 .. MaxSeq] :
                EditSubmit(q, c)
  <2>1. PICK e \in environments :
          /\ draft'[e] = draft[e] + 1
          /\ \A x \in Environments \ {e} :
               draft'[x] = draft[x] /\ DraftFiles(x)' = DraftFiles(x)
          /\ UNCHANGED revisions
    BY <1>2, BumpMoves
  <2>2. \A r \in revisions : r.env = e => r.draft # draft'[r.env]
    BY <1>0, <2>1 DEF VersionsArePast
  <2> QED
    BY <1>0, <2>1, <2>2 DEF LabelDeterminesContents
<1>3. ASSUME NEW q \in inflight, PublishCommit(q) \/ RollbackCommit(q)
      PROVE  LabelDeterminesContents'
  <2>1. PICK p, r :
          /\ Inserting(q)
          /\ revisions' = revisions \cup {r}
          /\ r.env = q.env /\ r.draft = q.draft
          /\ PublishCommit(q) => r.files = DraftFiles(q.env)
          /\ RollbackCommit(q) =>
               /\ q.op = "rollback" /\ q.at = "counted"
               /\ \E o \in revisions : o.id = q.src /\ o.env = q.env /\ r.files = o.files
          /\ UNCHANGED <<secretVars, draftVars>>
    BY <1>3, CommitMoves
  <2>2. RollbackCommit(q) => (r.draft = draft[r.env] => r.files = DraftFiles(r.env))
    BY <2>1 DEF NamesAreStable, LabelDeterminesContents
  <2>3. r.draft = draft[r.env] => r.files = DraftFiles(r.env)
    BY <1>3, <2>1, <2>2
  <2>4. \A e : DraftFiles(e)' = DraftFiles(e)
    BY <2>1 DEF secretVars, draftVars, DraftFiles, SelectionsOf
  <2> QED
    BY <2>1, <2>3, <2>4 DEF draftVars, LabelDeterminesContents
<1>4. ASSUME NEW q \in inflight, AdvanceDesiredRevision(q) \/ AssignInsert(q)
      PROVE  LabelDeterminesContents'
  BY <1>4 DEF AdvanceDesiredRevision, AssignInsert, secretVars, draftVars,
              LabelDeterminesContents, DraftFiles, SelectionsOf
<1>5. ASSUME NEW q \in inflight, DeleteSecretCommit(q)
      PROVE  LabelDeterminesContents'
  <2> DEFINE kept(r) == [r EXCEPT !.files = FilesOf(r.files, Secrets \ {q.secret})]
  <2>1. \A r \in revisions :
          /\ kept(r).env = r.env /\ kept(r).draft = r.draft
          /\ kept(r).files = FilesOf(r.files, Secrets \ {q.secret})
    BY DEF TypeOK, Revision
  <2>2. revisions' = {kept(r) : r \in revisions} /\ draft' = draft
    BY <1>5 DEF DeleteSecretCommit
  <2> HIDE DEF kept
  <2>3. \A e \in Environments : DraftFiles(e)' = FilesOf(DraftFiles(e), Secrets \ {q.secret})
    BY <1>5, PurgeShrinks
  <2>4. ASSUME NEW n \in revisions', n.draft = draft'[n.env]
        PROVE  n.files = DraftFiles(n.env)'
    <3>1. PICK r \in revisions : n = kept(r)
      BY <2>2
    <3>2. r.env \in Environments /\ n.env = r.env /\ r.files = DraftFiles(r.env)
      BY <1>0, <2>1, <2>2, <2>4, <3>1 DEF LabelDeterminesContents
    <3>3. DraftFiles(n.env)' = FilesOf(DraftFiles(n.env), Secrets \ {q.secret})
      BY <2>3, <3>2
    <3> QED
      BY <2>1, <3>1, <3>2, <3>3
  <2> QED
    BY <2>4 DEF LabelDeterminesContents
<1>6. ASSUME NEW q \in inflight, DeleteCommit(q)
      PROVE  LabelDeterminesContents'
  <2>1. \A r \in revisions' : r \in revisions /\ r.env \notin q.scope
    BY <1>6 DEF DeleteCommit
  <2> QED
    BY <1>0, <1>6, <2>1, DeleteKeepsOthers DEF LabelDeterminesContents
<1>7. ASSUME NEW a \in assignments, MarkAssignmentRemoving(a)
      PROVE  LabelDeterminesContents'
  BY <1>7 DEF MarkAssignmentRemoving, secretVars, draftVars,
              LabelDeterminesContents, DraftFiles, SelectionsOf
<1>8. QED
  BY <1>1, <1>2, <1>3, <1>4, <1>5, <1>6, <1>7, TableSteps

LEMMA ViewsStep ==
  ASSUME TypeOK, DraftsAreSound, ViewsAreOwn, [Next]_vars
  PROVE  ViewsAreOwn'
<1>1. CASE OneStatement
  BY <1>1, OneStatementKeeps DEF ViewsAreOwn
<1>2. CASE Looking /\ ~ (\E e \in Environments : EditVersion(e))
  <2>2. ASSUME NEW q \in inflight, EditView(q)
        PROVE  ViewsAreOwn'
    <3>1. q \in EditRequest
      BY <2>2, RequestForms DEF TypeOK, EditView
    <3> DEFINE v == [q EXCEPT !.view = DraftFiles(q.env), !.at = "viewed"]
    <3>2. v.env = q.env /\ v.view = DraftFiles(q.env) /\ q.env \in Environments
      BY <3>1 DEF EditRequest
    <3>3. inflight' = (inflight \ {q}) \cup {v}
      BY <2>2 DEF EditView, Become
    <3> HIDE DEF v
    <3>4. \A f \in v.view : Home[f.secret] = v.env
      BY <3>2, DraftFilesSound
    <3> QED
      BY <3>3, <3>4 DEF ViewsAreOwn
  <2>3. ASSUME NEW q \in inflight, PublishCheck(q)
        PROVE  ViewsAreOwn'
    <3>1. q \in PublishRequest
      BY <2>3, RequestForms DEF TypeOK, PublishCheck
    <3>2. [q EXCEPT !.at = "checked"].op = "publish"
      BY <3>1 DEF PublishRequest
    <3> QED
      BY <2>3, <3>2 DEF PublishCheck, Become, ViewsAreOwn
  <2>4. ASSUME NEW s \in Secrets, DeleteSecretCount(s)
        PROVE  ViewsAreOwn'
    BY <2>4 DEF DeleteSecretCount, Arrive, ViewsAreOwn
  <2>5. ASSUME NEW S \in Scopes, DeleteCount(S)
        PROVE  ViewsAreOwn'
    BY <2>5 DEF DeleteCount, Arrive, ViewsAreOwn
  <2>6. ASSUME NEW e \in Environments, PublishDraft(e)
        PROVE  ViewsAreOwn'
    BY <2>6 DEF PublishDraft, Arrive, ViewsAreOwn
  <2>7. ASSUME NEW e \in Environments, NEW g \in Groups, AssignRead(g, e)
        PROVE  ViewsAreOwn'
    BY <2>7 DEF AssignRead, Arrive, ViewsAreOwn
  <2> QED
    BY <1>2, <2>2, <2>3, <2>4, <2>5, <2>6, <2>7 DEF Looking
<1>3. ASSUME NEW e \in Environments, EditVersion(e)
      PROVE  ViewsAreOwn'
  BY <1>3 DEF EditVersion, Arrive, ViewsAreOwn
<1>4. ASSUME NEW q \in inflight, Ending(q)
      PROVE  ViewsAreOwn'
  BY <1>4, EndingKeeps DEF ViewsAreOwn
<1>5. ASSUME NEW q \in inflight, PublishBegin(q)
      PROVE  ViewsAreOwn'
  BY <1>5, BeginMoves DEF ViewsAreOwn
<1>6. ASSUME NEW e \in Environments, NEW src \in Stamp, RollbackBegin(e, src)
      PROVE  ViewsAreOwn'
  BY <1>6 DEF RollbackBegin, Arrive, ViewsAreOwn
<1>7. ASSUME NEW q \in inflight, PublishRead(q) \/ PublishCount(q) \/ RollbackRead(q)
      PROVE  ViewsAreOwn'
  BY <1>7, ReadMoves DEF Inserting, ViewsAreOwn
<1>8. ASSUME NEW q \in inflight, PublishCommit(q) \/ RollbackCommit(q)
      PROVE  ViewsAreOwn'
  BY <1>8, CommitMoves DEF ViewsAreOwn
<1>9. QED
  BY <1>1, <1>2, <1>3, <1>4, <1>5, <1>6, <1>7, <1>8, StepShapes DEF Looking

LEMMA EditsStep ==
  ASSUME TypeOK, RowsExist, DraftsAreSound, VersionsArePast, ViewsAreOwn,
         EditsSeeWhatTheyReplace, [Next]_vars
  PROVE  EditsSeeWhatTheyReplace'
<1> USE ConstantsAssumption
<1>0. /\ \A e \in Environments : draft[e] \in Nat
      /\ \A q \in inflight : q.op = "edit" =>
           q.env \in Environments /\ q.draft \in Nat /\ q.draft > 0 /\ q.view \subseteq File
      /\ \A q \in inflight : q.op = "edit" /\ q.draft = draft[q.env] => q.env \in environments
  BY RequestForms DEF TypeOK, EditRequest, RowsExist
<1>1. CASE Quiet
  <2>1. \A e : DraftFiles(e)' = DraftFiles(e)
    BY <1>1 DEF Quiet, secretVars, draftVars, DraftFiles, SelectionsOf
  <2>2. UNCHANGED <<live, draft>>
    BY <1>1 DEF Quiet, secretVars, draftVars
  <2>3. CASE inflight' \subseteq inflight
    BY <2>1, <2>2, <2>3 DEF EditsSeeWhatTheyReplace
  <2>4. CASE Looking
    <3>1. PICK p : Looked(p)
      BY <2>4, LookingMoves
    <3>2. ASSUME p.op = "edit", p.at = "viewed"
          PROVE  DraftFiles(p.env) = FilesOf(p.view, live)
      <4>1. p.view = DraftFiles(p.env) /\ p.env \in Environments
        BY <1>0, <3>1, <3>2 DEF Looked
      <4>2. \A f \in DraftFiles(p.env) : f.secret \in live
        BY <4>1, DraftFilesSound
      <4> QED
        BY <4>1, <4>2 DEF FilesOf
    <3> QED
      BY <2>1, <2>2, <3>1, <3>2 DEF Looked, EditsSeeWhatTheyReplace
  <2>5. ASSUME NEW q \in inflight,
               PublishBegin(q) \/ PublishRead(q) \/ PublishCount(q) \/ RollbackRead(q)
        PROVE  EditsSeeWhatTheyReplace'
    <3>1. PICK p : inflight' = (inflight \ {q}) \cup {p} /\ p.op # "edit"
      BY <2>5, BeginMoves, ReadMoves DEF Inserting
    <3> QED
      BY <2>1, <2>2, <3>1 DEF EditsSeeWhatTheyReplace
  <2>6. ASSUME NEW e \in Environments, NEW src \in Stamp, RollbackBegin(e, src)
        PROVE  EditsSeeWhatTheyReplace'
    BY <2>1, <2>2, <2>6 DEF RollbackBegin, Arrive, EditsSeeWhatTheyReplace
  <2>7. ASSUME NEW q \in inflight, PublishCommit(q) \/ RollbackCommit(q)
        PROVE  EditsSeeWhatTheyReplace'
    <3>1. PICK p : inflight' = (inflight \ {q}) \cup {p} /\ p.op # "edit"
      BY <2>7, CommitMoves
    <3> QED
      BY <2>1, <2>2, <3>1 DEF EditsSeeWhatTheyReplace
  <2>8. QED
    BY <2>3, <2>4, <2>5, <2>6, <2>7, StepShapes, OneStatementKeeps, EndingKeeps
<1>2. CASE \/ \E s \in Secrets :
                \/ CreateSecretWithValue(s)
                \/ AddSecretVersion(s)
                \/ \E p \in Paths : UpdateBinding(s, p)
           \/ \E q \in inflight : \E S \in SUBSET Secrets : \E c \in [S -> 1 .. MaxSeq] :
                EditSubmit(q, c)
  <2>1. PICK e \in environments :
          /\ draft'[e] = draft[e] + 1
          /\ \A x \in Environments \ {e} :
               draft'[x] = draft[x] /\ DraftFiles(x)' = DraftFiles(x)
          /\ \A s \in Secrets : Home[s] # e => (s \in live' <=> s \in live)
          /\ inflight' \subseteq inflight
    BY <1>2, BumpMoves
  <2>2. \A q \in inflight : q.op = "edit" /\ q.env = e => q.draft # draft'[e]
    BY <1>0, <2>1 DEF VersionsArePast, HoldsVersion
  <2>3. \A q \in inflight : q.op = "edit" /\ q.env # e => FilesOf(q.view, live') = FilesOf(q.view, live)
    BY <1>0, <2>1 DEF FilesOf, ViewsAreOwn, File
  <2> QED
    BY <1>0, <2>1, <2>2, <2>3 DEF EditsSeeWhatTheyReplace
<1>3. ASSUME NEW q \in inflight, PublishCommit(q) \/ RollbackCommit(q)
      PROVE  EditsSeeWhatTheyReplace'
  <2>1. PICK p : inflight' = (inflight \ {q}) \cup {p} /\ p.op # "edit"
    BY <1>3, CommitMoves
  <2>2. \A e : DraftFiles(e)' = DraftFiles(e)
    BY <1>3, CommitMoves DEF secretVars, draftVars, DraftFiles, SelectionsOf
  <2>3. UNCHANGED <<live, draft>>
    BY <1>3, CommitMoves DEF secretVars, draftVars
  <2> QED
    BY <2>1, <2>2, <2>3 DEF EditsSeeWhatTheyReplace
<1>4. ASSUME NEW q \in inflight, AdvanceDesiredRevision(q) \/ AssignInsert(q)
      PROVE  EditsSeeWhatTheyReplace'
  BY <1>4 DEF AdvanceDesiredRevision, AssignInsert, End, secretVars, draftVars,
              EditsSeeWhatTheyReplace, DraftFiles, SelectionsOf
<1>5. ASSUME NEW q \in inflight, DeleteSecretCommit(q)
      PROVE  EditsSeeWhatTheyReplace'
  <2>1. inflight' \subseteq inflight /\ live' = live \ {q.secret} /\ draft' = draft
    BY <1>5 DEF DeleteSecretCommit, End
  <2>2. \A e \in Environments : DraftFiles(e)' = FilesOf(DraftFiles(e), Secrets \ {q.secret})
    BY <1>5, PurgeShrinks
  <2>3. ASSUME NEW p \in inflight, p.op = "edit", p.at = "viewed", p.draft = draft[p.env]
        PROVE  DraftFiles(p.env)' = FilesOf(p.view, live')
    <3>1. DraftFiles(p.env) = FilesOf(p.view, live) /\ p.env \in Environments
      BY <1>0, <2>3 DEF EditsSeeWhatTheyReplace
    <3>2. FilesOf(FilesOf(p.view, live), Secrets \ {q.secret}) = FilesOf(p.view, live')
      BY <2>1 DEF FilesOf, TypeOK
    <3> QED
      BY <2>2, <3>1, <3>2
  <2> QED
    BY <2>1, <2>3 DEF EditsSeeWhatTheyReplace
<1>6. ASSUME NEW q \in inflight, DeleteCommit(q)
      PROVE  EditsSeeWhatTheyReplace'
  <2>1. inflight' \subseteq inflight
    BY <1>6 DEF DeleteCommit, End
  <2>2. ASSUME NEW p \in inflight, p.op = "edit", p.at = "viewed", p.draft = draft'[p.env]
        PROVE  DraftFiles(p.env)' = FilesOf(p.view, live')
    <3>1. p.env \in Environments /\ p.draft > 0 /\ p.view \subseteq File
      BY <1>0, <2>2
    <3>2. p.env \notin q.scope
      BY <1>6, <2>2, <3>1 DEF DeleteCommit
    <3>3. DraftFiles(p.env)' = FilesOf(p.view, live)
      BY <1>6, <2>2, <3>1, <3>2, DeleteKeepsOthers DEF EditsSeeWhatTheyReplace
    <3>4. \A f \in p.view : f.secret \in live' <=> f.secret \in live
      BY <1>6, <2>2, <3>2 DEF DeleteCommit, ViewsAreOwn
    <3> QED
      BY <3>3, <3>4 DEF FilesOf
  <2> QED
    BY <2>1, <2>2 DEF EditsSeeWhatTheyReplace
<1>7. ASSUME NEW a \in assignments, MarkAssignmentRemoving(a)
      PROVE  EditsSeeWhatTheyReplace'
  BY <1>7 DEF MarkAssignmentRemoving, secretVars, draftVars,
              EditsSeeWhatTheyReplace, DraftFiles, SelectionsOf
<1>8. QED
  BY <1>1, <1>2, <1>3, <1>4, <1>5, <1>6, <1>7, TableSteps

-----------------------------------------------------------------------------
(* The theorems.                                                           *)

LEMMA InvInit == Init => Inv
<1>1. ASSUME Init
      PROVE  TypeOK
  BY <1>1, ConstantsAssumption DEF Init, TypeOK
<1>2. ASSUME Init
      PROVE  RowsExist /\ DraftsAreSound /\ RevisionsAreSound /\ StampsAreUnique
             /\ VersionsArePast /\ NamesAreStable /\ ViewsAreOwn /\ PublishedExists
             /\ AssignmentsExist
  BY <1>2, ConstantsAssumption
  DEF Init, RowsExist, DraftsAreSound, RevisionsAreSound, StampsAreUnique, IdsAreUnique,
      VersionsArePast, NamesAreStable, ViewsAreOwn, PublishedExists, AssignmentsExist
<1>3. ASSUME Init
      PROVE  LabelDeterminesContents /\ EditsSeeWhatTheyReplace
  BY <1>3 DEF Init, LabelDeterminesContents, EditsSeeWhatTheyReplace
<1>4. QED
  BY <1>1, <1>2, <1>3 DEF Inv

LEMMA InvStep == Inv /\ [Next]_vars => Inv'
<1>1. ASSUME Inv, [Next]_vars
      PROVE  Inv'
  <2>1. TypeOK'
    BY <1>1, TypeStep DEF Inv
  <2>2. RowsExist' /\ DraftsAreSound' /\ RevisionsAreSound'
    BY <1>1, RowsStep, DraftsStep, RevisionsStep DEF Inv
  <2>3. StampsAreUnique' /\ VersionsArePast' /\ NamesAreStable' /\ ViewsAreOwn' /\ PublishedExists'
    BY <1>1, StampsStep, VersionsStep, NamesStep, ViewsStep, PublishedStep DEF Inv
  <2>4. AssignmentsExist'
    BY <1>1, AssignmentsStep DEF Inv
  <2>5. LabelDeterminesContents' /\ EditsSeeWhatTheyReplace'
    BY <1>1, LabelStep, EditsStep DEF Inv
  <2>6. QED
    BY <2>1, <2>2, <2>3, <2>4, <2>5 DEF Inv
<1>2. QED
  BY <1>1

LEMMA Invariance == Spec => []Inv
  BY InvInit, InvStep, PTL DEF Spec

\* Every table holds rows of its type, and every request is one the handlers can be in.
THEOREM TypeCorrect == Spec => []TypeOK
<1>1. Inv => TypeOK
  BY DEF Inv
<1>2. QED
  BY <1>1, Invariance, PTL

\* Whatever runs between handlePublish's reads and its commit, a revision labelled with the
\* current Draft version holds what the Draft holds.
THEOREM LabelsDetermineContents == Spec => []LabelDeterminesContents
<1>1. Inv => LabelDeterminesContents
  BY DEF Inv
<1>2. QED
  BY <1>1, Invariance, PTL

\* An If-Match that UpdateDraftSelections accepts names a Draft its author has seen whole,
\* although GetDraft reads the version and the selections in two statements.
THEOREM NoLostEdit == Spec => []EditsSeeWhatTheyReplace
<1>1. Inv => EditsSeeWhatTheyReplace
  BY DEF Inv
<1>2. QED
  BY <1>1, Invariance, PTL

\* No deletion, however it is timed, leaves a revision whose files cannot be built.
THEOREM RevisionsStayDeliverable == Spec => []EveryRevisionIsDeliverable
<1>1. Inv => EveryRevisionIsDeliverable
  BY DEF Inv, RevisionsAreSound, EveryRevisionIsDeliverable
<1>2. QED
  BY <1>1, Invariance, PTL

\* Drafts, revisions and Assignments stay inside their bundle, and an Assignment always
\* points at a revision that exists.
THEOREM Isolation == Spec => []BundlesAreIsolated
<1>1. Inv => BundlesAreIsolated
  BY DEF Inv, DraftsAreSound, RevisionsAreSound, AssignmentsExist, BundlesAreIsolated
<1>2. QED
  BY <1>1, Invariance, PTL

\* A committed revision outlives every step but the deletion of its environment, and
\* changes only by losing the files of deleted secrets.
THEOREM RevisionsArePreserved == Spec => RevisionsOnlyLoseDeletedSecrets
<1> DEFINE Kept == \A r \in revisions : r.env \in environments' =>
                     [r EXCEPT !.files = FilesOf(r.files, live')] \in revisions'
<1>1. ASSUME TypeOK, RevisionsAreSound, [Next]_vars
      PROVE  Kept
  <2> USE ConstantsAssumption
  <2>0. \A r \in revisions : \A S :
          (\A f \in r.files : f.secret \in S) => [r EXCEPT !.files = FilesOf(r.files, S)] = r
    BY <1>1 DEF TypeOK, Revision, FilesOf
  <2>1. ASSUME live \subseteq live', revisions \subseteq revisions'
        PROVE  Kept
    BY <1>1, <2>0, <2>1 DEF RevisionsAreSound
  <2>2. CASE Quiet
    BY <2>1, <2>2 DEF Quiet, secretVars
  <2>3. ASSUME NEW s \in Secrets,
               \/ CreateSecretWithValue(s)
               \/ AddSecretVersion(s)
               \/ \E p \in Paths : UpdateBinding(s, p)
        PROVE  Kept
    BY <2>1, <2>3 DEF CreateSecretWithValue, AddSecretVersion, UpdateBinding
  <2>4. ASSUME NEW q \in inflight,
               \/ \E S \in SUBSET Secrets : \E c \in [S -> 1 .. MaxSeq] : EditSubmit(q, c)
               \/ AdvanceDesiredRevision(q) \/ AssignInsert(q)
        PROVE  Kept
    BY <2>1, <2>4 DEF EditSubmit, AdvanceDesiredRevision, AssignInsert, secretVars
  <2>5. ASSUME NEW q \in inflight, PublishCommit(q) \/ RollbackCommit(q)
        PROVE  Kept
    <3>1. revisions \subseteq revisions' /\ live' = live
      BY <1>1, <2>5, CommitMoves DEF secretVars
    <3> QED
      BY <2>1, <3>1
  <2>6. ASSUME NEW q \in inflight, DeleteSecretCommit(q)
        PROVE  Kept
    <3>1. /\ live' = live \ {q.secret}
          /\ revisions' = {[r EXCEPT !.files = FilesOf(r.files, Secrets \ {q.secret})]
                             : r \in revisions}
      BY <2>6 DEF DeleteSecretCommit
    <3>2. \A r \in revisions : FilesOf(r.files, Secrets \ {q.secret}) = FilesOf(r.files, live')
      BY <1>1, <3>1 DEF TypeOK, RevisionsAreSound, FilesOf
    <3> QED
      BY <3>1, <3>2
  <2>7. ASSUME NEW q \in inflight, DeleteCommit(q)
        PROVE  Kept
    <3>1. ASSUME NEW r \in revisions, r.env \in environments'
          PROVE  [r EXCEPT !.files = FilesOf(r.files, live')] \in revisions'
      <4>1. r.env \notin q.scope /\ r \in revisions'
        BY <2>7, <3>1 DEF DeleteCommit
      <4>2. \A f \in r.files : f.secret \in live'
        BY <1>1, <2>7, <4>1 DEF DeleteCommit, RevisionsAreSound
      <4> QED
        BY <2>0, <4>1, <4>2
    <3> QED
      BY <3>1
  <2>8. ASSUME NEW a \in assignments, MarkAssignmentRemoving(a)
        PROVE  Kept
    BY <2>1, <2>8 DEF MarkAssignmentRemoving, secretVars
  <2>9. QED
    BY <1>1, <2>2, <2>3, <2>4, <2>5, <2>6, <2>7, <2>8, TableSteps
<1>2. Inv /\ [Next]_vars => [Kept]_vars
  BY <1>1 DEF Inv
<1>3. QED
  BY <1>2, Invariance, PTL DEF Spec, RevisionsOnlyLoseDeletedSecrets

-----------------------------------------------------------------------------
(* What AssignmentsFollowTheBundle needs.  Publish and Rollback move the   *)
(* Assignments in a transaction of their own, and CreateAssignment inserts *)
(* the revision it has read before: each uses what was newest earlier.     *)
(* Nothing comes in between when no two of them overlap on a bundle.       *)

\* The revision is committed, the Assignments are not advanced to it yet.
Advancing(q) == q.op \in {"publish", "rollback"} /\ q.at = "published"

\* A request that will make Assignments point at q.rev, which exists.
Pointing(q) == Advancing(q) \/ q.op = "assign"

\* No two requests that will insert a revision of a bundle, or point at one, overlap.
OneAtATime ==
  \A p, q \in inflight :
    /\ Inserting(p) \/ Pointing(p)
    /\ Inserting(q) \/ Pointing(q)
    /\ p.env = q.env
    => p = q

\* The revision that a request holds is the newest of its bundle, or will be.
NewestIsHeld ==
  \A q \in inflight : \A r \in revisions :
    /\ Inserting(q) /\ r.env = q.env => r.id < q.rev
    /\ Pointing(q) /\ r.env = q.env => r.id <= q.rev

\* An Assignment points at the newest revision, unless a request is about to advance it.
NewestIsDesired ==
  \A a \in assignments :
    \/ \A r \in revisions : r.env = a.env => r.id <= a.rev
    \/ \E q \in inflight : Advancing(q) /\ q.env = a.env

FollowInv == NewestIsHeld /\ NewestIsDesired

\* A step that adds no revision, no Assignment and no request of these, and ends none that
\* is about to advance.
LEMMA FollowKept ==
  ASSUME FollowInv,
         \A r \in revisions' : \E o \in revisions : r.id = o.id /\ r.env = o.env,
         assignments' \subseteq assignments,
         \A q \in inflight' : Inserting(q) \/ Pointing(q) => q \in inflight,
         \A q \in inflight : Advancing(q) => q \in inflight'
  PROVE  FollowInv'
<1>1. NewestIsHeld'
  BY DEF FollowInv, NewestIsHeld
<1>2. NewestIsDesired'
  BY DEF FollowInv, NewestIsDesired
<1> QED
  BY <1>1, <1>2 DEF FollowInv

LEMMA FollowStep ==
  ASSUME Inv, FollowInv, OneAtATime, ~MayFail, [Next]_vars
  PROVE  FollowInv'
<1> USE DEF Inv
<1>1. CASE OneStatement
  <2>1. UNCHANGED <<revisions, inflight>>
    BY <1>1, OneStatementKeeps
  <2>2. assignments' \subseteq assignments
    BY <1>1 DEF OneStatement, CreateSecretWithValue, AddSecretVersion, UpdateBinding,
                MarkAssignmentRemoving, vars
  <2> QED
    BY <2>1, <2>2, FollowKept
<1>2. CASE Looking /\ ~ \E e \in Environments, g \in Groups : AssignRead(g, e)
  <2>1. PICK p : Looked(p)
    BY <1>2, LookingMoves
  <2>2. ~ (p \in inflight' /\ p \notin inflight /\ p.op = "assign")
    <3>1. ASSUME NEW q \in inflight, EditView(q)
          PROVE  ~ (p \in inflight' /\ p \notin inflight /\ p.op = "assign")
      BY <3>1, RequestForms DEF TypeOK, EditRequest, EditView, Become
    <3>2. ASSUME NEW q \in inflight, PublishCheck(q)
          PROVE  ~ (p \in inflight' /\ p \notin inflight /\ p.op = "assign")
      BY <3>2, RequestForms DEF TypeOK, PublishRequest, PublishCheck, Become
    <3>3. ASSUME NEW s \in Secrets, DeleteSecretCount(s)
          PROVE  ~ (p \in inflight' /\ p \notin inflight /\ p.op = "assign")
      BY <3>3 DEF DeleteSecretCount, Arrive
    <3>4. ASSUME NEW e \in Environments, EditVersion(e) \/ PublishDraft(e)
          PROVE  ~ (p \in inflight' /\ p \notin inflight /\ p.op = "assign")
      BY <3>4 DEF EditVersion, PublishDraft, Arrive
    <3>5. ASSUME NEW S \in Scopes, DeleteCount(S)
          PROVE  ~ (p \in inflight' /\ p \notin inflight /\ p.op = "assign")
      BY <3>5 DEF DeleteCount, Arrive
    <3> QED
      BY <1>2, <3>1, <3>2, <3>3, <3>4, <3>5 DEF Looking
  <2>3. \A q \in inflight : Advancing(q) => q \in inflight'
    BY <1>2 DEF Looking, DeleteSecretCount, EditVersion, PublishDraft, EditView, PublishCheck,
                DeleteCount, Arrive, Become, Advancing
  <2> QED
    BY <2>1, <2>2, <2>3, FollowKept DEF Looked, Quiet, Pointing, Advancing
<1>3. ASSUME NEW e \in Environments, NEW g \in Groups, AssignRead(g, e)
      PROVE  FollowInv'
  <2>1. PICK r \in RevisionsOf(e) :
          /\ IsLatest(r)
          /\ inflight' = inflight \cup {[op |-> "assign", group |-> g, env |-> e, rev |-> r.id]}
    BY <1>3 DEF AssignRead, Arrive
  <2>2. UNCHANGED <<revisions, assignments>>
    BY <1>3 DEF AssignRead
  <2>3. \A o \in revisions : o.env = e => o.id <= r.id
    BY <2>1 DEF IsLatest, RevisionsOf
  <2> QED
    BY <2>1, <2>2, <2>3
    DEF FollowInv, NewestIsHeld, NewestIsDesired, Inserting, Pointing, Advancing
<1>4. ASSUME NEW q \in inflight, Ending(q), ~ AdvanceDesiredRevision(q), ~ AssignInsert(q)
      PROVE  FollowInv'
  <2>1. /\ inflight' = inflight \ {q}
        /\ \A r \in revisions' : \E o \in revisions : r.id = o.id /\ r.env = o.env
    BY <1>4, EndingKeeps
  <2>2. assignments' \subseteq assignments /\ ~ Advancing(q)
    BY <1>4 DEF Ending, EditSubmit, DeleteSecretCommit, DeleteCommit, Abandon, Advancing
  <2> QED
    BY <2>1, <2>2, FollowKept
<1>5. ASSUME NEW q \in inflight, AdvanceDesiredRevision(q)
      PROVE  FollowInv'
  <2>1. inflight' = inflight \ {q} /\ UNCHANGED revisions /\ Advancing(q)
    BY <1>5 DEF AdvanceDesiredRevision, End, Advancing
  <2>2. \A b \in assignments' : \E a \in assignments :
          b.env = a.env /\ (IF a.env = q.env THEN b.rev = q.rev ELSE b = a)
    BY <1>5 DEF AdvanceDesiredRevision, TypeOK, Assignment
  <2>3. \A r \in revisions : r.env = q.env => r.id <= q.rev
    BY <2>1 DEF FollowInv, NewestIsHeld, Pointing
  <2>4. NewestIsHeld'
    BY <2>1 DEF FollowInv, NewestIsHeld
  <2>5. NewestIsDesired'
    BY <2>1, <2>2, <2>3 DEF FollowInv, NewestIsDesired
  <2> QED
    BY <2>4, <2>5 DEF FollowInv
<1>6. ASSUME NEW q \in inflight, AssignInsert(q)
      PROVE  FollowInv'
  <2>1. inflight' = inflight \ {q} /\ UNCHANGED revisions /\ Pointing(q) /\ ~ Advancing(q)
    BY <1>6 DEF AssignInsert, End, Pointing, Advancing
  <2>2. assignments' = assignments \cup {[group |-> q.group, env |-> q.env, rev |-> q.rev]}
    BY <1>6 DEF AssignInsert
  <2>3. \A r \in revisions : r.env = q.env => r.id <= q.rev
    BY <2>1 DEF FollowInv, NewestIsHeld
  <2> QED
    BY <2>1, <2>2, <2>3 DEF FollowInv, NewestIsHeld, NewestIsDesired
<1>7. ASSUME NEW p, p.rev = clock + 1, Inserting(p), ~ Pointing(p), Quiet,
             NEW q, inflight' = (inflight \ {q}) \cup {p}, ~ Advancing(q)
      PROVE  FollowInv'
  <2>1. \A r \in revisions : r.id < clock + 1
    BY ConstantsAssumption DEF StampsAreUnique, TypeOK, Revision, Stamp
  <2> QED
    BY <1>7, <2>1 DEF Quiet, FollowInv, NewestIsHeld, NewestIsDesired
<1>8. ASSUME NEW q \in inflight, PublishBegin(q)
      PROVE  FollowInv'
  <2>1. PICK p : /\ inflight' = (inflight \ {q}) \cup {p}
                 /\ p.op = "publish" /\ p.at = "begun" /\ p.rev = clock + 1
                 /\ Quiet
    BY <1>8, BeginMoves
  <2> QED
    BY <1>7, <1>8, <2>1 DEF PublishBegin, Inserting, Pointing, Advancing
<1>9. ASSUME NEW e \in Environments, NEW src \in Stamp, RollbackBegin(e, src)
      PROVE  FollowInv'
  <2> DEFINE p == [op |-> "rollback", env |-> e, src |-> src, draft |-> 0, rev |-> clock + 1,
                   at |-> "begun"]
  <2>1. inflight' = inflight \cup {p} /\ Quiet
    BY <1>9 DEF RollbackBegin, Arrive, Quiet
  <2>2. p.op = "rollback" /\ p.at = "begun" /\ p.rev = clock + 1
    OBVIOUS
  <2> HIDE DEF p
  <2>3. inflight' = (inflight \ {p}) \cup {p}
    BY <2>1
  <2> QED
    BY <1>7, <2>1, <2>2, <2>3 DEF Inserting, Pointing, Advancing
<1>10. ASSUME NEW q \in inflight, PublishRead(q) \/ PublishCount(q) \/ RollbackRead(q)
       PROVE  FollowInv'
  <2>1. PICK p :
          /\ inflight' = (inflight \ {q}) \cup {p}
          /\ Inserting(q) /\ Inserting(p)
          /\ p.env = q.env /\ p.rev = q.rev
          /\ Quiet
    BY <1>10, ReadMoves
  <2>2. ~ Pointing(p) /\ ~ Advancing(q)
    BY <2>1 DEF Inserting, Pointing, Advancing
  <2> QED
    BY <2>1, <2>2 DEF Quiet, FollowInv, NewestIsHeld, NewestIsDesired, Pointing
<1>11. ASSUME NEW q \in inflight, PublishCommit(q) \/ RollbackCommit(q)
       PROVE  FollowInv'
  <2>1. PICK p, r :
          /\ inflight' = (inflight \ {q}) \cup {p}
          /\ Inserting(q) /\ ~ Inserting(p)
          /\ p.op \in {"publish", "rollback"} /\ p.at = "published"
          /\ p.env = q.env /\ p.rev = q.rev
          /\ revisions' = revisions \cup {r} /\ r.id = q.rev /\ r.env = q.env
          /\ UNCHANGED assignments
    BY <1>11, CommitMoves
  <2>2. q.rev \in Nat /\ \A o \in revisions : o.id \in Nat
    BY <2>1, RequestForms, ConstantsAssumption
    DEF TypeOK, Revision, Stamp, Inserting, PublishRequest, RollbackRequest
  <2>3. \A o \in revisions' : o.env = q.env => o.id <= q.rev
    BY <2>1, <2>2 DEF FollowInv, NewestIsHeld
  <2>4. ~ Advancing(q)
    BY <2>1 DEF Inserting, Advancing
  <2>5. \A o \in inflight : o # q /\ (Inserting(o) \/ Pointing(o)) => o.env # q.env
    BY <2>1 DEF OneAtATime
  <2>6. NewestIsHeld'
    BY <2>1, <2>3, <2>5 DEF FollowInv, NewestIsHeld
  <2>7. NewestIsDesired'
    BY <2>1, <2>4 DEF FollowInv, NewestIsDesired, Advancing
  <2> QED
    BY <2>6, <2>7 DEF FollowInv
<1> QED
  BY <1>1, <1>2, <1>3, <1>4, <1>5, <1>6, <1>8, <1>9, <1>10, <1>11, StepShapes

\* handlePublish, Rollback and CreateAssignment: Assignments fall behind their bundle only
\* where two of these requests overlap on it, or one dies between its transactions.  Edits,
\* deletions and requests about other bundles may overlap with them as they like.
THEOREM FollowsWithoutOverlap ==
  ASSUME ~MayFail
  PROVE  Spec /\ []OneAtATime => []AssignmentsFollowTheBundle
<1>1. Init => FollowInv
  BY DEF Init, FollowInv, NewestIsHeld, NewestIsDesired
<1>2. Inv /\ OneAtATime /\ FollowInv /\ [Next]_vars => FollowInv'
  BY FollowStep
<1>3. Inv /\ FollowInv => AssignmentsFollowTheBundle
  <2> SUFFICES ASSUME Inv, FollowInv, inflight = {}, NEW a \in assignments
               PROVE  \E r \in revisions : IsLatest(r) /\ r.env = a.env /\ r.id = a.rev
    BY DEF AssignmentsFollowTheBundle
  <2>1. PICK r \in revisions : r.id = a.rev /\ r.env = a.env
    BY DEF Inv, AssignmentsExist
  <2>2. \A o \in revisions : o.env = a.env => o.id <= a.rev
    BY DEF FollowInv, NewestIsDesired
  <2> QED
    BY <2>1, <2>2 DEF IsLatest, RevisionsOf
<1> QED
  BY <1>1, <1>2, <1>3, Invariance, PTL DEF Spec
-----------------------------------------------------------------------------
(* What the checks of handlers are worth at the commit: CountDraftSelections *)
(* and CountRevisionFiles before the copy, and the counts of active          *)
(* Assignments before a deletion.  Each is overtaken by one kind of request. *)

\* A request that has counted what it is about to copy.
Copying(q) == q.op \in {"publish", "rollback"} /\ q.at = "counted"

\* No secret of a bundle is being deleted while a revision of it is copied.
PurgesAvoidCopies ==
  \A p, q \in inflight : Copying(q) /\ p.op = "delete_secret" => Home[p.secret] # q.env

\* ErrNoSecrets: a revision that appears has files; only deletions make it empty.
NothingIsPublishedEmpty ==
  [][\A r \in revisions' : r.files = {} => \E o \in revisions : o.id = r.id]_vars

\* What was counted is still there.
CountsAreCurrent ==
  \A q \in inflight : Copying(q) /\ q.env \in environments =>
    /\ q.op = "publish" => SelectionsOf(q.env) # {}
    /\ q.op = "rollback" => \A r \in RevisionsOf(q.env) : r.id = q.src => r.files # {}

\* A step that ends no selection, changes no revision and begins no copy.
LEMMA CountsKept ==
  ASSUME CountsAreCurrent, environments' \subseteq environments, revisions' = revisions,
         \A e \in Environments : SelectionsOf(e) # {} => SelectionsOf(e)' # {},
         \A q \in inflight' : Copying(q) => q \in inflight /\ q.env \in Environments
  PROVE  CountsAreCurrent'
  BY DEF CountsAreCurrent, RevisionsOf

\* No edit of a Draft takes the last selection away.
LEMMA SelectionsGrow ==
  ASSUME TypeOK, NEW e \in Environments, SelectionsOf(e) # {},
         \/ Quiet
         \/ \E s \in Secrets :
              \/ CreateSecretWithValue(s)
              \/ AddSecretVersion(s)
              \/ \E p \in Paths : UpdateBinding(s, p)
         \/ \E q \in inflight : \E S \in SUBSET Secrets : \E c \in [S -> 1 .. MaxSeq] :
              EditSubmit(q, c)
  PROVE  SelectionsOf(e)' # {}
<1>0. PICK d \in selections : d.env = e
  BY DEF SelectionsOf
<1>1. ASSUME \E x \in selections' : x.env = e
      PROVE  SelectionsOf(e)' # {}
  BY <1>1 DEF SelectionsOf
<1>2. ASSUME d \in selections'
      PROVE  SelectionsOf(e)' # {}
  BY <1>0, <1>1, <1>2
<1>3. CASE Quiet
  BY <1>2, <1>3 DEF Quiet, draftVars
<1>4. ASSUME NEW s \in Secrets, CreateSecretWithValue(s)
      PROVE  SelectionsOf(e)' # {}
  BY <1>2, <1>4 DEF CreateSecretWithValue
<1>5. ASSUME NEW s \in Secrets, NEW p \in Paths, UpdateBinding(s, p)
      PROVE  SelectionsOf(e)' # {}
  BY <1>2, <1>5 DEF UpdateBinding
<1>6. ASSUME NEW s \in Secrets, AddSecretVersion(s)
      PROVE  SelectionsOf(e)' # {}
  <2> DEFINE x == IF d.env = Home[s] /\ d.secret = s THEN [d EXCEPT !.seq = latest[s] + 1] ELSE d
  <2>1. x \in selections'
    BY <1>6 DEF AddSecretVersion, Reselect
  <2>2. x.env = e
    BY <1>0 DEF TypeOK, Selection
  <2> QED
    BY <1>1, <2>1, <2>2
<1>7. ASSUME NEW q \in inflight, NEW S \in SUBSET Secrets, NEW c \in [S -> 1 .. MaxSeq],
             EditSubmit(q, c)
      PROVE  SelectionsOf(e)' # {}
  <2>1. CASE d.env = q.env /\ d.secret \in DOMAIN c
    <3> DEFINE x == [env |-> q.env, secret |-> d.secret, seq |-> c[d.secret]]
    <3>1. x \in selections' /\ x.env = q.env
      BY <1>7, <2>1 DEF EditSubmit
    <3> QED
      BY <1>0, <1>1, <2>1, <3>1
  <2>2. CASE ~ (d.env = q.env /\ d.secret \in DOMAIN c)
    BY <1>2, <1>7, <2>2 DEF EditSubmit
  <2> QED
    BY <2>1, <2>2
<1> QED
  BY <1>3, <1>4, <1>5, <1>6, <1>7

LEMMA CopiesAreOfEnvironments ==
  ASSUME TypeOK, NEW q \in inflight, Copying(q)
  PROVE  q.env \in Environments
  BY RequestForms DEF TypeOK, Copying, PublishRequest, RollbackRequest

\* The deletion of a secret, with no copy of its bundle under way.
LEMMA CountsPurge ==
  ASSUME Inv, CountsAreCurrent, PurgesAvoidCopies, NEW q \in inflight, DeleteSecretCommit(q)
  PROVE  CountsAreCurrent'
<1> USE ConstantsAssumption
<1>1. /\ inflight' = inflight \ {q} /\ environments' = environments
      /\ q.op = "delete_secret"
      /\ revisions' = {[r EXCEPT !.files = FilesOf(r.files, Secrets \ {q.secret})] : r \in revisions}
      /\ \A d : d \in selections' <=> d \in selections /\ d.secret # q.secret
  BY DEF DeleteSecretCommit, End
<1>2. SUFFICES ASSUME NEW p \in inflight, Copying(p), p.env \in environments
               PROVE  /\ p.op = "publish" => SelectionsOf(p.env)' # {}
                      /\ p.op = "rollback" =>
                           \A r \in RevisionsOf(p.env)' : r.id = p.src => r.files # {}
  BY <1>1 DEF CountsAreCurrent
<1>3. Home[q.secret] # p.env
  BY <1>1, <1>2 DEF PurgesAvoidCopies
<1>4. ASSUME p.op = "publish"
      PROVE  SelectionsOf(p.env)' # {}
  <2>1. PICK d \in selections : d.env = p.env
    BY <1>2, <1>4 DEF CountsAreCurrent, SelectionsOf
  <2>2. d.secret # q.secret
    BY <1>3, <2>1 DEF Inv, DraftsAreSound
  <2>3. d \in selections'
    BY <1>1, <2>2
  <2> QED
    BY <2>1, <2>3 DEF SelectionsOf
<1>5. ASSUME p.op = "rollback", NEW r \in RevisionsOf(p.env)', r.id = p.src
      PROVE  r.files # {}
  <2>1. PICK o \in revisions :
          r = [o EXCEPT !.files = FilesOf(o.files, Secrets \ {q.secret})]
    BY <1>1, <1>5 DEF RevisionsOf
  <2>2. o \in Revision
    BY DEF Inv, TypeOK
  <2>3. /\ r.id = o.id /\ r.env = o.env
        /\ r.files = FilesOf(o.files, Secrets \ {q.secret})
    BY <2>1, <2>2 DEF Revision
  <2>4. o.env = p.env /\ o.files # {}
    BY <1>2, <1>5, <2>3 DEF CountsAreCurrent, RevisionsOf
  <2>5. \A f \in o.files : f.secret \in Secrets /\ f.secret # q.secret
    BY <1>3, <2>2, <2>4 DEF Inv, RevisionsAreSound, Revision, File
  <2> QED
    BY <2>3, <2>4, <2>5 DEF FilesOf
<1> QED
  BY <1>4, <1>5

LEMMA CountsStep ==
  ASSUME Inv, CountsAreCurrent, PurgesAvoidCopies, [Next]_vars
  PROVE  CountsAreCurrent'
<1>0. TypeOK
  BY DEF Inv
<1>1. CASE OneStatement
  <2>1. UNCHANGED <<environments, revisions, inflight>>
    BY <1>1, OneStatementKeeps
  <2>2. \A e \in Environments : SelectionsOf(e) # {} => SelectionsOf(e)' # {}
    <3>1. CASE (\E a \in assignments : MarkAssignmentRemoving(a)) \/ UNCHANGED vars
      BY <3>1 DEF MarkAssignmentRemoving, vars, draftVars, SelectionsOf
    <3> QED
      BY <1>0, <1>1, <3>1, SelectionsGrow DEF OneStatement
  <2> QED
    BY <1>0, <2>1, <2>2, CountsKept, CopiesAreOfEnvironments
<1>2. ASSUME Quiet, \A q \in inflight' : Copying(q) => q \in inflight
      PROVE  CountsAreCurrent'
  <2>1. environments' = environments /\ revisions' = revisions /\ selections' = selections
    BY <1>2 DEF Quiet, draftVars
  <2> QED
    BY <1>0, <1>2, <2>1, CountsKept, CopiesAreOfEnvironments DEF SelectionsOf
<1>3. CASE Looking
  <2>1. PICK p : Looked(p)
    BY <1>0, <1>3, LookingMoves
  <2>2. ~ Copying(p)
    BY <2>1 DEF Looked, Inserting, Copying
  <2> QED
    BY <1>2, <2>1, <2>2 DEF Looked
<1>4. ASSUME NEW q \in inflight, Ending(q)
      PROVE  CountsAreCurrent'
  <2>1. inflight' = inflight \ {q} /\ environments' \subseteq environments
    BY <1>0, <1>4, EndingKeeps
  <2>2. CASE DeleteSecretCommit(q)
    BY <2>2, CountsPurge
  <2>3. CASE DeleteCommit(q)
    <3>1. /\ environments' = environments \ q.scope
          /\ selections' = {d \in selections : d.env \notin q.scope}
          /\ revisions' \subseteq revisions
      BY <2>3 DEF DeleteCommit
    <3>2. \A e \in environments' : SelectionsOf(e)' = SelectionsOf(e)
      BY <3>1 DEF SelectionsOf
    <3> QED
      BY <2>1, <3>1, <3>2 DEF CountsAreCurrent, RevisionsOf
  <2>4. CASE \E S \in SUBSET Secrets : \E c \in [S -> 1 .. MaxSeq] : EditSubmit(q, c)
    <3>1. \A e \in Environments : SelectionsOf(e) # {} => SelectionsOf(e)' # {}
      BY <1>0, <2>4, SelectionsGrow
    <3>2. revisions' = revisions
      BY <2>4 DEF EditSubmit
    <3> QED
      BY <1>0, <2>1, <3>1, <3>2, CountsKept, CopiesAreOfEnvironments
  <2>5. CASE AdvanceDesiredRevision(q) \/ AssignInsert(q) \/ Abandon(q)
    <3>1. selections' = selections /\ revisions' = revisions
      BY <2>5 DEF AdvanceDesiredRevision, AssignInsert, Abandon, draftVars
    <3> QED
      BY <1>0, <2>1, <3>1, CountsKept, CopiesAreOfEnvironments DEF SelectionsOf
  <2> QED
    BY <1>4, <2>2, <2>3, <2>4, <2>5 DEF Ending
<1>5. ASSUME NEW q \in inflight, PublishBegin(q)
      PROVE  CountsAreCurrent'
  BY <1>0, <1>2, <1>5, BeginMoves DEF Copying
<1>6. ASSUME NEW e \in Environments, NEW src \in Stamp, RollbackBegin(e, src)
      PROVE  CountsAreCurrent'
  <2> DEFINE p == [op |-> "rollback", env |-> e, src |-> src, draft |-> 0, rev |-> clock + 1,
                   at |-> "begun"]
  <2>1. inflight' = inflight \cup {p} /\ Quiet /\ ~ Copying(p)
    BY <1>6 DEF RollbackBegin, Arrive, Quiet, Copying
  <2> HIDE DEF p
  <2> QED
    BY <1>2, <2>1
<1>7. ASSUME NEW q \in inflight, PublishRead(q) \/ PublishCount(q) \/ RollbackRead(q)
      PROVE  CountsAreCurrent'
  <2>1. PICK p :
          /\ inflight' = (inflight \ {q}) \cup {p} /\ Quiet
          /\ p.op = q.op /\ p.env = q.env
          /\ RollbackRead(q) => p.src = q.src
    BY <1>0, <1>7, ReadMoves
  <2>2. /\ UNCHANGED <<environments, revisions, selections>>
    BY <2>1 DEF Quiet, draftVars
  <2>3. CASE PublishRead(q)
    <3>1. ~ Copying([q EXCEPT !.draft = draft[q.env], !.at = "read"])
      BY <1>0, <2>3, RequestForms DEF TypeOK, PublishRead, PublishRequest, Copying
    <3> QED
      BY <1>2, <2>1, <2>3, <3>1 DEF PublishRead, Become
  <2>4. CASE PublishCount(q)
    <3>1. q.op = "publish" /\ SelectionsOf(q.env) # {}
      BY <2>4 DEF PublishCount
    <3> QED
      BY <2>1, <2>2, <3>1 DEF CountsAreCurrent, SelectionsOf, RevisionsOf
  <2>5. CASE RollbackRead(q)
    <3>1. q.op = "rollback" /\ \E r \in RevisionsOf(q.env) : r.id = q.src /\ r.files # {}
      BY <2>5 DEF RollbackRead
    <3>2. \A r \in RevisionsOf(q.env) : r.id = q.src => r.files # {}
      BY <3>1 DEF Inv, StampsAreUnique, IdsAreUnique, RevisionsOf
    <3> QED
      BY <2>1, <2>2, <2>5, <3>1, <3>2 DEF CountsAreCurrent, SelectionsOf, RevisionsOf
  <2> QED
    BY <1>7, <2>3, <2>4, <2>5
<1>8. ASSUME NEW q \in inflight, PublishCommit(q) \/ RollbackCommit(q)
      PROVE  CountsAreCurrent'
  <2>1. PICK p, r :
          /\ inflight' = (inflight \ {q}) \cup {p}
          /\ Inserting(q) /\ p.at = "published"
          /\ revisions' = revisions \cup {r} /\ r.id = q.rev
          /\ UNCHANGED <<environments, draftVars>>
    BY <1>0, <1>8, CommitMoves
  <2>2. ~ Copying(p)
    BY <2>1 DEF Copying
  <2>3. ASSUME NEW c \in inflight, Copying(c), c.op = "rollback"
        PROVE  c.src # r.id
    BY <2>1, <2>3 DEF Inv, NamesAreStable, Copying, Inserting
  <2> QED
    BY <2>1, <2>2, <2>3 DEF CountsAreCurrent, SelectionsOf, RevisionsOf, draftVars
<1> QED
  BY <1>1, <1>3, <1>4, <1>5, <1>6, <1>7, <1>8, StepShapes

\* Publish and Rollback refuse what is empty, but count before they copy: a revision that
\* is empty from the start takes the deletion of a secret of the same bundle between the two.
\* Edits, deletions of other bundles, of environments, and other publications do not do it.
THEOREM NoEmptyPublicationWithoutPurge ==
  Spec /\ []PurgesAvoidCopies => NothingIsPublishedEmpty
<1> DEFINE Filled == \A r \in revisions' : r.files = {} => \E o \in revisions : o.id = r.id
<1>1. Init => CountsAreCurrent
  BY DEF Init, CountsAreCurrent
<1>2. Inv /\ CountsAreCurrent /\ PurgesAvoidCopies /\ [Next]_vars => CountsAreCurrent'
  BY CountsStep
<1>3. Inv /\ CountsAreCurrent /\ [Next]_vars => [Filled]_vars
  <2> SUFFICES ASSUME Inv, CountsAreCurrent, [Next]_vars
               PROVE  Filled
    OBVIOUS
  <2>0. TypeOK
    BY DEF Inv
  <2>1. ASSUME NEW q \in inflight, PublishCommit(q) \/ RollbackCommit(q)
        PROVE  Filled
    <3>1. PICK r :
            /\ revisions' = revisions \cup {r}
            /\ PublishCommit(q) => q.env \in environments /\ r.files = DraftFiles(q.env)
            /\ RollbackCommit(q) =>
                 /\ q.op = "rollback" /\ q.at = "counted"
                 /\ \E o \in revisions : o.id = q.src /\ o.env = q.env /\ r.files = o.files
      BY <2>0, <2>1, CommitMoves
    <3>2. CASE PublishCommit(q)
      <4>1. SelectionsOf(q.env) # {}
        BY <3>1, <3>2 DEF CountsAreCurrent, Copying, PublishCommit
      <4>2. DraftFiles(q.env) # {}
        BY <4>1 DEF DraftFiles
      <4> QED
        BY <3>1, <3>2, <4>2
    <3>3. CASE RollbackCommit(q)
      <4>1. PICK o \in revisions : o.id = q.src /\ o.env = q.env /\ r.files = o.files
        BY <3>1, <3>3
      <4>2. o.files # {}
        BY <3>1, <3>3, <4>1 DEF CountsAreCurrent, Copying, RevisionsOf, Inv, RowsExist
      <4> QED
        BY <3>1, <4>1, <4>2
    <3> QED
      BY <2>1, <3>2, <3>3
  <2>2. ASSUME NEW q \in inflight, DeleteSecretCommit(q)
        PROVE  Filled
    BY <2>0, <2>2, PurgeKeeps
  <2>3. ASSUME revisions' \subseteq revisions
        PROVE  Filled
    BY <2>3
  <2> QED
    BY <2>1, <2>2, <2>3, TableSteps
       DEF Quiet, CreateSecretWithValue, AddSecretVersion, UpdateBinding, EditSubmit,
           AdvanceDesiredRevision, AssignInsert, DeleteCommit, MarkAssignmentRemoving
<1> QED
  BY <1>1, <1>2, <1>3, Invariance, PTL DEF Spec, NothingIsPublishedEmpty
\* No Assignment of a bundle is being created while something of the bundle is being deleted.
DeletesAvoidAssigns ==
  \A p, q \in inflight : p.op = "assign" =>
    /\ q.op = "delete_secret" => Home[q.secret] # p.env
    /\ q.op = "delete" => p.env \notin q.scope

\* ErrConflict: what is assigned keeps its environment, its secrets and its revisions, file
\* by file.
AssignedStaysWhole ==
  [][\A a \in assignments :
       /\ a.env \in environments'
       /\ \A s \in live : Home[s] = a.env => s \in live'
       /\ \A r \in RevisionsOf(a.env) : r \in revisions']_vars

\* What was counted as none is none.
DeletesAreOfUnassigned ==
  \A q \in inflight :
    /\ q.op = "delete_secret" => ~ Assigned({Home[q.secret]})
    /\ q.op = "delete" => ~ Assigned(q.scope)

LEMMA UnassignedKept ==
  ASSUME DeletesAreOfUnassigned,
         \A a \in assignments' : \E o \in assignments : a.env = o.env,
         \A q \in inflight' : q.op \in {"delete_secret", "delete"} => q \in inflight
  PROVE  DeletesAreOfUnassigned'
  BY DEF DeletesAreOfUnassigned, Assigned

LEMMA UnassignedStep ==
  ASSUME Inv, DeletesAreOfUnassigned, DeletesAvoidAssigns, [Next]_vars
  PROVE  DeletesAreOfUnassigned'
<1>0. TypeOK
  BY DEF Inv
<1>1. ASSUME NEW s \in Secrets, DeleteSecretCount(s)
      PROVE  DeletesAreOfUnassigned'
  <2> DEFINE p == [op |-> "delete_secret", secret |-> s]
  <2>1. inflight' = inflight \cup {p} /\ assignments' = assignments /\ ~ Assigned({Home[s]})
    BY <1>1 DEF DeleteSecretCount, Arrive
  <2>2. p.op = "delete_secret" /\ p.secret = s
    OBVIOUS
  <2> HIDE DEF p
  <2> QED
    BY <2>1, <2>2 DEF DeletesAreOfUnassigned, Assigned
<1>2. ASSUME NEW S \in Scopes, DeleteCount(S)
      PROVE  DeletesAreOfUnassigned'
  <2> DEFINE p == [op |-> "delete", scope |-> S]
  <2>1. inflight' = inflight \cup {p} /\ assignments' = assignments /\ ~ Assigned(S)
    BY <1>2 DEF DeleteCount, Arrive
  <2>2. p.op = "delete" /\ p.scope = S
    OBVIOUS
  <2> HIDE DEF p
  <2> QED
    BY <2>1, <2>2 DEF DeletesAreOfUnassigned, Assigned
<1>3. ASSUME NEW q \in inflight, AssignInsert(q)
      PROVE  DeletesAreOfUnassigned'
  <2> DEFINE new == [group |-> q.group, env |-> q.env, rev |-> q.rev]
  <2>1. /\ q.op = "assign" /\ inflight' = inflight \ {q}
        /\ assignments' = assignments \cup {new}
    BY <1>3 DEF AssignInsert, End
  <2>2. new.env = q.env
    OBVIOUS
  <2> HIDE DEF new
  <2> QED
    BY <2>1, <2>2 DEF DeletesAreOfUnassigned, DeletesAvoidAssigns, Assigned
<1>4. ASSUME NEW q \in inflight, AdvanceDesiredRevision(q)
      PROVE  DeletesAreOfUnassigned'
  <2>1. \A a \in assignments : [a EXCEPT !.rev = q.rev].env = a.env
    BY <1>0 DEF TypeOK, Assignment
  <2>2. \A a \in assignments' : \E o \in assignments : a.env = o.env
    BY <1>4, <2>1 DEF AdvanceDesiredRevision
  <2> QED
    BY <1>4, <2>2, UnassignedKept DEF AdvanceDesiredRevision, End
<1>5. ASSUME assignments' \subseteq assignments,
             \A q \in inflight' : q.op \in {"delete_secret", "delete"} => q \in inflight
      PROVE  DeletesAreOfUnassigned'
  BY <1>5, UnassignedKept
<1>6. CASE OneStatement
  <2>1. assignments' \subseteq assignments
    BY <1>6 DEF OneStatement, CreateSecretWithValue, AddSecretVersion, UpdateBinding,
                MarkAssignmentRemoving, vars
  <2> QED
    BY <1>0, <1>5, <1>6, <2>1, OneStatementKeeps
<1>7. ASSUME NEW e \in Environments,
             \/ EditVersion(e)
             \/ PublishDraft(e)
             \/ \E src \in Stamp : RollbackBegin(e, src)
             \/ \E g \in Groups : AssignRead(g, e)
      PROVE  DeletesAreOfUnassigned'
  BY <1>5, <1>7 DEF EditVersion, PublishDraft, RollbackBegin, AssignRead, Arrive
<1>8. ASSUME NEW q \in inflight, EditView(q)
      PROVE  DeletesAreOfUnassigned'
  <2>1. q \in EditRequest
    BY <1>0, <1>8, RequestForms DEF TypeOK, EditView
  <2>2. [q EXCEPT !.view = DraftFiles(q.env), !.at = "viewed"].op = "edit"
    BY <2>1 DEF EditRequest
  <2> QED
    BY <1>5, <1>8, <2>2 DEF EditView, Become
<1>9. ASSUME NEW q \in inflight, PublishCheck(q)
      PROVE  DeletesAreOfUnassigned'
  <2>1. q \in PublishRequest
    BY <1>0, <1>9, RequestForms DEF TypeOK, PublishCheck
  <2>2. [q EXCEPT !.at = "checked"].op = "publish"
    BY <2>1 DEF PublishRequest
  <2> QED
    BY <1>5, <1>9, <2>2 DEF PublishCheck, Become
<1>10. ASSUME NEW q \in inflight, PublishBegin(q)
       PROVE  DeletesAreOfUnassigned'
  BY <1>0, <1>5, <1>10, BeginMoves DEF Quiet
<1>11. ASSUME NEW q \in inflight, PublishRead(q) \/ PublishCount(q) \/ RollbackRead(q)
       PROVE  DeletesAreOfUnassigned'
  <2>1. PICK p : inflight' = (inflight \ {q}) \cup {p} /\ p.op = q.op /\ Quiet
    BY <1>0, <1>11, ReadMoves
  <2>2. q.op \in {"publish", "rollback"}
    BY <1>11 DEF PublishRead, PublishCount, RollbackRead
  <2> QED
    BY <1>5, <2>1, <2>2 DEF Quiet
<1>12. ASSUME NEW q \in inflight, PublishCommit(q) \/ RollbackCommit(q)
       PROVE  DeletesAreOfUnassigned'
  BY <1>0, <1>5, <1>12, CommitMoves
<1>13. ASSUME NEW q \in inflight,
              \/ \E S \in SUBSET Secrets : \E c \in [S -> 1 .. MaxSeq] : EditSubmit(q, c)
              \/ DeleteSecretCommit(q)
              \/ DeleteCommit(q)
              \/ Abandon(q)
       PROVE  DeletesAreOfUnassigned'
  BY <1>5, <1>13 DEF EditSubmit, DeleteSecretCommit, DeleteCommit, Abandon, End
<1> QED
  BY <1>1, <1>2, <1>3, <1>4, <1>6, <1>7, <1>8, <1>9, <1>10, <1>11, <1>12, <1>13
     DEF Next, OneStatement

\* DeleteSecret, DeleteEnvironment and DeleteApplication count active Assignments before
\* their transaction: they take something away from an assigned bundle only where an
\* Assignment of it was created between the count and the deletion.
THEOREM AssignedStaysWholeWithoutAssigns ==
  Spec /\ []DeletesAvoidAssigns => AssignedStaysWhole
<1> DEFINE Whole == \A a \in assignments :
                      /\ a.env \in environments'
                      /\ \A s \in live : Home[s] = a.env => s \in live'
                      /\ \A r \in RevisionsOf(a.env) : r \in revisions'
<1>1. Init => DeletesAreOfUnassigned
  BY DEF Init, DeletesAreOfUnassigned
<1>2. /\ Inv /\ DeletesAreOfUnassigned /\ DeletesAvoidAssigns /\ [Next]_vars
      => DeletesAreOfUnassigned'
  BY UnassignedStep
<1>3. Inv /\ DeletesAreOfUnassigned /\ [Next]_vars => [Whole]_vars
  <2> SUFFICES ASSUME Inv, DeletesAreOfUnassigned, [Next]_vars
               PROVE  Whole
    OBVIOUS
  <2>0. \A a \in assignments : a.env \in environments
    BY DEF Inv, RowsExist, AssignmentsExist
  <2>1. ASSUME environments' = environments, live \subseteq live', revisions \subseteq revisions'
        PROVE  Whole
    BY <2>0, <2>1 DEF RevisionsOf
  <2>2. CASE Quiet
    BY <2>1, <2>2 DEF Quiet, secretVars
  <2>3. ASSUME NEW s \in Secrets,
               \/ CreateSecretWithValue(s)
               \/ AddSecretVersion(s)
               \/ \E p \in Paths : UpdateBinding(s, p)
        PROVE  Whole
    BY <2>1, <2>3 DEF CreateSecretWithValue, AddSecretVersion, UpdateBinding
  <2>4. ASSUME NEW q \in inflight,
               \/ \E S \in SUBSET Secrets : \E c \in [S -> 1 .. MaxSeq] : EditSubmit(q, c)
               \/ AdvanceDesiredRevision(q) \/ AssignInsert(q)
        PROVE  Whole
    BY <2>1, <2>4 DEF EditSubmit, AdvanceDesiredRevision, AssignInsert, secretVars
  <2>5. ASSUME NEW q \in inflight, PublishCommit(q) \/ RollbackCommit(q)
        PROVE  Whole
    <3>1. revisions \subseteq revisions' /\ live' = live /\ environments' = environments
      BY <2>5, CommitMoves DEF Inv, secretVars
    <3> QED
      BY <2>1, <3>1
  <2>6. ASSUME NEW q \in inflight, DeleteSecretCommit(q), NEW a \in assignments
        PROVE  /\ a.env \in environments'
               /\ \A s \in live : Home[s] = a.env => s \in live'
               /\ \A r \in RevisionsOf(a.env) : r \in revisions'
    <3>1. /\ q.op = "delete_secret" /\ environments' = environments
          /\ live' = live \ {q.secret}
          /\ revisions' = {[r EXCEPT !.files = FilesOf(r.files, Secrets \ {q.secret})]
                             : r \in revisions}
      BY <2>6 DEF DeleteSecretCommit
    <3>2. Home[q.secret] # a.env
      BY <3>1 DEF DeletesAreOfUnassigned, Assigned
    <3>3. ASSUME NEW r \in RevisionsOf(a.env)
          PROVE  r \in revisions'
      <4>1. r \in revisions /\ r.env = a.env /\ r \in Revision
        BY DEF RevisionsOf, Inv, TypeOK
      <4>2. \A f \in r.files : f.secret \in Secrets /\ f.secret # q.secret
        BY <3>2, <4>1 DEF Inv, RevisionsAreSound, Revision, File
      <4>3. FilesOf(r.files, Secrets \ {q.secret}) = r.files
        BY <4>2 DEF FilesOf
      <4>4. [r EXCEPT !.files = FilesOf(r.files, Secrets \ {q.secret})] = r
        BY <4>1, <4>3 DEF Revision
      <4> QED
        BY <3>1, <4>1, <4>4
    <3> QED
      BY <2>0, <3>1, <3>2, <3>3
  <2>7. ASSUME NEW q \in inflight, DeleteCommit(q), NEW a \in assignments
        PROVE  /\ a.env \in environments'
               /\ \A s \in live : Home[s] = a.env => s \in live'
               /\ \A r \in RevisionsOf(a.env) : r \in revisions'
    <3>1. a.env \notin q.scope
      BY <2>7 DEF DeleteCommit, DeletesAreOfUnassigned, Assigned
    <3> QED
      BY <2>0, <2>7, <3>1 DEF DeleteCommit, RevisionsOf
  <2>8. ASSUME NEW a \in assignments, MarkAssignmentRemoving(a)
        PROVE  Whole
    BY <2>1, <2>8 DEF MarkAssignmentRemoving, secretVars
  <2> QED
    BY <2>2, <2>3, <2>4, <2>5, <2>6, <2>7, <2>8, TableSteps
<1> QED
  BY <1>1, <1>2, <1>3, Invariance, PTL DEF Spec, AssignedStaysWhole
=============================================================================
