--------------------------- MODULE GeneratorCommit ---------------------------
(***************************************************************************)
(* How the generator changes the files of a product: Executor.Execute with *)
(* FileCommitter.Commit and the artifact transaction, and the explicit     *)
(* rollback, for one request.                                              *)
(*                                                                         *)
(* The executor replaces the files one by one.  Between any two of its     *)
(* steps a file may be edited by someone else (Edit), a file operation may *)
(* fail, and the process may die (Crash).  The same request may then be    *)
(* executed again.                                                         *)
(*                                                                         *)
(* A file has one of four contents; "edited" is any that is neither the    *)
(* previous nor the generated one.  Directories are left out, except that  *)
(* the removal of created ones is a part of a rollback that may fail.      *)
(***************************************************************************)
EXTENDS Integers, FiniteSets

CONSTANTS Paths,    \* files of the target directory, numbers: they have an order
          Requests  \* what requests do with the files

ASSUME PathsAssumption == Paths \subseteq Nat /\ IsFiniteSet(Paths)

\* FileChange.Action, or "preserved" for a file that is not to be changed.
Actions == {"created", "updated", "unchanged", "preserved"}

ASSUME RequestsAssumption == Requests \subseteq [Paths -> Actions]

Contents == {"absent", "old", "new", "edited"}

VARIABLES action,    \* the request
          target,    \* the files of the target directory
          staging,   \* the staging directory inside the target directory, with backups
          artifacts, \* the artifact directory of the request
          process,   \* the operation in progress
          answer,    \* what the last operation returned
          base,      \* the target when the last operation began
          editedAt   \* when a file was edited: "late" if the operation in progress had
                     \* looked at it for the last time, "verified" if only the final
                     \* verification had, otherwise "early"

vars == <<action, target, staging, artifacts, process, answer, base, editedAt>>

-----------------------------------------------------------------------------
(* Files and directories.                                                  *)

\* The files that are replaced.
Changes == {p \in Paths : action[p] \in {"created", "updated"}}

\* The snapshot the request was made for, and the final one.
Before == [p \in Paths |-> IF action[p] = "created" THEN "absent" ELSE "old"]
After  == [p \in Paths |-> IF p \in Changes THEN "new" ELSE "old"]

NoBackups == [p \in Paths |-> "absent"]

\* "commit" is Request.StagingPath with staged files and a journal, "empty" the
\* same before the first of them; "recovery" a directory for the backups of a
\* later rollback.
NoStaging == [kind |-> "none", backups |-> NoBackups]

\* The walk over the target finds exactly these files: a staging directory that
\* was left behind, unless empty, is found as well.
SnapshotIs(files) ==
    /\ target = files
    /\ staging.kind # "commit"
    /\ staging.backups = NoBackups

\* The artifact directory: the journal's state, the status of the result, and
\* whether there are a journal and backups (not if nothing was prepared).
NoArtifacts == [dir |-> "none", journal |-> "none", result |-> "none"]

StagedArtifacts == [dir |-> "staged", journal |-> "prepared", result |-> "succeeded"]

\* CommitResult without its file lists.
Untouched == [attempted |-> FALSE, completed |-> FALSE, unchanged |-> TRUE]
Unknown   == [attempted |-> FALSE, completed |-> FALSE, unchanged |-> FALSE]

\* The state of an operation: the files it replaced and those it has yet to
\* restore, whether restoring one failed, what it restores for, the commit
\* result, whether the cause of a failure is ErrTargetChanged or the like, and
\* whether there is an artifact transaction.
Idle == [pc |-> "idle", done |-> {}, left |-> {}, failed |-> FALSE, restoresFor |-> "none",
         commit |-> Untouched, conflict |-> FALSE, transaction |-> FALSE]

Operations == {"idle", "commit", "staging", "applying", "replacing", "cleaning", "verify",
               "mark", "publish", "restore", "restoring", "failing"}

StagingTypes == [kind: {"none", "empty", "commit", "recovery"}, backups: [Paths -> Contents]]

ArtifactTypes == [dir: {"none", "staged", "published"},
                  journal: {"none", "prepared", "committed", "rolled_back", "rollback_failed"},
                  result: {"none", "succeeded", "failed", "conflict"}]

CommitResults == [attempted: BOOLEAN, completed: BOOLEAN, unchanged: BOOLEAN]

ProcessTypes == [pc: Operations, done: SUBSET Paths, left: SUBSET Paths, failed: BOOLEAN,
                 restoresFor: {"none", "commit", "publication", "rollback"},
                 commit: CommitResults, conflict: BOOLEAN, transaction: BOOLEAN]

AnswerTypes == [outcome: {"none", "succeeded", "failed", "crashed"},
                published: BOOLEAN, unchanged: BOOLEAN]

TypeOK ==
    /\ action \in Requests
    /\ target \in [Paths -> Contents]
    /\ staging \in StagingTypes
    /\ artifacts \in ArtifactTypes
    /\ process \in ProcessTypes
    /\ answer \in AnswerTypes
    /\ base \in [Paths -> Contents]
    /\ editedAt \in [Paths -> {"never", "early", "verified", "late"}]

NoAnswer == [outcome |-> "none", published |-> FALSE, unchanged |-> FALSE]

Init ==
    /\ action \in Requests
    /\ target = Before
    /\ staging = NoStaging
    /\ artifacts = NoArtifacts
    /\ process = Idle
    /\ answer = NoAnswer
    /\ base = target
    /\ editedAt = [p \in Paths |-> "never"]

At(pc) == process.pc = pc

Goes(pc) == process' = [process EXCEPT !.pc = pc]

\* Execute goes to fail with a commit result and a cause.
GoesFailing(commit, conflict) ==
    process' = [process EXCEPT !.pc = "failing", !.commit = commit, !.conflict = conflict]

Returns(outcome, published, unchanged) ==
    /\ process' = Idle
    /\ answer' = [outcome |-> outcome, published |-> published, unchanged |-> unchanged]

\* os.RemoveAll of the staging directory, which may fail and leave it.
StagingRemoved == staging' \in {NoStaging, staging}

-----------------------------------------------------------------------------
(* Execute up to the commit.                                               *)

\* The artifacts of the request exist.
Published == artifacts.dir = "published"

\* LoadPublished: a success is returned again if the target is still its final
\* snapshot; anything else is a conflict.
Replay ==
    /\ At("idle")
    /\ Published
    /\ \/ /\ artifacts.result = "succeeded" /\ artifacts.journal = "committed"
          /\ SnapshotIs(After)
          /\ Returns("succeeded", TRUE, TRUE)
       \/ Returns("failed", FALSE, FALSE)
    /\ base' = target
    /\ UNCHANGED <<action, target, staging, artifacts, editedAt>>

\* Render, PrepareTarget, BuildArtifactBundle and ArtifactStore.Prepare: the
\* target is compared with the request's snapshot, backups are taken from it.
\* A staging directory of an earlier execution is in the way.
Prepare ==
    /\ At("idle")
    /\ ~Published
    /\ base' = target
    /\ \/ /\ \E conflict \in BOOLEAN :
                /\ SnapshotIs(Before) => ~conflict
                /\ GoesFailing(Untouched, conflict)
          /\ answer' = NoAnswer
          /\ UNCHANGED artifacts
       \/ /\ SnapshotIs(Before)
          /\ artifacts' \in IF artifacts.dir = "none" THEN {artifacts, StagedArtifacts} ELSE {artifacts}
          /\ Returns("failed", FALSE, FALSE)
       \/ /\ SnapshotIs(Before)
          /\ artifacts.dir = "none"
          /\ artifacts' = StagedArtifacts
          /\ process' = [process EXCEPT !.pc = "commit", !.transaction = TRUE]
          /\ answer' = NoAnswer
    /\ UNCHANGED <<action, target, staging, editedAt>>

-----------------------------------------------------------------------------
(* FileCommitter.Commit.                                                   *)

\* VerifyPreparedSnapshot and the creation of the staging directory, which must
\* not exist; the process may die before it holds a file.
VerifyPreparedSnapshot ==
    /\ At("commit")
    /\ \/ /\ SnapshotIs(Before) /\ staging.kind # "empty"
          /\ Goes("staging")
          /\ \E kind \in {"empty", "commit"} : staging' = [NoStaging EXCEPT !.kind = kind]
       \/ GoesFailing(Unknown, ~SnapshotIs(Before)) /\ UNCHANGED staging
       \/ GoesFailing(Unknown, FALSE) /\ UNCHANGED staging
    /\ UNCHANGED <<action, target, artifacts, answer, base, editedAt>>

\* Every change is staged with a backup of the file as it is, then the journal.
Stage ==
    /\ At("staging")
    /\ \/ /\ Goes("applying")
          /\ staging' = [kind |-> "commit",
                         backups |-> [p \in Paths |-> IF action[p] = "updated" THEN target[p] ELSE "absent"]]
       \/ GoesFailing(Untouched, FALSE) /\ StagingRemoved
    /\ UNCHANGED <<action, target, artifacts, answer, base, editedAt>>

IsNext(p) == LET remaining == Changes \ process.done
             IN  p \in remaining /\ \A q \in remaining : p <= q

\* Instead: whatever is there is replaced.
AnyTarget(p) == TRUE
validateTargetForChange(p) == target[p] = Before[p]

\* The files that were replaced are restored, in reverse order.
rollbackAfterFailure ==
    process' = [process EXCEPT !.pc = "restoring", !.left = process.done, !.restoresFor = "commit"]

\* The context is checked, the parent directory made, the file looked at.
CheckFile(p) ==
    /\ At("applying")
    /\ IsNext(p)
    /\ \/ validateTargetForChange(p) /\ Goes("replacing")
       \/ rollbackAfterFailure
    /\ UNCHANGED <<action, target, staging, artifacts, answer, base, editedAt>>

replaceFile(p) ==
    /\ At("replacing")
    /\ IsNext(p)
    /\ \/ /\ target' = [target EXCEPT ![p] = After[p]]
          /\ process' = [process EXCEPT !.pc = "applying", !.done = @ \union {p}]
       \/ rollbackAfterFailure /\ UNCHANGED target
    /\ UNCHANGED <<action, staging, artifacts, answer, base, editedAt>>

\* The replaced files are read again.
VerifyChanges ==
    /\ At("applying")
    /\ process.done = Changes
    /\ \/ (\A p \in Changes : target[p] = After[p]) /\ Goes("cleaning")
       \/ rollbackAfterFailure
    /\ UNCHANGED <<action, target, staging, artifacts, answer, base, editedAt>>

\* If the staging directory cannot be removed, the commit fails as it is.
CleanupStage ==
    /\ At("cleaning")
    /\ \/ /\ staging' = NoStaging
          /\ process' = [process EXCEPT !.pc = "verify", !.commit.unchanged = (Changes = {})]
       \/ GoesFailing(Unknown, FALSE) /\ UNCHANGED staging
    /\ UNCHANGED <<action, target, artifacts, answer, base, editedAt>>

-----------------------------------------------------------------------------
(* Publication.                                                            *)

\* Instead: the files that were not to be changed may have changed.
verifyChanges == \A p \in Changes : target[p] = After[p]
verifyFinalSnapshot == SnapshotIs(After)

\* verifyFinalSnapshot reports every failure as ErrTargetChanged.
VerifyFinalSnapshot ==
    /\ At("verify")
    /\ \/ verifyFinalSnapshot /\ Goes("mark")
       \/ process' = [process EXCEPT !.pc = "restore", !.conflict = TRUE]
    /\ UNCHANGED <<action, target, staging, artifacts, answer, base, editedAt>>

MarkCommitted ==
    /\ At("mark")
    /\ \/ artifacts' = [artifacts EXCEPT !.journal = "committed"] /\ Goes("publish")
       \/ Goes("restore") /\ UNCHANGED artifacts
    /\ UNCHANGED <<action, target, staging, answer, base, editedAt>>

Publish ==
    /\ At("publish")
    /\ \/ /\ artifacts' = [artifacts EXCEPT !.dir = "published"]
          /\ Returns("succeeded", TRUE, process.commit.unchanged)
       \/ Goes("restore") /\ UNCHANGED <<artifacts, answer>>
    /\ UNCHANGED <<action, target, staging, base, editedAt>>

-----------------------------------------------------------------------------
(* Restoring files.                                                        *)

\* The backups of the artifact directory, as a recovery directory has them.
RecoveryStaging ==
    [kind |-> "recovery",
     backups |-> [p \in Paths |-> IF action[p] = "updated" THEN Before[p] ELSE "absent"]]

RestoresChanges(reason) ==
    /\ staging' = RecoveryStaging
    /\ process' = [process EXCEPT !.pc = "restoring", !.left = Changes, !.restoresFor = reason]

\* The commit result after restorePreparedChanges, and the journal marked: an
\* error of MarkRolledBack is ignored.
RestoreResult(completed) == [attempted |-> TRUE, completed |-> completed, unchanged |-> completed]

MarkRolledBack(completed) ==
    artifacts' \in {artifacts,
                    [artifacts EXCEPT !.journal = IF completed THEN "rolled_back" ELSE "rollback_failed"]}

\* restorePreparedChanges refuses a target that is not the final snapshot.
RestorePreparedChanges ==
    /\ At("restore")
    /\ \/ verifyFinalSnapshot /\ RestoresChanges("publication") /\ UNCHANGED artifacts
       \/ /\ GoesFailing(RestoreResult(FALSE), process.conflict)
          /\ MarkRolledBack(FALSE)
          /\ staging' \in IF verifyFinalSnapshot THEN {staging, RecoveryStaging} ELSE {staging}
    /\ UNCHANGED <<action, target, answer, base, editedAt>>

RestoredContent(p) == IF action[p] = "created" THEN "absent" ELSE staging.backups[p]

\* One file of rollbackApplied, the last first; a failure does not stop it.
rollbackApplied(p) ==
    /\ At("restoring")
    /\ p \in process.left /\ \A q \in process.left : q <= p
    /\ \/ /\ target' = [target EXCEPT ![p] = RestoredContent(p)]
          /\ staging' = [staging EXCEPT !.backups[p] = "absent"]
          /\ process' = [process EXCEPT !.left = @ \ {p}]
       \/ /\ process' = [process EXCEPT !.left = @ \ {p}, !.failed = TRUE]
          /\ UNCHANGED <<target, staging>>
    /\ UNCHANGED <<action, artifacts, answer, base, editedAt>>

Restored(reason) == At("restoring") /\ process.left = {} /\ process.restoresFor = reason

\* The end of rollbackAfterFailure.  A rollback is attempted if files were
\* replaced or directories created, and fails if one of either stays.
CommitRolledBack ==
    /\ Restored("commit")
    /\ \E attempted, completed \in BOOLEAN :
          /\ process.done # {} => attempted
          /\ process.failed => ~completed
          /\ ~attempted => completed
          /\ GoesFailing([attempted |-> attempted, completed |-> attempted /\ completed,
                           unchanged |-> completed], FALSE)
          /\ IF attempted THEN MarkRolledBack(completed) ELSE UNCHANGED artifacts
    /\ StagingRemoved
    /\ UNCHANGED <<action, target, answer, base, editedAt>>

\* The end of a restoration of all changes, whose recovery directory is then
\* removed: completed only if the target is the old snapshot.
RestorationCompleted(completed) ==
    /\ completed => ~process.failed /\ SnapshotIs(Before)
    /\ StagingRemoved

PublicationRolledBack ==
    /\ Restored("publication")
    /\ \E completed \in BOOLEAN :
          /\ RestorationCompleted(completed)
          /\ GoesFailing(RestoreResult(completed), process.conflict)
          /\ MarkRolledBack(completed)
    /\ UNCHANGED <<action, target, answer, base, editedAt>>

-----------------------------------------------------------------------------
(* The failure of an execution.                                            *)

\* generator-result.schema.json: what the result of a failure may say.
\* Instead: anything.
AnyResult(status, commit) == TRUE
ValidResult(status, commit) ==
    /\ status = "conflict" => ~commit.attempted /\ ~commit.completed
    /\ status = "failed"   => commit.unchanged \/ (commit.attempted /\ commit.completed)

Status == IF process.conflict THEN "conflict" ELSE "failed"

\* BuildFailureArtifacts, validateFailureArtifacts and PublishFailure; a result
\* that says of a conflict that the target is unchanged says so by itself.
PublishFailure ==
    /\ At("failing")
    /\ ValidResult(Status, process.commit)
    /\ process.transaction \/ artifacts.dir = "none"
    /\ artifacts' = [artifacts EXCEPT !.dir = "published", !.result = Status]
    /\ Returns("failed", TRUE, process.commit.unchanged)
    /\ UNCHANGED <<action, target, staging, base, editedAt>>

\* The failure cannot be published: the transaction, with its backups, is
\* cleaned up.  Without one, a half-written directory may be left.
Cleanup ==
    /\ At("failing")
    /\ artifacts' \in
          IF process.transaction THEN {NoArtifacts, artifacts}
          ELSE IF artifacts.dir = "none" /\ ValidResult(Status, process.commit)
               THEN {artifacts, [NoArtifacts EXCEPT !.dir = "staged"]}
               ELSE {artifacts}
    /\ Returns("failed", FALSE, process.commit.unchanged)
    /\ UNCHANGED <<action, target, staging, base, editedAt>>

-----------------------------------------------------------------------------
(* The explicit rollback.                                                  *)

MayRollBack == artifacts.journal = "committed"

verifyCommittedChanges == \A p \in Paths : action[p] # "preserved" => target[p] = After[p]

\* RollbackExecutor.Rollback of a committed journal; of another it changes
\* nothing.  A recovery directory of an earlier rollback is in the way.
Rollback ==
    /\ At("idle")
    /\ Published
    /\ MayRollBack
    /\ verifyCommittedChanges
    /\ staging.kind # "recovery"
    /\ base' = target
    /\ answer' = NoAnswer
    /\ \/ RestoresChanges("rollback") /\ UNCHANGED artifacts
       \/ /\ MarkRolledBack(FALSE)
          /\ staging' \in {staging, RecoveryStaging}
          /\ UNCHANGED process
    /\ UNCHANGED <<action, target, editedAt>>

RollbackCompleted ==
    /\ Restored("rollback")
    /\ \E completed \in BOOLEAN :
          /\ RestorationCompleted(completed)
          /\ MarkRolledBack(completed)
    /\ process' = Idle
    /\ UNCHANGED <<action, target, answer, base, editedAt>>

-----------------------------------------------------------------------------
(* The environment.                                                        *)

\* The process dies.
Crash ==
    /\ ~At("idle")
    /\ Returns("crashed", FALSE, FALSE)
    /\ UNCHANGED <<action, target, staging, artifacts, base, editedAt>>

\* The operation has looked at the file and will replace it without another look.
LookedAt(p) ==
    \/ At("applying") /\ p \in process.done
    \/ At("replacing") /\ (p \in process.done \/ IsNext(p))
    \/ At("restoring") /\ p \in process.left

\* Someone edits a file, each at most once.
Edit(p) ==
    /\ editedAt[p] = "never"
    /\ target' = [target EXCEPT ![p] = "edited"]
    /\ editedAt' = [editedAt EXCEPT ![p] = IF LookedAt(p) THEN "late"
                                             ELSE IF At("mark") \/ At("publish") THEN "verified"
                                             ELSE "early"]
    /\ UNCHANGED <<action, staging, artifacts, process, answer, base>>

Next ==
    \/ Replay
    \/ Prepare
    \/ VerifyPreparedSnapshot
    \/ Stage
    \/ \E p \in Paths : CheckFile(p)
    \/ \E p \in Paths : replaceFile(p)
    \/ VerifyChanges
    \/ CleanupStage
    \/ VerifyFinalSnapshot
    \/ MarkCommitted
    \/ Publish
    \/ RestorePreparedChanges
    \/ \E p \in Paths : rollbackApplied(p)
    \/ CommitRolledBack
    \/ PublicationRolledBack
    \/ PublishFailure
    \/ Cleanup
    \/ Rollback
    \/ RollbackCompleted
    \/ Crash
    \/ \E p \in Paths : Edit(p)

Spec == Init /\ [][Next]_vars

-----------------------------------------------------------------------------
(* Properties.                                                             *)

\* Each file has one of these contents, or was edited.
IsOrEdited(files) == \A p \in Paths : target[p] \in {files[p], "edited"}

\* When an execution fails and says that the target is unchanged, or publishes
\* the evidence of its failure, every file is as it was when the execution
\* began, unless someone edited it: whichever calls failed on the way.
\* (Commit, rollbackAfterFailure, restorePreparedChanges, fail)
FailureReportTrue ==
    (At("idle") /\ answer.outcome = "failed" /\ (answer.unchanged \/ answer.published))
        => IsOrEdited(base)

\* An edit is never lost unless it came after the operation looked at the file
\* for the last time: neither to the commit nor to any of the three ways of
\* restoring files.  (validateTargetForChange, verifyFinalSnapshot,
\* verifyCommittedChanges)
EarlyEditsKept ==
    \A p \in Paths : editedAt[p] \in {"early", "verified"} => target[p] = "edited"

\* When a success is published, every file has its generated content, or was
\* edited after the final verification, also those that were not to be changed;
\* no staging directory is left.  (Commit, verifyFinalSnapshot, Publish)
PublicationTrue ==
    [][(~Published /\ artifacts'.dir = "published" /\ artifacts'.result = "succeeded")
        => /\ \A p \in Paths : target[p] = After[p] \/ editedAt[p] = "verified"
           /\ staging.kind = "none"]_vars

\* Published evidence stays: no later execution replaces it, and its journal
\* only goes from committed to the outcome of one rollback.
\* (LoadPublished, PublishFailure, Rollback)
EvidenceStays ==
    [][Published =>
          /\ artifacts'.dir = "published" /\ artifacts'.result = artifacts.result
          /\ \/ artifacts'.journal = artifacts.journal
             \/ /\ artifacts.journal = "committed"
                /\ artifacts'.journal \in {"rolled_back", "rollback_failed"}]_vars
=============================================================================
