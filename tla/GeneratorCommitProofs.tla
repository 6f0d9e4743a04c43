------------------------ MODULE GeneratorCommitProofs ------------------------
(***************************************************************************)
(* Theorems about GeneratorCommit, for any set of files and any requests.  *)
(***************************************************************************)
EXTENDS GeneratorCommit, TLAPS

\* The file contents that the steps write.
LEMMA ContentTypes ==
    ASSUME TypeOK
    PROVE  /\ Before \in [Paths -> Contents]
           /\ After \in [Paths -> Contents]
           /\ NoBackups \in [Paths -> Contents]
           /\ Changes \subseteq Paths
  BY DEF TypeOK, Before, After, NoBackups, Changes, Contents

\* The staging directories that the steps make, and one of which a backup is used.
LEMMA StagingUpdates ==
    ASSUME TypeOK
    PROVE  /\ NoStaging \in StagingTypes
           /\ RecoveryStaging \in StagingTypes
           /\ \A kind \in {"empty", "commit"} : [NoStaging EXCEPT !.kind = kind] \in StagingTypes
           /\ \A b \in [Paths -> Contents] : [kind |-> "commit", backups |-> b] \in StagingTypes
           /\ \A p \in Paths : [staging EXCEPT !.backups[p] = "absent"] \in StagingTypes
           /\ staging.backups \in [Paths -> Contents]
<1>1. NoBackups \in [Paths -> Contents] /\ Before \in [Paths -> Contents]
  BY ContentTypes
<1>2. staging \in StagingTypes
  BY DEF TypeOK
<1>3. /\ NoStaging \in StagingTypes
      /\ \A kind \in {"empty", "commit"} : [NoStaging EXCEPT !.kind = kind] \in StagingTypes
  BY <1>1 DEF NoStaging, StagingTypes
<1>4. RecoveryStaging \in StagingTypes
  BY <1>1 DEF RecoveryStaging, StagingTypes, Contents
<1>5. /\ \A b \in [Paths -> Contents] : [kind |-> "commit", backups |-> b] \in StagingTypes
      /\ staging.backups \in [Paths -> Contents]
  BY <1>2 DEF StagingTypes
<1>6. \A p \in Paths : [staging EXCEPT !.backups[p] = "absent"] \in StagingTypes
  BY <1>2 DEF StagingTypes, Contents
<1> QED BY <1>3, <1>4, <1>5, <1>6

\* The changes of the artifact directory.
LEMMA ArtifactUpdates ==
    ASSUME TypeOK
    PROVE  /\ NoArtifacts \in ArtifactTypes
           /\ StagedArtifacts \in ArtifactTypes
           /\ [NoArtifacts EXCEPT !.dir = "staged"] \in ArtifactTypes
           /\ [artifacts EXCEPT !.dir = "published"] \in ArtifactTypes
           /\ \A journal \in {"committed", "rolled_back", "rollback_failed"} :
                 [artifacts EXCEPT !.journal = journal] \in ArtifactTypes
           /\ \A result \in {"failed", "conflict"} :
                 [artifacts EXCEPT !.dir = "published", !.result = result] \in ArtifactTypes
  BY DEF TypeOK, ArtifactTypes, NoArtifacts, StagedArtifacts

\* The changes of the operation's state, and the answers.
LEMMA ProcessUpdates ==
    ASSUME TypeOK
    PROVE  /\ Idle \in ProcessTypes
           /\ \A pc \in Operations : [process EXCEPT !.pc = pc] \in ProcessTypes
           /\ [process EXCEPT !.pc = "commit", !.transaction = TRUE] \in ProcessTypes
           /\ \A p \in Paths : /\ [process EXCEPT !.pc = "applying", !.done = @ \union {p}] \in ProcessTypes
                               /\ [process EXCEPT !.left = @ \ {p}] \in ProcessTypes
                               /\ [process EXCEPT !.left = @ \ {p}, !.failed = TRUE] \in ProcessTypes
           /\ \A commit \in CommitResults, conflict \in BOOLEAN :
                 [process EXCEPT !.pc = "failing", !.commit = commit, !.conflict = conflict] \in ProcessTypes
<1>1. process \in ProcessTypes
  BY DEF TypeOK
<1>2. Idle \in ProcessTypes
  BY DEF Idle, ProcessTypes, Operations, CommitResults, Untouched
<1>3. \A pc \in Operations : [process EXCEPT !.pc = pc] \in ProcessTypes
  BY <1>1 DEF ProcessTypes
<1>4. [process EXCEPT !.pc = "commit", !.transaction = TRUE] \in ProcessTypes
  BY <1>1 DEF ProcessTypes, Operations
<1>5. ASSUME NEW p \in Paths
      PROVE  /\ [process EXCEPT !.pc = "applying", !.done = @ \union {p}] \in ProcessTypes
             /\ [process EXCEPT !.left = @ \ {p}] \in ProcessTypes
             /\ [process EXCEPT !.left = @ \ {p}, !.failed = TRUE] \in ProcessTypes
  BY <1>1 DEF ProcessTypes, Operations
<1>6. \A commit \in CommitResults, conflict \in BOOLEAN :
        [process EXCEPT !.pc = "failing", !.commit = commit, !.conflict = conflict] \in ProcessTypes
  BY <1>1 DEF ProcessTypes, Operations
<1> QED BY <1>2, <1>3, <1>4, <1>5, <1>6

\* A restoration begins.
LEMMA RestorationUpdates ==
    ASSUME TypeOK
    PROVE  /\ rollbackAfterFailure => process' \in ProcessTypes
           /\ \A reason \in {"publication", "rollback"} :
                 RestoresChanges(reason) => process' \in ProcessTypes /\ staging' \in StagingTypes
<1>1. process \in ProcessTypes /\ Changes \subseteq Paths
  BY ContentTypes DEF TypeOK
<1>2. rollbackAfterFailure => process' \in ProcessTypes
  BY <1>1 DEF rollbackAfterFailure, ProcessTypes, Operations
<1>3. \A reason \in {"publication", "rollback"} : RestoresChanges(reason) => process' \in ProcessTypes
  BY <1>1 DEF RestoresChanges, ProcessTypes, Operations
<1>4. \A reason \in {"publication", "rollback"} : RestoresChanges(reason) => staging' \in StagingTypes
  BY StagingUpdates DEF RestoresChanges
<1> QED BY <1>2, <1>3, <1>4

\* The commit results and answers of the steps.
LEMMA ResultTypes ==
    ASSUME TypeOK
    PROVE  /\ Untouched \in CommitResults /\ Unknown \in CommitResults
           /\ \A c \in BOOLEAN : RestoreResult(c) \in CommitResults
           /\ process.conflict \in BOOLEAN /\ process.commit.unchanged \in BOOLEAN
           /\ NoAnswer \in AnswerTypes
           /\ \A outcome \in {"succeeded", "failed", "crashed"}, published, unchanged \in BOOLEAN :
                 [outcome |-> outcome, published |-> published, unchanged |-> unchanged] \in AnswerTypes
  BY DEF TypeOK, ProcessTypes, CommitResults, AnswerTypes, Untouched, Unknown, RestoreResult, NoAnswer

\* An execution that fails.
LEMMA FailingUpdates ==
    ASSUME TypeOK
    PROVE  \A commit \in CommitResults, conflict \in BOOLEAN :
             GoesFailing(commit, conflict) => process' \in ProcessTypes
  BY ProcessUpdates DEF GoesFailing

\* A step of the environment or the operation keeps every variable's type.
LEMMA TypeStep == TypeOK /\ [Next]_vars => TypeOK'
<1> SUFFICES ASSUME TypeOK, [Next]_vars PROVE TypeOK'
  OBVIOUS
<1>t. /\ target \in [Paths -> Contents] /\ staging \in StagingTypes /\ artifacts \in ArtifactTypes
      /\ process \in ProcessTypes /\ answer \in AnswerTypes
  BY DEF TypeOK
<1>pc. Operations = {"idle", "commit", "staging", "applying", "replacing", "cleaning", "verify",
                     "mark", "publish", "restore", "restoring", "failing"}
  BY DEF Operations
<1>1. CASE Replay
  <2>1. process' \in ProcessTypes
    BY <1>t, <1>1, ProcessUpdates DEF Replay, Returns
  <2>2. answer' \in AnswerTypes
    BY <1>t, <1>1, ResultTypes DEF Replay, Returns
  <2> QED BY <1>1, <2>1, <2>2 DEF Replay, TypeOK
<1>2. CASE Prepare
  <2>1. process' \in ProcessTypes
    BY <1>t, <1>2, ProcessUpdates, FailingUpdates, ResultTypes DEF Prepare, Returns
  <2>2. artifacts' \in ArtifactTypes
    BY <1>t, <1>2, ArtifactUpdates DEF Prepare
  <2>3. answer' \in AnswerTypes
    BY <1>t, <1>2, ResultTypes DEF Prepare, Returns
  <2> QED BY <1>2, <2>1, <2>2, <2>3 DEF Prepare, TypeOK
<1>3. CASE VerifyPreparedSnapshot
  <2>1. process' \in ProcessTypes
    BY <1>t, <1>3, ProcessUpdates, ResultTypes, <1>pc DEF VerifyPreparedSnapshot, Goes, GoesFailing
  <2>2. staging' \in StagingTypes
    BY <1>t, <1>3, StagingUpdates DEF VerifyPreparedSnapshot
  <2> QED BY <1>3, <2>1, <2>2 DEF VerifyPreparedSnapshot, TypeOK
<1>4. CASE Stage
  <2>1. [p \in Paths |-> IF action[p] = "updated" THEN target[p] ELSE "absent"] \in [Paths -> Contents]
    BY <1>t DEF Contents
  <2>2. process' \in ProcessTypes
    BY <1>t, <1>4, ProcessUpdates, ResultTypes, <1>pc DEF Stage, Goes, GoesFailing
  <2>3. staging' \in StagingTypes
    BY <1>t, <1>4, <2>1, StagingUpdates DEF Stage, StagingRemoved
  <2> QED BY <1>4, <2>2, <2>3 DEF Stage, TypeOK
<1>5. CASE \E p \in Paths : CheckFile(p)
  <2>1. PICK p \in Paths : CheckFile(p)
    BY <1>5
  <2>2. process' \in ProcessTypes
    BY <1>t, <2>1, ProcessUpdates, RestorationUpdates, <1>pc DEF CheckFile, Goes
  <2> QED BY <2>1, <2>2 DEF CheckFile, TypeOK
<1>6. CASE \E p \in Paths : replaceFile(p)
  <2>1. PICK p \in Paths : replaceFile(p)
    BY <1>6
  <2>2. process' \in ProcessTypes
    BY <1>t, <2>1, ProcessUpdates, RestorationUpdates DEF replaceFile
  <2>3. target' \in [Paths -> Contents]
    BY <1>t, <2>1, ContentTypes DEF replaceFile
  <2> QED BY <2>1, <2>2, <2>3 DEF replaceFile, TypeOK
<1>7. CASE VerifyChanges
  <2>1. process' \in ProcessTypes
    BY <1>t, <1>7, ProcessUpdates, RestorationUpdates, <1>pc DEF VerifyChanges, Goes
  <2> QED BY <1>7, <2>1 DEF VerifyChanges, TypeOK
<1>8. CASE CleanupStage
  <2>1. [process EXCEPT !.pc = "verify", !.commit.unchanged = (Changes = {})] \in ProcessTypes
    BY <1>t DEF ProcessTypes, CommitResults, Operations
  <2>2. process' \in ProcessTypes
    BY <1>t, <1>8, <2>1, ProcessUpdates, ResultTypes DEF CleanupStage, GoesFailing
  <2>3. staging' \in StagingTypes
    BY <1>t, <1>8, StagingUpdates DEF CleanupStage
  <2> QED BY <1>8, <2>2, <2>3 DEF CleanupStage, TypeOK
<1>9. CASE VerifyFinalSnapshot
  <2>1. [process EXCEPT !.pc = "restore", !.conflict = TRUE] \in ProcessTypes
    BY <1>t DEF ProcessTypes, Operations
  <2>2. process' \in ProcessTypes
    BY <1>t, <1>9, <2>1, ProcessUpdates, <1>pc DEF VerifyFinalSnapshot, Goes
  <2> QED BY <1>9, <2>2 DEF VerifyFinalSnapshot, TypeOK
<1>10. CASE MarkCommitted
  <2>1. process' \in ProcessTypes
    BY <1>t, <1>10, ProcessUpdates, <1>pc DEF MarkCommitted, Goes
  <2>2. artifacts' \in ArtifactTypes
    BY <1>t, <1>10, ArtifactUpdates DEF MarkCommitted
  <2> QED BY <1>10, <2>1, <2>2 DEF MarkCommitted, TypeOK
<1>11. CASE Publish
  <2>1. process' \in ProcessTypes
    BY <1>t, <1>11, ProcessUpdates, <1>pc DEF Publish, Goes, Returns
  <2>2. artifacts' \in ArtifactTypes
    BY <1>t, <1>11, ArtifactUpdates DEF Publish
  <2>3. answer' \in AnswerTypes
    BY <1>t, <1>11, ResultTypes DEF Publish, Returns
  <2> QED BY <1>11, <2>1, <2>2, <2>3 DEF Publish, TypeOK
<1>12. CASE RestorePreparedChanges
  <2>1. process' \in ProcessTypes
    BY <1>t, <1>12, FailingUpdates, ResultTypes, RestorationUpdates DEF RestorePreparedChanges
  <2>2. staging' \in StagingTypes
    BY <1>t, <1>12, StagingUpdates, RestorationUpdates DEF RestorePreparedChanges
  <2>3. artifacts' \in ArtifactTypes
    BY <1>t, <1>12, ArtifactUpdates DEF RestorePreparedChanges, MarkRolledBack
  <2> QED BY <1>12, <2>1, <2>2, <2>3 DEF RestorePreparedChanges, TypeOK
<1>13. CASE \E p \in Paths : rollbackApplied(p)
  <2>1. PICK p \in Paths : rollbackApplied(p)
    BY <1>13
  <2>2. RestoredContent(p) \in Contents
    BY StagingUpdates DEF RestoredContent, Contents
  <2>3. process' \in ProcessTypes
    BY <1>t, <2>1, ProcessUpdates DEF rollbackApplied
  <2>4. staging' \in StagingTypes
    BY <1>t, <2>1, StagingUpdates DEF rollbackApplied
  <2>5. target' \in [Paths -> Contents]
    BY <1>t, <2>1, <2>2 DEF rollbackApplied
  <2> QED BY <2>1, <2>3, <2>4, <2>5 DEF rollbackApplied, TypeOK
<1>14. CASE CommitRolledBack
  <2>1. \A a, c \in BOOLEAN :
          [attempted |-> a, completed |-> a /\ c, unchanged |-> c] \in CommitResults
    BY DEF CommitResults
  <2>2. process' \in ProcessTypes
    BY <1>t, <1>14, <2>1, FailingUpdates DEF CommitRolledBack
  <2>3. staging' \in StagingTypes
    BY <1>t, <1>14, StagingUpdates DEF CommitRolledBack, StagingRemoved
  <2>4. artifacts' \in ArtifactTypes
    BY <1>t, <1>14, ArtifactUpdates DEF CommitRolledBack, MarkRolledBack
  <2> QED BY <1>14, <2>2, <2>3, <2>4 DEF CommitRolledBack, TypeOK
<1>15. CASE PublicationRolledBack
  <2>1. process' \in ProcessTypes
    BY <1>t, <1>15, FailingUpdates, ResultTypes DEF PublicationRolledBack
  <2>2. staging' \in StagingTypes
    BY <1>t, <1>15, StagingUpdates DEF PublicationRolledBack, RestorationCompleted, StagingRemoved
  <2>3. artifacts' \in ArtifactTypes
    BY <1>t, <1>15, ArtifactUpdates DEF PublicationRolledBack, MarkRolledBack
  <2> QED BY <1>15, <2>1, <2>2, <2>3 DEF PublicationRolledBack, TypeOK
<1>16. CASE PublishFailure
  <2>1. process' \in ProcessTypes
    BY <1>t, <1>16, ProcessUpdates DEF PublishFailure, Returns
  <2>2. artifacts' \in ArtifactTypes
    BY <1>t, <1>16, ArtifactUpdates DEF PublishFailure, Status
  <2>3. answer' \in AnswerTypes
    BY <1>t, <1>16, ResultTypes DEF PublishFailure, Returns
  <2> QED BY <1>16, <2>1, <2>2, <2>3 DEF PublishFailure, TypeOK
<1>17. CASE Cleanup
  <2>1. process' \in ProcessTypes
    BY <1>t, <1>17, ProcessUpdates DEF Cleanup, Returns
  <2>2. artifacts' \in ArtifactTypes
    BY <1>t, <1>17, ArtifactUpdates DEF Cleanup
  <2>3. answer' \in AnswerTypes
    BY <1>t, <1>17, ResultTypes DEF Cleanup, Returns
  <2> QED BY <1>17, <2>1, <2>2, <2>3 DEF Cleanup, TypeOK
<1>18. CASE Rollback
  <2>1. process' \in ProcessTypes
    BY <1>t, <1>18, RestorationUpdates DEF Rollback
  <2>2. staging' \in StagingTypes
    BY <1>t, <1>18, StagingUpdates, RestorationUpdates DEF Rollback
  <2>3. artifacts' \in ArtifactTypes
    BY <1>t, <1>18, ArtifactUpdates DEF Rollback, MarkRolledBack
  <2>4. answer' \in AnswerTypes
    BY <1>t, <1>18, ResultTypes DEF Rollback
  <2> QED BY <1>18, <2>1, <2>2, <2>3, <2>4 DEF Rollback, TypeOK
<1>19. CASE RollbackCompleted
  <2>1. process' \in ProcessTypes
    BY <1>t, <1>19, ProcessUpdates DEF RollbackCompleted
  <2>2. staging' \in StagingTypes
    BY <1>t, <1>19, StagingUpdates DEF RollbackCompleted, RestorationCompleted, StagingRemoved
  <2>3. artifacts' \in ArtifactTypes
    BY <1>t, <1>19, ArtifactUpdates DEF RollbackCompleted, MarkRolledBack
  <2> QED BY <1>19, <2>1, <2>2, <2>3 DEF RollbackCompleted, TypeOK
<1>20. CASE Crash
  <2>1. process' \in ProcessTypes
    BY <1>t, <1>20, ProcessUpdates DEF Crash, Returns
  <2>2. answer' \in AnswerTypes
    BY <1>t, <1>20, ResultTypes DEF Crash, Returns
  <2> QED BY <1>20, <2>1, <2>2 DEF Crash, TypeOK
<1>21. CASE \E p \in Paths : Edit(p)
  BY <1>21 DEF Edit, TypeOK, Contents
<1>22. CASE UNCHANGED vars
  BY <1>22 DEF vars, TypeOK
<1> QED
  BY <1>1, <1>2, <1>3, <1>4, <1>5, <1>6, <1>7, <1>8, <1>9, <1>10, <1>11, <1>12, <1>13, <1>14,
     <1>15, <1>16, <1>17, <1>18, <1>19, <1>20, <1>21, <1>22 DEF Next

LEMMA TypeInit == Init => TypeOK
<1> SUFFICES ASSUME Init PROVE TypeOK
  OBVIOUS
<1>1. action \in [Paths -> Actions]
  BY RequestsAssumption DEF Init
<1>2. process \in ProcessTypes /\ answer \in AnswerTypes /\ artifacts \in ArtifactTypes
  BY DEF Init, Idle, Untouched, NoAnswer, NoArtifacts, ProcessTypes, CommitResults, AnswerTypes,
         ArtifactTypes, Operations
<1>3. staging \in StagingTypes /\ target \in [Paths -> Contents]
  BY DEF Init, NoStaging, NoBackups, StagingTypes, Before, Contents
<1> QED
  BY <1>1, <1>2, <1>3 DEF Init, TypeOK

\* Every variable of the generator's commit keeps its type, whatever fails and
\* whenever the process dies.
THEOREM TypeCorrect == Spec => []TypeOK
  BY TypeInit, TypeStep, PTL DEF Spec

-----------------------------------------------------------------------------
(* Early edits are kept.                                                   *)

KeptEdit(p) == editedAt[p] \in {"early", "verified"}

\* No file that the operation will write again without looking at it holds an
\* edit that the operation could have seen.
LookedAtInv ==
    /\ process.pc \in {"idle", "commit", "staging"} => process.done = {}
    /\ process.pc \in {"applying", "replacing"} => \A p \in process.done : ~KeptEdit(p)
    /\ process.pc = "replacing" => \A p \in Paths : IsNext(p) => ~KeptEdit(p)
    /\ process.pc = "restoring" => \A p \in process.left : ~KeptEdit(p)

EditsInv == EarlyEditsKept /\ LookedAtInv

\* The generator's contents are no edits.
LEMMA GeneratedIsNoEdit ==
    ASSUME NEW p \in Paths PROVE Before[p] # "edited" /\ After[p] # "edited"
  BY DEF Before, After

\* A target that is the final snapshot, or whose managed files are generated,
\* has no kept edit in a file of the request.
LEMMA FinalHasNoEdit ==
    ASSUME TypeOK, EarlyEditsKept, NEW p \in Changes,
           verifyFinalSnapshot \/ verifyCommittedChanges
    PROVE  ~KeptEdit(p)
<1>1. p \in Paths /\ action[p] # "preserved"
  BY DEF Changes
<1>2. target[p] = After[p]
  BY <1>1 DEF verifyFinalSnapshot, verifyCommittedChanges, SnapshotIs
<1> QED BY <1>1, <1>2, GeneratedIsNoEdit DEF EarlyEditsKept, KeptEdit

\* The fields of the operation's state after a step.
LEMMA NextFields ==
    ASSUME TypeOK
    PROVE  /\ \A pc \in Operations : Goes(pc) =>
                 process'.pc = pc /\ process'.done = process.done /\ process'.left = process.left
           /\ \A commit, conflict : GoesFailing(commit, conflict) => process'.pc = "failing"
           /\ \A outcome, published, unchanged : Returns(outcome, published, unchanged) =>
                 process'.pc = "idle" /\ process'.done = {}
           /\ rollbackAfterFailure => process'.pc = "restoring" /\ process'.left = process.done
           /\ \A reason : RestoresChanges(reason) => process'.pc = "restoring" /\ process'.left = Changes
<1>t. process \in ProcessTypes
  BY DEF TypeOK
<1>1. \A pc \in Operations : Goes(pc) =>
        process'.pc = pc /\ process'.done = process.done /\ process'.left = process.left
  BY <1>t DEF Goes, ProcessTypes
<1>2. \A commit, conflict : GoesFailing(commit, conflict) => process'.pc = "failing"
  BY <1>t DEF GoesFailing, ProcessTypes
<1>3. \A outcome, published, unchanged : Returns(outcome, published, unchanged) =>
        process'.pc = "idle" /\ process'.done = {}
  BY DEF Returns, Idle
<1>4. rollbackAfterFailure => process'.pc = "restoring" /\ process'.left = process.done
  BY <1>t DEF rollbackAfterFailure, ProcessTypes
<1>5. \A reason : RestoresChanges(reason) => process'.pc = "restoring" /\ process'.left = Changes
  BY <1>t DEF RestoresChanges, ProcessTypes
<1> QED BY <1>1, <1>2, <1>3, <1>4, <1>5

\* A step that touches no file and after which none will be written unseen.
LEMMA NoWriteAhead ==
    ASSUME EditsInv, UNCHANGED <<target, editedAt>>,
           process'.pc \notin {"applying", "replacing", "restoring"},
           process'.pc \in {"idle", "commit", "staging"} => process'.done = {}
    PROVE  EditsInv'
  BY DEF EditsInv, EarlyEditsKept, LookedAtInv

\* A step after which files without kept edits are restored.
LEMMA RestorationBegins ==
    ASSUME EditsInv, UNCHANGED <<target, editedAt>>, process'.pc = "restoring",
           \A p \in process'.left : ~KeptEdit(p)
    PROVE  EditsInv'
  BY DEF EditsInv, EarlyEditsKept, LookedAtInv, KeptEdit

\* No step loses an edit that the operation could have seen.
LEMMA EditsStep == TypeOK /\ EditsInv /\ [Next]_vars => EditsInv'
<1> SUFFICES ASSUME TypeOK, EditsInv, [Next]_vars PROVE EditsInv'
  OBVIOUS
<1>f. /\ \A pc \in Operations : Goes(pc) =>
            process'.pc = pc /\ process'.done = process.done /\ process'.left = process.left
      /\ \A commit, conflict : GoesFailing(commit, conflict) => process'.pc = "failing"
      /\ \A outcome, published, unchanged : Returns(outcome, published, unchanged) =>
            process'.pc = "idle" /\ process'.done = {}
      /\ rollbackAfterFailure => process'.pc = "restoring" /\ process'.left = process.done
      /\ \A reason : RestoresChanges(reason) => process'.pc = "restoring" /\ process'.left = Changes
  BY NextFields
<1>t. process \in ProcessTypes
  BY DEF TypeOK
<1>n. /\ At("idle") \/ At("commit") \/ At("staging") => process.done = {}
      /\ At("applying") \/ At("replacing") => \A p \in process.done : ~KeptEdit(p)
      /\ At("replacing") => \A p \in Paths : IsNext(p) => ~KeptEdit(p)
      /\ At("restoring") => \A p \in process.left : ~KeptEdit(p)
  BY DEF EditsInv, LookedAtInv, At
<1>1. CASE Replay
  BY <1>1, <1>f, NoWriteAhead DEF Replay
<1>2. CASE Prepare
  <2>1. process'.pc \in {"failing", "idle", "commit"}
    BY <1>2, <1>f, <1>t DEF Prepare, ProcessTypes
  <2>2. process'.done = {} \/ process'.pc = "failing"
    BY <1>2, <1>f, <1>n, <1>t DEF Prepare, ProcessTypes
  <2> QED BY <1>2, <2>1, <2>2, NoWriteAhead DEF Prepare
<1>3. CASE VerifyPreparedSnapshot
  BY <1>3, <1>f, <1>n, NoWriteAhead DEF VerifyPreparedSnapshot, Operations
<1>4. CASE Stage
  <2>1. CASE Goes("applying")
    <3>1. process'.pc = "applying" /\ process'.done = {}
      BY <1>4, <2>1, <1>f, <1>n DEF Stage, Operations
    <3> QED BY <1>4, <3>1 DEF Stage, EditsInv, EarlyEditsKept, LookedAtInv
  <2>2. CASE GoesFailing(Untouched, FALSE)
    BY <1>4, <2>2, <1>f, NoWriteAhead DEF Stage
  <2> QED BY <1>4, <2>1, <2>2 DEF Stage
<1>5. CASE \E p \in Paths : CheckFile(p)
  <2>1. PICK p \in Paths : CheckFile(p)
    BY <1>5
  <2>2. CASE validateTargetForChange(p) /\ Goes("replacing")
    <3>1. ~KeptEdit(p)
      BY <2>2, GeneratedIsNoEdit DEF validateTargetForChange, EditsInv, EarlyEditsKept, KeptEdit
    <3>2. process'.pc = "replacing" /\ process'.done = process.done
      BY <2>2, <1>f DEF Operations
    <3>3. \A q \in Paths : IsNext(q)' => q = p
      BY <2>1, <3>2, PathsAssumption DEF CheckFile, IsNext, Changes
    <3> QED BY <2>1, <1>n, <3>1, <3>2, <3>3 DEF CheckFile, EditsInv, EarlyEditsKept, LookedAtInv, KeptEdit
  <2>3. CASE rollbackAfterFailure
    BY <2>1, <2>3, <1>f, <1>n, RestorationBegins DEF CheckFile
  <2> QED BY <2>1, <2>2, <2>3 DEF CheckFile
<1>6. CASE \E p \in Paths : replaceFile(p)
  <2>1. PICK p \in Paths : replaceFile(p)
    BY <1>6
  <2>2. CASE rollbackAfterFailure /\ UNCHANGED target
    BY <2>1, <2>2, <1>f, <1>n, RestorationBegins DEF replaceFile
  <2>3. CASE /\ target' = [target EXCEPT ![p] = After[p]]
             /\ process' = [process EXCEPT !.pc = "applying", !.done = @ \union {p}]
    <3>1. ~KeptEdit(p)
      BY <2>1, <1>n DEF replaceFile
    <3>2. process'.pc = "applying" /\ process'.done = process.done \union {p}
      BY <2>3, <1>t DEF ProcessTypes
    <3>3. EarlyEditsKept'
      BY <2>1, <2>3, <3>1 DEF replaceFile, EditsInv, EarlyEditsKept, KeptEdit, TypeOK
    <3>4. LookedAtInv'
      BY <2>1, <1>n, <3>1, <3>2 DEF replaceFile, LookedAtInv, KeptEdit
    <3> QED BY <3>3, <3>4 DEF EditsInv
  <2> QED BY <2>1, <2>2, <2>3 DEF replaceFile
<1>7. CASE VerifyChanges
  <2>1. CASE Goes("cleaning")
    BY <1>7, <2>1, <1>f, NoWriteAhead DEF VerifyChanges, Operations
  <2>2. CASE rollbackAfterFailure
    BY <1>7, <2>2, <1>f, <1>n, RestorationBegins DEF VerifyChanges
  <2> QED BY <1>7, <2>1, <2>2 DEF VerifyChanges
<1>8. CASE CleanupStage
  <2>1. process'.pc \in {"verify", "failing"}
    BY <1>8, <1>f, <1>t DEF CleanupStage, ProcessTypes
  <2> QED BY <1>8, <2>1, NoWriteAhead DEF CleanupStage
<1>9. CASE VerifyFinalSnapshot
  <2>1. process'.pc \in {"mark", "restore"}
    BY <1>9, <1>f, <1>t DEF VerifyFinalSnapshot, ProcessTypes, Operations
  <2> QED BY <1>9, <2>1, NoWriteAhead DEF VerifyFinalSnapshot
<1>10. CASE MarkCommitted
  BY <1>10, <1>f, NoWriteAhead DEF MarkCommitted, Operations
<1>11. CASE Publish
  BY <1>11, <1>f, NoWriteAhead DEF Publish, Operations
<1>12. CASE RestorePreparedChanges
  <2>1. CASE verifyFinalSnapshot /\ RestoresChanges("publication")
    <3>1. \A p \in Changes : ~KeptEdit(p)
      BY <2>1, FinalHasNoEdit DEF EditsInv
    <3> QED BY <1>12, <2>1, <3>1, <1>f, RestorationBegins DEF RestorePreparedChanges
  <2>2. CASE GoesFailing(RestoreResult(FALSE), process.conflict)
    BY <1>12, <2>2, <1>f, NoWriteAhead DEF RestorePreparedChanges
  <2> QED BY <1>12, <2>1, <2>2 DEF RestorePreparedChanges
<1>13. CASE \E p \in Paths : rollbackApplied(p)
  <2>1. PICK p \in Paths : rollbackApplied(p)
    BY <1>13
  <2>2. ~KeptEdit(p)
    BY <2>1, <1>n DEF rollbackApplied
  <2>3. EarlyEditsKept'
    BY <2>1, <2>2 DEF rollbackApplied, EditsInv, EarlyEditsKept, KeptEdit, TypeOK
  <2>4. process'.pc = "restoring" /\ process'.left \subseteq process.left
    BY <2>1, <1>t DEF rollbackApplied, At, ProcessTypes
  <2>5. LookedAtInv'
    BY <2>1, <1>n, <2>4 DEF rollbackApplied, LookedAtInv, KeptEdit
  <2> QED BY <2>3, <2>5 DEF EditsInv
<1>14. CASE CommitRolledBack
  BY <1>14, <1>f, NoWriteAhead DEF CommitRolledBack
<1>15. CASE PublicationRolledBack
  BY <1>15, <1>f, NoWriteAhead DEF PublicationRolledBack
<1>16. CASE PublishFailure
  BY <1>16, <1>f, NoWriteAhead DEF PublishFailure
<1>17. CASE Cleanup
  BY <1>17, <1>f, NoWriteAhead DEF Cleanup
<1>18. CASE Rollback
  <2>1. CASE RestoresChanges("rollback")
    <3>1. \A p \in Changes : ~KeptEdit(p)
      BY <1>18, FinalHasNoEdit DEF Rollback, EditsInv
    <3> QED BY <1>18, <2>1, <3>1, <1>f, RestorationBegins DEF Rollback
  <2>2. CASE UNCHANGED process
    <3>1. process'.pc = "idle" /\ process'.done = {}
      BY <1>18, <2>2, <1>n DEF Rollback, At
    <3> QED BY <1>18, <3>1, NoWriteAhead DEF Rollback
  <2> QED BY <1>18, <2>1, <2>2 DEF Rollback
<1>19. CASE RollbackCompleted
  BY <1>19, NoWriteAhead DEF RollbackCompleted, Idle
<1>20. CASE Crash
  BY <1>20, <1>f, NoWriteAhead DEF Crash
<1>21. CASE \E p \in Paths : Edit(p)
  <2>1. PICK p \in Paths : Edit(p)
    BY <1>21
  <2>2. EarlyEditsKept'
    BY <2>1 DEF Edit, EditsInv, EarlyEditsKept, TypeOK
  <2>3. LookedAt(p) => ~KeptEdit(p)'
    BY <2>1 DEF Edit, KeptEdit, TypeOK
  <2>4. \A q \in Paths : q # p => (KeptEdit(q)' <=> KeptEdit(q))
    BY <2>1 DEF Edit, KeptEdit, TypeOK
  <2>5. \A q \in Paths : IsNext(q)' <=> IsNext(q)
    BY <2>1 DEF Edit, IsNext, Changes
  <2>6. process.done \subseteq Paths /\ process.left \subseteq Paths
    BY <1>t DEF ProcessTypes
  <2>7. LookedAtInv'
    BY <2>1, <2>3, <2>4, <2>5, <2>6, <1>n DEF Edit, LookedAtInv, LookedAt, At
  <2> QED BY <2>2, <2>7 DEF EditsInv
<1>22. CASE UNCHANGED vars
  BY <1>22 DEF vars, EditsInv, EarlyEditsKept, LookedAtInv, KeptEdit, IsNext, Changes
<1> QED
  BY <1>1, <1>2, <1>3, <1>4, <1>5, <1>6, <1>7, <1>8, <1>9, <1>10, <1>11, <1>12, <1>13, <1>14,
     <1>15, <1>16, <1>17, <1>18, <1>19, <1>20, <1>21, <1>22 DEF Next

\* The inductive invariant of edits: what an operation writes without another
\* look holds no edit that it could have seen.
THEOREM EditsCorrect == Spec => []EditsInv
<1>1. Init => EditsInv
  BY DEF Init, Idle, EditsInv, EarlyEditsKept, LookedAtInv
<1> QED
  BY <1>1, TypeCorrect, EditsStep, PTL DEF Spec

\* Neither commit nor restoration overwrites an edit that was there when the
\* operation looked at the file for the last time, for any files and requests.
THEOREM EarlyEditsAreKept == Spec => []EarlyEditsKept
<1>1. EditsInv => EarlyEditsKept
  BY DEF EditsInv
<1> QED
  BY <1>1, EditsCorrect, PTL

-----------------------------------------------------------------------------
(* Published evidence stays, and a published success is true.              *)

RollbackRuns == process.pc = "restoring" /\ process.restoresFor = "rollback"

\* Only an execution that found nothing published runs to its end, and only the
\* rollback of committed changes runs beside published evidence.
EvidenceInv ==
    /\ Published => process.pc = "idle" \/ RollbackRuns
    /\ RollbackRuns => Published /\ artifacts.journal = "committed"

\* From the final verification to the publication no file differs from its
\* generated content, except those edited since, and no staging is left.
VerifiedInv ==
    /\ process.pc \in {"verify", "mark", "publish"} => staging.kind = "none"
    /\ process.pc \in {"mark", "publish"} =>
          \A p \in Paths : target[p] = After[p] \/ editedAt[p] = "verified"

\* The operation's state after a step, with what a restoration is for.
LEMMA NextReasons ==
    ASSUME TypeOK
    PROVE  /\ \A pc \in Operations : Goes(pc) => process'.pc = pc
           /\ \A commit, conflict : GoesFailing(commit, conflict) => process'.pc = "failing"
           /\ \A outcome, published, unchanged :
                 Returns(outcome, published, unchanged) => process'.pc = "idle"
           /\ rollbackAfterFailure => process'.pc = "restoring" /\ process'.restoresFor = "commit"
           /\ \A reason \in {"publication", "rollback"} :
                 RestoresChanges(reason) => process'.pc = "restoring" /\ process'.restoresFor = reason
<1>t. process \in ProcessTypes
  BY DEF TypeOK
<1>1. rollbackAfterFailure => process'.pc = "restoring" /\ process'.restoresFor = "commit"
  BY <1>t DEF rollbackAfterFailure, ProcessTypes
<1>2. \A reason \in {"publication", "rollback"} :
        RestoresChanges(reason) => process'.pc = "restoring" /\ process'.restoresFor = reason
  BY <1>t DEF RestoresChanges, ProcessTypes
<1> QED BY <1>1, <1>2, NextFields

\* A mark of a rollback changes the journal alone.
LEMMA MarkFields ==
    ASSUME TypeOK, NEW completed, MarkRolledBack(completed)
    PROVE  /\ artifacts'.dir = artifacts.dir /\ artifacts'.result = artifacts.result
           /\ artifacts'.journal \in {artifacts.journal, "rolled_back", "rollback_failed"}
<1>1. artifacts \in ArtifactTypes
  BY DEF TypeOK
<1> QED BY <1>1 DEF MarkRolledBack, ArtifactTypes

\* What a step may do to published evidence.
EvidenceStep ==
    Published =>
        /\ artifacts'.dir = "published" /\ artifacts'.result = artifacts.result
        /\ \/ artifacts'.journal = artifacts.journal
           \/ /\ artifacts.journal = "committed"
              /\ artifacts'.journal \in {"rolled_back", "rollback_failed"}

\* Every step keeps published evidence, and the invariant that says who runs.
LEMMA EvidenceKept ==
    TypeOK /\ EvidenceInv /\ [Next]_vars => EvidenceInv' /\ EvidenceStep
<1> SUFFICES ASSUME TypeOK, EvidenceInv, [Next]_vars PROVE EvidenceInv' /\ EvidenceStep
  OBVIOUS
<1> USE DEF EvidenceInv, EvidenceStep, RollbackRuns, Published
<1>f. /\ \A pc \in Operations : Goes(pc) => process'.pc = pc
      /\ \A commit, conflict : GoesFailing(commit, conflict) => process'.pc = "failing"
      /\ \A outcome, published, unchanged :
            Returns(outcome, published, unchanged) => process'.pc = "idle"
      /\ rollbackAfterFailure => process'.pc = "restoring" /\ process'.restoresFor = "commit"
      /\ \A reason \in {"publication", "rollback"} :
            RestoresChanges(reason) => process'.pc = "restoring" /\ process'.restoresFor = reason
  BY NextReasons
<1>t. process \in ProcessTypes /\ artifacts \in ArtifactTypes
  BY DEF TypeOK
<1>m. \A completed \in BOOLEAN : MarkRolledBack(completed) =>
        /\ artifacts'.dir = artifacts.dir /\ artifacts'.result = artifacts.result
        /\ artifacts'.journal \in {artifacts.journal, "rolled_back", "rollback_failed"}
  BY MarkFields
<1>1. CASE Replay
  BY <1>1, <1>f DEF Replay
<1>2. CASE Prepare
  <2>1. process'.pc \in {"failing", "idle", "commit"}
    BY <1>2, <1>f, <1>t DEF Prepare, ProcessTypes
  <2>2. artifacts' = artifacts \/ artifacts' = StagedArtifacts
    BY <1>2 DEF Prepare
  <2>3. StagedArtifacts.dir = "staged"
    BY DEF StagedArtifacts
  <2> QED BY <1>2, <2>1, <2>2, <2>3 DEF Prepare
<1>3. CASE VerifyPreparedSnapshot
  BY <1>3, <1>f DEF VerifyPreparedSnapshot, At, Operations
<1>4. CASE Stage
  BY <1>4, <1>f DEF Stage, At, Operations
<1>5. CASE \E p \in Paths : CheckFile(p)
  BY <1>5, <1>f DEF CheckFile, At, Operations
<1>6. CASE \E p \in Paths : replaceFile(p)
  <2>1. process'.pc = "applying" \/ rollbackAfterFailure
    BY <1>6, <1>t DEF replaceFile, ProcessTypes
  <2> QED BY <1>6, <1>f, <2>1 DEF replaceFile, At
<1>7. CASE VerifyChanges
  BY <1>7, <1>f DEF VerifyChanges, At, Operations
<1>8. CASE CleanupStage
  <2>1. process'.pc \in {"verify", "failing"}
    BY <1>8, <1>f, <1>t DEF CleanupStage, ProcessTypes
  <2> QED BY <1>8, <2>1 DEF CleanupStage, At
<1>9. CASE VerifyFinalSnapshot
  <2>1. process'.pc \in {"mark", "restore"}
    BY <1>9, <1>f, <1>t DEF VerifyFinalSnapshot, ProcessTypes, Operations
  <2> QED BY <1>9, <2>1 DEF VerifyFinalSnapshot, At
<1>10. CASE MarkCommitted
  <2>1. artifacts'.dir = artifacts.dir
    BY <1>10, <1>t DEF MarkCommitted, ArtifactTypes
  <2> QED BY <1>10, <1>f, <2>1 DEF MarkCommitted, At, Operations
<1>11. CASE Publish
  BY <1>11, <1>f DEF Publish, At, Operations
<1>12. CASE RestorePreparedChanges
  <2>1. process'.pc = "failing" \/ (process'.pc = "restoring" /\ process'.restoresFor = "publication")
    BY <1>12, <1>f DEF RestorePreparedChanges
  <2>2. artifacts'.dir = artifacts.dir
    BY <1>12, <1>m DEF RestorePreparedChanges
  <2> QED BY <1>12, <2>1, <2>2 DEF RestorePreparedChanges, At
<1>13. CASE \E p \in Paths : rollbackApplied(p)
  <2>1. process'.pc = process.pc /\ process'.restoresFor = process.restoresFor
    BY <1>13, <1>t DEF rollbackApplied, ProcessTypes
  <2> QED BY <1>13, <2>1 DEF rollbackApplied
<1>14. CASE CommitRolledBack
  <2>1. process'.pc = "failing" /\ artifacts'.dir = artifacts.dir
    BY <1>14, <1>f, <1>m DEF CommitRolledBack
  <2> QED BY <1>14, <2>1 DEF CommitRolledBack, Restored, At
<1>15. CASE PublicationRolledBack
  <2>1. process'.pc = "failing" /\ artifacts'.dir = artifacts.dir
    BY <1>15, <1>f, <1>m DEF PublicationRolledBack
  <2> QED BY <1>15, <2>1 DEF PublicationRolledBack, Restored, At
<1>16. CASE PublishFailure
  BY <1>16, <1>f DEF PublishFailure, At
<1>17. CASE Cleanup
  BY <1>17, <1>f DEF Cleanup, At
<1>18. CASE Rollback
  <2>1. CASE RestoresChanges("rollback") /\ UNCHANGED artifacts
    BY <1>18, <2>1, <1>f DEF Rollback, MayRollBack
  <2>2. CASE MarkRolledBack(FALSE) /\ UNCHANGED process
    BY <1>18, <2>2, <1>m DEF Rollback, MayRollBack, At
  <2> QED BY <1>18, <2>1, <2>2 DEF Rollback
<1>19. CASE RollbackCompleted
  <2>1. process'.pc = "idle"
    BY <1>19 DEF RollbackCompleted, Idle
  <2> QED BY <1>19, <1>m, <2>1 DEF RollbackCompleted, Restored, At
<1>20. CASE Crash
  BY <1>20, <1>f DEF Crash
<1>21. CASE \E p \in Paths : Edit(p)
  BY <1>21 DEF Edit
<1>22. CASE UNCHANGED vars
  BY <1>22 DEF vars
<1> QED
  BY <1>1, <1>2, <1>3, <1>4, <1>5, <1>6, <1>7, <1>8, <1>9, <1>10, <1>11, <1>12, <1>13, <1>14,
     <1>15, <1>16, <1>17, <1>18, <1>19, <1>20, <1>21, <1>22 DEF Next

\* Published evidence is never replaced and its journal goes through one
\* rollback at most, for any files and requests.
THEOREM EvidenceAlwaysStays == Spec => EvidenceStays
<1>1. Init => EvidenceInv
  BY DEF Init, Idle, NoArtifacts, EvidenceInv, RollbackRuns, Published
<1>2. TypeOK /\ EvidenceInv /\ [Next]_vars => EvidenceInv'
  BY EvidenceKept
<1>3. TypeOK /\ EvidenceInv /\ [Next]_vars => [EvidenceStep]_vars
  BY EvidenceKept
<1>4. [][EvidenceStep]_vars <=> EvidenceStays
  BY DEF EvidenceStep, EvidenceStays
<1> QED
  BY <1>1, <1>2, <1>3, <1>4, TypeCorrect, PTL DEF Spec

\* What the publication of a success needs.
PublicationStep ==
    (~Published /\ artifacts'.dir = "published" /\ artifacts'.result = "succeeded")
        => /\ \A p \in Paths : target[p] = After[p] \/ editedAt[p] = "verified"
           /\ staging.kind = "none"

\* A step that does not go on to the publication.
LEMMA NotVerifying ==
    ASSUME process'.pc \notin {"verify", "mark", "publish"}
    PROVE  VerifiedInv'
  BY DEF VerifiedInv

\* Every step keeps what the final verification has found.
LEMMA VerifiedKept == TypeOK /\ VerifiedInv /\ [Next]_vars => VerifiedInv'
<1> SUFFICES ASSUME TypeOK, VerifiedInv, [Next]_vars PROVE VerifiedInv'
  OBVIOUS
<1>f. /\ \A pc \in Operations : Goes(pc) => process'.pc = pc
      /\ \A commit, conflict : GoesFailing(commit, conflict) => process'.pc = "failing"
      /\ \A outcome, published, unchanged :
            Returns(outcome, published, unchanged) => process'.pc = "idle"
      /\ rollbackAfterFailure => process'.pc = "restoring" /\ process'.restoresFor = "commit"
      /\ \A reason \in {"publication", "rollback"} :
            RestoresChanges(reason) => process'.pc = "restoring" /\ process'.restoresFor = reason
  BY NextReasons
<1>t. process \in ProcessTypes
  BY DEF TypeOK
<1>1. CASE Replay
  BY <1>1, <1>f, NotVerifying DEF Replay
<1>2. CASE Prepare
  <2>1. process'.pc \in {"failing", "idle", "commit"}
    BY <1>2, <1>f, <1>t DEF Prepare, ProcessTypes
  <2> QED BY <2>1, NotVerifying
<1>3. CASE VerifyPreparedSnapshot
  BY <1>3, <1>f, NotVerifying DEF VerifyPreparedSnapshot, Operations
<1>4. CASE Stage
  BY <1>4, <1>f, NotVerifying DEF Stage, Operations
<1>5. CASE \E p \in Paths : CheckFile(p)
  BY <1>5, <1>f, NotVerifying DEF CheckFile, Operations
<1>6. CASE \E p \in Paths : replaceFile(p)
  <2>1. process'.pc = "applying" \/ rollbackAfterFailure
    BY <1>6, <1>t DEF replaceFile, ProcessTypes
  <2> QED BY <1>f, <2>1, NotVerifying
<1>7. CASE VerifyChanges
  BY <1>7, <1>f, NotVerifying DEF VerifyChanges, Operations
<1>8. CASE CleanupStage
  <2>1. CASE GoesFailing(Unknown, FALSE)
    BY <2>1, <1>f, NotVerifying
  <2>2. CASE staging' = NoStaging /\ process' = [process EXCEPT !.pc = "verify",
                                                  !.commit.unchanged = (Changes = {})]
    <3>1. process'.pc = "verify"
      BY <2>2, <1>t DEF ProcessTypes
    <3> QED BY <2>2, <3>1 DEF VerifiedInv, NoStaging
  <2> QED BY <1>8, <2>1, <2>2 DEF CleanupStage
<1>9. CASE VerifyFinalSnapshot
  <2>1. CASE verifyFinalSnapshot /\ Goes("mark")
    <3>1. process'.pc = "mark"
      BY <2>1, <1>f DEF Operations
    <3>2. \A p \in Paths : target[p] = After[p]
      BY <2>1 DEF verifyFinalSnapshot, SnapshotIs
    <3>3. After' = After
      BY <1>9 DEF VerifyFinalSnapshot, After, Changes
    <3> QED BY <1>9, <3>1, <3>2, <3>3 DEF VerifyFinalSnapshot, VerifiedInv, At
  <2>2. CASE process' = [process EXCEPT !.pc = "restore", !.conflict = TRUE]
    <3>1. process'.pc = "restore"
      BY <2>2, <1>t DEF ProcessTypes
    <3> QED BY <3>1, NotVerifying
  <2> QED BY <1>9, <2>1, <2>2 DEF VerifyFinalSnapshot
<1>10. CASE MarkCommitted
  <2>1. process'.pc \in {"publish", "restore"}
    BY <1>10, <1>f DEF MarkCommitted, Operations
  <2>2. After' = After
    BY <1>10 DEF MarkCommitted, After, Changes
  <2> QED BY <1>10, <2>1, <2>2 DEF MarkCommitted, VerifiedInv, At
<1>11. CASE Publish
  BY <1>11, <1>f, NotVerifying DEF Publish, Operations
<1>12. CASE RestorePreparedChanges
  BY <1>12, <1>f, NotVerifying DEF RestorePreparedChanges
<1>13. CASE \E p \in Paths : rollbackApplied(p)
  <2>1. process'.pc = "restoring"
    BY <1>13, <1>t DEF rollbackApplied, ProcessTypes, At
  <2> QED BY <2>1, NotVerifying
<1>14. CASE CommitRolledBack
  BY <1>14, <1>f, NotVerifying DEF CommitRolledBack
<1>15. CASE PublicationRolledBack
  BY <1>15, <1>f, NotVerifying DEF PublicationRolledBack
<1>16. CASE PublishFailure
  BY <1>16, <1>f, NotVerifying DEF PublishFailure
<1>17. CASE Cleanup
  BY <1>17, <1>f, NotVerifying DEF Cleanup
<1>18. CASE Rollback
  BY <1>18, <1>f, NotVerifying DEF Rollback, At
<1>19. CASE RollbackCompleted
  BY <1>19, NotVerifying DEF RollbackCompleted, Idle
<1>20. CASE Crash
  BY <1>20, <1>f, NotVerifying DEF Crash
<1>21. CASE \E p \in Paths : Edit(p)
  <2>1. PICK p \in Paths : Edit(p)
    BY <1>21
  <2>2. After' = After
    BY <2>1 DEF Edit, After, Changes
  <2>3. At("mark") \/ At("publish") => editedAt'[p] = "verified"
    BY <2>1 DEF Edit, LookedAt, At, TypeOK
  <2>4. \A q \in Paths : q # p => editedAt'[q] = editedAt[q] /\ target'[q] = target[q]
    BY <2>1 DEF Edit, TypeOK
  <2> QED BY <2>1, <2>2, <2>3, <2>4 DEF Edit, VerifiedInv, At
<1>22. CASE UNCHANGED vars
  BY <1>22 DEF vars, VerifiedInv, After, Changes
<1> QED
  BY <1>1, <1>2, <1>3, <1>4, <1>5, <1>6, <1>7, <1>8, <1>9, <1>10, <1>11, <1>12, <1>13, <1>14,
     <1>15, <1>16, <1>17, <1>18, <1>19, <1>20, <1>21, <1>22 DEF Next

\* Only Publish makes a success public: PublishFailure gives another result.
LEMMA PublicationKept == TypeOK /\ VerifiedInv /\ [Next]_vars => PublicationStep
<1> SUFFICES ASSUME TypeOK, VerifiedInv, [Next]_vars,
                    ~Published, artifacts'.dir = "published", artifacts'.result = "succeeded"
             PROVE  process.pc = "publish"
  BY DEF PublicationStep, VerifiedInv
<1>t. artifacts \in ArtifactTypes
  BY DEF TypeOK
<1>m. \A completed \in BOOLEAN : MarkRolledBack(completed) => artifacts'.dir = artifacts.dir
  BY MarkFields
<1>1. ~UNCHANGED artifacts
  BY DEF Published
<1>a. artifacts' # StagedArtifacts /\ artifacts' # NoArtifacts
      /\ artifacts' # [NoArtifacts EXCEPT !.dir = "staged"]
  BY DEF StagedArtifacts, NoArtifacts
<1>2. ~Prepare
  <2>1. Prepare => artifacts' = artifacts \/ artifacts' = StagedArtifacts
    BY DEF Prepare
  <2> QED BY <1>1, <1>a, <2>1
<1>3. ~MarkCommitted
  BY <1>t DEF MarkCommitted, ArtifactTypes, Published
<1>4. ~RestorePreparedChanges /\ ~CommitRolledBack /\ ~PublicationRolledBack
      /\ ~Rollback /\ ~RollbackCompleted
  BY <1>1, <1>m DEF RestorePreparedChanges, CommitRolledBack, PublicationRolledBack, Rollback,
       RollbackCompleted, Published
<1>5. ~PublishFailure
  BY <1>t DEF PublishFailure, Status, ArtifactTypes
<1>6. ~Cleanup
  <2>1. Cleanup => \/ artifacts' = artifacts \/ artifacts' = NoArtifacts
                   \/ artifacts' = [NoArtifacts EXCEPT !.dir = "staged"]
    BY DEF Cleanup
  <2> QED BY <1>1, <1>a, <2>1
<1>7. Next
  BY <1>1 DEF vars
<1>8. Publish
  BY <1>1, <1>2, <1>3, <1>4, <1>5, <1>6, <1>7 DEF Next, Replay, VerifyPreparedSnapshot, Stage,
       CheckFile, replaceFile, VerifyChanges, CleanupStage, VerifyFinalSnapshot, rollbackApplied,
       Crash, Edit
<1> QED BY <1>8 DEF Publish, At

\* A published success is true for any files and requests: what the requests
\* did not name included.
THEOREM PublicationsAreTrue == Spec => PublicationTrue
<1>1. Init => VerifiedInv
  BY DEF Init, Idle, VerifiedInv
<1>2. TypeOK /\ VerifiedInv /\ [Next]_vars => VerifiedInv'
  BY VerifiedKept
<1>3. TypeOK /\ VerifiedInv /\ [Next]_vars => [PublicationStep]_vars
  BY PublicationKept
<1>4. [][PublicationStep]_vars <=> PublicationTrue
  BY DEF PublicationStep, PublicationTrue
<1> QED
  BY <1>1, <1>2, <1>3, <1>4, TypeCorrect, PTL DEF Spec

-----------------------------------------------------------------------------
(* What a failure reports is true.                                         *)

AsBegun(p) == target[p] \in {base[p], "edited"}

\* An execution works on the snapshot of its request, an explicit rollback on
\* the files it finds.
Executes ==
    \/ process.pc \in {"commit", "staging", "applying", "replacing", "cleaning", "verify", "mark",
                       "publish", "restore"}
    \/ process.pc = "restoring" /\ process.restoresFor # "rollback"

\* The failure can be published, or says that nothing changed.
Reports(commit, conflict) ==
    commit.unchanged \/ ValidResult(IF conflict THEN "conflict" ELSE "failed", commit)

\* Restoring the file gives it back what it was.
Restorable(p) == RestoredContent(p) \in {base[p], "edited"}

\* A file not yet replaced is as it was, and so is one restored; the others can
\* be restored, as long as the commit's own rollback has not failed.
FilesInv ==
    /\ Executes => base = Before
    /\ process.pc \in {"commit", "staging"} => IsOrEdited(base)
    /\ process.pc \in {"applying", "replacing"} =>
          /\ process.done \subseteq Changes
          /\ \A p \in Paths \ process.done : AsBegun(p)
          /\ \A p \in Changes : Restorable(p)
    /\ (process.pc = "restoring" /\ process.restoresFor = "commit" /\ ~process.failed) =>
          /\ \A p \in Paths \ process.left : AsBegun(p)
          /\ \A p \in process.left : Restorable(p)
    /\ (process.pc = "failing" /\ Reports(process.commit, process.conflict)) => IsOrEdited(base)
    /\ RollbackRuns => answer = NoAnswer

ReportInv == FilesInv /\ FailureReportTrue

\* A step that ends the operation.
LEMMA OperationEnds ==
    ASSUME process'.pc = "idle",
           (answer'.outcome = "failed" /\ (answer'.unchanged \/ answer'.published)) => IsOrEdited(base)'
    PROVE  ReportInv'
  BY DEF RollbackRuns, ReportInv, FilesInv, Executes, FailureReportTrue, At

\* A step after which the execution fails.
LEMMA ExecutionFails ==
    ASSUME process'.pc = "failing",
           Reports(process.commit, process.conflict)' => IsOrEdited(base)'
    PROVE  ReportInv'
  BY DEF RollbackRuns, ReportInv, FilesInv, Executes, FailureReportTrue, At

\* A step after which the execution goes on with all files replaced.
LEMMA ExecutionGoesOn ==
    ASSUME process'.pc \in {"cleaning", "verify", "mark", "publish", "restore"},
           base' = Before'
    PROVE  ReportInv'
  BY DEF RollbackRuns, ReportInv, FilesInv, FailureReportTrue, At

\* A step after which all changes are being restored.
LEMMA AllRestored ==
    ASSUME process'.pc = "restoring", process'.restoresFor \in {"publication", "rollback"},
           process'.restoresFor = "publication" => base' = Before',
           process'.restoresFor = "rollback" => answer' = NoAnswer
    PROVE  ReportInv'
  BY DEF RollbackRuns, ReportInv, FilesInv, FailureReportTrue, At, Executes

\* The failure of a commit, whose replaced files are restored.
LEMMA CommitFails ==
    ASSUME TypeOK, ReportInv, process.pc \in {"applying", "replacing"}, rollbackAfterFailure,
           UNCHANGED <<action, target, staging, base>>
    PROVE  ReportInv'
<1>1. process'.pc = "restoring" /\ process'.restoresFor = "commit" /\ process'.left = process.done
  BY NextReasons, NextFields
<1>2. /\ base = Before
      /\ \A p \in Paths \ process.done : AsBegun(p)
      /\ \A p \in process.done : Restorable(p)
  BY DEF RollbackRuns, ReportInv, FilesInv, Executes
<1>3. base' = Before'
  BY <1>2 DEF Before
<1>4. \A p : (AsBegun(p)' <=> AsBegun(p)) /\ (Restorable(p)' <=> Restorable(p))
  BY DEF AsBegun, Restorable, RestoredContent
<1> QED BY <1>1, <1>2, <1>3, <1>4 DEF RollbackRuns, ReportInv, FilesInv, FailureReportTrue, At

\* Where the operation is after a step, and what the failing execution reports.
LEMMA NextReports ==
    ASSUME TypeOK
    PROVE  /\ \A commit, conflict : GoesFailing(commit, conflict) =>
                 process'.pc = "failing" /\ process'.commit = commit /\ process'.conflict = conflict
           /\ \A outcome, published, unchanged : Returns(outcome, published, unchanged) =>
                 /\ process'.pc = "idle" /\ answer'.outcome = outcome
                 /\ answer'.published = published /\ answer'.unchanged = unchanged
<1>t. process \in ProcessTypes
  BY DEF TypeOK
<1>1. \A commit, conflict : GoesFailing(commit, conflict) =>
        process'.pc = "failing" /\ process'.commit = commit /\ process'.conflict = conflict
  BY <1>t DEF GoesFailing, ProcessTypes
<1> QED BY <1>1 DEF Returns, Idle

\* A failure for a known reason that says nothing, and the report of a rollback
\* of all changes.
LEMMA ReportsOf ==
    /\ ~Reports(Unknown, FALSE)
    /\ \A conflict, completed \in BOOLEAN : Reports(RestoreResult(completed), conflict) => completed
  BY DEF Reports, ValidResult, Unknown, RestoreResult

\* Every step keeps what becomes of each file, and the truth of the reports.
LEMMA ReportStep == TypeOK /\ EditsInv /\ ReportInv /\ [Next]_vars => ReportInv'
<1> SUFFICES ASSUME TypeOK, EditsInv, ReportInv, [Next]_vars PROVE ReportInv'
  OBVIOUS
<1>f. /\ \A pc \in Operations : Goes(pc) =>
            process'.pc = pc /\ process'.done = process.done /\ process'.left = process.left
      /\ \A commit, conflict : GoesFailing(commit, conflict) =>
            process'.pc = "failing" /\ process'.commit = commit /\ process'.conflict = conflict
      /\ \A outcome, published, unchanged : Returns(outcome, published, unchanged) =>
            /\ process'.pc = "idle" /\ answer'.outcome = outcome
            /\ answer'.published = published /\ answer'.unchanged = unchanged
      /\ \A reason \in {"publication", "rollback"} :
            RestoresChanges(reason) => process'.pc = "restoring" /\ process'.restoresFor = reason
  BY NextFields, NextReasons, NextReports
<1>t. /\ process \in ProcessTypes /\ target \in [Paths -> Contents]
      /\ staging \in StagingTypes /\ staging.backups \in [Paths -> Contents]
  BY DEF TypeOK, StagingTypes
<1>b. ASSUME UNCHANGED action, UNCHANGED base PROVE (base = Before) <=> (base' = Before')
  BY <1>b DEF Before
<1>c. Executes => base = Before
  BY DEF RollbackRuns, ReportInv, FilesInv
<1>1. CASE Replay
  BY <1>1, <1>f, OperationEnds DEF Replay
<1>2. CASE Prepare
  <2>1. base' = target /\ UNCHANGED <<action, target>>
    BY <1>2 DEF Prepare
  <2>2. IsOrEdited(base)'
    BY <2>1 DEF IsOrEdited
  <2>3. CASE process'.pc = "failing"
    BY <2>2, <2>3, ExecutionFails
  <2>4. CASE process'.pc = "idle"
    BY <2>2, <2>4, OperationEnds
  <2>5. CASE SnapshotIs(Before) /\ process'.pc = "commit"
    <3>1. base' = Before'
      BY <2>1, <2>5 DEF SnapshotIs, Before
    <3> QED BY <2>2, <2>5, <3>1 DEF RollbackRuns, ReportInv, FilesInv, FailureReportTrue, At
  <2>6. \/ process'.pc = "failing" \/ process'.pc = "idle"
        \/ SnapshotIs(Before) /\ process'.pc = "commit"
    BY <1>2, <1>f, <1>t DEF Prepare, ProcessTypes
  <2> QED BY <2>3, <2>4, <2>5, <2>6
<1>3. CASE VerifyPreparedSnapshot
  <2>1. base = Before /\ IsOrEdited(base) /\ UNCHANGED <<action, target, base>>
    BY <1>3 DEF VerifyPreparedSnapshot, At, ReportInv, FilesInv, Executes
  <2>2. IsOrEdited(base)' /\ base' = Before'
    BY <2>1, <1>b DEF IsOrEdited
  <2>3. CASE Goes("staging")
    <3>1. process'.pc = "staging"
      BY <2>3, <1>f DEF Operations
    <3> QED BY <2>2, <3>1 DEF RollbackRuns, ReportInv, FilesInv, FailureReportTrue, At
  <2>4. CASE process'.pc = "failing"
    BY <2>2, <2>4, ExecutionFails
  <2> QED BY <1>3, <1>f, <2>3, <2>4 DEF VerifyPreparedSnapshot
<1>4. CASE Stage
  <2>1. base = Before /\ IsOrEdited(base) /\ UNCHANGED <<action, target, base>>
    BY <1>4 DEF Stage, At, ReportInv, FilesInv, Executes
  <2>2. IsOrEdited(base)' /\ base' = Before'
    BY <2>1, <1>b DEF IsOrEdited
  <2>3. CASE /\ Goes("applying")
             /\ staging' = [kind |-> "commit",
                            backups |-> [p \in Paths |-> IF action[p] = "updated" THEN target[p] ELSE "absent"]]
    <3>1. process'.pc = "applying" /\ process'.done = {}
      BY <1>4, <2>3, <1>f DEF Operations, Stage, At, EditsInv, LookedAtInv
    <3>2. \A p \in Changes : Restorable(p)'
      BY <2>1, <2>3 DEF Restorable, RestoredContent, Changes, Before, IsOrEdited
    <3>3. \A p \in Paths : AsBegun(p)'
      BY <2>2 DEF AsBegun, IsOrEdited
    <3>4. \A p \in Changes' : Restorable(p)'
      BY <2>1, <3>2 DEF Changes
    <3> QED BY <2>2, <3>1, <3>3, <3>4 DEF RollbackRuns, ReportInv, FilesInv, FailureReportTrue, At
  <2>4. CASE GoesFailing(Untouched, FALSE)
    BY <2>2, <2>4, <1>f, ExecutionFails
  <2> QED BY <1>4, <2>3, <2>4 DEF Stage
<1>5. CASE \E p \in Paths : CheckFile(p)
  <2>1. PICK p \in Paths : CheckFile(p)
    BY <1>5
  <2>2. CASE Goes("replacing")
    <3>1. process'.pc = "replacing" /\ process'.done = process.done
      BY <2>2, <1>f DEF Operations
    <3>2. process.pc = "applying" /\ UNCHANGED <<action, target, staging, base>>
      BY <2>1 DEF CheckFile, At
    <3>3. base' = Before' /\ Changes' = Changes
      BY <3>2, <1>b, <1>c DEF Executes, Changes
    <3> QED BY <3>1, <3>2, <3>3 DEF RollbackRuns, ReportInv, FilesInv, FailureReportTrue, At, AsBegun, Restorable,
              RestoredContent
  <2>3. CASE rollbackAfterFailure
    BY <2>1, <2>3, CommitFails DEF CheckFile, At
  <2> QED BY <2>1, <2>2, <2>3 DEF CheckFile
<1>6. CASE \E p \in Paths : replaceFile(p)
  <2>1. PICK p \in Paths : replaceFile(p)
    BY <1>6
  <2>2. CASE rollbackAfterFailure /\ UNCHANGED target
    BY <2>1, <2>2, CommitFails DEF replaceFile, At
  <2>3. CASE /\ target' = [target EXCEPT ![p] = After[p]]
             /\ process' = [process EXCEPT !.pc = "applying", !.done = @ \union {p}]
    <3>1. process'.pc = "applying" /\ process'.done = process.done \union {p}
      BY <2>3, <1>t DEF ProcessTypes
    <3>2. process.pc = "replacing" /\ UNCHANGED <<action, staging, base>> /\ p \in Changes
      BY <2>1 DEF replaceFile, At, IsNext
    <3>3. base' = Before' /\ Changes' = Changes
      BY <3>2, <1>b, <1>c DEF Executes, Changes
    <3>4. \A q \in Paths : q # p => target'[q] = target[q]
      BY <2>3, <1>t
    <3> QED BY <3>1, <3>2, <3>3, <3>4 DEF RollbackRuns, ReportInv, FilesInv, FailureReportTrue, At, AsBegun, Restorable,
              RestoredContent
  <2> QED BY <2>1, <2>2, <2>3 DEF replaceFile
<1>7. CASE VerifyChanges
  <2>1. CASE Goes("cleaning")
    BY <1>7, <2>1, <1>f, <1>b, <1>c, ExecutionGoesOn DEF VerifyChanges, Operations, At, Executes
  <2>2. CASE rollbackAfterFailure
    BY <1>7, <2>2, CommitFails DEF VerifyChanges, At
  <2> QED BY <1>7, <2>1, <2>2 DEF VerifyChanges
<1>8. CASE CleanupStage
  <2>1. base' = Before'
    BY <1>8, <1>b, <1>c DEF CleanupStage, At, Executes
  <2>2. CASE GoesFailing(Unknown, FALSE)
    BY <2>2, <1>f, ExecutionFails, ReportsOf DEF Reports
  <2>3. CASE process'.pc = "verify"
    BY <2>1, <2>3, ExecutionGoesOn
  <2> QED BY <1>8, <1>t, <2>2, <2>3 DEF CleanupStage, ProcessTypes
<1>9. CASE VerifyFinalSnapshot
  <2>1. process'.pc \in {"mark", "restore"}
    BY <1>9, <1>f, <1>t DEF VerifyFinalSnapshot, ProcessTypes, Operations
  <2> QED BY <1>9, <2>1, <1>b, <1>c, ExecutionGoesOn DEF VerifyFinalSnapshot, At, Executes
<1>10. CASE MarkCommitted
  BY <1>10, <1>f, <1>b, <1>c, ExecutionGoesOn DEF MarkCommitted, Operations, At, Executes
<1>11. CASE Publish
  <2>1. CASE Returns("succeeded", TRUE, process.commit.unchanged)
    BY <2>1, <1>f, OperationEnds
  <2>2. CASE Goes("restore")
    BY <1>11, <2>2, <1>f, <1>b, <1>c, ExecutionGoesOn DEF Publish, Operations, At, Executes
  <2> QED BY <1>11, <2>1, <2>2 DEF Publish
<1>12. CASE RestorePreparedChanges
  <2>1. CASE RestoresChanges("publication")
    BY <1>12, <2>1, <1>f, <1>b, <1>c, AllRestored DEF RestorePreparedChanges, At, Executes
  <2>2. CASE GoesFailing(RestoreResult(FALSE), process.conflict)
    <3>1. process.conflict \in BOOLEAN
      BY <1>t DEF ProcessTypes
    <3>2. ~Reports(RestoreResult(FALSE), process.conflict)
      BY <3>1, ReportsOf
    <3>3. ~Reports(process.commit, process.conflict)'
      BY <2>2, <3>2, <1>f DEF Reports, ValidResult
    <3> QED BY <2>2, <3>3, <1>f, ExecutionFails
  <2> QED BY <1>12, <2>1, <2>2 DEF RestorePreparedChanges
<1>13. CASE \E p \in Paths : rollbackApplied(p)
  <2>1. PICK p \in Paths : rollbackApplied(p)
    BY <1>13
  <2>2. process'.pc = "restoring" /\ process'.restoresFor = process.restoresFor
        /\ process'.left = process.left \ {p} /\ process.left \subseteq Paths
    BY <2>1, <1>t DEF rollbackApplied, At, ProcessTypes
  <2>3. /\ process.pc = "restoring" /\ p \in process.left
        /\ UNCHANGED <<action, base>>
    BY <2>1 DEF rollbackApplied, At
  <2>4. /\ Executes' => base' = Before'
        /\ RollbackRuns' => answer' = NoAnswer
    <3>1. answer' = answer /\ (RollbackRuns => answer = NoAnswer)
      BY <2>1 DEF rollbackApplied, ReportInv, FilesInv
    <3> QED BY <2>2, <2>3, <3>1, <1>b, <1>c DEF Executes, RollbackRuns
  <2>5. CASE process'.failed
    BY <2>2, <2>4, <2>5 DEF ReportInv, FilesInv, FailureReportTrue, At
  <2>6. CASE ~process'.failed /\ process.restoresFor = "commit"
    <3>1. /\ target' = [target EXCEPT ![p] = RestoredContent(p)]
          /\ staging' = [staging EXCEPT !.backups[p] = "absent"]
          /\ process' = [process EXCEPT !.left = @ \ {p}]
      BY <2>1, <2>6, <1>t DEF rollbackApplied, ProcessTypes
    <3>2. ~process.failed
      BY <2>6, <3>1, <1>t DEF ProcessTypes
    <3>3. /\ \A q \in Paths \ process.left : AsBegun(q)
          /\ \A q \in process.left : Restorable(q)
      BY <2>3, <2>6, <3>2 DEF ReportInv, FilesInv
    <3>4. \A q \in Paths : q # p => target'[q] = target[q] /\ staging'.backups[q] = staging.backups[q]
      BY <3>1, <1>t DEF StagingTypes
    <3>5. target'[p] = RestoredContent(p)
      BY <3>1, <1>t
    <3>6. \A q \in Paths \ process'.left : AsBegun(q)'
      BY <2>2, <2>3, <3>3, <3>4, <3>5 DEF AsBegun, Restorable
    <3>7. \A q \in process'.left : Restorable(q)'
      BY <2>2, <2>3, <3>3, <3>4 DEF Restorable, RestoredContent
    <3> QED BY <2>2, <2>4, <3>6, <3>7 DEF ReportInv, FilesInv, FailureReportTrue, At
  <2>7. CASE process.restoresFor # "commit"
    BY <2>2, <2>4, <2>7 DEF ReportInv, FilesInv, FailureReportTrue, At
  <2> QED BY <2>5, <2>6, <2>7
<1>14. CASE CommitRolledBack
  <2>1. PICK attempted, completed \in BOOLEAN :
           /\ process.failed => ~completed
           /\ ~attempted => completed
           /\ GoesFailing([attempted |-> attempted, completed |-> attempted /\ completed,
                            unchanged |-> completed], FALSE)
    BY <1>14 DEF CommitRolledBack
  <2>2. Reports(process.commit, process.conflict)' => completed
    <3> DEFINE result == [attempted |-> attempted, completed |-> attempted /\ completed,
                          unchanged |-> completed]
    <3>1. process'.commit = result /\ process'.conflict = FALSE
      BY <2>1, <1>f
    <3>2. result.unchanged = completed /\ (result.completed <=> attempted /\ completed)
      OBVIOUS
    <3> HIDE DEF result
    <3> QED BY <3>1, <3>2 DEF Reports, ValidResult
  <2>3. process.pc = "restoring" /\ process.restoresFor = "commit" /\ process.left = {}
        /\ UNCHANGED <<target, base>>
    BY <1>14 DEF CommitRolledBack, Restored, At
  <2>4. ~process.failed => \A p \in Paths : AsBegun(p)
    BY <2>3 DEF RollbackRuns, ReportInv, FilesInv
  <2>5. ~process.failed => IsOrEdited(base)'
    BY <2>3, <2>4 DEF AsBegun, IsOrEdited
  <2> QED BY <2>1, <2>2, <2>5, <1>f, ExecutionFails
<1>15. CASE PublicationRolledBack
  <2>1. PICK completed \in BOOLEAN :
           /\ RestorationCompleted(completed)
           /\ GoesFailing(RestoreResult(completed), process.conflict)
    BY <1>15 DEF PublicationRolledBack
  <2>2. base = Before /\ UNCHANGED <<target, base>>
    BY <1>15, <1>c DEF PublicationRolledBack, Restored, At, Executes
  <2>3. completed => IsOrEdited(base)'
    BY <2>1, <2>2 DEF RestorationCompleted, SnapshotIs, IsOrEdited
  <2>4. Reports(RestoreResult(completed), process.conflict) => completed
    BY <1>t, ReportsOf DEF ProcessTypes
  <2>5. Reports(process.commit, process.conflict)' => completed
    BY <2>1, <2>4, <1>f DEF Reports, ValidResult
  <2> QED BY <2>1, <2>3, <2>5, <1>f, ExecutionFails
<1>16. CASE PublishFailure
  <2>1. process.pc = "failing" /\ Reports(process.commit, process.conflict)
    BY <1>16 DEF PublishFailure, At, Reports, Status
  <2>2. IsOrEdited(base) /\ UNCHANGED <<target, base>>
    BY <1>16, <2>1 DEF PublishFailure, ReportInv, FilesInv
  <2>3. IsOrEdited(base)'
    BY <2>2 DEF IsOrEdited
  <2> QED BY <1>16, <2>3, <1>f, OperationEnds DEF PublishFailure
<1>17. CASE Cleanup
  <2>1. process.pc = "failing" /\ UNCHANGED <<target, base>>
    BY <1>17 DEF Cleanup, At
  <2>2. process.commit.unchanged => IsOrEdited(base)
    BY <2>1 DEF RollbackRuns, ReportInv, FilesInv, Reports
  <2>3. process.commit.unchanged => IsOrEdited(base)'
    BY <2>1, <2>2 DEF IsOrEdited
  <2>4. answer'.unchanged = process.commit.unchanged /\ ~answer'.published /\ process'.pc = "idle"
    BY <1>17, <1>f DEF Cleanup
  <2> QED BY <2>3, <2>4, OperationEnds
<1>18. CASE Rollback
  <2>1. CASE RestoresChanges("rollback")
    BY <1>18, <2>1, <1>f, AllRestored DEF Rollback
  <2>2. CASE UNCHANGED process
    BY <1>18, <2>2, OperationEnds DEF Rollback, At, NoAnswer
  <2> QED BY <1>18, <2>1, <2>2 DEF Rollback
<1>19. CASE RollbackCompleted
  <2>1. answer' = NoAnswer
    BY <1>19 DEF RollbackCompleted, Restored, At, RollbackRuns, ReportInv, FilesInv
  <2> QED BY <1>19, <2>1, OperationEnds DEF RollbackCompleted, Idle, NoAnswer
<1>20. CASE Crash
  BY <1>20, <1>f, OperationEnds DEF Crash
<1>21. CASE \E p \in Paths : Edit(p)
  <2>1. PICK p \in Paths : Edit(p)
    BY <1>21
  <2>2. UNCHANGED <<action, staging, process, answer, base>>
    BY <2>1 DEF Edit
  <2>3. target'[p] = "edited" /\ \A q \in Paths : q # p => target'[q] = target[q]
    BY <2>1, <1>t DEF Edit
  <2>4. \A q \in Paths : AsBegun(q) => AsBegun(q)'
    BY <2>2, <2>3 DEF AsBegun
  <2>5. IsOrEdited(base) => IsOrEdited(base)'
    BY <2>2, <2>3 DEF IsOrEdited
  <2>6. \A q : Restorable(q) => Restorable(q)'
    BY <2>2 DEF Restorable, RestoredContent
  <2>7. Executes' => base' = Before'
    BY <2>2, <1>b, <1>c DEF Executes
  <2>8. Changes' = Changes
    BY <2>2 DEF Changes
  <2> QED BY <2>2, <2>4, <2>5, <2>6, <2>7, <2>8
     DEF RollbackRuns, ReportInv, FilesInv, FailureReportTrue, At, Reports, ValidResult
<1>22. CASE UNCHANGED vars
  BY <1>22 DEF vars, RollbackRuns, ReportInv, FilesInv, FailureReportTrue, At, Reports, ValidResult, Executes, AsBegun,
       Restorable, RestoredContent, IsOrEdited, Changes, Before
<1> QED
  BY <1>1, <1>2, <1>3, <1>4, <1>5, <1>6, <1>7, <1>8, <1>9, <1>10, <1>11, <1>12, <1>13, <1>14,
     <1>15, <1>16, <1>17, <1>18, <1>19, <1>20, <1>21, <1>22 DEF Next

\* The inductive invariant of reports: what has become of each file, wherever
\* the operation is.
THEOREM ReportsCorrect == Spec => []ReportInv
<1>1. Init => ReportInv
  BY DEF Init, Idle, NoAnswer, ReportInv, FilesInv, Executes, FailureReportTrue
<1> QED
  BY <1>1, TypeCorrect, EditsCorrect, ReportStep, PTL DEF Spec

\* A failure that says of itself that the target is unchanged, or that
\* publishes its evidence, has left every file as it was or as someone edited
\* it: for any files and requests, whichever calls failed on the way.
THEOREM FailureReportsAreTrue == Spec => []FailureReportTrue
<1>1. ReportInv => FailureReportTrue
  BY DEF ReportInv
<1> QED
  BY <1>1, ReportsCorrect, PTL

=============================================================================
