----------------------- MODULE RecordsLifecycleProofs -----------------------
(***************************************************************************)
(* More theorems about RecordsService: what holds however requests         *)
(* interleave, and the life cycle of a record whose requests come one      *)
(* after the other.                                                        *)
(***************************************************************************)
EXTENDS RecordsServiceProofs

-----------------------------------------------------------------------------
(* However requests interleave. *)

\* Where a request stands and what it remembers.
Stays(q) ==
    /\ pc'[q] = pc[q] /\ call'[q] = call[q] /\ entity'[q] = entity[q]
    /\ batch'[q] = batch[q] /\ trash'[q] = trash[q]

\* What starts, ends or goes on leaves the memory of every other request alone.
LEMMA BeginStays ==
  ASSUME TypeOK, NEW r \in Requests, NEW w, NEW c, NEW e, NEW b, NEW t, Begin(r, w, c, e, b, t),
         NEW q \in Requests \ {r}
  PROVE  Stays(q)
  BY DEF TypeOK, RequestsOK, Begin, Stays

LEMMA EndStays ==
  ASSUME TypeOK, NEW r \in Requests, NEW o, End(r, o), NEW q \in Requests \ {r}
  PROVE  Stays(q)
  BY DEF TypeOK, RequestsOK, End, Stays

LEMMA PublishStays ==
  ASSUME TypeOK, NEW r \in Requests, PublishAndGoOn(r), NEW q \in Requests \ {r}
  PROVE  Stays(q)
  <1>1. CASE call[r].op \in {"create", "stepOne", "stepSix"}
    BY <1>1 DEF TypeOK, RequestsOK, PublishAndGoOn, Goto, Stays
  <1>2. CASE call[r].op \notin {"create", "stepOne", "stepSix"}
    BY <1>2, EndStays DEF PublishAndGoOn
  <1> QED BY <1>1, <1>2

LEMMA OthersStay ==
  ASSUME TypeOK, NEW r \in Requests, Start(r) \/ Continue(r), NEW q \in Requests \ {r}
  PROVE  Stays(q)
  <1>1. ASSUME StepOneCreate(r) \/ StepOneUpdate(r) PROVE Stays(q)
    BY <1>1, BeginStays DEF StepOneCreate, StepOneUpdate
  <1>2. ASSUME ChildStep(r) \/ StepSix(r) PROVE Stays(q)
    BY <1>2, BeginStays DEF ChildStep, StepSix
  <1>3. ASSUME Reopen(r) \/ Remove(r) \/ UploadDocument(r) \/ Requeue(r) \/ CloseAccount(r)
        PROVE  Stays(q)
    BY <1>3, BeginStays DEF Reopen, Remove, UploadDocument, Requeue, CloseAccount
  <1>4. ASSUME StageProfileImage(r) \/ UpdateRow(r) \/ LockRows(r) \/ InsertRows(r) \/ LockRecord(r)
               \/ DeleteRecord(r)
        PROVE  Stays(q)
    BY <1>4 DEF StageProfileImage, UpdateRow, LockRows, InsertRows, LockRecord, DeleteRecord, Goto, locals, Stays,
                TypeOK, RequestsOK
  <1>5. ASSUME DeleteRows(r) \/ ApplyStepAction(r) \/ SaveLoad(r) PROVE Stays(q)
    BY <1>5 DEF DeleteRows, ApplyStepAction, SaveLoad, Goto, Stays, TypeOK, RequestsOK
  <1>6. ASSUME CommitUpdate(r) \/ CommitInsert(r) PROVE Stays(q)
    BY <1>6, PublishStays DEF CommitUpdate, CommitInsert
  <1>7. ASSUME ReopenMissed(r) \/ RemoveMissed(r) \/ PutDocument(r) \/ QueueDocuments(r)
               \/ ConnectionLost(r)
        PROVE  Stays(q)
    BY <1>7, EndStays DEF ConnectionLost, ReopenMissed, RemoveMissed, PutDocument, QueueDocuments
  <1>8. ASSUME QueueFails(r) PROVE Stays(q)
    BY <1>8, EndStays DEF QueueFails
  <1>9. ASSUME Rollback(r) PROVE Stays(q)
    <2>1. CASE CopyMade(r) = {}
      BY <1>9, <2>1, EndStays DEF Rollback
    <2>2. CASE CopyMade(r) # {}
      BY <1>9, <2>2 DEF Rollback, Goto, Stays, TypeOK, RequestsOK
    <2> QED BY <2>1, <2>2
  <1>10. ASSUME DeleteObject(r) PROVE Stays(q)
    BY <1>10 DEF DeleteObject, Stays, TypeOK, RequestsOK
  <1>11. ASSUME CleanupDone(r) PROVE Stays(q)
    <2>1. CASE pc[r] = "cleanup" /\ QueuesDocuments(r)
      BY <1>11, <2>1 DEF CleanupDone, Goto, locals, Stays, TypeOK, RequestsOK
    <2>2. CASE ~(pc[r] = "cleanup" /\ QueuesDocuments(r))
      BY <1>11, <2>2, EndStays DEF CleanupDone
    <2> QED BY <2>1, <2>2
  <1> QED BY <1>1, <1>2, <1>3, <1>4, <1>5, <1>6, <1>7, <1>8, <1>9, <1>10, <1>11
          DEF Start, Continue

\* Deletions that Redis can take note of are done or noted.
LEMMA DeleteEffect ==
  ASSUME NEW o, Delete(o), "redis" \notin Faults
  PROVE  /\ objects' \subseteq objects
         /\ retryList \subseteq retryList'
         /\ o \in objects' => o \in retryList'
  BY DEF Delete

\* A copy only appears in the step one that makes it, and its deletion, once asked for,
\* is not forgotten.
CopyStays(q) ==
    <<"profiles", q>> \in objects' =>
        /\ <<"profiles", q>> \in objects
        /\ <<"profiles", q>> \in retryList \cup {retrying} =>
              <<"profiles", q>> \in retryList' \cup {retrying'}

LEMMA StepCopies ==
  ASSUME TypeOK, "redis" \notin Faults, NEW r \in Requests, Start(r) \/ Continue(r),
         NEW q \in Requests, q # r \/ ~(StepOneCreate(r) \/ StepOneUpdate(r))
  PROVE  CopyStays(q)
  <1>1. ASSUME UNCHANGED <<retryList, retrying>>,
               objects' \subseteq objects \cup {<<"staging", r>>, <<"documents", r>>}
        PROVE  CopyStays(q)
    BY <1>1 DEF CopyStays
  <1>2. ASSUME StepOneCreate(r), q # r PROVE CopyStays(q)
    <2>1. objects' \subseteq objects \cup {<<"profiles", r>>} /\ UNCHANGED <<retryList, retrying>>
      BY <1>2 DEF StepOneCreate, Promoted
    <2> QED BY <2>1, <1>2 DEF CopyStays
  <1>3. ASSUME StepOneUpdate(r), q # r PROVE CopyStays(q)
    <2>1. objects' \subseteq objects \cup {<<"profiles", r>>} /\ UNCHANGED <<retryList, retrying>>
      BY <1>3 DEF StepOneUpdate
    <2> QED BY <2>1, <1>3 DEF CopyStays
  <1>4. ASSUME ChildStep(r) \/ StepSix(r) \/ Reopen(r) \/ Remove(r) \/ UploadDocument(r)
               \/ Requeue(r) \/ StageProfileImage(r) \/ CloseAccount(r)
        PROVE  CopyStays(q)
    BY <1>1, <1>4 DEF CloseAccount, ChildStep, StepSix, Reopen, Remove, UploadDocument, Requeue,
                      StageProfileImage, stores
  <1>5. ASSUME UpdateRow(r) \/ DeleteRows(r) \/ LockRows(r) \/ InsertRows(r) \/ LockRecord(r) \/ ApplyStepAction(r)
               \/ SaveLoad(r) \/ CommitUpdate(r) \/ CommitInsert(r) \/ ReopenMissed(r)
        PROVE  CopyStays(q)
    BY <1>1, <1>5 DEF UpdateRow, DeleteRows, LockRows, InsertRows, AfterInsert, LockRecord, ApplyStepAction, SaveLoad,
                      CommitUpdate, CommitInsert, PublishAndGoOn, ReopenMissed, stores
  <1>6. ASSUME DeleteRecord(r) \/ RemoveMissed(r) \/ PutDocument(r) \/ QueueDocuments(r)
               \/ QueueFails(r) \/ Rollback(r) \/ CleanupDone(r) \/ ConnectionLost(r)
        PROVE  CopyStays(q)
    BY <1>1, <1>6 DEF ConnectionLost, DeleteRecord, RemoveMissed, PutDocument, QueueDocuments, QueueFails,
                      Rollback, CleanupDone, stores
  <1>7. ASSUME DeleteObject(r) PROVE CopyStays(q)
    BY <1>7, DeleteEffect DEF DeleteObject, CopyStays
  <1> QED BY <1>2, <1>3, <1>4, <1>5, <1>6, <1>7 DEF Start, Continue

LEMMA TimerCopies ==
  ASSUME TypeOK, "redis" \notin Faults, Timer, NEW q \in Requests
  PROVE  CopyStays(q)
  <1>1. ASSUME PopRetry PROVE CopyStays(q)
    BY <1>1, ConstantsAssumption DEF PopRetry, CopyStays, Objects, Names
  <1>2. ASSUME RetryDeletion PROVE CopyStays(q)
    BY <1>2, DeleteEffect DEF RetryDeletion, CopyStays
  <1>3. ASSUME ExpireStaged PROVE CopyStays(q)
    BY <1>3, DeleteEffect DEF ExpireStaged, CopyStays
  <1> QED BY <1>1, <1>2, <1>3 DEF Timer

\* A request that does nothing keeps what is known of its copy.
LEMMA OthersKnow ==
  ASSUME NEW q \in Requests, CopyKnown(q), CopyStays(q), Stays(q)
  PROVE  CopyKnown(q)'
  BY DEF CopyKnown, CopyStays, Stays, CopyMade

\* Making a copy.
LEMMA StartKnows ==
  ASSUME TypeOK, "redis" \notin Faults, NEW r \in Requests, CopyKnown(r), Start(r)
  PROVE  CopyKnown(r)'
  <1> USE DEF TypeOK, RequestsOK
  <1>1. pc[r] = "idle"
    BY DEF Start, StepOneCreate, StepOneUpdate, ChildStep, StepSix, Reopen, Remove,
           StageProfileImage, UploadDocument, Requeue, CloseAccount, Begin, MayStart
  <1>2. <<"profiles", r>> \in objects => <<"profiles", r>> \in retryList \cup {retrying}
    BY <1>1 DEF CopyKnown, Uncommitted
  <1>3. ASSUME StepOneCreate(r) PROVE CopyKnown(r)'
    <2>1. PICK s \in {None} \cup Staged, a \in StepOneActions :
             LET image == Promoted(r, s, None) IN
             /\ Begin(r, "apply",
                 [op |-> "create", step |-> 1, action |-> a, updatesRow |-> FALSE],
                 [NewRow EXCEPT !.profileImage = image],
                 {}, StepOneTrash(s, None, image))
             /\ objects' = objects \cup ({image} \ {None})
             /\ UNCHANGED <<life, row, children, retryList, retrying, jobs>>
      BY <1>3 DEF StepOneCreate
    <2>2. /\ pc'[r] = "apply" /\ call'[r].op = "create"
          /\ entity'[r].profileImage = Promoted(r, s, None)
      BY <2>1 DEF Begin, NewRow
    <2> QED BY <1>2, <2>1, <2>2 DEF CopyKnown, CopyMade, Uncommitted
  <1>4. ASSUME StepOneUpdate(r) PROVE CopyKnown(r)'
    <2>1. PICK s \in {None, row.profileImage} \cup Staged, a \in StepOneActions :
             LET image == Promoted(r, s, row.profileImage) IN
             /\ Begin(r, "update",
                 [op |-> "stepOne", step |-> 1, action |-> a, updatesRow |-> TRUE],
                 [row EXCEPT !.profileImage = image],
                 {}, StepOneTrash(s, row.profileImage, image))
             /\ objects' = objects \cup ({image} \cap {<<"profiles", r>>})
             /\ UNCHANGED <<life, row, children, retryList, retrying, jobs>>
      BY <1>4 DEF StepOneUpdate
    <2>2. /\ pc'[r] = "update" /\ call'[r].op = "stepOne"
          /\ entity'[r].profileImage = Promoted(r, s, row.profileImage)
      BY <2>1 DEF Begin, StoresOK, RowType
    <2> QED BY <1>2, <2>1, <2>2 DEF CopyKnown, CopyMade, Uncommitted
  <1>5. ASSUME ~(StepOneCreate(r) \/ StepOneUpdate(r)) PROVE CopyKnown(r)'
    <2>1. CopyStays(r)
      BY <1>5, StepCopies
    <2> QED BY <1>2, <2>1 DEF CopyKnown, CopyStays
  <1> QED BY <1>3, <1>4, <1>5

\* Keeping, committing or undoing it.
LEMMA ContinueKnows ==
  ASSUME TypeOK, "redis" \notin Faults, "connection" \notin Faults, NEW r \in Requests,
         CopyKnown(r), Continue(r)
  PROVE  CopyKnown(r)'
  <1> USE DEF TypeOK, RequestsOK
  <1>0. CopyStays(r)
    <2>1. pc[r] # "idle"
      BY DEF Continue, UpdateRow, DeleteRows, LockRows, InsertRows, AfterInsert, LockRecord, ApplyStepAction, SaveLoad,
             CommitUpdate, CommitInsert, ReopenMissed, DeleteRecord, RemoveMissed, PutDocument,
             QueueDocuments, QueueFails, Rollback, ConnectionLost, DeleteObject, CleanupDone, Doomed,
             Deadlocked, WaitsFor, OnDatabase
    <2>2. ~(StepOneCreate(r) \/ StepOneUpdate(r))
      BY <2>1 DEF StepOneCreate, StepOneUpdate, Begin, MayStart
    <2> QED BY <2>2, StepCopies
  <1> DEFINE known == <<"profiles", r>> \in retryList \cup {retrying}
  <1>1. ASSUME <<"profiles", r>> \in objects => known PROVE CopyKnown(r)'
    BY <1>0, <1>1 DEF CopyKnown, CopyStays
  <1>3. ASSUME pc[r] \in Uncommitted, pc'[r] \in Uncommitted \cup {"revive"},
               CopyMade(r)' = CopyMade(r)
        PROVE  CopyKnown(r)'
    BY <1>0, <1>3 DEF CopyKnown, CopyStays, Uncommitted
  <1>4. ASSUME UpdateRow(r) \/ DeleteRows(r) \/ LockRows(r) \/ InsertRows(r)
        PROVE  CopyKnown(r)'
    BY <1>3, <1>4 DEF UpdateRow, DeleteRows, LockRows, InsertRows, AfterInsert, Goto, locals,
                      CopyMade, Uncommitted
  <1>5. ASSUME ApplyStepAction(r) \/ SaveLoad(r) PROVE CopyKnown(r)'
    <2>1. /\ pc[r] \in Uncommitted /\ pc'[r] \in Uncommitted \cup {"revive"}
          /\ call'[r] = call[r]
      BY <1>5 DEF ApplyStepAction, SaveLoad, Goto, Uncommitted
    <2>2. call[r].op \in {"create", "stepOne"} => entity'[r].profileImage = entity[r].profileImage
      <3>1. CASE ApplyStepAction(r)
        <4>1. OwnRow(r) \in RowType /\ entity[r] \in RowType
          BY OwnRowTyped
        <4>2. Applied(OwnRow(r), r).profileImage = OwnRow(r).profileImage
          BY <4>1 DEF Applied, RowType
        <4>3. call[r].op \in {"create", "stepOne"} => OwnRow(r).profileImage = entity[r].profileImage
          BY DEF OwnRow, StoresOK, RowType
        <4> QED BY <3>1, <4>2, <4>3 DEF ApplyStepAction
      <3>2. CASE SaveLoad(r)
        BY <3>2 DEF SaveLoad
      <3> QED BY <1>5, <3>1, <3>2
    <2> QED BY <1>3, <2>1, <2>2 DEF CopyMade
  <1>6. ASSUME CommitUpdate(r) \/ CommitInsert(r) PROVE CopyKnown(r)'
    <2>1. PublishAndGoOn(r) /\ pc[r] \in {"write", "revive"}
      BY <1>6 DEF CommitUpdate, CommitInsert
    <2>2. CASE call[r].op = "stepSix"
      BY <1>1, <2>1, <2>2 DEF CopyKnown, CopyMade
    <2>3. CASE call[r].op \in {"create", "stepOne"}
      BY <2>1, <2>3 DEF PublishAndGoOn, Goto, CopyKnown
    <2>4. CASE call[r].op \notin {"create", "stepOne", "stepSix"}
      BY <2>1, <2>4 DEF PublishAndGoOn, End, CopyKnown, NoCall, Plain
    <2> QED BY <2>2, <2>3, <2>4
  <1>7. ASSUME ReopenMissed(r) \/ PutDocument(r) \/ QueueDocuments(r) PROVE CopyKnown(r)'
    BY <1>7 DEF ReopenMissed, PutDocument, QueueDocuments, End, CopyKnown, NoCall, Plain
  <1>8. ASSUME LockRecord(r) \/ DeleteRecord(r) \/ RemoveMissed(r) \/ QueueFails(r)
        PROVE  CopyKnown(r)'
    <2>1. pc[r] \in {"remove", "cascade", "queue"}
      BY <1>8 DEF LockRecord, DeleteRecord, RemoveMissed, QueueFails
    <2> QED BY <1>1, <2>1 DEF CopyKnown, Uncommitted
  <1>9. ASSUME Rollback(r) PROVE CopyKnown(r)'
    <2>1. pc[r] \in Uncommitted \cup {"revive", "remove", "cascade"}
      BY <1>9 DEF Rollback, Doomed, Deadlocked, WaitsFor, OnDatabase, Uncommitted
    <2>2. CASE CopyMade(r) = {}
      BY <1>1, <2>1, <2>2 DEF CopyKnown, Uncommitted
    <2>3. CASE CopyMade(r) # {}
      <3>1. pc'[r] = "undo" /\ trash'[r] = {<<"profiles", r>>}
        BY <1>9, <2>3 DEF Rollback, Goto, CopyMade
      <3> QED BY <3>1 DEF CopyKnown
    <2> QED BY <2>2, <2>3
  <1>10. ASSUME DeleteObject(r) PROVE CopyKnown(r)'
    <2>1. PICK o \in trash[r] : Delete(o) /\ trash' = [trash EXCEPT ![r] = @ \ {o}]
      BY <1>10 DEF DeleteObject
    <2>2. pc'[r] = pc[r] /\ call'[r] = call[r] /\ pc[r] \in {"cleanup", "undo"}
      BY <1>10 DEF DeleteObject
    <2>3. CASE pc[r] = "cleanup"
      BY <1>0, <2>2, <2>3 DEF CopyKnown, CopyStays, Uncommitted
    <2>4. CASE pc[r] = "undo"
      BY <1>0, <2>1, <2>2, <2>4, DeleteEffect DEF CopyKnown, CopyStays, Uncommitted
    <2> QED BY <2>2, <2>3, <2>4
  <1>11. ASSUME CleanupDone(r) PROVE CopyKnown(r)'
    <2>1. CASE pc[r] = "undo"
      BY <1>1, <1>11, <2>1 DEF CleanupDone, CopyKnown, Uncommitted
    <2>2. CASE pc[r] = "cleanup" /\ call[r].op = "stepSix"
      BY <1>1, <2>2 DEF CopyKnown, Uncommitted
    <2>3. CASE pc[r] = "cleanup" /\ call[r].op # "stepSix"
      BY <1>11, <2>3 DEF CleanupDone, QueuesDocuments, End, CopyKnown, NoCall, Plain
    <2> QED BY <1>11, <2>1, <2>2, <2>3 DEF CleanupDone
  <1> QED BY <1>4, <1>5, <1>6, <1>7, <1>8, <1>9, <1>10, <1>11 DEF Continue, ConnectionLost

\* A request that failed leaves no copy of the image it submitted that nobody is
\* going to delete, whatever ran at the same time.
THEOREM CopiesNeverLeft ==
  ASSUME "redis" \notin Faults, "connection" \notin Faults, "crash" \notin Faults
  PROVE  Spec => []FailureLeavesNoCopy
  <1>1. Init => CopiesKnown
    BY ConstantsAssumption DEF Init, CopiesKnown, CopyKnown
  <1>2. TypeOK /\ CopiesKnown /\ [Next]_vars => CopiesKnown'
    <2> SUFFICES ASSUME TypeOK, CopiesKnown, [Next]_vars, NEW q \in Requests PROVE CopyKnown(q)'
      BY DEF CopiesKnown
    <2>1. CopyKnown(q)
      BY DEF CopiesKnown
    <2>2. ASSUME NEW r \in Requests, Start(r) \/ Continue(r) PROVE CopyKnown(q)'
      <3>1. CASE q = r
        BY <2>1, <2>2, <3>1, StartKnows, ContinueKnows
      <3>2. CASE q # r
        BY <2>1, <2>2, <3>2, StepCopies, OthersStay, OthersKnow
      <3> QED BY <3>1, <3>2
    <2>3. ASSUME Timer PROVE CopyKnown(q)'
      <3>1. Stays(q)
        BY <2>3 DEF Timer, PopRetry, RetryDeletion, ExpireStaged, locals, Stays
      <3> QED BY <2>1, <2>3, <3>1, TimerCopies, OthersKnow
    <2>4. ASSUME UNCHANGED vars PROVE CopyKnown(q)'
      BY <2>1, <2>4 DEF vars, CopyKnown, CopyMade
    <2> QED BY <2>2, <2>3, <2>4 DEF Next, Crash
  <1>3. CopiesKnown => FailureLeavesNoCopy
    BY DEF CopiesKnown, CopyKnown, FailureLeavesNoCopy, Uncommitted
  <1> QED BY <1>1, <1>2, <1>3, TypeCorrect, PTL DEF Spec

-----------------------------------------------------------------------------
(* Queued documents, however requests interleave. *)

\* What is known of a request that leaves the child rows and its own memory alone.
LEMMA QueueStays ==
  ASSUME NEW q \in Requests, QueueKnown(q), Stays(q), jobs \subseteq jobs',
         \A d \in children' : d.by = q => d \in children
  PROVE  QueueKnown(q)'
  BY DEF QueueKnown, Stays, Documents, RowsOf

\* A request that neither publishes nor queues.
LEMMA QueueMoves ==
  ASSUME NEW r \in Requests, QueueKnown(r), children' \subseteq children, jobs' = jobs,
         pc'[r] \in Uncommitted \cup {"revive"} =>
           pc[r] \in Uncommitted \cup {"revive"} /\ batch'[r] = batch[r] /\ call'[r] = call[r],
         pc[r] \notin {"cleanup", "queue"}
  PROVE  QueueKnown(r)'
  BY DEF QueueKnown, Documents, RowsOf

LEMMA StartQueues ==
  ASSUME TypeOK, NEW r \in Requests, QueueKnown(r), Start(r)
  PROVE  QueueKnown(r)' /\ UNCHANGED <<children, jobs>>
  <1> USE DEF TypeOK, RequestsOK
  <1>1. pc[r] = "idle" /\ UNCHANGED <<children, jobs>>
    BY DEF Start, StepOneCreate, StepOneUpdate, ChildStep, StepSix, Reopen, Remove,
           StageProfileImage, UploadDocument, Requeue, CloseAccount, Begin, MayStart, stores
  <1>2. \A d \in Documents' : d.by = r => d \in jobs'
    BY <1>1 DEF QueueKnown, Documents, RowsOf
  <1>3. ASSUME StepOneCreate(r) \/ StepOneUpdate(r) \/ Reopen(r) PROVE QueueKnown(r)'
    <2>1. batch'[r] = {}
      BY <1>3 DEF StepOneCreate, StepOneUpdate, Reopen, Begin
    <2> QED BY <1>2, <2>1 DEF QueueKnown
  <1>4. ASSUME ChildStep(r) PROVE QueueKnown(r)'
    <2>1. PICK s \in ChildSteps : \A d \in batch'[r] : d.by = r /\ d.step = s
      BY <1>4 DEF ChildStep, Begin
    <2>2. s # 6
      BY ConstantsAssumption
    <2> QED BY <1>2, <2>1, <2>2 DEF QueueKnown
  <1>5. ASSUME StepSix(r) PROVE QueueKnown(r)'
    <2>1. call'[r].op = "stepSix" /\ \A d \in batch'[r] : d.by = r
      BY <1>5 DEF StepSix, Begin
    <2> QED BY <1>2, <2>1 DEF QueueKnown
  <1>6. ASSUME Remove(r) \/ StageProfileImage(r) \/ UploadDocument(r) \/ Requeue(r)
               \/ CloseAccount(r)
        PROVE  QueueKnown(r)'
    <2>1. pc'[r] \notin Uncommitted \cup {"revive"}
      BY <1>6 DEF CloseAccount, Remove, StageProfileImage, UploadDocument, Requeue, Begin, Goto, Uncommitted
    <2> QED BY <1>2, <2>1 DEF QueueKnown
  <1> QED BY <1>1, <1>3, <1>4, <1>5, <1>6 DEF Start

\* A commit publishes rows of the request's own; step six goes on to queue its.
LEMMA CommitQueues ==
  ASSUME TypeOK, NEW r \in Requests, QueueKnown(r), CommitUpdate(r) \/ CommitInsert(r)
  PROVE  /\ QueueKnown(r)' /\ jobs' = jobs
         /\ \A d \in children' \ children : d.by = r
  <1> USE DEF TypeOK, RequestsOK
  <1>1. /\ PublishAndGoOn(r) /\ pc[r] \in {"write", "revive"}
        /\ children' = (children \ targets[r]) \cup batch[r] /\ jobs' = jobs
    BY DEF CommitUpdate, CommitInsert, PublishAndGoOn
  <1>2. \A d \in batch[r] : d.by = r /\ (d.step = 6 => call[r].op = "stepSix")
    BY <1>1 DEF QueueKnown, Uncommitted
  <1>3. \A d \in Documents : d.by = r => d \in jobs
    BY <1>1 DEF QueueKnown
  <1>4. pc'[r] \in {"cleanup", "done"}
    BY <1>1 DEF PublishAndGoOn, Goto, End
  <1>5. CASE call[r].op = "stepSix"
    <2>1. pc'[r] = "cleanup" /\ call'[r] = call[r] /\ batch'[r] = batch[r]
      BY <1>1, <1>5 DEF PublishAndGoOn, Goto
    <2> QED BY <1>1, <1>2, <1>3, <1>5, <2>1 DEF QueueKnown, Documents, RowsOf, Uncommitted
  <1>6. CASE call[r].op # "stepSix"
    BY <1>1, <1>2, <1>3, <1>4, <1>6 DEF QueueKnown, Documents, RowsOf, Uncommitted
  <1> QED BY <1>5, <1>6

LEMMA ContinueQueues ==
  ASSUME TypeOK, "queue" \notin Faults, NEW r \in Requests, QueueKnown(r), Continue(r)
  PROVE  /\ QueueKnown(r)' /\ jobs \subseteq jobs'
         /\ \A d \in children' \ children : d.by = r
  <1> USE DEF TypeOK, RequestsOK
  <1>1. ASSUME UpdateRow(r) \/ DeleteRows(r) \/ LockRows(r) \/ InsertRows(r) \/ LockRecord(r) \/ ApplyStepAction(r)
               \/ SaveLoad(r)
        PROVE  QueueKnown(r)' /\ UNCHANGED <<children, jobs>>
    BY <1>1, QueueMoves DEF UpdateRow, DeleteRows, LockRows, InsertRows, AfterInsert, LockRecord, ApplyStepAction, SaveLoad, Goto,
       locals, stores, Uncommitted
  <1>2. ASSUME ReopenMissed(r) \/ RemoveMissed(r) \/ PutDocument(r) \/ ConnectionLost(r)
        PROVE  QueueKnown(r)' /\ UNCHANGED <<children, jobs>>
    BY <1>2, QueueMoves DEF ConnectionLost, OnDatabase, ReopenMissed, RemoveMissed, PutDocument, End, stores, Uncommitted
  <1>3. ASSUME Rollback(r) PROVE QueueKnown(r)' /\ UNCHANGED <<children, jobs>>
    <2>1. /\ pc[r] \notin {"cleanup", "queue"} /\ pc'[r] \in {"failed", "undo"}
          /\ UNCHANGED <<children, jobs>>
      BY <1>3 DEF Rollback, Doomed, Deadlocked, WaitsFor, OnDatabase, End, Goto, stores
    <2> QED BY <2>1, QueueMoves DEF Uncommitted
  <1>4. ASSUME DeleteRecord(r) PROVE QueueKnown(r)' /\ children' = {} /\ jobs' = jobs
    BY <1>4, QueueMoves DEF DeleteRecord, Goto, Uncommitted
  <1>5. ASSUME QueueDocuments(r) PROVE QueueKnown(r)' /\ children' = children /\ jobs \subseteq jobs'
    BY <1>5 DEF QueueDocuments, End, QueueKnown, Documents, RowsOf, Uncommitted
  <1>6. ASSUME DeleteObject(r) PROVE QueueKnown(r)' /\ UNCHANGED <<children, jobs>>
    BY <1>6 DEF DeleteObject, QueueKnown, Documents, RowsOf
  <1>7. ASSUME CleanupDone(r) PROVE QueueKnown(r)' /\ UNCHANGED <<children, jobs>>
    <2>1. CASE pc[r] = "cleanup" /\ QueuesDocuments(r)
      BY <1>7, <2>1 DEF CleanupDone, QueuesDocuments, Goto, locals, stores, QueueKnown, Documents,
         RowsOf, Uncommitted
    <2>2. CASE ~(pc[r] = "cleanup" /\ QueuesDocuments(r))
      <3>1. \A d \in Documents : d.by = r => d \in jobs
        BY <1>7, <2>2 DEF CleanupDone, QueuesDocuments, QueueKnown
      <3>2. pc'[r] \in {"done", "failed"} /\ UNCHANGED <<children, jobs>>
        BY <1>7, <2>2 DEF CleanupDone, End, stores
      <3> QED BY <3>1, <3>2 DEF QueueKnown, Documents, RowsOf, Uncommitted
    <2> QED BY <2>1, <2>2
  <1>8. ~QueueFails(r)
    BY DEF QueueFails
  <1> QED BY <1>1, <1>2, <1>3, <1>4, <1>5, <1>6, <1>7, <1>8, CommitQueues DEF Continue

\* No document waits for its ingestion longer than the step six that stored it takes,
\* unless the queue refuses jobs or the process dies.
THEOREM DocumentsAreQueued ==
  ASSUME "queue" \notin Faults, "crash" \notin Faults
  PROVE  Spec => []EveryDocumentIsQueued
  <1>1. Init => QueuesKnown
    BY DEF Init, QueuesKnown, QueueKnown, Documents, RowsOf
  <1>2. TypeOK /\ QueuesKnown /\ [Next]_vars => QueuesKnown'
    <2> SUFFICES ASSUME TypeOK, QueuesKnown, [Next]_vars, NEW q \in Requests PROVE QueueKnown(q)'
      BY DEF QueuesKnown
    <2>1. QueueKnown(q)
      BY DEF QueuesKnown
    <2>2. ASSUME NEW r \in Requests, Start(r) \/ Continue(r) PROVE QueueKnown(q)'
      <3>1. /\ QueueKnown(r)' /\ jobs \subseteq jobs'
            /\ \A d \in children' \ children : d.by = r
        BY <2>2, StartQueues, ContinueQueues DEF QueuesKnown
      <3>2. CASE q = r
        BY <3>1, <3>2
      <3>3. CASE q # r
        BY <2>1, <2>2, <3>1, <3>3, OthersStay, QueueStays
      <3> QED BY <3>2, <3>3
    <2>3. ASSUME Timer \/ UNCHANGED vars PROVE QueueKnown(q)'
      <3>1. Stays(q) /\ UNCHANGED <<children, jobs>>
        BY <2>3 DEF Timer, PopRetry, RetryDeletion, ExpireStaged, locals, vars, Stays
      <3> QED BY <2>1, <3>1, QueueStays
    <2> QED BY <2>2, <2>3 DEF Next, Crash
  <1>3. TypeOK /\ QueuesKnown => EveryDocumentIsQueued
    <2> SUFFICES ASSUME TypeOK, QueuesKnown, NEW d \in Documents, d \notin jobs
                 PROVE  pc[d.by] \in {"cleanup", "queue"}
      BY DEF EveryDocumentIsQueued
    <2>1. d.by \in Requests
      BY DEF Documents, RowsOf, TypeOK, StoresOK, ChildType
    <2> QED BY <2>1 DEF QueuesKnown, QueueKnown
  <1> QED BY <1>1, <1>2, <1>3, TypeCorrect, PTL DEF Spec
-----------------------------------------------------------------------------
(* The life cycle of the record, for requests one after the other.         *)

\* A request that is not under way carries nothing that could be wrong.
LEMMA QuietLife ==
  ASSUME NEW r \in Requests, ~Active(r)
  PROVE  Drafting(r) /\ Saving(r) /\ QueuesCommitted(r)
  BY DEF Active, Finished, Drafting, Saving, QueuesCommitted, Uncommitted

\* The request that moves is the one under way, or it starts when none is.
LEMMA MoverIsFree ==
  ASSUME NEW r \in Requests, Start(r) \/ Continue(r)
  PROVE  MayStart(r) \/ Active(r)
  BY DEF Start, StepOneCreate, StepOneUpdate, ChildStep, StepSix, Reopen, Remove,
         StageProfileImage, UploadDocument, Requeue, CloseAccount, Begin, Continue, UpdateRow, DeleteRows, LockRows,
         InsertRows, AfterInsert, LockRecord, ApplyStepAction, SaveLoad, CommitUpdate, CommitInsert, ReopenMissed,
         DeleteRecord, RemoveMissed, PutDocument, QueueDocuments, QueueFails, Rollback,
         ConnectionLost, DeleteObject, CleanupDone, Doomed, Deadlocked, WaitsFor, OnDatabase,
         Active, Finished

\* While one request moves, the others are at rest.
LEMMA OthersQuiet ==
  ASSUME OneAtATime, TypeOK, SerialInvariant, NEW r \in Requests, Start(r) \/ Continue(r),
         NEW q \in Requests \ {r}
  PROVE  ~Active(q)'
  <1>1. MayStart(r) \/ Active(r)
    BY MoverIsFree
  <1>2. ~Active(q)
    BY <1>1 DEF MayStart, Active, SerialInvariant, Alone
  <1> QED BY <1>2, OthersStay DEF Active, Stays

\* It is enough that the request that moves and the row stay right.
LEMMA LifeMoves ==
  ASSUME OneAtATime, TypeOK, SerialInvariant, NEW r \in Requests, Start(r) \/ Continue(r),
         Drafting(r)' /\ Saving(r)' /\ QueuesCommitted(r)',
         life' # "live" => row' = NewRow /\ children' = {}, CompletedAtAgrees'
  PROVE  LifecycleInvariant'
  <1>1. SUFFICES ASSUME NEW q \in Requests \ {r}
                 PROVE  (Drafting(q) /\ Saving(q) /\ QueuesCommitted(q))'
    BY DEF LifecycleInvariant
  <1>2. ~Active(q)'
    BY OthersQuiet
  <1> QED BY <1>2 DEF Active, Finished, Drafting, Saving, QueuesCommitted, Uncommitted

\* The request that moves, when the record stays as it is.
LEMMA LifeStays ==
  ASSUME OneAtATime, TypeOK, SerialInvariant, LifecycleInvariant, NEW r \in Requests,
         Start(r) \/ Continue(r), UNCHANGED <<life, row, children>>,
         Drafting(r)' /\ Saving(r)' /\ QueuesCommitted(r)'
  PROVE  LifecycleInvariant'
  BY LifeMoves DEF LifecycleInvariant, CompletedAtAgrees

\* Doing a step action twice is doing it once, and it leaves the image alone.
LEMMA AppliedTwice ==
  ASSUME NEW r \in Requests, RequestsOK, NEW old \in RowType
  PROVE  /\ Applied(Applied(old, r), r) = Applied(old, r)
         /\ Applied(old, r).profileImage = old.profileImage
         /\ Applied(old, r).lastCompletedStep >= old.lastCompletedStep
         /\ call[r].action = "FINAL" =>
              Applied(old, r).status = "COMPLETED" /\ Applied(old, r).completedAt = r
         /\ call[r].action = "CONTINUE" =>
              Applied(old, r).status = "DRAFT" /\ Applied(old, r).completedAt = None
         /\ call[r].action = "DRAFT" => Applied(old, r) = old
  <1>1. call[r].action \in Actions /\ call[r].step \in Nat /\ old.lastCompletedStep \in Nat
    BY DEF RequestsOK, CallType, RowType
  <1>2. CASE call[r].action = "DRAFT"
    BY <1>1, <1>2 DEF Applied
  <1>3. CASE call[r].action # "DRAFT"
    <2> DEFINE new == Applied(old, r)
    <2>1. new = [old EXCEPT !.status = IF call[r].action = "FINAL" THEN "COMPLETED" ELSE "DRAFT",
                            !.completedAt = IF call[r].action = "FINAL" THEN r ELSE None,
                            !.lastCompletedStep = Larger(@, call[r].step)]
      BY <1>3 DEF Applied
    <2>2. /\ new.profileImage = old.profileImage
          /\ new.lastCompletedStep = Larger(old.lastCompletedStep, call[r].step)
          /\ new.status = IF call[r].action = "FINAL" THEN "COMPLETED" ELSE "DRAFT"
          /\ new.completedAt = IF call[r].action = "FINAL" THEN r ELSE None
      BY <2>1 DEF RowType
    <2>3. /\ Larger(old.lastCompletedStep, call[r].step) >= old.lastCompletedStep
          /\ Larger(new.lastCompletedStep, call[r].step) = new.lastCompletedStep
      BY <1>1, <2>2 DEF Larger
    <2>4. new \in RowType
      BY AppliedTyped
    <2>5. Applied(new, r) = new
      BY <1>3, <2>2, <2>3, <2>4 DEF Applied, RowType
    <2> QED BY <1>1, <1>3, <2>2, <2>3, <2>5 DEF Actions
  <1> QED BY <1>2, <1>3

LEMMA StartLives ==
  ASSUME OneAtATime, TypeOK, SerialInvariant, LifecycleInvariant, NEW r \in Requests, Start(r)
  PROVE  LifecycleInvariant' /\ UNCHANGED <<life, row, children>>
  <1> USE DEF TypeOK, StoresOK
  <1>0. UNCHANGED <<life, row, children>>
    BY DEF Start, StepOneCreate, StepOneUpdate, ChildStep, StepSix, Reopen, Remove,
           StageProfileImage, UploadDocument, Requeue, CloseAccount, stores
  <1>1. ASSUME StepOneCreate(r) PROVE Drafting(r)' /\ Saving(r)' /\ QueuesCommitted(r)'
    <2>1. PICK s \in {None} \cup Staged, a \in StepOneActions :
             LET image == Promoted(r, s, None) IN
             /\ life = "unborn"
             /\ Begin(r, "apply",
                 [op |-> "create", step |-> 1, action |-> a, updatesRow |-> FALSE],
                 [NewRow EXCEPT !.profileImage = image],
                 {}, StepOneTrash(s, None, image))
      BY <1>1 DEF StepOneCreate
    <2>2. /\ pc'[r] = "apply" /\ call'[r].op = "create" /\ call'[r].action = a
          /\ entity'[r] = [NewRow EXCEPT !.profileImage = Promoted(r, s, None)]
      BY <2>1, BeginEffect
    <2>3. row'.status = "DRAFT"
      BY <1>0, <2>1 DEF LifecycleInvariant, NewRow
    <2> QED BY <2>2, <2>3 DEF Drafting, Saving, QueuesCommitted, StepOps, NewRow, StepOneActions
  <1>2. ASSUME StepOneUpdate(r) PROVE Drafting(r)' /\ Saving(r)' /\ QueuesCommitted(r)'
    <2>1. PICK s \in {None, row.profileImage} \cup Staged, a \in StepOneActions :
             LET image == Promoted(r, s, row.profileImage) IN
             /\ Editable
             /\ Begin(r, "update",
                 [op |-> "stepOne", step |-> 1, action |-> a, updatesRow |-> TRUE],
                 [row EXCEPT !.profileImage = image],
                 {}, StepOneTrash(s, row.profileImage, image))
      BY <1>2 DEF StepOneUpdate
    <2>2. pc'[r] = "update" /\ call'[r].op = "stepOne" /\ call'[r].action = a
      BY <2>1, BeginEffect
    <2>3. row'.status = "DRAFT"
      BY <1>0, <2>1 DEF Editable, RowType
    <2> QED BY <2>2, <2>3 DEF Drafting, Saving, QueuesCommitted, StepOps, StepOneActions
  <1>3. ASSUME ChildStep(r) PROVE Drafting(r)' /\ Saving(r)' /\ QueuesCommitted(r)'
    <2>1. PICK s \in ChildSteps, a \in StepOneActions, any \in BOOLEAN, touch \in BOOLEAN :
             /\ Editable
             /\ Begin(r, "delete",
                 [op |-> "child", step |-> s, action |-> a, updatesRow |-> touch],
                 NewRow, IF any THEN {[step |-> s, by |-> r, file |-> None]} ELSE {}, {})
      BY <1>3 DEF ChildStep
    <2>2. pc'[r] = "delete" /\ call'[r].op = "child" /\ call'[r].action = a
      BY <2>1, BeginEffect
    <2>3. row'.status = "DRAFT"
      BY <1>0, <2>1 DEF Editable, RowType
    <2> QED BY <2>2, <2>3 DEF Drafting, Saving, QueuesCommitted, StepOps, StepOneActions
  <1>4. ASSUME StepSix(r) PROVE Drafting(r)' /\ Saving(r)' /\ QueuesCommitted(r)'
    <2>1. PICK kept \in SUBSET {d \in Documents : d.file # None}, a \in Actions,
               fresh \in SUBSET ({None} \cup {o \in objects : o[1] = "documents"}) :
             LET files == {d.file : d \in kept} \cup fresh IN
             /\ Editable
             /\ Begin(r, "delete",
                 [op |-> "stepSix", step |-> 6, action |-> a, updatesRow |-> FALSE],
                 NewRow, {[step |-> 6, by |-> r, file |-> f] : f \in files},
                 RemovedFiles(files))
      BY <1>4 DEF StepSix
    <2>2. pc'[r] = "delete" /\ call'[r].op = "stepSix"
      BY <2>1, BeginEffect
    <2>3. row'.status = "DRAFT"
      BY <1>0, <2>1 DEF Editable, RowType
    <2> QED BY <2>2, <2>3 DEF Drafting, Saving, QueuesCommitted, StepOps
  <1>5. ASSUME Reopen(r) PROVE Drafting(r)' /\ Saving(r)' /\ QueuesCommitted(r)'
    <2>1. pc'[r] = "save" /\ call'[r].op = "reopen" /\ entity'[r] = Reopened(row)
      BY <1>5, BeginEffect DEF Reopen, Plain
    <2> QED BY <1>0, <2>1 DEF Drafting, Saving, QueuesCommitted, StepOps, Reopened
  <1>6. ASSUME Remove(r) \/ StageProfileImage(r) \/ UploadDocument(r) \/ CloseAccount(r)
        PROVE  Drafting(r)' /\ Saving(r)' /\ QueuesCommitted(r)'
    <2>1. pc'[r] \in {"remove", "done", "upload"}
      BY <1>6, BeginEffect DEF Remove, StageProfileImage, UploadDocument, CloseAccount, Goto, RequestsOK
    <2> QED BY <2>1 DEF Drafting, Saving, QueuesCommitted, Uncommitted
  <1>7. ASSUME Requeue(r) PROVE Drafting(r)' /\ Saving(r)' /\ QueuesCommitted(r)'
    <2>1. PICK docs \in SUBSET Documents : Begin(r, "queue", Plain("requeue"), NewRow, docs, {})
      BY <1>7 DEF Requeue
    <2>2. pc'[r] = "queue" /\ batch'[r] = docs
      BY <2>1, BeginEffect
    <2> QED BY <1>0, <2>2 DEF Drafting, Saving, QueuesCommitted, Uncommitted, Documents, RowsOf
  <1>8. Drafting(r)' /\ Saving(r)' /\ QueuesCommitted(r)'
    BY <1>1, <1>2, <1>3, <1>4, <1>5, <1>6, <1>7 DEF Start
  <1> QED BY <1>0, <1>8, LifeStays

\* What a request under way knows of the row it saves, with the invariants at hand.
LEMMA SavedRow ==
  ASSUME OneAtATime, TypeOK, SerialInvariant, LifecycleInvariant, NEW r \in Requests,
         CommitUpdate(r) \/ CommitInsert(r)
  PROVE  /\ pc[r] = "write" /\ life' = "live" /\ row' = entity[r]
         /\ call[r].op \in StepOps \cup {"reopen"}
         /\ life = IF call[r].op = "create" THEN "unborn" ELSE "live"
         /\ entity[r] = IF call[r].op = "reopen" THEN Reopened(row) ELSE Applied(OwnRow(r), r)
         /\ OwnRow(r) \in RowType
         /\ call[r].op # "create" =>
              OwnRow(r).status = row.status /\ OwnRow(r).completedAt = row.completedAt
              /\ OwnRow(r).lastCompletedStep = row.lastCompletedStep
  <1> USE DEF TypeOK, StoresOK, RequestsOK
  <1>1. RowStillThere(r) /\ Drafting(r) /\ Saving(r)
    BY FlowNow DEF LifecycleInvariant
  <1>2. pc[r] = "write"
    BY <1>1 DEF CommitUpdate, CommitInsert, RowStillThere
  <1>3. /\ call[r].op \in StepOps \cup {"reopen"}
        /\ life = IF call[r].op = "create" THEN "unborn" ELSE "live"
        /\ entity[r] = IF call[r].op = "reopen" THEN Reopened(row) ELSE Applied(OwnRow(r), r)
        /\ loaded[r] = OwnRow(r)
    BY <1>1, <1>2 DEF Saving, RowStillThere, Uncommitted
  <1>4. OwnRow(r) \in RowType /\ entity[r] \in RowType /\ row \in RowType
    BY OwnRowTyped
  <1>5. call[r].op # "create" =>
          OwnRow(r).status = row.status /\ OwnRow(r).completedAt = row.completedAt
          /\ OwnRow(r).lastCompletedStep = row.lastCompletedStep
    BY DEF OwnRow, RowType
  <1>6. ASSUME CommitUpdate(r) PROVE row' = entity[r] /\ life' = "live"
    <2>1. call[r].op \notin {"create", "stepOne"} => OwnRow(r).profileImage = row.profileImage
      BY DEF OwnRow
    <2>2. Merged(r) = entity[r]
      BY <1>3, <1>4, <1>5, <1>6, <2>1 DEF CommitUpdate, Merged, Column, RowType
    <2> QED BY <1>6, <2>2 DEF CommitUpdate
  <1>7. ASSUME CommitInsert(r) PROVE row' = entity[r] /\ life' = "live"
    BY <1>7 DEF CommitInsert
  <1> QED BY <1>2, <1>3, <1>4, <1>5, <1>6, <1>7

\* What a commit makes of the record: the columns agree, the progress does not go
\* back, a reopened record keeps its content, and a submission found a DRAFT.
LEMMA CommitEffect ==
  ASSUME OneAtATime, TypeOK, SerialInvariant, LifecycleInvariant, NEW r \in Requests,
         CommitUpdate(r) \/ CommitInsert(r)
  PROVE  /\ CompletedAtAgrees'
         /\ life = "live" => row'.lastCompletedStep >= row.lastCompletedStep
         /\ call[r].op = "reopen" =>
              /\ row'.status = "DRAFT"
              /\ UNCHANGED children
              /\ row'.lastCompletedStep = row.lastCompletedStep
              /\ row'.profileImage = row.profileImage
         /\ call[r].op \in StepOps => row.status = "DRAFT"
         /\ call[r].op = "create" => row'.status = "DRAFT"
  <1> USE DEF TypeOK, StoresOK, RequestsOK
  <1>1. /\ pc[r] = "write" /\ life' = "live" /\ row' = entity[r]
        /\ call[r].op \in StepOps \cup {"reopen"}
        /\ life = IF call[r].op = "create" THEN "unborn" ELSE "live"
        /\ entity[r] = IF call[r].op = "reopen" THEN Reopened(row) ELSE Applied(OwnRow(r), r)
        /\ OwnRow(r) \in RowType
        /\ call[r].op # "create" =>
              OwnRow(r).status = row.status /\ OwnRow(r).completedAt = row.completedAt
              /\ OwnRow(r).lastCompletedStep = row.lastCompletedStep
    BY SavedRow
  <1>2. Drafting(r) /\ RowsFlow(r) /\ CompletedAtAgrees
    BY FlowNow DEF LifecycleInvariant
  <1>3. call[r].op \in StepOps =>
          /\ row.status = "DRAFT"
          /\ call[r].op # "stepSix" => call[r].action # "FINAL"
          /\ call[r].op = "create" => entity[r].status = "DRAFT" /\ entity[r].completedAt = None
    BY <1>1, <1>2 DEF Drafting, Uncommitted
  <1>4. call[r].action \in Actions /\ r # None
    BY ConstantsAssumption DEF CallType
  <1>5. CASE call[r].op = "reopen"
    <2>1. /\ row'.status = "DRAFT" /\ row'.completedAt = None
          /\ row'.lastCompletedStep = row.lastCompletedStep
          /\ row'.profileImage = row.profileImage
      BY <1>1, <1>5 DEF Reopened, RowType
    <2>2. targets[r] = {} /\ batch[r] = {}
      BY <1>1, <1>2, <1>5 DEF RowsFlow, Uncommitted
    <2>3. children' = children
      BY <2>2 DEF CommitUpdate, CommitInsert, PublishAndGoOn
    <2> QED BY <1>5, <2>1, <2>3 DEF CompletedAtAgrees, StepOps, RowType
  <1>6. CASE call[r].op = "create"
    BY <1>1, <1>3, <1>6 DEF CompletedAtAgrees, StepOps
  <1>7. CASE call[r].op \in StepOps \ {"create"}
    <2>1. row' = Applied(OwnRow(r), r) /\ call[r].op # "reopen"
      BY <1>1, <1>7 DEF StepOps
    <2>2. row'.lastCompletedStep >= row.lastCompletedStep
      BY <1>1, <1>7, <2>1, AppliedTwice
    <2>3. CompletedAtAgrees'
      BY <1>1, <1>2, <1>3, <1>4, <1>7, <2>1, AppliedTwice DEF CompletedAtAgrees, Actions
    <2> QED BY <1>3, <1>7, <2>1, <2>2, <2>3
  <1> QED BY <1>1, <1>5, <1>6, <1>7

\* Applying the step's action, and loading the row to save.
LEMMA ApplyLives ==
  ASSUME OneAtATime, TypeOK, SerialInvariant, LifecycleInvariant, NEW r \in Requests,
         ApplyStepAction(r) \/ SaveLoad(r)
  PROVE  Drafting(r)' /\ Saving(r)' /\ QueuesCommitted(r)' /\ UNCHANGED <<life, row, children>>
  <1> USE DEF TypeOK, StoresOK, RequestsOK
  <1>1. RowStillThere(r) /\ Drafting(r) /\ Saving(r) /\ QueuesCommitted(r)
    BY FlowNow DEF LifecycleInvariant
  <1>2. OwnRow(r) \in RowType
    BY OwnRowTyped
  <1>3. ASSUME ApplyStepAction(r) PROVE Drafting(r)' /\ Saving(r)' /\ QueuesCommitted(r)'
    <2>1. /\ pc[r] = "apply" /\ pc'[r] = "save" /\ call' = call /\ row' = row
          /\ entity'[r] = Applied(OwnRow(r), r)
      BY <1>3 DEF ApplyStepAction, Goto, stores
    <2>2. call[r].op \in StepOps /\ call[r].op # "reopen"
      BY <1>1, <2>1 DEF Drafting, StepOps
    <2>3. Applied(OwnRow(r), r).profileImage = OwnRow(r).profileImage
      BY <1>2, AppliedTwice
    <2>4. ASSUME call[r].op = "create" PROVE entity'[r] = Applied(OwnRow(r), r)'
      <3>1. Applied(OwnRow(r), r)' = Applied(entity'[r], r)
        BY <2>1, <2>4 DEF Applied, OwnRow
      <3> QED BY <1>2, <2>1, <3>1, AppliedTwice
    <2>5. ASSUME call[r].op = "stepOne" PROVE entity'[r] = Applied(OwnRow(r), r)'
      <3>1. entity'[r].profileImage = entity[r].profileImage
        BY <2>1, <2>3, <2>5 DEF OwnRow, RowType
      <3>2. Applied(OwnRow(r), r)' = Applied(OwnRow(r), r)
        BY <2>1, <2>5, <3>1 DEF Applied, OwnRow
      <3> QED BY <2>1, <3>2
    <2>7. ASSUME call[r].op \notin {"create", "stepOne"}
          PROVE  entity'[r] = Applied(OwnRow(r), r)'
      BY <2>1, <2>7 DEF Applied, OwnRow
    <2>8. entity'[r] = Applied(OwnRow(r), r)'
      BY <2>4, <2>5, <2>7
    <2>6. call[r].op = "create" => entity'[r].status = "DRAFT" /\ entity'[r].completedAt = None
      <3>1. SUFFICES ASSUME call[r].op = "create"
                     PROVE  entity'[r].status = "DRAFT" /\ entity'[r].completedAt = None
        OBVIOUS
      <3>2. /\ OwnRow(r) = entity[r] /\ call[r].action \in Actions \ {"FINAL"}
            /\ entity[r].status = "DRAFT" /\ entity[r].completedAt = None
        BY <1>1, <2>1, <3>1 DEF Drafting, Uncommitted, StepOps, OwnRow, CallType
      <3> QED BY <1>2, <2>1, <3>2, AppliedTwice DEF Actions
    <2> QED BY <1>1, <2>1, <2>2, <2>6, <2>8 DEF Drafting, Saving, QueuesCommitted, Uncommitted,
               StepOps
  <1>4. ASSUME SaveLoad(r) PROVE Drafting(r)' /\ Saving(r)' /\ QueuesCommitted(r)'
    <2>1. RowIsVisible(r) /\ pc[r] = "save"
      BY <1>1, <1>4 DEF SaveLoad, RowStillThere, RowIsVisible, Uncommitted
    <2>2. /\ pc'[r] = "write" /\ loaded'[r] = OwnRow(r)
          /\ UNCHANGED <<row, call, entity>>
      BY <1>4, <2>1 DEF SaveLoad, Goto, stores
    <2> QED BY <1>1, <2>1, <2>2 DEF Drafting, Saving, QueuesCommitted, Uncommitted, OwnRow,
               Applied, Reopened
  <1>5. UNCHANGED <<life, row, children>>
    BY DEF ApplyStepAction, SaveLoad, stores
  <1> QED BY <1>3, <1>4, <1>5

\* The other steps of a request under way that leave the record alone.
LEMMA QuietSteps ==
  ASSUME OneAtATime, TypeOK, SerialInvariant, LifecycleInvariant, NEW r \in Requests,
         Continue(r), ~(CommitUpdate(r) \/ CommitInsert(r) \/ DeleteRecord(r))
  PROVE  Drafting(r)' /\ Saving(r)' /\ QueuesCommitted(r)' /\ UNCHANGED <<life, row, children>>
  <1> USE DEF TypeOK, RequestsOK
  <1>1. Drafting(r) /\ Saving(r) /\ QueuesCommitted(r)
    BY DEF LifecycleInvariant
  <1>2. ASSUME pc'[r] \in {"done", "failed", "undo"}
        PROVE  Drafting(r)' /\ Saving(r)' /\ QueuesCommitted(r)'
    BY <1>2 DEF Drafting, Saving, QueuesCommitted, Uncommitted
  <1>3. ASSUME UpdateRow(r) \/ DeleteRows(r) \/ LockRows(r) \/ InsertRows(r)
        PROVE  Drafting(r)' /\ Saving(r)' /\ QueuesCommitted(r)' /\ UNCHANGED <<life, row, children>>
    <2>1. /\ pc[r] \in {"update", "delete", "lock", "insert"}
          /\ pc'[r] \in {"lock", "insert", "update", "apply"}
          /\ UNCHANGED <<life, row, children, call, entity>>
      BY <1>3 DEF UpdateRow, DeleteRows, LockRows, InsertRows, AfterInsert, Goto, stores, locals
    <2> QED BY <1>1, <2>1 DEF Drafting, Saving, QueuesCommitted, Uncommitted
  <1>8. ASSUME LockRecord(r)
        PROVE  Drafting(r)' /\ Saving(r)' /\ QueuesCommitted(r)' /\ UNCHANGED <<life, row, children>>
    <2>1. pc'[r] = "cascade" /\ UNCHANGED <<life, row, children>>
      BY <1>8 DEF LockRecord, Goto, stores
    <2> QED BY <2>1 DEF Drafting, Saving, QueuesCommitted, Uncommitted
  <1>4. ASSUME ReopenMissed(r) \/ RemoveMissed(r) \/ PutDocument(r) \/ QueueDocuments(r)
               \/ QueueFails(r) \/ ConnectionLost(r)
        PROVE  Drafting(r)' /\ Saving(r)' /\ QueuesCommitted(r)' /\ UNCHANGED <<life, row, children>>
    <2>1. pc'[r] \in {"done", "failed"} /\ UNCHANGED <<life, row, children>>
      BY <1>4 DEF ReopenMissed, RemoveMissed, PutDocument, QueueDocuments, QueueFails,
                  ConnectionLost, End, stores
    <2> QED BY <1>2, <2>1
  <1>5. ASSUME Rollback(r)
        PROVE  Drafting(r)' /\ Saving(r)' /\ QueuesCommitted(r)' /\ UNCHANGED <<life, row, children>>
    <2>1. pc'[r] \in {"failed", "undo"} /\ UNCHANGED <<life, row, children>>
      BY <1>5 DEF Rollback, End, Goto, stores
    <2> QED BY <1>2, <2>1
  <1>6. ASSUME DeleteObject(r)
        PROVE  Drafting(r)' /\ Saving(r)' /\ QueuesCommitted(r)' /\ UNCHANGED <<life, row, children>>
    <2>1. pc[r] \in {"cleanup", "undo"} /\ UNCHANGED <<life, row, children, pc, call, batch>>
      BY <1>6 DEF DeleteObject
    <2> QED BY <1>1, <2>1 DEF Drafting, Saving, QueuesCommitted, Uncommitted
  <1>7. ASSUME CleanupDone(r)
        PROVE  Drafting(r)' /\ Saving(r)' /\ QueuesCommitted(r)' /\ UNCHANGED <<life, row, children>>
    <2>1. UNCHANGED <<life, row, children>>
      BY <1>7 DEF CleanupDone, stores
    <2>2. CASE pc[r] = "cleanup" /\ QueuesDocuments(r)
      <3>1. pc'[r] = "queue" /\ batch'[r] = batch[r] /\ batch[r] \subseteq children
        BY <1>1, <1>7, <2>2 DEF CleanupDone, QueuesDocuments, QueuesCommitted, Goto, locals
      <3> QED BY <2>1, <3>1 DEF Drafting, Saving, QueuesCommitted, Uncommitted
    <2>3. CASE ~(pc[r] = "cleanup" /\ QueuesDocuments(r))
      <3>1. pc'[r] \in {"done", "failed"}
        BY <1>7, <2>3 DEF CleanupDone, End
      <3> QED BY <1>2, <2>1, <3>1
    <2> QED BY <2>2, <2>3
  <1> QED BY <1>3, <1>4, <1>5, <1>6, <1>7, <1>8, ApplyLives DEF Continue

LEMMA ContinueLives ==
  ASSUME OneAtATime, TypeOK, SerialInvariant, LifecycleInvariant, NEW r \in Requests, Continue(r)
  PROVE  LifecycleInvariant'
  <1> USE DEF TypeOK, RequestsOK
  <1>1. ASSUME CommitUpdate(r) \/ CommitInsert(r) PROVE LifecycleInvariant'
    <2>1. CompletedAtAgrees' /\ life' = "live" /\ pc[r] = "write" /\ PublishAndGoOn(r)
      BY <1>1, CommitEffect, SavedRow DEF CommitUpdate, CommitInsert
    <2>2. /\ pc'[r] \in {"cleanup", "done"}
          /\ pc'[r] = "cleanup" => call'[r] = call[r] /\ batch'[r] = batch[r]
          /\ batch[r] \subseteq children'
      BY <2>1, PublishEffect
    <2>3. Drafting(r)' /\ Saving(r)' /\ QueuesCommitted(r)'
      BY <2>2 DEF Drafting, Saving, QueuesCommitted, Uncommitted
    <2> QED BY <2>1, <2>3, LifeMoves
  <1>2. ASSUME DeleteRecord(r) PROVE LifecycleInvariant'
    <2>1. RowsFlow(r) /\ pc[r] = "cascade" /\ life' # "live" /\ row' = NewRow /\ children' = {}
      BY <1>2, FlowNow DEF DeleteRecord
    <2>2. pc'[r] = "cleanup" /\ call'[r].op \in {"remove", "close"}
      BY <1>2, <2>1 DEF DeleteRecord, Goto, locals, RowsFlow
    <2>3. CompletedAtAgrees' /\ Drafting(r)' /\ Saving(r)' /\ QueuesCommitted(r)'
      BY <2>1, <2>2 DEF Drafting, Saving, QueuesCommitted, Uncommitted, CompletedAtAgrees, NewRow
    <2> QED BY <2>1, <2>3, LifeMoves
  <1>3. CASE ~(CommitUpdate(r) \/ CommitInsert(r) \/ DeleteRecord(r))
    BY <1>3, QuietSteps, LifeStays
  <1> QED BY <1>1, <1>2, <1>3

\* The timer and the death of the process leave the record alone.
LEMMA OutsideLives ==
  ASSUME TypeOK, LifecycleInvariant, Timer \/ Crash \/ UNCHANGED vars
  PROVE  LifecycleInvariant' /\ UNCHANGED <<life, row, children>>
  <1>1. ASSUME Timer \/ UNCHANGED vars PROVE LifecycleInvariant' /\ UNCHANGED <<life, row, children>>
    <2>1. UNCHANGED <<life, row, children, pc, call, entity, loaded, batch>>
      BY <1>1 DEF Timer, PopRetry, RetryDeletion, ExpireStaged, locals, vars
    <2>2. ASSUME NEW r \in Requests PROVE (Drafting(r) /\ Saving(r) /\ QueuesCommitted(r))'
      <3>1. Drafting(r) /\ Saving(r) /\ QueuesCommitted(r)
        BY DEF LifecycleInvariant
      <3>2. Applied(OwnRow(r), r)' = Applied(OwnRow(r), r) /\ OwnRow(r)' = OwnRow(r)
            /\ Reopened(row)' = Reopened(row)
        BY <2>1 DEF Applied, OwnRow, Reopened
      <3> QED BY <2>1, <3>1, <3>2 DEF Drafting, Saving, QueuesCommitted
    <2> QED BY <2>1, <2>2 DEF LifecycleInvariant, CompletedAtAgrees
  <1>2. ASSUME Crash PROVE LifecycleInvariant' /\ UNCHANGED <<life, row, children>>
    <2>1. UNCHANGED <<life, row, children>> /\ \A r \in Requests : ~Active(r)'
      BY <1>2 DEF Crash, Active, Finished
    <2> QED BY <2>1 DEF LifecycleInvariant, CompletedAtAgrees, Drafting, Saving, QueuesCommitted,
               Active, Finished, Uncommitted
  <1> QED BY <1>1, <1>2

\* The invariant is inductive.
LEMMA LifecycleInvariance ==
  ASSUME OneAtATime
  PROVE  TypeOK /\ SerialInvariant /\ LifecycleInvariant /\ [Next]_vars => LifecycleInvariant'
  BY StartLives, ContinueLives, OutsideLives DEF Next

\* A request that saves the row saves what it makes of the row as it is, only a
\* submission of step six completes a record, and what is queued is committed.
THEOREM LifecycleInvariantCorrect ==
  ASSUME OneAtATime
  PROVE  Spec => []LifecycleInvariant
  <1>1. Init => LifecycleInvariant
    BY DEF Init, LifecycleInvariant, CompletedAtAgrees, Drafting, Saving, QueuesCommitted,
           Uncommitted, NewRow
  <1>2. TypeOK /\ SerialInvariant /\ LifecycleInvariant /\ [Next]_vars => LifecycleInvariant'
    BY LifecycleInvariance
  <1> QED BY <1>1, <1>2, TypeCorrect, SerialCorrect, PTL DEF Spec

\* completedAt is set exactly while the record is COMPLETED.
THEOREM CompletedAtCorrect ==
  ASSUME OneAtATime
  PROVE  Spec => []CompletedAtAgrees
  <1>1. LifecycleInvariant => CompletedAtAgrees
    BY DEF LifecycleInvariant
  <1> QED BY <1>1, LifecycleInvariantCorrect, PTL

\* The only steps that touch the record commit a transaction or remove it.
LEMMA RecordMoves ==
  ASSUME OneAtATime, TypeOK, SerialInvariant, LifecycleInvariant, [Next]_vars
  PROVE  \/ UNCHANGED <<life, row, children>>
         \/ \E r \in Requests : CommitUpdate(r) \/ CommitInsert(r) \/ DeleteRecord(r)
  BY StartLives, QuietSteps, OutsideLives DEF Next

\* The record goes through the life cycle that RecordLifecycle promises: every step
\* of the requests, the timer and the faults is a step of it or leaves it alone.
THEOREM LifecycleImplemented ==
  ASSUME OneAtATime
  PROVE  Spec => ImplementsLifecycle
  <1>1. Init => Lifecycle!Init
    BY DEF Init, Lifecycle!Init, NewRow
  <1>2. TypeOK /\ SerialInvariant /\ LifecycleInvariant /\ [Next]_vars
          => [Lifecycle!Next]_Lifecycle!vars
    <2> SUFFICES ASSUME TypeOK, SerialInvariant, LifecycleInvariant, [Next]_vars
                 PROVE  [Lifecycle!Next]_Lifecycle!vars
      OBVIOUS
    <2> USE DEF TypeOK, StoresOK
    <2>1. CASE UNCHANGED <<life, row, children>>
      BY <2>1 DEF Lifecycle!vars
    <2>2. ASSUME NEW r \in Requests, CommitUpdate(r) \/ CommitInsert(r)
          PROVE  Lifecycle!Next
      <3>1. /\ life' = "live" /\ call[r].op \in StepOps \cup {"reopen"}
            /\ life = IF call[r].op = "create" THEN "unborn" ELSE "live"
        BY <2>2, SavedRow
      <3>2. /\ call[r].op = "reopen" =>
                 /\ row'.status = "DRAFT"
                 /\ UNCHANGED children
                 /\ row'.lastCompletedStep = row.lastCompletedStep
                 /\ row'.profileImage = row.profileImage
            /\ call[r].op \in StepOps => row.status = "DRAFT"
            /\ call[r].op = "create" => row'.status = "DRAFT"
        BY <2>2, CommitEffect
      <3>3. row.status \in {"DRAFT", "COMPLETED"} /\ row'.status \in {"DRAFT", "COMPLETED"}
        BY TypeInvariance DEF RowType
      <3>4. CASE call[r].op = "create"
        BY <3>1, <3>2, <3>4 DEF StepOps, Lifecycle!Next, Lifecycle!Create
      <3>5. CASE call[r].op = "reopen"
        BY <3>1, <3>2, <3>3, <3>5 DEF Lifecycle!Next, Lifecycle!Reopen, Lifecycle!Edit
      <3>6. CASE call[r].op \in StepOps \ {"create"}
        BY <3>1, <3>2, <3>3, <3>6 DEF StepOps, Lifecycle!Next, Lifecycle!Edit, Lifecycle!Complete
      <3> QED BY <3>1, <3>4, <3>5, <3>6
    <2>3. ASSUME NEW r \in Requests, DeleteRecord(r) PROVE [Lifecycle!Next]_Lifecycle!vars
      <3>1. life' \in {"gone", "closed"} /\ row' = NewRow /\ children' = {}
        BY <2>3 DEF DeleteRecord
      <3>2. CASE life \in {"gone", "closed"}
        <4>1. row = NewRow /\ children = {}
          BY <3>2 DEF LifecycleInvariant
        <4> QED BY <3>1, <3>2, <4>1 DEF Lifecycle!vars
      <3>3. CASE life \notin {"gone", "closed"}
        BY <3>1, <3>3 DEF RowType, Lifecycle!Next, Lifecycle!Remove
      <3> QED BY <3>2, <3>3
    <2> QED BY <2>1, <2>2, <2>3, RecordMoves
  <1> QED BY <1>1, <1>2, TypeCorrect, SerialCorrect, LifecycleInvariantCorrect, PTL
          DEF Spec, ImplementsLifecycle, Lifecycle!Spec

\* The stored progress of the form never goes back.
THEOREM ProgressNeverBack ==
  ASSUME OneAtATime
  PROVE  Spec => ProgressOnlyAdvances
  <1>1. TypeOK /\ SerialInvariant /\ LifecycleInvariant /\ [Next]_vars
          => [life = "live" /\ life' = "live"
                => row'.lastCompletedStep >= row.lastCompletedStep]_vars
    <2> SUFFICES ASSUME TypeOK, SerialInvariant, LifecycleInvariant, [Next]_vars,
                        life = "live", life' = "live"
                 PROVE  row'.lastCompletedStep >= row.lastCompletedStep
      OBVIOUS
    <2>1. CASE UNCHANGED <<life, row, children>>
      BY <2>1 DEF TypeOK, StoresOK, RowType
    <2>2. ASSUME NEW r \in Requests, CommitUpdate(r) \/ CommitInsert(r)
          PROVE  row'.lastCompletedStep >= row.lastCompletedStep
      BY <2>2, CommitEffect
    <2>3. ASSUME NEW r \in Requests, DeleteRecord(r) PROVE FALSE
      BY <2>3 DEF DeleteRecord
    <2> QED BY <2>1, <2>2, <2>3, RecordMoves
  <1> QED BY <1>1, TypeCorrect, SerialCorrect, LifecycleInvariantCorrect, PTL
          DEF Spec, ProgressOnlyAdvances

\* A COMPLETED record changes by a reopening or a removal only: that it changes under
\* interleaved steps (finding 1 of the README) is due to the interleaving alone.
THEOREM LockedOneAtATime ==
  ASSUME OneAtATime
  PROVE  Spec => CompletedIsLocked
  <1>1. TypeOK /\ SerialInvariant /\ LifecycleInvariant /\ [Next]_vars
          => [life = "live" /\ row.status = "COMPLETED" /\ <<row, children>>' # <<row, children>>
                => \E r \in Requests : call[r].op \in {"reopen", "remove", "close"} /\ pc'[r] # pc[r]]_vars
    <2> SUFFICES ASSUME TypeOK, SerialInvariant, LifecycleInvariant, [Next]_vars,
                        life = "live", row.status = "COMPLETED",
                        <<row, children>>' # <<row, children>>
                 PROVE  \E r \in Requests : call[r].op \in {"reopen", "remove", "close"} /\ pc'[r] # pc[r]
      OBVIOUS
    <2>1. ASSUME NEW r \in Requests, CommitUpdate(r) \/ CommitInsert(r)
          PROVE  call[r].op = "reopen" /\ pc'[r] # pc[r]
      <3>1. pc[r] = "write" /\ call[r].op \in StepOps \cup {"reopen"}
        BY <2>1, SavedRow
      <3>2. call[r].op \notin StepOps
        BY <2>1, CommitEffect
      <3>3. pc'[r] # "write"
        BY <2>1, TypeInvariance DEF CommitUpdate, CommitInsert, PublishAndGoOn, End, Goto, TypeOK, RequestsOK
      <3> QED BY <3>1, <3>2, <3>3
    <2>2. ASSUME NEW r \in Requests, DeleteRecord(r)
          PROVE  call[r].op \in {"remove", "close"} /\ pc'[r] # pc[r]
      <3>1. pc[r] = "cascade" /\ call[r].op \in {"remove", "close"}
        BY <2>2 DEF DeleteRecord, SerialInvariant, Flow, RowsFlow
      <3>2. pc'[r] = "cleanup"
        BY <2>2 DEF DeleteRecord, Goto, TypeOK, RequestsOK
      <3> QED BY <3>1, <3>2
    <2>3. ~UNCHANGED <<life, row, children>>
      OBVIOUS
    <2> QED BY <2>1, <2>2, <2>3, RecordMoves
  <1> QED BY <1>1, TypeCorrect, SerialCorrect, LifecycleInvariantCorrect, PTL
          DEF Spec, CompletedIsLocked

\* A job is only added for a document that is committed.
THEOREM QueuedAreCommitted ==
  ASSUME OneAtATime
  PROVE  Spec => QueuedOnlyAfterCommit
  <1>1. TypeOK /\ LifecycleInvariant /\ [Next]_vars => [jobs' \ jobs \subseteq children]_vars
    <2> SUFFICES ASSUME TypeOK, LifecycleInvariant, [Next]_vars
                 PROVE  jobs' \ jobs \subseteq children
      OBVIOUS
    <2>1. ASSUME NEW r \in Requests, Start(r) PROVE jobs' = jobs
      BY <2>1 DEF Start, StepOneCreate, StepOneUpdate, ChildStep, StepSix, Reopen, Remove,
         StageProfileImage, UploadDocument, Requeue, CloseAccount, stores
    <2>2. ASSUME NEW r \in Requests, QueueDocuments(r) \/ QueueFails(r)
          PROVE  jobs' \ jobs \subseteq children
      <3>1. pc[r] = "queue" /\ jobs' \ jobs \subseteq batch[r]
        BY <2>2 DEF QueueDocuments, QueueFails
      <3> QED BY <3>1 DEF LifecycleInvariant, QueuesCommitted
    <2>3. ASSUME NEW r \in Requests, Continue(r), ~(QueueDocuments(r) \/ QueueFails(r))
          PROVE  jobs' = jobs
      BY <2>3 DEF Continue, UpdateRow, DeleteRows, LockRows, InsertRows, AfterInsert, LockRecord, ApplyStepAction, SaveLoad,
         CommitUpdate, CommitInsert, PublishAndGoOn, ReopenMissed, DeleteRecord, RemoveMissed,
         PutDocument, Rollback, ConnectionLost, DeleteObject, CleanupDone, stores
    <2>4. ASSUME Timer \/ Crash \/ UNCHANGED vars PROVE jobs' = jobs
      BY <2>4 DEF Timer, PopRetry, RetryDeletion, ExpireStaged, Crash, vars
    <2> QED BY <2>1, <2>2, <2>3, <2>4 DEF Next
  <1> QED BY <1>1, TypeCorrect, LifecycleInvariantCorrect, PTL DEF Spec, QueuedOnlyAfterCommit

-----------------------------------------------------------------------------
(* No promoted image is left behind, for requests one after the other.     *)

\* A promoted image that is accounted for by something else than a request.
Settled(o) == o \in {row.profileImage, retrying} \cup retryList

\* While one request moves, the others have nothing in hand.
LEMMA WhoHolds ==
  ASSUME OneAtATime, TypeOK, SerialInvariant, ImagesAccounted, NEW r \in Requests,
         Start(r) \/ Continue(r), NEW o \in objects \cap Profiles
  PROVE  Settled(o) \/ (Active(r) /\ o \in trash[r] \cup CopyMade(r))
  <1>1. SUFFICES ASSUME ~Settled(o) PROVE Active(r) /\ o \in trash[r] \cup CopyMade(r)
    OBVIOUS
  <1>2. PICK q \in Requests : o \in InHand(q)
    BY <1>1 DEF ImagesAccounted, Settled
  <1>3. Active(q) /\ o \in trash[q] \cup CopyMade(q)
    BY <1>2 DEF InHand
  <1>4. MayStart(r) \/ Active(r)
    BY MoverIsFree
  <1>5. q = r
    BY <1>3, <1>4 DEF MayStart, Active, SerialInvariant, Alone
  <1> QED BY <1>3, <1>5

\* It is enough that the request that moves accounts for what is in storage.
LEMMA StillAccounted ==
  ASSUME OneAtATime, TypeOK, SerialInvariant, NEW r \in Requests, Start(r) \/ Continue(r),
         \A o \in objects' \cap Profiles :
            Settled(o)' \/ (Active(r)' /\ o \in (trash[r] \cup CopyMade(r))'),
         Discarding(r)'
  PROVE  ImagesAccounted'
  <1>1. \A q \in Requests \ {r} : Discarding(q)'
    BY OthersQuiet DEF Discarding, Active, Finished, Uncommitted
  <1>2. ASSUME NEW o \in objects' \cap Profiles, ~Settled(o)' PROVE o \in InHand(r)'
    BY <1>2 DEF InHand
  <1> QED BY <1>1, <1>2 DEF ImagesAccounted, Settled

LEMMA StartAccounts ==
  ASSUME OneAtATime, TypeOK, SerialInvariant, LifecycleInvariant, ImagesAccounted,
         NEW r \in Requests, Start(r)
  PROVE  ImagesAccounted'
  <1> USE DEF TypeOK, StoresOK, RequestsOK
  <1>1. pc[r] = "idle" /\ UNCHANGED <<row, retryList, retrying>>
    BY DEF Start, StepOneCreate, StepOneUpdate, ChildStep, StepSix, Reopen, Remove,
           StageProfileImage, UploadDocument, Requeue, CloseAccount, Begin, MayStart, stores
  <1>2. \A o \in objects \cap Profiles : Settled(o)'
    BY <1>1, WhoHolds DEF Active, Finished, Settled
  <1>3. row.profileImage \in Profiles \cup {None} /\ Files(Documents) \subseteq DocumentFiles
    BY FlowNow
  <1>4. ASSUME objects' \cap Profiles \subseteq objects, Discarding(r)' PROVE ImagesAccounted'
    BY <1>2, <1>4, StillAccounted
  <1>5. ASSUME StepOneCreate(r) PROVE ImagesAccounted'
    <2>1. PICK s \in {None} \cup Staged, a \in StepOneActions :
             LET image == Promoted(r, s, None) IN
             /\ Begin(r, "apply",
                 [op |-> "create", step |-> 1, action |-> a, updatesRow |-> FALSE],
                 [NewRow EXCEPT !.profileImage = image],
                 {}, StepOneTrash(s, None, image))
             /\ objects' = objects \cup ({image} \ {None})
      BY <1>5 DEF StepOneCreate
    <2> DEFINE image == Promoted(r, s, None)
    <2>2. /\ pc'[r] = "apply" /\ call'[r].op = "create" /\ entity'[r].profileImage = image
          /\ trash'[r] = StepOneTrash(s, None, image)
      BY <2>1, BeginEffect DEF NewRow
    <2>3. image \in {None, <<"profiles", r>>}
      BY DEF Promoted
    <2>4. trash'[r] \cap Profiles = {}
      BY <2>2 DEF StepOneTrash, Staged, Profiles
    <2>5. Discarding(r)'
      BY <2>2, <2>4 DEF Discarding
    <2>6. image # None => image \in CopyMade(r)'
      BY <2>2, <2>3 DEF CopyMade
    <2>7. \A o \in objects' \cap Profiles :
             Settled(o)' \/ (Active(r)' /\ o \in (trash[r] \cup CopyMade(r))')
      BY <1>2, <2>1, <2>2, <2>6 DEF Active, Finished
    <2> QED BY <2>5, <2>7, StillAccounted
  <1>6. ASSUME StepOneUpdate(r) PROVE ImagesAccounted'
    <2>1. PICK s \in {None, row.profileImage} \cup Staged, a \in StepOneActions :
             LET image == Promoted(r, s, row.profileImage) IN
             /\ Begin(r, "update",
                 [op |-> "stepOne", step |-> 1, action |-> a, updatesRow |-> TRUE],
                 [row EXCEPT !.profileImage = image],
                 {}, StepOneTrash(s, row.profileImage, image))
             /\ objects' = objects \cup ({image} \cap {<<"profiles", r>>})
      BY <1>6 DEF StepOneUpdate
    <2> DEFINE image == Promoted(r, s, row.profileImage)
    <2>2. /\ pc'[r] = "update" /\ call'[r].op = "stepOne" /\ entity'[r].profileImage = image
          /\ trash'[r] = StepOneTrash(s, row.profileImage, image)
      BY <2>1, BeginEffect DEF RowType
    <2>4. /\ trash'[r] \cap Profiles \subseteq {row.profileImage}
          /\ row.profileImage \in {None, image} \cup trash'[r]
      BY <2>2 DEF StepOneTrash, Staged, Profiles
    <2>5. Discarding(r)'
      BY <1>1, <2>2, <2>4 DEF Discarding
    <2>6. {image} \cap {<<"profiles", r>>} \subseteq CopyMade(r)'
      BY <2>2 DEF CopyMade
    <2>7. \A o \in objects' \cap Profiles :
             Settled(o)' \/ (Active(r)' /\ o \in (trash[r] \cup CopyMade(r))')
      BY <1>2, <2>1, <2>2, <2>6 DEF Active, Finished
    <2> QED BY <2>5, <2>7, StillAccounted
  <1>7. ASSUME ChildStep(r) \/ Reopen(r) PROVE ImagesAccounted'
    <2>1. /\ pc'[r] \in {"delete", "save"} /\ call'[r].op \in {"child", "reopen"}
          /\ trash'[r] = {} /\ objects' = objects
      <3>1. ASSUME ChildStep(r)
            PROVE  pc'[r] = "delete" /\ call'[r].op = "child" /\ trash'[r] = {}
        <4>1. PICK s \in ChildSteps, a \in StepOneActions, any \in BOOLEAN, touch \in BOOLEAN :
                 Begin(r, "delete",
                   [op |-> "child", step |-> s, action |-> a, updatesRow |-> touch],
                   NewRow, IF any THEN {[step |-> s, by |-> r, file |-> None]} ELSE {}, {})
          BY <3>1 DEF ChildStep
        <4> QED BY <4>1, BeginEffect
      <3>2. ASSUME Reopen(r)
            PROVE  pc'[r] = "save" /\ call'[r].op = "reopen" /\ trash'[r] = {}
        BY <3>2, BeginEffect DEF Reopen, Plain
      <3> QED BY <1>7, <3>1, <3>2 DEF ChildStep, Reopen, stores
    <2> QED BY <1>4, <2>1 DEF Discarding
  <1>8. ASSUME StepSix(r) PROVE ImagesAccounted'
    <2>1. /\ pc'[r] = "delete" /\ call'[r].op = "stepSix"
          /\ trash'[r] \subseteq Files(Documents) /\ objects' = objects
      BY <1>8, BeginEffect DEF StepSix, RemovedFiles, stores
    <2>2. trash'[r] \cap Profiles = {}
      BY <1>3, <2>1 DEF Profiles, DocumentFiles
    <2> QED BY <1>4, <2>1, <2>2 DEF Discarding
  <1>9. ASSUME Remove(r) PROVE ImagesAccounted'
    <2>1. /\ pc'[r] = "remove" /\ objects' = objects
          /\ trash'[r] = (Files(Documents) \cup {row.profileImage}) \ {None}
      BY <1>9, BeginEffect DEF Remove, stores
    <2>2. trash'[r] \cap Profiles \subseteq {row.profileImage}
      BY <1>3, <2>1 DEF Profiles, DocumentFiles
    <2> QED BY <1>1, <1>4, <2>1, <2>2 DEF Discarding, Uncommitted
  <1>10. ASSUME StageProfileImage(r) PROVE ImagesAccounted'
    <2>1. pc'[r] = "done" /\ objects' = objects \cup {<<"staging", r>>}
      BY <1>10 DEF StageProfileImage, Goto
    <2> QED BY <1>4, <2>1 DEF Discarding, Uncommitted, Profiles
  <1>11. ASSUME UploadDocument(r) \/ Requeue(r) PROVE ImagesAccounted'
    <2>1. /\ pc'[r] \in {"upload", "queue"} /\ trash'[r] = {} /\ objects' = objects
          /\ call'[r].op \in {"upload", "requeue"}
      BY <1>11, BeginEffect DEF UploadDocument, Requeue, Plain, stores
    <2> QED BY <1>4, <2>1 DEF Discarding, Uncommitted, CopyMade
  <1>12. ASSUME CloseAccount(r) PROVE ImagesAccounted'
    <2>1. /\ pc'[r] = "remove" /\ trash'[r] = {} /\ objects' = objects /\ call'[r].op = "close"
      BY <1>12, BeginEffect DEF CloseAccount, Plain, stores
    <2> QED BY <1>4, <2>1 DEF Discarding, Uncommitted
  <1> QED BY <1>5, <1>6, <1>7, <1>8, <1>9, <1>10, <1>11, <1>12 DEF Start

\* A request with nothing left in hand may end.
LEMMA EndAccounts ==
  ASSUME OneAtATime, TypeOK, SerialInvariant, ImagesAccounted, NEW r \in Requests,
         Start(r) \/ Continue(r), pc'[r] \in {"done", "failed"},
         objects' \cap Profiles \subseteq objects, UNCHANGED <<retryList, retrying>>,
         row'.profileImage = row.profileImage,
         \A o \in objects \cap Profiles : o \in trash[r] \cup CopyMade(r) => Settled(o)
  PROVE  ImagesAccounted'
  <1>1. \A o \in objects' \cap Profiles : Settled(o)'
    BY WhoHolds DEF Settled
  <1>2. Discarding(r)'
    BY DEF Discarding, Uncommitted
  <1> QED BY <1>1, <1>2, StillAccounted

\* A request that goes on with what it has in hand.
LEMMA GoesOnAccounted ==
  ASSUME OneAtATime, TypeOK, SerialInvariant, ImagesAccounted, NEW r \in Requests,
         Start(r) \/ Continue(r), Active(r)', UNCHANGED <<objects, retryList, retrying, row>>,
         (trash[r] \cup CopyMade(r)) \cap Profiles
            \subseteq (trash[r] \cup CopyMade(r))' \cup {row.profileImage},
         Discarding(r)'
  PROVE  ImagesAccounted'
  <1>1. ASSUME NEW o \in objects' \cap Profiles, ~Settled(o)'
        PROVE  o \in (trash[r] \cup CopyMade(r))'
    <2>1. ~Settled(o) /\ o # row.profileImage
      BY <1>1 DEF Settled
    <2> QED BY <1>1, <2>1, WhoHolds
  <1> QED BY <1>1, StillAccounted

LEMMA StatementsAccount ==
  ASSUME OneAtATime, TypeOK, SerialInvariant, LifecycleInvariant, ImagesAccounted,
         NEW r \in Requests, Continue(r),
         UpdateRow(r) \/ DeleteRows(r) \/ LockRows(r) \/ InsertRows(r)
         \/ ApplyStepAction(r) \/ SaveLoad(r)
  PROVE  ImagesAccounted'
  <1> USE DEF TypeOK, StoresOK, RequestsOK
  <1>1. Discarding(r) /\ RowStillThere(r)
    BY FlowNow DEF ImagesAccounted
  <1>2. /\ pc[r] \in Uncommitted /\ UNCHANGED <<objects, retryList, retrying, row>>
        /\ call'[r] = call[r] /\ trash'[r] = trash[r]
    BY DEF UpdateRow, DeleteRows, LockRows, InsertRows, AfterInsert, ApplyStepAction, SaveLoad,
           Goto, stores, locals, Uncommitted
  <1>3. pc'[r] \in Uncommitted \ {"delete"}
    BY <1>1, <1>2 DEF UpdateRow, DeleteRows, LockRows, InsertRows, AfterInsert,
       ApplyStepAction, SaveLoad, Goto, Uncommitted, RowStillThere, RowIsVisible
  <1>4. call[r].op \in {"create", "stepOne"} => entity'[r].profileImage = entity[r].profileImage
    <2>1. ASSUME ApplyStepAction(r), call[r].op \in {"create", "stepOne"}
          PROVE  entity'[r].profileImage = entity[r].profileImage
      <3>1. OwnRow(r) \in RowType /\ entity'[r] = Applied(OwnRow(r), r)
        BY <2>1, OwnRowTyped DEF ApplyStepAction
      <3>2. OwnRow(r).profileImage = entity[r].profileImage
        BY <2>1 DEF OwnRow, RowType
      <3> QED BY <3>1, <3>2, AppliedTwice
    <2> QED BY <2>1 DEF UpdateRow, DeleteRows, LockRows, InsertRows, SaveLoad, Goto, locals
  <1>5. CopyMade(r)' = CopyMade(r)
    BY <1>2, <1>4 DEF CopyMade
  <1>6. Discarding(r)'
    BY <1>1, <1>2, <1>3, <1>4 DEF Discarding, Uncommitted
  <1> QED BY <1>2, <1>3, <1>5, <1>6, GoesOnAccounted DEF Active, Finished, Uncommitted

LEMMA CommitAccounts ==
  ASSUME OneAtATime, TypeOK, SerialInvariant, LifecycleInvariant, ImagesAccounted,
         NEW r \in Requests, Continue(r), CommitUpdate(r) \/ CommitInsert(r)
  PROVE  ImagesAccounted'
  <1> USE DEF TypeOK, StoresOK, RequestsOK
  <1>1. /\ pc[r] = "write" /\ row' = entity[r] /\ PublishAndGoOn(r)
        /\ call[r].op \in StepOps \cup {"reopen"}
        /\ life = IF call[r].op = "create" THEN "unborn" ELSE "live"
    BY SavedRow DEF CommitUpdate, CommitInsert
  <1>2. Discarding(r) /\ ImageFlow(r) /\ FilesFlow(r)
    BY FlowNow DEF ImagesAccounted
  <1>3. call[r].op \notin {"create", "stepOne"} => entity[r].profileImage = row.profileImage
    BY <1>1, <1>2 DEF ImageFlow
  <1>4. call[r].op \in {"create", "stepOne"} =>
           row.profileImage \in {None, entity[r].profileImage} \cup trash[r]
    <2>1. CASE call[r].op = "create"
      BY <1>1, <2>1 DEF LifecycleInvariant, NewRow
    <2>2. CASE call[r].op = "stepOne"
      BY <1>1, <1>2, <2>2 DEF Discarding, Uncommitted
    <2> QED BY <2>1, <2>2
  <1>5. UNCHANGED <<objects, retryList, retrying>>
    BY <1>1 DEF PublishAndGoOn
  <1>6. CASE call[r].op \in {"create", "stepOne", "stepSix"}
    <2>1. /\ pc'[r] = "cleanup" /\ call'[r] = call[r] /\ trash'[r] = trash[r]
          /\ entity'[r].profileImage = None
      BY <1>1, <1>6 DEF PublishAndGoOn, Goto, NewRow
    <2>2. Discarding(r)'
      <3>1. <<"profiles", r>> # None
        BY ConstantsAssumption DEF Objects, Names
      <3> QED BY <2>1, <3>1 DEF Discarding, Uncommitted, CopyMade
    <2>3. ASSUME NEW o \in objects' \cap Profiles
          PROVE  Settled(o)' \/ o \in trash'[r]
      <3>1. o # None /\ o \in objects
        BY <1>5, <2>3, ConstantsAssumption
      <3>2. Settled(o) \/ o \in trash[r] \/ o \in CopyMade(r)
        BY <2>3, <3>1, WhoHolds
      <3>3. ASSUME o \in CopyMade(r) PROVE o = row'.profileImage
        BY <1>1, <3>3 DEF CopyMade
      <3>4. ASSUME Settled(o) PROVE Settled(o)' \/ o \in trash[r]
        BY <1>1, <1>3, <1>4, <1>5, <1>6, <3>1, <3>4 DEF Settled
      <3> QED BY <2>1, <3>2, <3>3, <3>4 DEF Settled
    <2> QED BY <2>1, <2>2, <2>3, StillAccounted DEF Active, Finished
  <1>7. CASE call[r].op \in {"child", "reopen"}
    <2>1. trash[r] = {} /\ CopyMade(r) = {}
      BY <1>1, <1>2, <1>7 DEF FilesFlow, Uncommitted, CopyMade
    <2>2. pc'[r] = "done"
      BY <1>1, <1>7 DEF PublishAndGoOn, End
    <2> QED BY <1>1, <1>3, <1>5, <1>7, <2>1, <2>2, EndAccounts
  <1> QED BY <1>1, <1>6, <1>7 DEF StepOps

LEMMA ContinueAccounts ==
  ASSUME OneAtATime, "redis" \notin Faults, TypeOK, SerialInvariant, LifecycleInvariant,
         ImagesAccounted, NEW r \in Requests, Continue(r), "connection" \notin Faults,
         life # "closed", life' # "closed"
  PROVE  ImagesAccounted'
  <1> USE DEF TypeOK, StoresOK, RequestsOK
  <1>1. Discarding(r) /\ RowStillThere(r) /\ RowsFlow(r)
    BY FlowNow DEF ImagesAccounted
  <1>2. ~(ReopenMissed(r) \/ RemoveMissed(r))
    BY <1>1 DEF ReopenMissed, RemoveMissed, RowStillThere, Uncommitted
  <1>8. ASSUME LockRecord(r) PROVE ImagesAccounted'
    <2>1. /\ pc[r] = "remove" /\ pc'[r] = "cascade"
          /\ UNCHANGED <<row, objects, retryList, retrying, trash, call, entity>>
      BY <1>8 DEF LockRecord, Goto, stores, locals
    <2>2. CopyMade(r)' = CopyMade(r)
      BY <2>1 DEF CopyMade
    <2>3. Discarding(r)'
      BY <1>1, <2>1 DEF Discarding, Uncommitted
    <2> QED BY <2>1, <2>2, <2>3, GoesOnAccounted DEF Active, Finished
  <1>9. ASSUME ConnectionLost(r) PROVE ImagesAccounted'
    BY <1>9 DEF ConnectionLost
  <1>3. ASSUME PutDocument(r) \/ QueueDocuments(r) \/ QueueFails(r) PROVE ImagesAccounted'
    <2>1. /\ pc[r] \in {"upload", "queue"} /\ pc'[r] \in {"done", "failed"}
          /\ objects' \subseteq objects \cup {<<"documents", r>>}
          /\ UNCHANGED <<row, retryList, retrying>>
      BY <1>3 DEF PutDocument, QueueDocuments, QueueFails, End
    <2>2. trash[r] = {} /\ CopyMade(r) = {}
      BY <1>1, <2>1 DEF Discarding
    <2>3. objects' \cap Profiles \subseteq objects
      BY <2>1 DEF Profiles
    <2> QED BY <2>1, <2>2, <2>3, EndAccounts
  <1>4. ASSUME DeleteRecord(r) PROVE ImagesAccounted'
    <2>1. /\ pc[r] = "cascade" /\ pc'[r] = "cleanup" /\ row'.profileImage = None
          /\ call[r].op # "close"
          /\ UNCHANGED <<objects, retryList, retrying, trash, call, entity>>
      BY <1>4 DEF DeleteRecord, Goto, locals, NewRow
    <2>2. CopyMade(r) = {} /\ CopyMade(r)' = {}
      BY <1>1, <2>1 DEF RowsFlow, CopyMade
    <2>3. row.profileImage \in {None} \cup trash[r]
      BY <1>1, <2>1 DEF Discarding, RowsFlow
    <2>4. Discarding(r)'
      BY <2>1, <2>2 DEF Discarding, Uncommitted
    <2>5. ASSUME NEW o \in objects' \cap Profiles PROVE Settled(o)' \/ o \in trash'[r]
      <3>1. o # None /\ o \in objects
        BY <2>1, <2>5, ConstantsAssumption
      <3>2. Settled(o) \/ o \in trash[r]
        BY <2>2, <2>5, <3>1, WhoHolds
      <3> QED BY <2>1, <2>3, <3>1, <3>2 DEF Settled
    <2> QED BY <2>1, <2>4, <2>5, StillAccounted DEF Active, Finished
  <1>5. ASSUME Rollback(r) PROVE ImagesAccounted'
    <2>1. pc[r] \in Uncommitted \cup {"remove", "cascade"}
      BY <1>1, <1>5 DEF Rollback, Doomed, Deadlocked, WaitsFor, OnDatabase, Uncommitted,
         RowStillThere
    <2>2. UNCHANGED <<row, objects, retryList, retrying>>
      BY <1>5 DEF Rollback, stores
    <2>3. \A o \in trash[r] \cap Profiles : o = row.profileImage
      BY <1>1, <2>1 DEF Discarding
    <2>4. CASE CopyMade(r) = {}
      <3>1. pc'[r] = "failed"
        BY <1>5, <2>4 DEF Rollback, End
      <3> QED BY <2>2, <2>3, <2>4, <3>1, EndAccounts DEF Settled
    <2>5. CASE CopyMade(r) # {}
      <3>1. /\ pc'[r] = "undo" /\ trash'[r] = CopyMade(r) /\ call'[r] = call[r]
            /\ entity'[r].profileImage = None
        BY <1>5, <2>5 DEF Rollback, Goto, NewRow
      <3>2. Discarding(r)'
        <4>1. <<"profiles", r>> # None
          BY ConstantsAssumption DEF Objects, Names
        <4> QED BY <3>1, <4>1 DEF Discarding, Uncommitted, CopyMade
      <3> QED BY <2>2, <2>3, <3>1, <3>2, GoesOnAccounted DEF Active, Finished
    <2> QED BY <2>4, <2>5
  <1>6. ASSUME DeleteObject(r) PROVE ImagesAccounted'
    <2>1. PICK o \in trash[r] : Delete(o) /\ trash' = [trash EXCEPT ![r] = @ \ {o}]
      BY <1>6 DEF DeleteObject
    <2>2. pc[r] \in {"cleanup", "undo"} /\ UNCHANGED <<row, retrying, pc, call, entity>>
      BY <1>6 DEF DeleteObject
    <2>3. objects' \subseteq objects /\ retryList \subseteq retryList'
          /\ (o \in objects' => o \in retryList')
      BY <2>1, DeleteEffect
    <2>4. trash'[r] = trash[r] \ {o} /\ CopyMade(r)' = CopyMade(r)
      BY <2>1, <2>2 DEF CopyMade
    <2>5. Discarding(r)'
      BY <1>1, <2>2, <2>4 DEF Discarding, Uncommitted
    <2>6. ASSUME NEW p \in objects' \cap Profiles
          PROVE  Settled(p)' \/ p \in (trash[r] \cup CopyMade(r))'
      <3>1. Settled(p) \/ p \in trash[r] \cup CopyMade(r)
        BY <2>3, <2>6, WhoHolds
      <3> QED BY <2>2, <2>3, <2>4, <2>6, <3>1 DEF Settled
    <2> QED BY <2>2, <2>5, <2>6, StillAccounted DEF Active, Finished
  <1>7. ASSUME CleanupDone(r) PROVE ImagesAccounted'
    <2>1. /\ pc[r] \in {"cleanup", "undo"} /\ trash[r] = {}
          /\ UNCHANGED <<row, objects, retryList, retrying>>
      BY <1>7 DEF CleanupDone, stores
    <2>2. CopyMade(r) = {}
      BY <1>1, <2>1 DEF Discarding
    <2>3. CASE pc[r] = "cleanup" /\ QueuesDocuments(r)
      <3>1. pc'[r] = "queue" /\ UNCHANGED <<trash, call, entity>>
        BY <1>7, <2>3 DEF CleanupDone, Goto, locals
      <3>2. Discarding(r)'
        BY <2>1, <2>2, <3>1 DEF Discarding, Uncommitted, CopyMade
      <3> QED BY <2>1, <2>2, <3>1, <3>2, GoesOnAccounted DEF Active, Finished
    <2>4. CASE ~(pc[r] = "cleanup" /\ QueuesDocuments(r))
      <3>1. pc'[r] \in {"done", "failed"}
        BY <1>7, <2>4 DEF CleanupDone, End
      <3> QED BY <2>1, <2>2, <3>1, EndAccounts
    <2> QED BY <2>3, <2>4
  <1> QED BY <1>2, <1>3, <1>4, <1>5, <1>6, <1>7, <1>8, <1>9, StatementsAccount, CommitAccounts
          DEF Continue

\* The timer only takes what it is going to delete from the list, and deletes it.
LEMMA TimerAccounts ==
  ASSUME "redis" \notin Faults, TypeOK, ImagesAccounted, Timer \/ UNCHANGED vars
  PROVE  ImagesAccounted'
  <1>1. UNCHANGED <<row, pc, call, entity, trash>>
    BY DEF Timer, PopRetry, RetryDeletion, ExpireStaged, locals, vars
  <1>2. \A r \in Requests : Discarding(r)' /\ InHand(r)' = InHand(r)
    BY <1>1 DEF ImagesAccounted, Discarding, InHand, Active, CopyMade
  <1>3. ASSUME NEW o \in objects' \cap Profiles PROVE o \in objects /\ (Settled(o) => Settled(o)')
    <2>1. o # None
      BY <1>3, ConstantsAssumption DEF Profiles, Objects, Names
    <2>2. CASE PopRetry
      BY <1>1, <1>3, <2>1, <2>2 DEF PopRetry, Settled
    <2>3. CASE RetryDeletion
      <3>1. /\ objects' \subseteq objects /\ retryList \subseteq retryList'
            /\ (retrying \in objects' => retrying \in retryList')
        BY <2>3, DeleteEffect DEF RetryDeletion
      <3> QED BY <1>1, <1>3, <3>1 DEF Settled
    <2>4. CASE ExpireStaged
      <3>1. PICK s \in Staged : Delete(s)
        BY <2>4 DEF ExpireStaged
      <3>2. objects' \subseteq objects /\ retryList \subseteq retryList' /\ retrying' = retrying
        BY <2>4, <3>1, DeleteEffect DEF ExpireStaged
      <3> QED BY <1>1, <1>3, <3>2 DEF Settled
    <2>5. CASE UNCHANGED vars
      BY <1>3, <2>5 DEF vars, Settled
    <2> QED BY <2>2, <2>3, <2>4, <2>5 DEF Timer
  <1>4. ASSUME NEW o \in objects' \cap Profiles, ~Settled(o)'
        PROVE  \E r \in Requests : o \in InHand(r)'
    <2>1. PICK r \in Requests : o \in InHand(r)
      BY <1>3, <1>4 DEF ImagesAccounted, Settled
    <2> QED BY <1>2, <2>1
  <1> QED BY <1>2, <1>4 DEF ImagesAccounted, Settled

\* An account that is gone does not come back.
LEMMA ClosedForGood ==
  ASSUME SerialInvariant, [Next]_vars, life = "closed"
  PROVE  life' = "closed"
  <1>1. ASSUME NEW r \in Requests, Start(r) PROVE life' = life
    BY <1>1 DEF Start, StepOneCreate, StepOneUpdate, ChildStep, StepSix, Reopen, Remove,
       StageProfileImage, UploadDocument, Requeue, CloseAccount, Editable, stores
  <1>2. ASSUME NEW r \in Requests, CommitUpdate(r) PROVE FALSE
    BY <1>2 DEF CommitUpdate
  <1>3. ASSUME NEW r \in Requests, CommitInsert(r) PROVE FALSE
    <2>1. RowStillThere(r)
      BY FlowNow
    <2> QED BY <1>3, <2>1 DEF CommitInsert, RowStillThere, Uncommitted
  <1>4. ASSUME NEW r \in Requests, DeleteRecord(r) PROVE life' = "closed"
    BY <1>4, FlowNow DEF DeleteRecord, RowStillThere
  <1>5. ASSUME NEW r \in Requests, Continue(r), ~CommitUpdate(r), ~CommitInsert(r),
               ~DeleteRecord(r)
        PROVE  life' = life
    BY <1>5 DEF Continue, UpdateRow, DeleteRows, LockRows, InsertRows, ApplyStepAction, SaveLoad,
       ReopenMissed, LockRecord, RemoveMissed, PutDocument, QueueDocuments, QueueFails,
       Rollback, ConnectionLost, DeleteObject, CleanupDone, stores
  <1>6. ASSUME Timer \/ Crash \/ UNCHANGED vars PROVE life' = life
    BY <1>6 DEF Timer, PopRetry, RetryDeletion, ExpireStaged, Crash, vars
  <1> QED BY <1>1, <1>2, <1>3, <1>4, <1>5, <1>6 DEF Next

\* While the account of its owner exists, with nothing under way, no promoted image is
\* left behind in storage: the steps' and the removal's clean-up miss none, unless Redis
\* does not take note of a failed deletion, a ROLLBACK fails or the process dies.
THEOREM NoImageLeftBehind ==
  ASSUME OneAtATime, "redis" \notin Faults, "connection" \notin Faults, "crash" \notin Faults
  PROVE  Spec => []NoOrphanedImage
  <1> DEFINE Kept == life # "closed" => ImagesAccounted
  <1>1. Init => Kept
    <2> SUFFICES ASSUME Init PROVE ImagesAccounted
      OBVIOUS
    <2>1. objects \cap Profiles = {}
      BY DEF Init, Profiles
    <2> QED BY <2>1 DEF Init, ImagesAccounted, Discarding, Uncommitted
  <1>2. TypeOK /\ SerialInvariant /\ LifecycleInvariant /\ Kept /\ [Next]_vars => Kept'
    <2> SUFFICES ASSUME TypeOK, SerialInvariant, LifecycleInvariant, Kept, [Next]_vars,
                        life' # "closed"
                 PROVE  ImagesAccounted'
      OBVIOUS
    <2>1. life # "closed" /\ ImagesAccounted
      BY ClosedForGood
    <2> QED BY <2>1, StartAccounts, ContinueAccounts, TimerAccounts DEF Next, Crash
  <1>3. TypeOK /\ Kept => NoOrphanedImage
    <2> SUFFICES ASSUME TypeOK, ImagesAccounted, AtRest, NEW o \in objects, o[1] = "profiles"
                 PROVE  Settled(o)
      BY DEF NoOrphanedImage, Settled
    <2>1. o \in Profiles
      BY DEF TypeOK, StoresOK, Objects, Profiles
    <2>2. \A r \in Requests : InHand(r) = {}
      BY DEF AtRest, InHand, Active
    <2> QED BY <2>1, <2>2 DEF ImagesAccounted, Settled
  <1> HIDE DEF Kept
  <1> QED BY <1>1, <1>2, <1>3, TypeCorrect, SerialCorrect, LifecycleInvariantCorrect, PTL DEF Spec
=============================================================================
