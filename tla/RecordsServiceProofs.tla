------------------------ MODULE RecordsServiceProofs ------------------------
(***************************************************************************)
(* Machine-checked theorems about RecordsService, for every set of         *)
(* requests, of earlier uploads and of faults.                             *)
(***************************************************************************)
EXTENDS RecordsServiceInvariant, TLAPS

-----------------------------------------------------------------------------
(* Type correctness. *)

\* The record types are inhabited by the null values used to reset requests.
LEMMA NullsTyped ==
  /\ NewRow \in RowType
  /\ NoCall \in CallType
  /\ \A op \in AllOps : Plain(op) \in CallType
  BY DEF NewRow, RowType, NoCall, Plain, CallType, Actions

\* A request that ends leaves well-typed local state.
LEMMA EndTyped ==
  ASSUME RequestsOK, NEW r \in Requests, NEW o \in {"done", "failed"}, End(r, o)
  PROVE  RequestsOK'
  BY NullsTyped DEF RequestsOK, End, Places

\* A request that begins with well-typed data leaves well-typed local state.
LEMMA BeginTyped ==
  ASSUME RequestsOK, NEW r \in Requests, NEW w \in Places, NEW c \in CallType,
         NEW e \in RowType, NEW b \in SUBSET ChildType, NEW t \in SUBSET Objects,
         Begin(r, w, c, e, b, t)
  PROVE  RequestsOK'
  BY DEF RequestsOK, Begin

\* The image step one promotes, its copy and its trash are objects.
LEMMA PromotedTyped ==
  ASSUME NEW r \in Requests, NEW s \in Objects \cup {None}, NEW c \in Objects \cup {None}
  PROVE  /\ Promoted(r, s, c) \in Objects \cup {None}
         /\ Promoted(r, s, c) \in {None, c, <<"profiles", r>>}
         /\ <<"profiles", r>> \in Objects
  BY DEF Promoted, Objects, Names

\* What a step action makes of a row is a row.
LEMMA AppliedTyped ==
  ASSUME NEW r \in Requests, RequestsOK, NEW old \in RowType
  PROVE  Applied(old, r) \in RowType
  BY DEF Applied, RowType, RequestsOK, CallType, Actions, Larger

\* The row a request sees is a row.
LEMMA OwnRowTyped ==
  ASSUME TypeOK, NEW r \in Requests
  PROVE  OwnRow(r) \in RowType
  BY DEF TypeOK, StoresOK, RequestsOK, OwnRow, RowType

\* What save writes is a row.
LEMMA MergedTyped ==
  ASSUME TypeOK, NEW r \in Requests
  PROVE  Merged(r) \in RowType
  BY DEF TypeOK, StoresOK, RequestsOK, Merged, Column, RowType

\* Publishing a transaction keeps the request and the child rows well typed.
LEMMA PublishTyped ==
  ASSUME TypeOK, NEW r \in Requests, PublishAndGoOn(r)
  PROVE  RequestsOK' /\ children' \subseteq ChildType
  <1> USE DEF TypeOK, StoresOK
  <1>1. children' \subseteq ChildType
    BY DEF PublishAndGoOn, RequestsOK
  <1>2. ASSUME call[r].op \in {"create", "stepOne", "stepSix"} PROVE RequestsOK'
    BY <1>2, NullsTyped DEF PublishAndGoOn, RequestsOK, Goto, Places
  <1>3. ASSUME call[r].op \notin {"create", "stepOne", "stepSix"} PROVE RequestsOK'
    <2>1. End(r, "done")
      BY <1>3 DEF PublishAndGoOn
    <2> QED BY <2>1, EndTyped
  <1> QED BY <1>1, <1>2, <1>3

\* Deleting an object, or failing to, leaves well-typed stores.
LEMMA DeleteTyped ==
  ASSUME StoresOK, NEW o \in Objects, Delete(o)
  PROVE  objects' \subseteq Objects /\ retryList' \subseteq Objects
  BY DEF StoresOK, Delete

\* The variables keep their types, whatever the requests do and whatever fails.
LEMMA TypeInvariance == TypeOK /\ [Next]_vars => TypeOK'
  <1> SUFFICES ASSUME TypeOK, [Next]_vars PROVE TypeOK'
    OBVIOUS
  <1> USE DEF TypeOK
  <1>0. ASSUME UNCHANGED vars PROVE TypeOK'
    BY <1>0 DEF vars, StoresOK, RequestsOK
  <1>1. ASSUME NEW r \in Requests, StepOneCreate(r) PROVE TypeOK'
    <2>1. PICK s \in {None} \cup Staged, a \in StepOneActions :
             LET image == Promoted(r, s, None) IN
             /\ Begin(r, "apply",
                 [op |-> "create", step |-> 1, action |-> a, updatesRow |-> FALSE],
                 [NewRow EXCEPT !.profileImage = image],
                 {}, StepOneTrash(s, None, image))
             /\ objects' = objects \cup ({image} \ {None})
             /\ UNCHANGED <<life, row, children, retryList, retrying, jobs>>
      BY <1>1 DEF StepOneCreate
    <2>2. s \in Objects \cup {None} /\ Promoted(r, s, None) \in Objects \cup {None}
      BY PromotedTyped DEF Staged, StoresOK
    <2>3. /\ [NewRow EXCEPT !.profileImage = Promoted(r, s, None)] \in RowType
          /\ [op |-> "create", step |-> 1, action |-> a, updatesRow |-> FALSE] \in CallType
      BY <2>2, NullsTyped DEF RowType, CallType, AllOps, Actions, StepOneActions
    <2>4. StepOneTrash(s, None, Promoted(r, s, None)) \in SUBSET Objects
      BY <2>2 DEF StepOneTrash
    <2>5. RequestsOK'
      BY <2>1, <2>3, <2>4, BeginTyped DEF Places
    <2> QED BY <2>1, <2>2, <2>5 DEF StoresOK
  <1>2. ASSUME NEW r \in Requests, StepOneUpdate(r) PROVE TypeOK'
    <2>1. PICK s \in {None, row.profileImage} \cup Staged, a \in StepOneActions :
             LET image == Promoted(r, s, row.profileImage) IN
             /\ Begin(r, "update",
                 [op |-> "stepOne", step |-> 1, action |-> a, updatesRow |-> TRUE],
                 [row EXCEPT !.profileImage = image],
                 {}, StepOneTrash(s, row.profileImage, image))
             /\ objects' = objects \cup ({image} \cap {<<"profiles", r>>})
             /\ UNCHANGED <<life, row, children, retryList, retrying, jobs>>
      BY <1>2 DEF StepOneUpdate
    <2>2. /\ s \in Objects \cup {None} /\ row.profileImage \in Objects \cup {None}
          /\ Promoted(r, s, row.profileImage) \in Objects \cup {None}
      BY PromotedTyped DEF Staged, StoresOK, RowType
    <2>3. /\ [row EXCEPT !.profileImage = Promoted(r, s, row.profileImage)] \in RowType
          /\ [op |-> "stepOne", step |-> 1, action |-> a, updatesRow |-> TRUE] \in CallType
      BY <2>2 DEF StoresOK, RowType, CallType, AllOps, Actions, StepOneActions
    <2>4. StepOneTrash(s, row.profileImage, Promoted(r, s, row.profileImage)) \in SUBSET Objects
      BY <2>2 DEF StepOneTrash
    <2>5. RequestsOK'
      BY <2>1, <2>3, <2>4, BeginTyped DEF Places
    <2> QED BY <2>1, <2>2, <2>5 DEF StoresOK
  <1>3. ASSUME NEW r \in Requests, ChildStep(r) PROVE TypeOK'
    <2>1. PICK s \in ChildSteps, a \in StepOneActions, any \in BOOLEAN, touch \in BOOLEAN :
             /\ Begin(r, "delete",
                 [op |-> "child", step |-> s, action |-> a, updatesRow |-> touch],
                 NewRow, IF any THEN {[step |-> s, by |-> r, file |-> None]} ELSE {}, {})
             /\ UNCHANGED stores
      BY <1>3 DEF ChildStep
    <2>2. s \in 2 .. 5
      BY ConstantsAssumption
    <2>3. /\ [op |-> "child", step |-> s, action |-> a, updatesRow |-> touch] \in CallType
          /\ [step |-> s, by |-> r, file |-> None] \in ChildType
      BY <2>2 DEF CallType, AllOps, Actions, StepOneActions, ChildType
    <2>4. RequestsOK'
      BY <2>1, <2>3, NullsTyped, BeginTyped DEF Places
    <2> QED BY <2>1, <2>4 DEF StoresOK, stores
  <1>4. ASSUME NEW r \in Requests, StepSix(r) PROVE TypeOK'
    <2>1. PICK kept \in SUBSET {d \in Documents : d.file # None}, a \in Actions,
               fresh \in SUBSET ({None} \cup {o \in objects : o[1] = "documents"}) :
             LET files == {d.file : d \in kept} \cup fresh IN
             /\ Begin(r, "delete",
                 [op |-> "stepSix", step |-> 6, action |-> a, updatesRow |-> FALSE],
                 NewRow, {[step |-> 6, by |-> r, file |-> f] : f \in files},
                 RemovedFiles(files))
             /\ UNCHANGED stores
      BY <1>4 DEF StepSix
    <2> DEFINE files == {d.file : d \in kept} \cup fresh
    <2>2. files \subseteq Objects \cup {None} /\ RemovedFiles(files) \in SUBSET Objects
      BY DEF RemovedFiles, Documents, RowsOf, Files, StoresOK, ChildType
    <2>3. /\ [op |-> "stepSix", step |-> 6, action |-> a, updatesRow |-> FALSE] \in CallType
          /\ {[step |-> 6, by |-> r, file |-> f] : f \in files} \in SUBSET ChildType
      BY <2>2 DEF CallType, AllOps, Actions, ChildType
    <2> HIDE DEF files
    <2>5. RequestsOK'
      BY <2>1, <2>2, <2>3, NullsTyped, BeginTyped DEF Places, files
    <2> QED BY <2>1, <2>5 DEF StoresOK, stores
  <1>5. ASSUME NEW r \in Requests, Reopen(r) PROVE TypeOK'
    <2>1. /\ Reopened(row) \in RowType
          /\ Plain("reopen") \in CallType
      BY NullsTyped DEF Reopened, StoresOK, RowType, AllOps
    <2>2. RequestsOK'
      BY <1>5, <2>1, BeginTyped DEF Reopen, Places
    <2> QED BY <1>5, <2>2 DEF Reopen, StoresOK, stores
  <1>6. ASSUME NEW r \in Requests, Remove(r) PROVE TypeOK'
    <2>1. /\ (Files(Documents) \cup {row.profileImage}) \ {None} \in SUBSET Objects
          /\ Plain("remove") \in CallType
      BY NullsTyped DEF StoresOK, RowType, AllOps, Files, Documents, RowsOf, ChildType
    <2>2. RequestsOK'
      BY <1>6, <2>1, NullsTyped, BeginTyped DEF Remove, Places
    <2> QED BY <1>6, <2>2 DEF Remove, StoresOK, stores
  <1>7. ASSUME NEW r \in Requests, StageProfileImage(r) PROVE TypeOK'
    BY <1>7 DEF StageProfileImage, StoresOK, RequestsOK, Goto, locals, Objects, Names, Places
  <1>8. ASSUME NEW r \in Requests, UploadDocument(r) PROVE TypeOK'
    <2>1. Plain("upload") \in CallType
      BY NullsTyped DEF AllOps
    <2>2. RequestsOK'
      BY <1>8, <2>1, NullsTyped, BeginTyped DEF UploadDocument, Places
    <2> QED BY <1>8, <2>2 DEF UploadDocument, StoresOK, stores
  <1>9. ASSUME NEW r \in Requests, Requeue(r) PROVE TypeOK'
    <2>1. PICK docs \in SUBSET Documents :
             /\ Begin(r, "queue", Plain("requeue"), NewRow, docs, {})
             /\ UNCHANGED stores
      BY <1>9 DEF Requeue
    <2>2. Plain("requeue") \in CallType /\ docs \in SUBSET ChildType
      BY NullsTyped DEF AllOps, StoresOK, Documents, RowsOf
    <2>3. RequestsOK'
      BY <2>1, <2>2, NullsTyped, BeginTyped DEF Places
    <2> QED BY <2>1, <2>3 DEF StoresOK, stores
  <1>10. ASSUME NEW r \in Requests, UpdateRow(r) PROVE TypeOK'
    BY <1>10 DEF UpdateRow, StoresOK, RequestsOK, Goto, locals, stores, Places
  <1>11. ASSUME NEW r \in Requests, DeleteRows(r) PROVE TypeOK'
    BY <1>11 DEF DeleteRows, RowsOf, StoresOK, RequestsOK, Goto, stores, Places
  <1>12. ASSUME NEW r \in Requests, LockRows(r) \/ InsertRows(r) \/ LockRecord(r) PROVE TypeOK'
    BY <1>12 DEF LockRows, InsertRows, AfterInsert, LockRecord, StoresOK, RequestsOK, Goto, locals, stores, Places
  <1>13. ASSUME NEW r \in Requests, ApplyStepAction(r) PROVE TypeOK'
    <2>1. Applied(OwnRow(r), r) \in RowType
      BY OwnRowTyped, AppliedTyped
    <2> QED BY <1>13, <2>1 DEF ApplyStepAction, StoresOK, RequestsOK, Goto, stores, Places
  <1>14. ASSUME NEW r \in Requests, SaveLoad(r) PROVE TypeOK'
    BY <1>14, OwnRowTyped DEF SaveLoad, StoresOK, RequestsOK, Goto, stores, Places
  <1>15. ASSUME NEW r \in Requests, CommitUpdate(r) PROVE TypeOK'
    <2>1. RequestsOK' /\ children' \subseteq ChildType /\ row' \in RowType
      BY <1>15, PublishTyped, MergedTyped DEF CommitUpdate
    <2> QED BY <1>15, <2>1 DEF CommitUpdate, PublishAndGoOn, StoresOK
  <1>16. ASSUME NEW r \in Requests, CommitInsert(r) PROVE TypeOK'
    <2>1. RequestsOK' /\ children' \subseteq ChildType /\ row' \in RowType
      BY <1>16, PublishTyped DEF CommitInsert, RequestsOK
    <2> QED BY <1>16, <2>1 DEF CommitInsert, PublishAndGoOn, StoresOK
  <1>17. ASSUME NEW r \in Requests, ReopenMissed(r) \/ RemoveMissed(r) PROVE TypeOK'
    BY <1>17, EndTyped DEF ReopenMissed, RemoveMissed, StoresOK, stores
  <1>18. ASSUME NEW r \in Requests, DeleteRecord(r) PROVE TypeOK'
    BY <1>18, NullsTyped DEF DeleteRecord, StoresOK, RequestsOK, Goto, locals, Places
  <1>19. ASSUME NEW r \in Requests, PutDocument(r) PROVE TypeOK'
    BY <1>19, EndTyped DEF PutDocument, StoresOK, Objects, Names
  <1>20. ASSUME NEW r \in Requests, QueueDocuments(r) PROVE TypeOK'
    BY <1>20, EndTyped DEF QueueDocuments, StoresOK, RequestsOK
  <1>21. ASSUME NEW r \in Requests, QueueFails(r) PROVE TypeOK'
    <2>1. End(r, IF call[r].op = "stepSix" THEN "done" ELSE "failed")
      BY <1>21 DEF QueueFails
    <2>2. RequestsOK'
      BY <2>1, EndTyped
    <2> QED BY <1>21, <2>2 DEF QueueFails, StoresOK, RequestsOK
  <1>22. ASSUME NEW r \in Requests, Rollback(r) PROVE TypeOK'
    <2>1. CopyMade(r) \in SUBSET Objects
      BY DEF CopyMade, Objects, Names
    <2>2. CASE CopyMade(r) = {}
      BY <1>22, <2>2, EndTyped DEF Rollback, StoresOK, stores
    <2>3. CASE CopyMade(r) # {}
      BY <1>22, <2>1, <2>3, NullsTyped DEF Rollback, StoresOK, stores, RequestsOK, Goto, Places
    <2> QED BY <2>2, <2>3
  <1>23. ASSUME NEW r \in Requests, DeleteObject(r) PROVE TypeOK'
    <2>1. PICK o \in trash[r] : Delete(o) /\ trash' = [trash EXCEPT ![r] = @ \ {o}]
      BY <1>23 DEF DeleteObject
    <2>2. o \in Objects
      BY DEF RequestsOK
    <2>3. objects' \subseteq Objects /\ retryList' \subseteq Objects
      BY <2>1, <2>2, DeleteTyped
    <2> QED BY <1>23, <2>1, <2>3 DEF DeleteObject, StoresOK, RequestsOK
  <1>24. ASSUME NEW r \in Requests, CleanupDone(r) PROVE TypeOK'
    <2>1. CASE pc[r] = "cleanup" /\ QueuesDocuments(r)
      BY <1>24, <2>1 DEF CleanupDone, StoresOK, stores, RequestsOK, Goto, locals, Places
    <2>2. CASE ~(pc[r] = "cleanup" /\ QueuesDocuments(r))
      <3>1. End(r, IF pc[r] = "undo" THEN "failed" ELSE "done")
        BY <1>24, <2>2 DEF CleanupDone
      <3>2. RequestsOK'
        BY <3>1, EndTyped
      <3> QED BY <1>24, <3>2 DEF CleanupDone, StoresOK, stores
    <2> QED BY <2>1, <2>2
  <1>29. ASSUME NEW r \in Requests, CloseAccount(r) PROVE TypeOK'
    <2>1. Plain("close") \in CallType
      BY NullsTyped DEF AllOps
    <2>2. RequestsOK'
      BY <1>29, <2>1, NullsTyped, BeginTyped DEF CloseAccount, Places
    <2> QED BY <1>29, <2>2 DEF CloseAccount, StoresOK, stores
  <1>30. ASSUME NEW r \in Requests, ConnectionLost(r) PROVE TypeOK'
    BY <1>30, EndTyped DEF ConnectionLost, StoresOK, stores
  <1>25. ASSUME PopRetry PROVE TypeOK'
    BY <1>25 DEF PopRetry, StoresOK, RequestsOK, locals
  <1>26. ASSUME RetryDeletion PROVE TypeOK'
    BY <1>26, DeleteTyped DEF RetryDeletion, StoresOK, RequestsOK, locals
  <1>27. ASSUME ExpireStaged PROVE TypeOK'
    <2>1. PICK o \in Staged : Delete(o)
      BY <1>27 DEF ExpireStaged
    <2> QED BY <1>27, <2>1, DeleteTyped DEF ExpireStaged, Staged, StoresOK, RequestsOK, locals
  <1>28. ASSUME Crash PROVE TypeOK'
    BY <1>28, NullsTyped DEF Crash, StoresOK, RequestsOK, Places, Finished
  <1> QED
    BY <1>0, <1>1, <1>2, <1>3, <1>4, <1>5, <1>6, <1>7, <1>8, <1>9, <1>10, <1>11, <1>12,
       <1>13, <1>14, <1>15, <1>16, <1>17, <1>18, <1>19, <1>20, <1>21, <1>22, <1>23,
       <1>24, <1>25, <1>26, <1>27, <1>28, <1>29, <1>30
    DEF Next, Start, Continue, Timer

\* Types are right in every reachable state.
THEOREM TypeCorrect == Spec => []TypeOK
  <1>1. Init => TypeOK
    BY NullsTyped, ConstantsAssumption
    DEF Init, TypeOK, StoresOK, RequestsOK, Objects, Names, Places
  <1> QED BY <1>1, TypeInvariance, PTL DEF Spec

-----------------------------------------------------------------------------
(* Safety with one request under way at a time. *)

\* A request that is not under way carries nothing that could be wrong.
LEMMA QuietFlow ==
  ASSUME NEW r \in Requests, ~Active(r)
  PROVE  Flow(r)
  BY DEF Active, Flow, RowStillThere, ImageFlow, RowsFlow, FilesFlow, Uncommitted, Finished

\* The only request that may move is the one under way, or one that starts
\* when none is: it is enough to show that it and the stores stay right.
LEMMA OneMoves ==
  ASSUME OneAtATime, TypeOK, SerialInvariant,
         NEW r \in Requests, MayStart(r) \/ Active(r),
         NEW w \in Places, pc' = [pc EXCEPT ![r] = w],
         Flow(r)', StoreInvariant'
  PROVE  SerialInvariant'
  <1>1. \A q \in Requests \ {r} : pc'[q] = pc[q] /\ ~Active(q)
    BY DEF TypeOK, RequestsOK, SerialInvariant, Alone, MayStart, Active
  <1>2. \A q \in Requests \ {r} : ~Active(q)'
    BY <1>1 DEF Active
  <1>3. Alone'
    BY <1>2 DEF Alone
  <1>4. \A q \in Requests : Flow(q)'
    <2>1. SUFFICES ASSUME NEW q \in Requests \ {r} PROVE Flow(q)'
      OBVIOUS
    <2>2. ~Active(q)'
      BY <1>2
    <2> QED BY <2>2 DEF Active, Flow, RowStillThere, ImageFlow, RowsFlow, FilesFlow,
                       Uncommitted, Finished
  <1> QED BY <1>3, <1>4 DEF SerialInvariant

\* A step that leaves rows and files alone, starts no request in secret and
\* dooms no name of a request to come, keeps the stores right.
LEMMA StoresKept ==
  ASSUME StoreInvariant, UNCHANGED <<row, children, objects, retryList, retrying>>,
         \A q \in Requests : pc'[q] = "idle" =>
             pc[q] = "idle" /\ \A s \in Requests : <<"profiles", q>> \notin trash'[s]
  PROVE  StoreInvariant'
  BY DEF StoreInvariant, Fresh, Buckets, ImageKept, RetryUnused, OneSubmissionPerStep,
         DocumentFilesStored, Documents, RowsOf, Files

\* What End makes of a request.
LEMMA EndEffect ==
  ASSUME TypeOK, NEW r \in Requests, NEW o \in {"done", "failed"}, End(r, o)
  PROVE  /\ pc' = [pc EXCEPT ![r] = o]
         /\ ~Active(r)'
         /\ trash'[r] = {}
         /\ \A q \in Requests \ {r} : trash'[q] = trash[q]
         /\ \A q \in Requests : pc'[q] = "idle" => pc[q] = "idle"
  BY DEF TypeOK, RequestsOK, End, Active, Finished

\* A request that ends and changes neither rows nor files keeps all right.
LEMMA EndKeeps ==
  ASSUME OneAtATime, TypeOK, SerialInvariant, NEW r \in Requests, Active(r),
         NEW o \in {"done", "failed"}, End(r, o),
         UNCHANGED <<row, children, objects, retryList, retrying>>
  PROVE  SerialInvariant'
  <1>1. StoreInvariant'
    BY EndEffect, StoresKept DEF SerialInvariant, StoreInvariant, Fresh
  <1>2. Flow(r)'
    BY EndEffect DEF Active, Flow, RowStillThere, ImageFlow, RowsFlow, FilesFlow,
                     Uncommitted, Finished
  <1> QED BY <1>1, <1>2, EndEffect, OneMoves DEF Places

\* What Begin makes of a request, when one request is under way at a time.
LEMMA BeginEffect ==
  ASSUME OneAtATime, TypeOK, SerialInvariant, NEW r \in Requests, NEW w, NEW c, NEW e,
         NEW b, NEW t, Begin(r, w, c, e, b, t)
  PROVE  /\ MayStart(r) /\ pc[r] = "idle"
         /\ \A q \in Requests : ~Active(q)
         /\ pc' = [pc EXCEPT ![r] = w]
         /\ pc'[r] = w /\ call'[r] = c /\ entity'[r] = e /\ batch'[r] = b /\ trash'[r] = t
         /\ targets'[r] = {}
         /\ \A q \in Requests \ {r} : pc'[q] = pc[q] /\ trash'[q] = trash[q]
  BY DEF TypeOK, RequestsOK, Begin, MayStart, Active

\* A request that starts leaves no trace of a name but its own.
LEMMA BeginFresh ==
  ASSUME OneAtATime, TypeOK, SerialInvariant, NEW r \in Requests, NEW w \in Places \ {"idle"},
         NEW c, NEW e, NEW b, NEW t, Begin(r, w, c, e, b, t),
         UNCHANGED <<row, retryList, retrying>>,
         objects' \subseteq objects \cup {<<"profiles", r>>},
         \A q \in Requests \ {r} : pc[q] = "idle" => <<"profiles", q>> \notin t
  PROVE  Fresh'
  <1>1. SUFFICES ASSUME NEW q \in Requests, pc'[q] = "idle"
                 PROVE  /\ <<"profiles", q>> \notin objects' \cup retryList'
                        /\ <<"profiles", q>> \notin {retrying', row'.profileImage}
                        /\ \A s \in Requests : <<"profiles", q>> \notin trash'[s]
    BY DEF Fresh
  <1>2. q # r /\ pc[q] = "idle"
    BY <1>1, BeginEffect
  <1>3. /\ <<"profiles", q>> \notin objects \cup retryList
        /\ <<"profiles", q>> \notin {retrying, row.profileImage}
        /\ \A s \in Requests : <<"profiles", q>> \notin trash[s]
    BY <1>2 DEF SerialInvariant, StoreInvariant, Fresh
  <1>4. <<"profiles", q>> # <<"profiles", r>>
    BY <1>2
  <1>5. \A s \in Requests : <<"profiles", q>> \notin trash'[s]
    BY <1>2, <1>3, BeginEffect
  <1> QED BY <1>3, <1>4, <1>5

\* Creating a record keeps all right: the copied image is new and stored.
LEMMA CreateKeeps ==
  ASSUME OneAtATime, TypeOK, SerialInvariant, NEW r \in Requests, StepOneCreate(r)
  PROVE  SerialInvariant'
  <1>1. PICK s \in {None} \cup Staged, a \in StepOneActions :
           LET image == Promoted(r, s, None) IN
           /\ life = "unborn"
           /\ Begin(r, "apply",
               [op |-> "create", step |-> 1, action |-> a, updatesRow |-> FALSE],
               [NewRow EXCEPT !.profileImage = image],
               {}, StepOneTrash(s, None, image))
           /\ objects' = objects \cup ({image} \ {None})
           /\ UNCHANGED <<life, row, children, retryList, retrying, jobs>>
    BY DEF StepOneCreate
  <1> DEFINE image == Promoted(r, s, None)
  <1>2. image \in {None, <<"profiles", r>>} /\ trash'[r] \subseteq {s} \ {None, image}
    BY <1>1, BeginEffect DEF Promoted, StepOneTrash
  <1>3. s \in {None} \cup ({"staging"} \X Names)
    BY DEF Staged, TypeOK, StoresOK, Objects
  <1>4. /\ pc[r] = "idle" /\ pc'[r] = "apply" /\ call'[r].op = "create" /\ call'[r].step = 1
        /\ entity'[r].profileImage = image /\ batch'[r] = {} /\ targets'[r] = {}
        /\ life' = "unborn" /\ row' = row
    BY <1>1, BeginEffect DEF NewRow
  <1> HIDE DEF image
  <1>5. Flow(r)'
    <2>1. RowStillThere(r)'
      BY <1>4 DEF RowStillThere, Uncommitted
    <2>2. ImageFlow(r)'
      BY <1>1, <1>2, <1>3, <1>4
      DEF ImageFlow, SerialInvariant, StoreInvariant, Fresh, DocumentFiles, image
    <2>3. RowsFlow(r)'
      BY <1>4 DEF RowsFlow, Active, Finished
    <2>4. FilesFlow(r)'
      BY <1>4 DEF FilesFlow
    <2> QED BY <2>1, <2>2, <2>3, <2>4 DEF Flow
  <1>6. StoreInvariant'
    <2>1. Fresh'
      <3>1. \A q \in Requests : <<"profiles", q>> \notin StepOneTrash(s, None, image)
        BY <1>3 DEF StepOneTrash
      <3>2. objects' \subseteq objects \cup {<<"profiles", r>>}
        BY <1>1, <1>2 DEF image
      <3> QED BY <1>1, <3>1, <3>2, BeginFresh DEF Places, image
    <2>2. ImageKept' /\ Buckets' /\ RetryUnused' /\ OneSubmissionPerStep'
      BY <1>1 DEF SerialInvariant, StoreInvariant, ImageKept, Buckets, RetryUnused,
                  OneSubmissionPerStep
    <2>3. DocumentFilesStored => DocumentFilesStored'
      BY <1>1 DEF DocumentFilesStored, Documents, RowsOf, Files
    <2> QED BY <2>1, <2>2, <2>3 DEF SerialInvariant, StoreInvariant
  <1> QED BY <1>1, <1>5, <1>6, BeginEffect, OneMoves DEF Places

\* Updating the personal form keeps all right: the image is the current one or
\* a new copy, and the previous one is only in the trash when it is replaced.
LEMMA StepOneUpdateKeeps ==
  ASSUME OneAtATime, TypeOK, SerialInvariant, NEW r \in Requests, StepOneUpdate(r)
  PROVE  SerialInvariant'
  <1>1. PICK s \in {None, row.profileImage} \cup Staged, a \in StepOneActions :
           LET image == Promoted(r, s, row.profileImage) IN
           /\ Editable
           /\ Begin(r, "update",
               [op |-> "stepOne", step |-> 1, action |-> a, updatesRow |-> TRUE],
               [row EXCEPT !.profileImage = image],
               {}, StepOneTrash(s, row.profileImage, image))
           /\ objects' = objects \cup ({image} \cap {<<"profiles", r>>})
           /\ UNCHANGED <<life, row, children, retryList, retrying, jobs>>
    BY DEF StepOneUpdate
  <1> DEFINE image == Promoted(r, s, row.profileImage)
  <1>2. /\ image \in {None, row.profileImage, <<"profiles", r>>}
        /\ trash'[r] \subseteq {s, row.profileImage} \ {None, image}
    BY <1>1, BeginEffect DEF Promoted, StepOneTrash
  <1>3. s \in {None, row.profileImage} \cup ({"staging"} \X Names)
    BY DEF Staged, TypeOK, StoresOK, Objects
  <1>4. row.profileImage \in {None} \cup ({"profiles"} \X Names)
    BY DEF SerialInvariant, StoreInvariant, Buckets, Profiles
  <1>5. /\ pc[r] = "idle" /\ pc'[r] = "update" /\ call'[r].op = "stepOne" /\ call'[r].step = 1
        /\ batch'[r] = {} /\ targets'[r] = {}
        /\ life' = "live" /\ row' = row
    BY <1>1, BeginEffect DEF Editable
  <1>6. entity'[r].profileImage = image
    BY <1>1, BeginEffect DEF TypeOK, StoresOK, RowType
  <1> HIDE DEF image
  <1>7. Flow(r)'
    <2>1. RowStillThere(r)'
      BY <1>5 DEF RowStillThere, Uncommitted
    <2>2. ImageFlow(r)'
      <3>1. row.profileImage # <<"profiles", r>>
        BY <1>5 DEF SerialInvariant, StoreInvariant, Fresh
      <3>2. image # None => image \in objects' /\ image \notin retryList' \cup {retrying'}
        BY <1>1, <1>2, <1>5 DEF SerialInvariant, StoreInvariant, Fresh, ImageKept, image
      <3>3. trash'[r] \cap DocumentFiles = {} /\ image \notin trash'[r]
        BY <1>2, <1>3, <1>4 DEF DocumentFiles
      <3> QED BY <1>2, <1>5, <1>6, <3>1, <3>2, <3>3 DEF ImageFlow
    <2>3. RowsFlow(r)'
      BY <1>5 DEF RowsFlow, Active, Finished
    <2>4. FilesFlow(r)'
      BY <1>5 DEF FilesFlow
    <2> QED BY <2>1, <2>2, <2>3, <2>4 DEF Flow
  <1>8. StoreInvariant'
    <2>1. Fresh'
      <3>1. \A q \in Requests : pc[q] = "idle" =>
               <<"profiles", q>> \notin StepOneTrash(s, row.profileImage, image)
        BY <1>3 DEF StepOneTrash, SerialInvariant, StoreInvariant, Fresh
      <3>2. objects' \subseteq objects \cup {<<"profiles", r>>}
        BY <1>1, <1>2 DEF image, SerialInvariant, StoreInvariant, ImageKept
      <3> QED BY <1>1, <3>1, <3>2, BeginFresh DEF Places, image
    <2>2. ImageKept' /\ Buckets' /\ RetryUnused' /\ OneSubmissionPerStep'
      BY <1>1 DEF SerialInvariant, StoreInvariant, ImageKept, Buckets, RetryUnused,
                  OneSubmissionPerStep
    <2>3. DocumentFilesStored => DocumentFilesStored'
      BY <1>1 DEF DocumentFilesStored, Documents, RowsOf, Files
    <2> QED BY <2>1, <2>2, <2>3 DEF SerialInvariant, StoreInvariant
  <1> QED BY <1>1, <1>7, <1>8, BeginEffect, OneMoves DEF Places

\* A request that starts by reading only keeps all right if it does itself.
LEMMA BeginKeeps ==
  ASSUME OneAtATime, TypeOK, SerialInvariant, NEW r \in Requests, NEW w \in Places \ {"idle"},
         NEW c, NEW e, NEW b, NEW t, Begin(r, w, c, e, b, t), UNCHANGED stores,
         \A q \in Requests \ {r} : pc[q] = "idle" => <<"profiles", q>> \notin t,
         Flow(r)'
  PROVE  SerialInvariant'
  <1>1. Fresh'
    BY BeginFresh DEF stores
  <1>2. Buckets' /\ ImageKept' /\ RetryUnused' /\ OneSubmissionPerStep'
        /\ ("storage" \notin Faults => DocumentFilesStored')
    BY DEF stores, SerialInvariant, StoreInvariant, ImageKept, Buckets, RetryUnused,
           OneSubmissionPerStep, DocumentFilesStored, Documents, RowsOf, Files
  <1>3. StoreInvariant'
    BY <1>1, <1>2 DEF StoreInvariant
  <1> QED BY <1>3, BeginEffect, OneMoves

\* Starting a child step keeps all right.
LEMMA ChildStepKeeps ==
  ASSUME OneAtATime, TypeOK, SerialInvariant, NEW r \in Requests, ChildStep(r)
  PROVE  SerialInvariant'
  <1>1. PICK s \in ChildSteps, a \in StepOneActions, any \in BOOLEAN, touch \in BOOLEAN :
           /\ Editable
           /\ Begin(r, "delete",
               [op |-> "child", step |-> s, action |-> a, updatesRow |-> touch],
               NewRow, IF any THEN {[step |-> s, by |-> r, file |-> None]} ELSE {}, {})
           /\ UNCHANGED stores
    BY DEF ChildStep
  <1>2. /\ pc'[r] = "delete" /\ call'[r].op = "child" /\ call'[r].step = s
        /\ batch'[r] \subseteq {[step |-> s, by |-> r, file |-> None]} /\ trash'[r] = {}
        /\ life' = "live"
    BY <1>1, BeginEffect DEF Editable, stores
  <1>3. s # 6
    BY ConstantsAssumption
  <1>4. Flow(r)'
    BY <1>2, <1>3 DEF Flow, RowStillThere, ImageFlow, RowsFlow, FilesFlow, Uncommitted
  <1> QED BY <1>1, <1>4, BeginKeeps DEF Places

\* Starting step six keeps all right: the files it will insert are stored, and
\* its trash holds the files of the other documents only.
LEMMA StepSixKeeps ==
  ASSUME OneAtATime, TypeOK, SerialInvariant, NEW r \in Requests, StepSix(r)
  PROVE  SerialInvariant'
  <1>1. PICK kept \in SUBSET {d \in Documents : d.file # None}, a \in Actions,
             fresh \in SUBSET ({None} \cup {o \in objects : o[1] = "documents"}) :
           LET files == {d.file : d \in kept} \cup fresh IN
           /\ Editable
           /\ Begin(r, "delete",
               [op |-> "stepSix", step |-> 6, action |-> a, updatesRow |-> FALSE],
               NewRow, {[step |-> 6, by |-> r, file |-> f] : f \in files},
               RemovedFiles(files))
           /\ UNCHANGED stores
    BY DEF StepSix
  <1> DEFINE files == {d.file : d \in kept} \cup fresh
  <1>2. {d.file : d \in kept} \subseteq Files(Documents) /\ Files(Documents) \subseteq DocumentFiles
    BY DEF Files, Documents, RowsOf, SerialInvariant, StoreInvariant, Buckets
  <1>3. files \subseteq DocumentFiles \cup {None}
    BY <1>2 DEF TypeOK, StoresOK, Objects, DocumentFiles
  <1>4. "storage" \notin Faults => files \ {None} \subseteq objects
    BY <1>2 DEF SerialInvariant, StoreInvariant, DocumentFilesStored
  <1>5. /\ pc'[r] = "delete" /\ call'[r].op = "stepSix" /\ call'[r].step = 6
        /\ batch'[r] = {[step |-> 6, by |-> r, file |-> f] : f \in files}
        /\ trash'[r] = RemovedFiles(files)
        /\ life' = "live" /\ objects' = objects
    BY <1>1, BeginEffect DEF Editable, stores
  <1> HIDE DEF files
  <1>6. Files(batch'[r]) = files \ {None}
    <2>1. \A f \in files : [step |-> 6, by |-> r, file |-> f].file = f
      OBVIOUS
    <2>2. {d.file : d \in batch'[r]} \subseteq files
      BY <1>5, <2>1
    <2>3. files \subseteq {d.file : d \in batch'[r]}
      BY <1>5, <2>1
    <2> QED BY <2>2, <2>3 DEF Files
  <1>7. Flow(r)'
    <2>1. RowStillThere(r)' /\ ImageFlow(r)'
      BY <1>5 DEF RowStillThere, ImageFlow, Uncommitted
    <2>2. RowsFlow(r)'
      BY <1>3, <1>5 DEF RowsFlow
    <2>3. FilesFlow(r)'
      BY <1>2, <1>4, <1>5, <1>6 DEF FilesFlow, RemovedFiles
    <2> QED BY <2>1, <2>2, <2>3 DEF Flow
  <1>8. \A q \in Requests : <<"profiles", q>> \notin RemovedFiles(files)
    BY <1>2 DEF RemovedFiles, DocumentFiles
  <1> QED BY <1>1, <1>7, <1>8, BeginKeeps DEF Places, files

\* Starting to reopen, to remove, to upload or to queue keeps all right.
LEMMA OtherStartsKeep ==
  ASSUME OneAtATime, TypeOK, SerialInvariant, NEW r \in Requests,
         Reopen(r) \/ Remove(r) \/ UploadDocument(r) \/ Requeue(r) \/ CloseAccount(r)
  PROVE  SerialInvariant'
  <1>1. ASSUME Reopen(r) PROVE SerialInvariant'
    <2>1. /\ pc'[r] = "save" /\ call'[r] = Plain("reopen") /\ entity'[r] = Reopened(row)
          /\ batch'[r] = {} /\ targets'[r] = {} /\ trash'[r] = {}
          /\ life' = "live" /\ row' = row
      BY <1>1, BeginEffect DEF Reopen, stores
    <2>2. Reopened(row).profileImage = row.profileImage
      BY DEF Reopened, TypeOK, StoresOK, RowType
    <2>3. Flow(r)'
      BY <2>1, <2>2 DEF Flow, RowStillThere, ImageFlow, RowsFlow, FilesFlow, Uncommitted, Plain
    <2> QED BY <1>1, <2>3, BeginKeeps DEF Reopen, Places
  <1>2. ASSUME Remove(r) PROVE SerialInvariant'
    <2> DEFINE refs == (Files(Documents) \cup {row.profileImage}) \ {None}
    <2>1. /\ pc'[r] = "remove" /\ call'[r] = Plain("remove") /\ life' = "live"
      BY <1>2, BeginEffect DEF Remove, stores
    <2>2. Flow(r)'
      BY <2>1 DEF Flow, RowStillThere, ImageFlow, RowsFlow, FilesFlow, Uncommitted, Plain
    <2>3. \A q \in Requests : pc[q] = "idle" => <<"profiles", q>> \notin refs
      <3>1. Files(Documents) \subseteq DocumentFiles
        BY DEF Files, Documents, RowsOf, SerialInvariant, StoreInvariant, Buckets
      <3>2. \A q \in Requests : <<"profiles", q>> \notin DocumentFiles
        BY DEF DocumentFiles
      <3>3. \A q \in Requests : pc[q] = "idle" => <<"profiles", q>> # row.profileImage
        BY DEF SerialInvariant, StoreInvariant, Fresh
      <3> QED BY <3>1, <3>2, <3>3
    <2> QED BY <1>2, <2>2, <2>3, BeginKeeps DEF Remove, Places
  <1>3. ASSUME UploadDocument(r) PROVE SerialInvariant'
    <2>1. /\ pc'[r] = "upload" /\ call'[r] = Plain("upload")
      BY <1>3, BeginEffect DEF UploadDocument
    <2>2. Flow(r)'
      BY <2>1 DEF Flow, RowStillThere, ImageFlow, RowsFlow, FilesFlow, Uncommitted, Plain
    <2> QED BY <1>3, <2>2, BeginKeeps DEF UploadDocument, Places
  <1>4. ASSUME Requeue(r) PROVE SerialInvariant'
    <2>1. PICK docs \in SUBSET Documents :
             /\ Begin(r, "queue", Plain("requeue"), NewRow, docs, {})
             /\ UNCHANGED stores
      BY <1>4 DEF Requeue
    <2>2. /\ pc'[r] = "queue" /\ call'[r] = Plain("requeue")
      BY <2>1, BeginEffect
    <2>3. Flow(r)'
      BY <2>2 DEF Flow, RowStillThere, ImageFlow, RowsFlow, FilesFlow, Uncommitted, Plain
    <2> QED BY <2>1, <2>3, BeginKeeps DEF Places
  <1>5. ASSUME CloseAccount(r) PROVE SerialInvariant'
    <2>1. /\ pc'[r] = "remove" /\ call'[r] = Plain("close")
      BY <1>5, BeginEffect DEF CloseAccount
    <2>2. Flow(r)'
      BY <2>1 DEF Flow, RowStillThere, ImageFlow, RowsFlow, FilesFlow, Uncommitted, Plain
    <2> QED BY <1>5, <2>2, BeginKeeps DEF CloseAccount, Places
  <1> QED BY <1>1, <1>2, <1>3, <1>4, <1>5

-----------------------------------------------------------------------------
(* The steps a request takes once it has started. *)

\* What the invariant says of the request under way.
LEMMA FlowNow ==
  ASSUME SerialInvariant, NEW r \in Requests
  PROVE  /\ RowStillThere(r) /\ ImageFlow(r) /\ RowsFlow(r) /\ FilesFlow(r)
         /\ StoreInvariant
         /\ Files(Documents) \subseteq DocumentFiles
         /\ row.profileImage \in Profiles \cup {None}
  BY DEF SerialInvariant, Flow, StoreInvariant, Buckets, Files, Documents, RowsOf

\* A step within a request keeps all right if the request itself stays right.
LEMMA GotoKeeps ==
  ASSUME OneAtATime, TypeOK, SerialInvariant, NEW r \in Requests, Active(r),
         NEW w \in Places \ {"idle"}, Goto(r, w),
         UNCHANGED <<row, children, objects, retryList, retrying, trash>>, Flow(r)'
  PROVE  SerialInvariant'
  <1>1. \A q \in Requests : pc'[q] = "idle" => pc[q] = "idle"
    BY DEF Goto, TypeOK, RequestsOK
  <1>2. StoreInvariant'
    BY <1>1, StoresKept DEF SerialInvariant, StoreInvariant, Fresh
  <1> QED BY <1>2, OneMoves DEF Goto

\* The statements before applyStepAction keep all right.
LEMMA StatementsKeep ==
  ASSUME OneAtATime, TypeOK, SerialInvariant, NEW r \in Requests,
         UpdateRow(r) \/ DeleteRows(r) \/ LockRows(r) \/ InsertRows(r) \/ LockRecord(r)
  PROVE  SerialInvariant'
  <1> USE DEF TypeOK, RequestsOK
  <1>1. ASSUME UpdateRow(r) PROVE SerialInvariant'
    <2>1. pc[r] = "update" /\ pc'[r] = "apply" /\ Active(r) /\ Active(r)'
      BY <1>1 DEF UpdateRow, Goto, Active, Finished
    <2>2. Flow(r)'
      BY <1>1, <2>1, FlowNow DEF UpdateRow, stores, locals, Flow, RowStillThere, ImageFlow,
         RowsFlow, FilesFlow, Uncommitted, Documents, RowsOf, Files
    <2> QED BY <1>1, <2>1, <2>2, GotoKeeps DEF UpdateRow, stores, locals, Places
  <1>2. ASSUME DeleteRows(r) PROVE SerialInvariant'
    <2>1. /\ pc[r] = "delete" /\ pc'[r] = "lock" /\ Active(r) /\ Active(r)'
          /\ targets'[r] = RowsOf(call[r].step)
      BY <1>2 DEF DeleteRows, Goto, Active, Finished
    <2>2. Flow(r)'
      BY <1>2, <2>1, FlowNow DEF DeleteRows, stores, Flow, RowStillThere, ImageFlow,
         RowsFlow, FilesFlow, Uncommitted, Documents, RowsOf, Files
    <2> QED BY <1>2, <2>1, <2>2, GotoKeeps DEF DeleteRows, stores, Places
  <1>3. ASSUME LockRows(r) PROVE SerialInvariant'
    <2>1. pc[r] = "lock" /\ pc'[r] = "insert" /\ Active(r) /\ Active(r)'
      BY <1>3 DEF LockRows, Goto, Active, Finished
    <2>2. Flow(r)'
      BY <1>3, <2>1, FlowNow DEF LockRows, stores, locals, Flow, RowStillThere, ImageFlow,
         RowsFlow, FilesFlow, Uncommitted, Documents, RowsOf, Files
    <2> QED BY <1>3, <2>1, <2>2, GotoKeeps DEF LockRows, stores, locals, Places
  <1>4. ASSUME InsertRows(r) PROVE SerialInvariant'
    <2> DEFINE w == AfterInsert(r)
    <2>1. /\ pc[r] = "insert" /\ Goto(r, w) /\ w \in {"update", "apply"}
          /\ UNCHANGED <<stores, locals>>
      BY <1>4 DEF InsertRows, AfterInsert
    <2> HIDE DEF w
    <2>2. pc'[r] \in {"update", "apply"} /\ Active(r) /\ Active(r)'
      BY <2>1 DEF Goto, Active, Finished
    <2>3. call[r].op \in {"child", "stepSix"}
      BY <2>1, FlowNow DEF RowsFlow
    <2>4. RowStillThere(r)' /\ ImageFlow(r)'
      BY <2>1, <2>2, <2>3, FlowNow DEF stores, locals, RowStillThere, ImageFlow, Uncommitted
    <2>5. RowsFlow(r)'
      BY <2>1, <2>2, <2>3, FlowNow DEF stores, locals, RowsFlow, Uncommitted, RowsOf
    <2>6. FilesFlow(r)'
      BY <2>1, <2>2, <2>3, FlowNow
      DEF stores, locals, FilesFlow, Uncommitted, Documents, RowsOf, Files
    <2>7. Flow(r)'
      BY <2>4, <2>5, <2>6 DEF Flow
    <2> QED BY <2>1, <2>2, <2>7, GotoKeeps DEF stores, locals, Places
  <1>5. ASSUME LockRecord(r) PROVE SerialInvariant'
    <2>1. pc[r] = "remove" /\ pc'[r] = "cascade" /\ Active(r) /\ Active(r)'
      BY <1>5 DEF LockRecord, Goto, Active, Finished
    <2>2. Flow(r)'
      BY <1>5, <2>1, FlowNow DEF LockRecord, stores, locals, Flow, RowStillThere, ImageFlow,
         RowsFlow, FilesFlow, Uncommitted, Documents, RowsOf, Files
    <2> QED BY <1>5, <2>1, <2>2, GotoKeeps DEF LockRecord, stores, locals, Places
  <1> QED BY <1>1, <1>2, <1>3, <1>4, <1>5

\* applyStepAction and the SELECT of save keep all right.
LEMMA ApplyAndLoadKeep ==
  ASSUME OneAtATime, TypeOK, SerialInvariant, NEW r \in Requests,
         ApplyStepAction(r) \/ SaveLoad(r)
  PROVE  SerialInvariant'
  <1> USE DEF TypeOK, RequestsOK
  <1>1. ASSUME ApplyStepAction(r) PROVE SerialInvariant'
    <2>1. /\ pc[r] = "apply" /\ pc'[r] = "save" /\ Active(r) /\ Active(r)'
          /\ entity'[r] = Applied(OwnRow(r), r)
      BY <1>1 DEF ApplyStepAction, Goto, Active, Finished
    <2>2. OwnRow(r) \in RowType
      BY OwnRowTyped
    <2>3. entity'[r].profileImage = OwnRow(r).profileImage
      BY <2>1, <2>2 DEF Applied, RowType
    <2>4. OwnRow(r).profileImage = IF call[r].op \in {"create", "stepOne"}
                                   THEN entity[r].profileImage ELSE row.profileImage
      BY DEF OwnRow, StoresOK, RowType
    <2>5. Flow(r)'
      <3>1. ImageFlow(r)'
        BY <1>1, <2>1, <2>3, <2>4, FlowNow DEF ApplyStepAction, stores, ImageFlow, Uncommitted
      <3> QED BY <1>1, <2>1, <3>1, FlowNow DEF ApplyStepAction, stores, Flow, RowStillThere,
                 RowsFlow, FilesFlow, Uncommitted, Documents, RowsOf, Files
    <2> QED BY <1>1, <2>1, <2>5, GotoKeeps DEF ApplyStepAction, stores, Places
  <1>2. ASSUME SaveLoad(r) PROVE SerialInvariant'
    <2>1. pc[r] = "save" /\ RowIsVisible(r)
      BY <1>2, FlowNow DEF SaveLoad, RowIsVisible, RowStillThere, Uncommitted
    <2>2. Goto(r, "write") /\ pc'[r] = "write" /\ Active(r) /\ Active(r)'
      BY <1>2, <2>1 DEF SaveLoad, Goto, Active, Finished
    <2>3. Flow(r)'
      BY <1>2, <2>1, <2>2, FlowNow DEF SaveLoad, stores, Flow, RowStillThere, ImageFlow,
         RowsFlow, FilesFlow, Uncommitted, Documents, RowsOf, Files
    <2> QED BY <1>2, <2>2, <2>3, GotoKeeps DEF SaveLoad, stores, Places
  <1> QED BY <1>1, <1>2

\* What the commit of a transaction makes of its request and of the child rows.
LEMMA PublishEffect ==
  ASSUME TypeOK, NEW r \in Requests, PublishAndGoOn(r)
  PROVE  /\ children' = (children \ targets[r]) \cup batch[r]
         /\ pc' = [pc EXCEPT ![r] = IF call[r].op \in {"create", "stepOne", "stepSix"}
                                    THEN "cleanup" ELSE "done"]
         /\ call[r].op \in {"create", "stepOne", "stepSix"} =>
               call' = call /\ batch' = batch /\ trash' = trash
         /\ \A q \in Requests : trash'[q] \subseteq trash[q]
         /\ UNCHANGED <<objects, retryList, retrying>>
  <1> USE DEF TypeOK, RequestsOK
  <1>1. ASSUME call[r].op \in {"create", "stepOne", "stepSix"}
        PROVE  pc' = [pc EXCEPT ![r] = "cleanup"] /\ call' = call /\ batch' = batch
               /\ trash' = trash
    BY <1>1 DEF PublishAndGoOn, Goto
  <1>2. ASSUME call[r].op \notin {"create", "stepOne", "stepSix"}
        PROVE  End(r, "done")
    BY <1>2 DEF PublishAndGoOn
  <1>3. ASSUME call[r].op \notin {"create", "stepOne", "stepSix"}
        PROVE  pc' = [pc EXCEPT ![r] = "done"]
               /\ \A q \in Requests : trash'[q] \subseteq trash[q]
    BY <1>2, <1>3, EndEffect
  <1> QED BY <1>1, <1>3 DEF PublishAndGoOn

\* A commit replaces the rows of the request's step by those of the request.
LEMMA PublishedRows ==
  ASSUME TypeOK, SerialInvariant, NEW r \in Requests, pc[r] = "write", PublishAndGoOn(r)
  PROVE  /\ \A d \in children' : d \in batch[r] \/ (d \in children /\ d \notin targets[r])
         /\ OneSubmissionPerStep'
         /\ \A d \in children' : d.file \in DocumentFiles \cup {None}
         /\ Files(Documents)' = IF call[r].op = "stepSix" THEN Files(batch[r])
                                ELSE Files(Documents)
  <1>1. children' = (children \ targets[r]) \cup batch[r]
    BY PublishEffect
  <1>2. /\ call[r].op \in {"child", "stepSix"} => targets[r] = RowsOf(call[r].step)
        /\ call[r].op \notin {"child", "stepSix"} => targets[r] = {} /\ batch[r] = {}
        /\ call[r].op = "stepSix" <=> call[r].step = 6
        /\ \A d \in batch[r] : d.step = call[r].step /\ d.by = r
                               /\ d.file \in DocumentFiles \cup {None}
    BY FlowNow DEF RowsFlow, Uncommitted, Active, Finished
  <1>3. OneSubmissionPerStep'
    BY <1>1, <1>2 DEF SerialInvariant, StoreInvariant, OneSubmissionPerStep, RowsOf
  <1>4. \A d \in children' : d.file \in DocumentFiles \cup {None}
    BY <1>1, <1>2 DEF SerialInvariant, StoreInvariant, Buckets
  <1>5. Documents' = IF call[r].op = "stepSix" THEN batch[r] ELSE Documents
    BY <1>1, <1>2 DEF Documents, RowsOf
  <1> QED BY <1>1, <1>3, <1>4, <1>5 DEF Files

\* A commit keeps all right if the row takes the image step one carries, and
\* keeps its own otherwise.
LEMMA PublishKeeps ==
  ASSUME OneAtATime, TypeOK, SerialInvariant, NEW r \in Requests, pc[r] = "write",
         PublishAndGoOn(r),
         row'.profileImage = IF call[r].op \in {"create", "stepOne"}
                             THEN entity[r].profileImage ELSE row.profileImage
  PROVE  SerialInvariant'
  <1> DEFINE w == IF call[r].op \in {"create", "stepOne", "stepSix"} THEN "cleanup" ELSE "done"
  <1>1. Active(r) /\ pc[r] \in Uncommitted
    BY DEF Active, Finished, Uncommitted
  <1>2. /\ pc' = [pc EXCEPT ![r] = w] /\ pc'[r] = w /\ w \in Places /\ w # "idle"
        /\ \A q \in Requests : pc'[q] = "idle" => pc[q] = "idle" /\ q # r
    BY PublishEffect DEF TypeOK, RequestsOK, Places
  <1>3. row'.profileImage \in {None, row.profileImage, <<"profiles", r>>}
    BY <1>1, FlowNow DEF ImageFlow
  <1>4. row'.profileImage # None => /\ row'.profileImage \in objects
                                    /\ row'.profileImage \notin retryList \cup {retrying}
    BY <1>1, FlowNow DEF ImageFlow, StoreInvariant, ImageKept
  <1>5. Files(Documents)' \subseteq DocumentFiles
    BY PublishedRows DEF Files, Documents, RowsOf
  <1>6. StoreInvariant'
    <2>1. Fresh'
      <3>1. SUFFICES ASSUME NEW q \in Requests, pc'[q] = "idle"
                     PROVE  /\ <<"profiles", q>> \notin objects' \cup retryList'
                            /\ <<"profiles", q>> \notin {retrying', row'.profileImage}
                            /\ \A s \in Requests : <<"profiles", q>> \notin trash'[s]
        BY DEF Fresh
      <3>2. pc[q] = "idle" /\ <<"profiles", q>> # <<"profiles", r>>
        BY <1>2, <3>1
      <3>3. /\ <<"profiles", q>> \notin objects \cup retryList
            /\ <<"profiles", q>> \notin {retrying, row.profileImage}
            /\ \A s \in Requests : <<"profiles", q>> \notin trash[s]
        BY <3>2 DEF SerialInvariant, StoreInvariant, Fresh
      <3>4. <<"profiles", q>> # None
        BY ConstantsAssumption DEF Objects, Names
      <3> QED BY <1>3, <3>2, <3>3, <3>4, PublishEffect
    <2>2. Buckets'
      BY <1>3, PublishedRows DEF Buckets, SerialInvariant, StoreInvariant, Profiles, Names
    <2>3. ImageKept' /\ RetryUnused'
      BY <1>4, PublishEffect DEF ImageKept, RetryUnused, SerialInvariant, StoreInvariant
    <2>4. "storage" \notin Faults => DocumentFilesStored'
      BY <1>1, FlowNow, PublishedRows, PublishEffect
      DEF DocumentFilesStored, FilesFlow, StoreInvariant
    <2> QED BY <2>1, <2>2, <2>3, <2>4, PublishedRows DEF StoreInvariant
  <1>7. Flow(r)'
    <2>1. ASSUME w = "done" PROVE Flow(r)'
      BY <1>2, <2>1 DEF Flow, RowStillThere, ImageFlow, RowsFlow, FilesFlow, Active,
                        Uncommitted, Finished
    <2>2. ASSUME w = "cleanup" PROVE Flow(r)'
      <3>1. /\ call' = call /\ trash' = trash /\ pc'[r] = "cleanup"
            /\ call[r].op \in {"create", "stepOne", "stepSix"}
        BY <1>2, <2>2, PublishEffect
      <3>2. row'.profileImage \notin trash[r]
        <4>1. ASSUME call[r].op = "stepSix" PROVE row'.profileImage \notin trash[r]
          <5>1. trash[r] \subseteq DocumentFiles
            BY <1>1, <4>1, FlowNow DEF FilesFlow
          <5>2. row'.profileImage \in Profiles \cup {None}
            BY <4>1, FlowNow
          <5>3. trash[r] \subseteq Objects
            BY DEF TypeOK, RequestsOK
          <5> QED BY <5>1, <5>2, <5>3, ConstantsAssumption DEF Profiles, DocumentFiles
        <4>2. ASSUME call[r].op \in {"create", "stepOne"} PROVE row'.profileImage \notin trash[r]
          BY <1>1, <4>2, FlowNow DEF ImageFlow
        <4> QED BY <3>1, <4>1, <4>2
      <3>3. Files(Documents)' \cap trash[r] = {}
        <4>1. ASSUME call[r].op = "stepSix" PROVE Files(Documents)' \cap trash[r] = {}
          BY <1>1, <4>1, FlowNow, PublishedRows DEF FilesFlow
        <4>2. ASSUME call[r].op \in {"create", "stepOne"}
              PROVE  Files(Documents)' \cap trash[r] = {}
          <5>1. trash[r] \cap DocumentFiles = {}
            BY <1>1, <4>2, FlowNow DEF ImageFlow
          <5> QED BY <1>5, <5>1
        <4> QED BY <3>1, <4>1, <4>2
      <3>4. RowsFlow(r)'
        BY <1>1, <3>1, FlowNow DEF RowsFlow, Uncommitted
      <3> QED BY <3>1, <3>2, <3>3, <3>4
              DEF Flow, RowStillThere, ImageFlow, FilesFlow, Uncommitted
    <2> QED BY <2>1, <2>2
  <1> QED BY <1>1, <1>2, <1>6, <1>7, OneMoves

\* Both ways to commit keep all right, and no request revives a removed record.
LEMMA CommitKeeps ==
  ASSUME OneAtATime, TypeOK, SerialInvariant, NEW r \in Requests,
         CommitUpdate(r) \/ CommitInsert(r)
  PROVE  SerialInvariant'
  <1>1. ASSUME CommitUpdate(r) PROVE SerialInvariant'
    <2>1. pc[r] = "write" /\ call[r].op # "create" /\ row' = Merged(r) /\ PublishAndGoOn(r)
      BY <1>1 DEF CommitUpdate
    <2>2. call[r].op # "stepOne" => entity[r].profileImage = row.profileImage
      BY <2>1, FlowNow DEF ImageFlow
    <2>3. Merged(r).profileImage = IF call[r].op = "stepOne" THEN entity[r].profileImage
                                   ELSE row.profileImage
      BY <2>2 DEF Merged, Column
    <2> QED BY <2>1, <2>3, PublishKeeps
  <1>2. ASSUME CommitInsert(r) PROVE SerialInvariant'
    <2>1. pc[r] = "write" /\ call[r].op = "create" /\ row' = entity[r] /\ PublishAndGoOn(r)
      BY <1>2, FlowNow DEF CommitInsert, RowStillThere
    <2> QED BY <2>1, PublishKeeps
  <1> QED BY <1>1, <1>2

-----------------------------------------------------------------------------
(* The other ends of a request. *)

\* Removing the record keeps all right: nothing names a file any more.
LEMMA DeleteRecordKeeps ==
  ASSUME OneAtATime, TypeOK, SerialInvariant, NEW r \in Requests, DeleteRecord(r)
  PROVE  SerialInvariant'
  <1> USE DEF TypeOK, RequestsOK
  <1>1. /\ pc[r] = "cascade" /\ pc'[r] = "cleanup" /\ pc' = [pc EXCEPT ![r] = "cleanup"]
        /\ children' = {} /\ row'.profileImage = None /\ call' = call /\ trash' = trash
        /\ UNCHANGED <<objects, retryList, retrying>>
    BY DEF DeleteRecord, Goto, NewRow, locals
  <1>2. Files(Documents)' = {}
    BY <1>1 DEF Files, Documents, RowsOf
  <1>3. Active(r) /\ \A q \in Requests : pc'[q] = "idle" => pc[q] = "idle"
    BY <1>1 DEF Active, Finished
  <1>4. StoreInvariant'
    <2>1. \A q \in Requests : <<"profiles", q>> # None
      BY ConstantsAssumption DEF Objects, Names
    <2>2. Fresh'
      BY <1>1, <1>3, <2>1 DEF Fresh, SerialInvariant, StoreInvariant
    <2>3. DocumentFilesStored'
      BY <1>2 DEF DocumentFilesStored
    <2> QED BY <1>1, <2>2, <2>3 DEF SerialInvariant, StoreInvariant, Buckets, ImageKept,
               RetryUnused, OneSubmissionPerStep
  <1>5. Flow(r)'
    <2>1. None \notin trash[r]
      BY ConstantsAssumption
    <2>2. call[r].op = "stepSix" <=> call[r].step = 6
      BY <1>3, FlowNow DEF RowsFlow
    <2> QED BY <1>1, <1>2, <2>1, <2>2 DEF Flow, RowStillThere, ImageFlow, RowsFlow, FilesFlow,
               Uncommitted
  <1> QED BY <1>1, <1>3, <1>4, <1>5, OneMoves DEF Places

\* A request that misses its record cannot happen, or ends without a trace.
LEMMA MissedKeeps ==
  ASSUME OneAtATime, TypeOK, SerialInvariant, NEW r \in Requests,
         ReopenMissed(r) \/ RemoveMissed(r) \/ ConnectionLost(r)
  PROVE  SerialInvariant'
  <1>1. ASSUME ReopenMissed(r) PROVE FALSE
    BY <1>1, FlowNow DEF ReopenMissed, RowStillThere, Uncommitted
  <1>2. ASSUME RemoveMissed(r) PROVE SerialInvariant'
    <2>1. Active(r) /\ UNCHANGED stores /\ (End(r, "done") \/ End(r, "failed"))
      BY <1>2 DEF RemoveMissed, Active, Finished
    <2> QED BY <2>1, EndKeeps DEF stores
  <1>3. ASSUME ConnectionLost(r) PROVE SerialInvariant'
    <2>1. Active(r) /\ UNCHANGED stores /\ End(r, "failed")
      BY <1>3 DEF ConnectionLost, OnDatabase, Active, Finished
    <2> QED BY <2>1, EndKeeps DEF stores
  <1> QED BY <1>1, <1>2, <1>3

\* Queueing jobs, with or without success, keeps all right.
LEMMA QueueKeeps ==
  ASSUME OneAtATime, TypeOK, SerialInvariant, NEW r \in Requests,
         QueueDocuments(r) \/ QueueFails(r)
  PROVE  SerialInvariant'
  <1>1. pc[r] = "queue" /\ Active(r) /\ UNCHANGED <<row, children, objects, retryList, retrying>>
    BY DEF QueueDocuments, QueueFails, Active, Finished
  <1>2. End(r, "done") \/ End(r, "failed")
    BY DEF QueueDocuments, QueueFails
  <1> QED BY <1>1, <1>2, EndKeeps

\* An upload adds a file under its own name, in a bucket no image is in.
LEMMA UploadsKeep ==
  ASSUME OneAtATime, TypeOK, SerialInvariant, NEW r \in Requests,
         PutDocument(r) \/ StageProfileImage(r)
  PROVE  SerialInvariant'
  <1> USE DEF TypeOK, RequestsOK
  <1>1. /\ UNCHANGED <<row, children, retryList, retrying>>
        /\ MayStart(r) \/ Active(r)
        /\ objects' = objects \cup {<<"documents", r>>} \/ objects' = objects \cup {<<"staging", r>>}
        /\ pc' = [pc EXCEPT ![r] = "done"]
        /\ \A q \in Requests : trash'[q] \subseteq trash[q]
    BY DEF PutDocument, StageProfileImage, Active, Finished, End, Goto, locals
  <1>2. pc'[r] = "done" /\ \A q \in Requests : pc'[q] = "idle" => pc[q] = "idle"
    BY <1>1
  <1>3. StoreInvariant'
    <2>1. Fresh'
      BY <1>1, <1>2 DEF Fresh, SerialInvariant, StoreInvariant
    <2>2. Buckets' /\ ImageKept' /\ RetryUnused' /\ OneSubmissionPerStep'
      BY <1>1 DEF SerialInvariant, StoreInvariant, Buckets, ImageKept, RetryUnused,
                  OneSubmissionPerStep
    <2>3. DocumentFilesStored => DocumentFilesStored'
      BY <1>1 DEF DocumentFilesStored, Files, Documents, RowsOf
    <2> QED BY <2>1, <2>2, <2>3 DEF SerialInvariant, StoreInvariant
  <1>4. Flow(r)'
    BY <1>2 DEF Flow, RowStillThere, ImageFlow, RowsFlow, FilesFlow, Active, Uncommitted, Finished
  <1> QED BY <1>1, <1>3, <1>4, OneMoves DEF Places

\* A rollback keeps all right: the copy it undoes is not the row's image.
LEMMA RollbackKeeps ==
  ASSUME OneAtATime, TypeOK, SerialInvariant, NEW r \in Requests, Rollback(r)
  PROVE  SerialInvariant'
  <1> USE DEF TypeOK, RequestsOK
  <1>1. Active(r) /\ pc[r] \in Uncommitted \cup {"remove", "cascade", "revive"}
    BY DEF Rollback, Doomed, Deadlocked, WaitsFor, OnDatabase, Active, Finished, Uncommitted
  <1>2. CASE CopyMade(r) = {}
    BY <1>1, <1>2, EndKeeps DEF Rollback, stores
  <1>3. CASE CopyMade(r) # {}
    <2>1. CopyMade(r) = {<<"profiles", r>>} /\ call[r].op \in {"create", "stepOne"}
      BY <1>3 DEF CopyMade
    <2>2. pc[r] \in Uncommitted
      BY <1>1, <2>1, FlowNow DEF RowsFlow, RowStillThere
    <2>3. row.profileImage # <<"profiles", r>>
      BY <2>1, <2>2, FlowNow DEF ImageFlow
    <2>4. /\ pc' = [pc EXCEPT ![r] = "undo"] /\ pc'[r] = "undo"
          /\ trash' = [trash EXCEPT ![r] = {<<"profiles", r>>}]
          /\ call' = call /\ UNCHANGED stores
      BY <1>3, <2>1 DEF Rollback, Goto
    <2>5. \A q \in Requests : pc'[q] = "idle" => pc[q] = "idle" /\ q # r
      BY <2>4
    <2>6. StoreInvariant'
      <3>1. \A q \in Requests : pc'[q] = "idle" =>
               pc[q] = "idle" /\ \A s \in Requests : <<"profiles", q>> \notin trash'[s]
        BY <2>4, <2>5 DEF SerialInvariant, StoreInvariant, Fresh
      <3> QED BY <2>4, <3>1, StoresKept DEF SerialInvariant, stores
    <2>7. Flow(r)'
      <3>1. call[r].op = "stepSix" <=> call[r].step = 6
        BY <1>1, FlowNow DEF RowsFlow
      <3>2. Files(Documents)' \cap {<<"profiles", r>>} = {}
        <4>1. Files(Documents)' = Files(Documents)
          BY <2>4 DEF stores, Files, Documents, RowsOf
        <4>2. Files(Documents) \subseteq DocumentFiles
          BY FlowNow
        <4> QED BY <4>1, <4>2 DEF DocumentFiles
      <3> QED BY <2>3, <2>4, <3>1, <3>2
              DEF stores, Flow, RowStillThere, ImageFlow, RowsFlow, FilesFlow, Uncommitted
    <2> QED BY <1>1, <2>4, <2>6, <2>7, OneMoves DEF Places
  <1> QED BY <1>2, <1>3

-----------------------------------------------------------------------------
(* Deletions in storage, the timer and the death of the process. *)

\* Deleting, or failing to delete, a file that nothing names keeps the stores.
LEMMA DeleteKeepsStores ==
  ASSUME StoreInvariant, NEW o \in Objects, Delete(o),
         o # row.profileImage,
         "storage" \notin Faults => o \notin Files(Documents),
         \A q \in Requests : pc[q] = "idle" => o # <<"profiles", q>>,
         UNCHANGED <<row, children, pc>>,
         retrying' \in {retrying, None},
         \A q \in Requests : trash'[q] \subseteq trash[q]
  PROVE  StoreInvariant'
  <1>1. /\ objects' \subseteq objects /\ objects \subseteq objects' \cup {o}
        /\ retryList' \subseteq retryList \cup {o}
        /\ "storage" \notin Faults => retryList' = retryList
    BY DEF Delete
  <1>2. Fresh'
    <2>1. \A q \in Requests : <<"profiles", q>> # None
      BY ConstantsAssumption DEF Objects, Names
    <2> QED BY <1>1, <2>1 DEF StoreInvariant, Fresh
  <1>3. ImageKept'
    <2>1. row.profileImage # None => row.profileImage \notin retryList' \cup {retrying'}
      BY <1>1 DEF StoreInvariant, ImageKept
    <2> QED BY <1>1, <2>1 DEF StoreInvariant, ImageKept
  <1>4. RetryUnused' /\ Buckets' /\ OneSubmissionPerStep'
    BY <1>1 DEF StoreInvariant, RetryUnused, Buckets, OneSubmissionPerStep
  <1>5. "storage" \notin Faults => DocumentFilesStored'
    BY <1>1 DEF StoreInvariant, DocumentFilesStored, Files, Documents, RowsOf
  <1> QED BY <1>2, <1>3, <1>4, <1>5 DEF StoreInvariant

\* A file may be deleted behind a request that neither carries it as its image
\* nor inserts it.
LEMMA DeleteKeepsFlow ==
  ASSUME SerialInvariant, NEW r \in Requests, NEW o \in Objects, Delete(o),
         pc[r] \in Uncommitted /\ call[r].op \in {"create", "stepOne"}
             => entity[r].profileImage # o,
         pc[r] \in Uncommitted /\ call[r].op = "stepSix" /\ "storage" \notin Faults
             => o \notin Files(batch[r]),
         UNCHANGED <<life, row, children, pc, call, entity, targets, batch>>,
         retrying' \in {retrying, None},
         trash'[r] \subseteq trash[r]
  PROVE  Flow(r)'
  <1>1. /\ objects \subseteq objects' \cup {o}
        /\ retryList' \subseteq retryList \cup {o}
    BY DEF Delete
  <1>2. RowStillThere(r)'
    BY FlowNow DEF RowStillThere
  <1>3. ImageFlow(r)'
    <2>1. ImageFlow(r)
      BY FlowNow
    <2>2. ASSUME pc[r] \in Uncommitted /\ call[r].op \in {"create", "stepOne"},
                 entity[r].profileImage # None
          PROVE  /\ entity[r].profileImage \in objects'
                 /\ entity[r].profileImage \notin retryList' \cup {retrying'}
      BY <1>1, <2>1, <2>2 DEF ImageFlow
    <2> QED BY <2>1, <2>2 DEF ImageFlow
  <1>4. RowsFlow(r)'
    BY FlowNow DEF RowsFlow, RowsOf, Active
  <1>5. FilesFlow(r)'
    <2>1. FilesFlow(r) /\ Files(Documents)' = Files(Documents) /\ Files(batch[r])' = Files(batch[r])
      BY FlowNow DEF Files, Documents, RowsOf
    <2> QED BY <1>1, <2>1 DEF FilesFlow
  <1> QED BY <1>2, <1>3, <1>4, <1>5 DEF Flow

\* The deletions after the outcome of a request keep all right.
LEMMA DeleteObjectKeeps ==
  ASSUME OneAtATime, TypeOK, SerialInvariant, NEW r \in Requests, DeleteObject(r)
  PROVE  SerialInvariant'
  <1>1. PICK o \in trash[r] : Delete(o) /\ trash' = [trash EXCEPT ![r] = @ \ {o}]
    BY DEF DeleteObject
  <1>2. /\ pc[r] \in {"cleanup", "undo"} /\ Active(r) /\ pc[r] \notin Uncommitted
        /\ UNCHANGED <<life, row, children, retrying, pc, call, entity, targets, batch>>
    BY DEF DeleteObject, Active, Finished, Uncommitted
  <1>3. o \in Objects /\ \A q \in Requests : trash'[q] \subseteq trash[q]
    BY <1>1 DEF TypeOK, RequestsOK
  <1>4. o # row.profileImage /\ o \notin Files(Documents)
    BY <1>2, FlowNow DEF ImageFlow, FilesFlow
  <1>5. \A q \in Requests : pc[q] = "idle" => o # <<"profiles", q>>
    BY DEF SerialInvariant, StoreInvariant, Fresh
  <1>6. StoreInvariant'
    BY <1>1, <1>2, <1>3, <1>4, <1>5, DeleteKeepsStores DEF SerialInvariant
  <1>7. Flow(r)'
    BY <1>1, <1>2, <1>3, DeleteKeepsFlow
  <1>8. pc' = [pc EXCEPT ![r] = pc[r]] /\ pc[r] \in Places
    BY <1>2 DEF TypeOK, RequestsOK
  <1> QED BY <1>2, <1>6, <1>7, <1>8, OneMoves

\* The end of the deletions keeps all right.
LEMMA CleanupDoneKeeps ==
  ASSUME OneAtATime, TypeOK, SerialInvariant, NEW r \in Requests, CleanupDone(r)
  PROVE  SerialInvariant'
  <1>1. pc[r] \in {"cleanup", "undo"} /\ Active(r) /\ UNCHANGED stores
    BY DEF CleanupDone, Active, Finished
  <1>2. CASE pc[r] = "cleanup" /\ QueuesDocuments(r)
    <2>1. Goto(r, "queue") /\ UNCHANGED locals
      BY <1>2 DEF CleanupDone
    <2>2. pc'[r] = "queue" /\ call' = call
      BY <2>1 DEF Goto, locals, TypeOK, RequestsOK
    <2>3. call[r].op = "stepSix" <=> call[r].step = 6
      BY <1>1, FlowNow DEF RowsFlow
    <2>4. Flow(r)'
      BY <2>2, <2>3 DEF Flow, RowStillThere, ImageFlow, RowsFlow, FilesFlow, Uncommitted
    <2> QED BY <1>1, <2>1, <2>4, GotoKeeps DEF stores, locals, Places
  <1>3. CASE ~(pc[r] = "cleanup" /\ QueuesDocuments(r))
    <2>1. End(r, "failed") \/ End(r, "done")
      BY <1>3 DEF CleanupDone
    <2> QED BY <1>1, <2>1, EndKeeps DEF stores
  <1> QED BY <1>2, <1>3

\* A deletion by the timer keeps all right if nothing carries the file.
LEMMA TimerDeletes ==
  ASSUME OneAtATime, TypeOK, SerialInvariant, NEW o \in Objects, Delete(o),
         o # row.profileImage,
         "storage" \notin Faults => o \notin DocumentFiles,
         \A q \in Requests : pc[q] = "idle" => o # <<"profiles", q>>,
         \A q \in Requests : pc[q] \in Uncommitted /\ call[q].op \in {"create", "stepOne"}
             => entity[q].profileImage # o,
         UNCHANGED <<life, row, children, pc, locals>>,
         retrying' \in {retrying, None}
  PROVE  SerialInvariant'
  <1>1. StoreInvariant'
    <2>1. StoreInvariant /\ Files(Documents) \subseteq DocumentFiles
      BY DEF SerialInvariant, StoreInvariant, Buckets, Files, Documents, RowsOf
    <2>2. \A q \in Requests : trash'[q] \subseteq trash[q]
      BY DEF locals
    <2> QED BY <2>1, <2>2, DeleteKeepsStores
  <1>2. ASSUME NEW q \in Requests PROVE Flow(q)'
    <2>1. pc[q] \in Uncommitted /\ call[q].op = "stepSix" => Files(batch[q]) \subseteq DocumentFiles
      BY FlowNow DEF RowsFlow, Files
    <2> QED BY <2>1, DeleteKeepsFlow DEF locals
  <1>3. Alone'
    BY DEF SerialInvariant, Alone, Active
  <1> QED BY <1>1, <1>2, <1>3 DEF SerialInvariant

\* The hourly timer keeps all right.
LEMMA TimerKeeps ==
  ASSUME OneAtATime, TypeOK, SerialInvariant, Timer
  PROVE  SerialInvariant'
  <1>1. ASSUME PopRetry PROVE SerialInvariant'
    <2>1. PICK o \in retryList : retryList' = retryList \ {o} /\ retrying' = o
      BY <1>1 DEF PopRetry
    <2>2. "storage" \in Faults
      BY <2>1 DEF SerialInvariant, StoreInvariant, RetryUnused
    <2>3. UNCHANGED <<life, row, children, objects, pc, locals>>
      BY <1>1 DEF PopRetry
    <2>4. StoreInvariant'
      BY <2>1, <2>2, <2>3 DEF SerialInvariant, StoreInvariant, Fresh, Buckets, ImageKept,
         RetryUnused, OneSubmissionPerStep, locals
    <2>5. ASSUME NEW q \in Requests PROVE Flow(q)'
      <3>1. RowStillThere(q)' /\ ImageFlow(q)'
        BY <2>1, <2>3, FlowNow DEF RowStillThere, ImageFlow, locals
      <3>2. RowsFlow(q) /\ FilesFlow(q)
        BY FlowNow
      <3>3. RowsFlow(q)'
        BY <2>3, <3>2 DEF RowsFlow, RowsOf, Active, locals
      <3>4. FilesFlow(q)'
        BY <2>3, <3>2 DEF FilesFlow, Files, Documents, RowsOf, locals
      <3> QED BY <3>1, <3>3, <3>4 DEF Flow
    <2>6. Alone'
      BY <2>3 DEF SerialInvariant, Alone, Active
    <2> QED BY <2>4, <2>5, <2>6 DEF SerialInvariant
  <1>2. ASSUME RetryDeletion PROVE SerialInvariant'
    <2>1. /\ retrying \in Objects /\ Delete(retrying) /\ retrying' = None
          /\ UNCHANGED <<life, row, children, pc, locals>>
      BY <1>2 DEF RetryDeletion, TypeOK, StoresOK
    <2>2. "storage" \in Faults
      BY <1>2 DEF RetryDeletion, SerialInvariant, StoreInvariant, RetryUnused
    <2>3. /\ retrying # row.profileImage
          /\ \A q \in Requests : pc[q] = "idle" => retrying # <<"profiles", q>>
      BY <2>1, ConstantsAssumption DEF SerialInvariant, StoreInvariant, ImageKept, Fresh
    <2>4. \A q \in Requests : pc[q] \in Uncommitted /\ call[q].op \in {"create", "stepOne"}
             => entity[q].profileImage # retrying
      BY <2>1, FlowNow, ConstantsAssumption DEF ImageFlow
    <2> QED BY <2>1, <2>2, <2>3, <2>4, TimerDeletes
  <1>3. ASSUME ExpireStaged PROVE SerialInvariant'
    <2>1. PICK o \in Staged : Delete(o)
      BY <1>3 DEF ExpireStaged
    <2>2. o \in {"staging"} \X Names /\ o \in Objects
      BY DEF Staged, TypeOK, StoresOK, Objects
    <2>3. o \notin Profiles /\ o \notin DocumentFiles /\ o # None
      BY <2>2, ConstantsAssumption DEF Profiles, DocumentFiles
    <2>4. \A q \in Requests : o # <<"profiles", q>>
      BY <2>2
    <2>5. row.profileImage # o
      BY <2>3, FlowNow DEF SerialInvariant, StoreInvariant, Buckets
    <2>6. \A q \in Requests : pc[q] \in Uncommitted /\ call[q].op \in {"create", "stepOne"}
             => entity[q].profileImage # o
      BY <2>3, <2>4, <2>5, FlowNow DEF ImageFlow
    <2> QED BY <1>3, <2>1, <2>2, <2>3, <2>4, <2>5, <2>6, TimerDeletes DEF ExpireStaged
  <1> QED BY <1>1, <1>2, <1>3 DEF Timer

\* The death of the process ends what was under way and touches no store.
LEMMA CrashKeeps ==
  ASSUME TypeOK, SerialInvariant, Crash
  PROVE  SerialInvariant'
  <1>1. \A r \in Requests : ~Active(r)' /\ (pc'[r] = "idle" => pc[r] = "idle")
    BY DEF Crash, Active, Finished
  <1>2. \A r \in Requests : Flow(r)'
    BY <1>1 DEF Flow, RowStillThere, ImageFlow, RowsFlow, FilesFlow, Active, Uncommitted, Finished
  <1>3. Alone'
    BY <1>1 DEF Alone
  <1>4. StoreInvariant'
    <2>1. \A q \in Requests : <<"profiles", q>> # None
      BY ConstantsAssumption DEF Objects, Names
    <2>2. Fresh'
      BY <1>1, <2>1 DEF Crash, SerialInvariant, StoreInvariant, Fresh
    <2>3. ImageKept'
      BY DEF Crash, SerialInvariant, StoreInvariant, ImageKept
    <2> QED BY <2>2, <2>3 DEF Crash, SerialInvariant, StoreInvariant, Buckets, RetryUnused,
               OneSubmissionPerStep, DocumentFilesStored, Files, Documents, RowsOf
  <1> QED BY <1>2, <1>3, <1>4 DEF SerialInvariant

\* The invariant is inductive.
LEMMA SerialInvariance ==
  ASSUME OneAtATime
  PROVE  TypeOK /\ SerialInvariant /\ [Next]_vars => SerialInvariant'
  <1> SUFFICES ASSUME TypeOK, SerialInvariant, [Next]_vars PROVE SerialInvariant'
    OBVIOUS
  <1>1. ASSUME NEW r \in Requests, Start(r) PROVE SerialInvariant'
    BY <1>1, CreateKeeps, StepOneUpdateKeeps, ChildStepKeeps, StepSixKeeps, OtherStartsKeep,
       UploadsKeep DEF Start
  <1>2. ASSUME NEW r \in Requests, Continue(r) PROVE SerialInvariant'
    BY <1>2, StatementsKeep, ApplyAndLoadKeep, CommitKeeps, MissedKeeps, DeleteRecordKeeps,
       UploadsKeep, QueueKeeps, RollbackKeeps, DeleteObjectKeeps, CleanupDoneKeeps DEF Continue
  <1>3. ASSUME UNCHANGED vars PROVE SerialInvariant'
    <2>1. Alone' /\ StoreInvariant'
      BY <1>3 DEF vars, SerialInvariant, Alone, Active, StoreInvariant, Fresh, Buckets,
         ImageKept, RetryUnused, OneSubmissionPerStep, DocumentFilesStored, Files, Documents,
         RowsOf
    <2>2. \A r \in Requests : Flow(r)'
      <3>1. \A r \in Requests : RowStillThere(r)' /\ ImageFlow(r)'
        BY <1>3, FlowNow DEF vars, RowStillThere, ImageFlow
      <3>2. \A r \in Requests : RowsFlow(r)'
        BY <1>3, FlowNow DEF vars, RowsFlow, Active, RowsOf
      <3>3. \A r \in Requests : FilesFlow(r)'
        BY <1>3, FlowNow DEF vars, FilesFlow, Files, Documents, RowsOf
      <3> QED BY <3>1, <3>2, <3>3 DEF Flow
    <2> QED BY <2>1, <2>2 DEF SerialInvariant
  <1> QED BY <1>1, <1>2, <1>3, TimerKeeps, CrashKeeps DEF Next

\* The invariant holds at the start.
LEMMA InitiallySerial == Init => SerialInvariant
  <1> SUFFICES ASSUME Init PROVE SerialInvariant
    OBVIOUS
  <1>1. \A r \in Requests : ~Active(r) /\ pc[r] = "idle"
    BY DEF Init, Active, Finished
  <1>2. Alone /\ \A r \in Requests : Flow(r)
    BY <1>1, QuietFlow DEF Alone
  <1>3. Fresh
    <2>1. \A q \in Requests : <<"profiles", q>> # None
      BY ConstantsAssumption DEF Objects, Names
    <2> QED BY <2>1 DEF Init, Fresh, NewRow
  <1>4. Buckets /\ ImageKept /\ RetryUnused /\ OneSubmissionPerStep /\ DocumentFilesStored
    BY DEF Init, Buckets, ImageKept, RetryUnused, OneSubmissionPerStep, DocumentFilesStored,
           Files, Documents, RowsOf, NewRow
  <1> QED BY <1>2, <1>3, <1>4 DEF SerialInvariant, StoreInvariant

\* With one request under way at a time, what a request remembers still agrees
\* with the stores when it acts on it, whatever fails.
THEOREM SerialCorrect ==
  ASSUME OneAtATime
  PROVE  Spec => []SerialInvariant
  <1>1. TypeOK /\ SerialInvariant /\ [Next]_vars => SerialInvariant'
    BY SerialInvariance
  <1> QED BY <1>1, InitiallySerial, TypeCorrect, PTL DEF Spec

\* The image the row names is in storage, whatever fails.
THEOREM ImageNeverLost ==
  ASSUME OneAtATime
  PROVE  Spec => []ProfileImageStored
  <1>1. SerialInvariant => ProfileImageStored
    BY DEF SerialInvariant, StoreInvariant, ImageKept, ProfileImageStored
  <1> QED BY <1>1, SerialCorrect, PTL

\* The files of the documents are in storage unless a deletion may be retried
\* later than the document is attached again.
THEOREM FilesNeverLost ==
  ASSUME OneAtATime, "storage" \notin Faults
  PROVE  Spec => []DocumentFilesStored
  <1>1. SerialInvariant => DocumentFilesStored
    BY DEF SerialInvariant, StoreInvariant
  <1> QED BY <1>1, SerialCorrect, PTL

\* Every step's child rows come from one submission.
THEOREM FormsNeverMix ==
  ASSUME OneAtATime
  PROVE  Spec => []OneSubmissionPerStep
  <1>1. SerialInvariant => OneSubmissionPerStep
    BY DEF SerialInvariant, StoreInvariant
  <1> QED BY <1>1, SerialCorrect, PTL

=============================================================================
