--------------------------- MODULE RecordsService ---------------------------
(***************************************************************************)
(* One record of Recordly and everything that hangs off it: its row and    *)
(* child rows in PostgreSQL, its files in object storage, and the          *)
(* ingestion jobs its documents are queued for.  Every HTTP request is a   *)
(* small process whose steps are the points at which records.service.ts    *)
(* awaits the database, the storage or the queue.                          *)
(*                                                                         *)
(* The database runs at READ COMMITTED: a statement sees what is committed *)
(* when it starts, what a transaction wrote is seen by nobody else until   *)
(* its commit, and a statement waits for the transactions that hold locks  *)
(* in its way; of two that wait for each other PostgreSQL ends one.  The   *)
(* write of a transaction's last UPDATE is placed at its commit, since     *)
(* nothing another request can see lies between them.                      *)
(***************************************************************************)
EXTENDS Naturals, FiniteSets

CONSTANTS
    Requests,      \* HTTP requests; each one is made at most once
    Earlier,       \* uploads made before the behaviour starts
    ChildSteps,    \* the modelled steps among 2..5, the child-table steps
    Ops,           \* operations clients use, among AllOps
    MaxDocuments,  \* documents in one step-six submission
    Faults,        \* what may fail, among AllFaults
    OneAtATime,    \* TRUE: a request starts only when no other is under way
    None           \* null

AllOps == {"create", "stepOne", "child", "stepSix", "reopen", "remove",
           "stage", "upload", "requeue", "close"}

AllFaults == {"database",  \* a statement fails and the transaction rolls back
              "connection",\* the connection is lost: the ROLLBACK fails too
              "storage",   \* a DeleteObject call fails
              "redis",     \* the push onto the deletion retry list fails too
              "queue",     \* adding ingestion jobs fails
              "crash"}     \* the backend process dies

Names == Requests \cup Earlier

Objects == {"documents", "profiles", "staging"} \X Names

ASSUME ConstantsAssumption ==
    /\ Requests \cap Earlier = {}
    /\ ChildSteps \subseteq 2 .. 5
    /\ Ops \subseteq AllOps
    /\ MaxDocuments \in Nat
    /\ Faults \subseteq AllFaults
    /\ OneAtATime \in BOOLEAN
    /\ None \notin Requests \cup Objects

Actions == {"DRAFT", "CONTINUE", "FINAL"}

RowType == [status : {"DRAFT", "COMPLETED"},
            lastCompletedStep : 0 .. 6,
            completedAt : Requests \cup {None},  \* a date, named by who set it
            profileImage : Objects \cup {None}]

ChildType == [step : 2 .. 6, by : Requests, file : Objects \cup {None}]

CallType == [op : AllOps \cup {"none"}, step : 0 .. 6, action : Actions,
             updatesRow : BOOLEAN]

VARIABLES
    life,      \* "unborn", "live", "gone": is there a row in "records"; or
               \* "closed": the owner's account is gone, and the row with it
    row,       \* the committed row
    children,  \* committed child rows; those of step 6 are the documents
    objects,   \* names present in object storage
    retryList, \* the storage deletion retry list in Redis
    retrying,  \* the reference retryFailedDeletions popped last, or None
    jobs,      \* documents an ingestion job was added for
    pc,        \* where each request stands
    call,      \* what each request asks for
    entity,    \* the row entity a request loaded and changed in memory
    loaded,    \* the row "save" loaded to compute the changed columns
    targets,   \* child rows the transaction's DELETE statement found
    batch,     \* child rows the transaction inserts, or documents to queue
    trash      \* references the request is going to delete from storage

stores == <<life, row, children, objects, retryList, retrying, jobs>>
locals == <<call, entity, loaded, targets, batch, trash>>
vars == <<life, row, children, objects, retryList, retrying, jobs, pc,
          call, entity, loaded, targets, batch, trash>>

NewRow == [status |-> "DRAFT", lastCompletedStep |-> 0, completedAt |-> None,
           profileImage |-> None]

\* A request that is no step of the form.
Plain(op) == [op |-> op, step |-> 0, action |-> "DRAFT", updatesRow |-> FALSE]

NoCall == Plain("none")

NoRowsOf(step) == {}  \* mutant of RowsOf: the DELETE is forgotten

\* The committed rows of one step's table: what its DELETE statement finds.
RowsOf(step) == {d \in children : d.step = step}

Documents == RowsOf(6)

Files(docs) == {d.file : d \in docs} \ {None}

-----------------------------------------------------------------------------
(* Who is where, and which locks that implies. *)

Finished == {"idle", "done", "failed"}

OnDatabase == {"update", "delete", "lock", "insert", "apply", "save", "write", "revive",
               "remove", "cascade"}

Writing(r) == pc[r] \in {"apply", "save", "write", "revive"} /\ call[r].op # "reopen"

\* Steps 1, 3 and 4 UPDATE the record before applyStepAction, which locks its row.
LocksRow(r) == Writing(r) /\ call[r].updatesRow

\* An INSERT of child rows shares the record row (foreign key).
SharesRow(r) == batch[r] # {} /\ (pc[r] = "update" \/ Writing(r))

\* A DELETE of child rows holds those it found.
HoldsRows(r) == targets[r] # {} /\ (pc[r] \in {"insert", "update"} \/ Writing(r))

\* The removal of a record holds its row, that of an account the account's row
\* too, before the DELETE cascades to the child rows.
Cascading(r) == pc[r] = "cascade"

\* The next statement of r waits for a lock that q holds.  An account waits for the
\* record being inserted into it (foreign key).
WaitsFor(r, q) ==
    \/ pc[r] = "lock" /\ HoldsRows(q) /\ targets[q] \cap targets[r] # {}
    \/ pc[r] = "insert" /\ batch[r] # {} /\ Cascading(q)
    \/ pc[r] = "update" /\ (LocksRow(q) \/ Cascading(q))
    \/ pc[r] = "write" /\ entity[r] # loaded[r] /\ (LocksRow(q) \/ Cascading(q))
    \/ pc[r] = "revive" /\ Cascading(q)
    \/ pc[r] = "remove" /\ (LocksRow(q) \/ SharesRow(q) \/ Cascading(q))
    \/ pc[r] = "remove" /\ call[r].op = "close" /\ call[q].op = "create" /\ Writing(q)
    \/ pc[r] = "cascade" /\ HoldsRows(q)

Unblocked(r) == \A q \in Requests \ {r} : ~WaitsFor(r, q)

\* Every cycle of waiting requests has a cascading one in it, and is of two.
Deadlocked(r) == \E q \in Requests \ {r} : WaitsFor(r, q) /\ WaitsFor(q, r)

MayStart(r) ==
    /\ pc[r] = "idle"
    /\ OneAtATime => \A q \in Requests : pc[q] \in Finished

Exists == life = "live"  \* mutant of Editable

Editable == life = "live" /\ row.status # "COMPLETED"

-----------------------------------------------------------------------------
Init ==
    /\ life \in {"unborn", "live"}
    /\ row = NewRow
    /\ children = {}
    /\ objects = (IF life = "live" THEN {"documents", "staging"} ELSE {"staging"})
                   \X Earlier
    /\ retryList = {}
    /\ retrying = None
    /\ jobs = {}
    /\ pc = [r \in Requests |-> "idle"]
    /\ call = [r \in Requests |-> NoCall]
    /\ entity = [r \in Requests |-> NewRow]
    /\ loaded = [r \in Requests |-> NewRow]
    /\ targets = [r \in Requests |-> {}]
    /\ batch = [r \in Requests |-> {}]
    /\ trash = [r \in Requests |-> {}]

\* The request starts with this call, loaded entity, rows to insert and trash.
Begin(r, where, c, ent, rows, refs) ==
    /\ MayStart(r)
    /\ c.op \in Ops
    /\ pc' = [pc EXCEPT ![r] = where]
    /\ call' = [call EXCEPT ![r] = c]
    /\ entity' = [entity EXCEPT ![r] = ent]
    /\ batch' = [batch EXCEPT ![r] = rows]
    /\ trash' = [trash EXCEPT ![r] = refs]
    /\ targets' = [targets EXCEPT ![r] = {}]
    /\ UNCHANGED loaded

\* The request is over; what it kept in memory is gone.
End(r, outcome) ==
    /\ pc' = [pc EXCEPT ![r] = outcome]
    /\ call' = [call EXCEPT ![r] = NoCall]
    /\ entity' = [entity EXCEPT ![r] = NewRow]
    /\ loaded' = [loaded EXCEPT ![r] = NewRow]
    /\ targets' = [targets EXCEPT ![r] = {}]
    /\ batch' = [batch EXCEPT ![r] = {}]
    /\ trash' = [trash EXCEPT ![r] = {}]

Goto(r, where) == pc' = [pc EXCEPT ![r] = where]

-----------------------------------------------------------------------------
(* Step one: the profile image is promoted from its staging object. *)

StepOneActions == {"DRAFT", "CONTINUE"}  \* FINAL is refused before step six

Staged == {o \in objects : o[1] = "staging"}

\* What promoteProfileImage resolves the submitted image to, and whether it
\* copies: nothing, the current image again, or a staged upload.
Promoted(r, submitted, current) ==
    IF submitted \in {None, current} THEN submitted ELSE <<"profiles", r>>

TrashWithCurrent(submitted, current, image) == {submitted, current} \ {None}

TrashStagedOnly(submitted, current, image) == {submitted} \ {None, image}

\* What step one deletes after its commit: the staged upload, and the previous
\* image unless it is the image still.
StepOneTrash(submitted, current, image) == {submitted, current} \ {None, image}

StepOneCreate(r) ==
    \E submitted \in {None} \cup Staged, action \in StepOneActions :
        LET image == Promoted(r, submitted, None) IN
        /\ life = "unborn"
        /\ \A q \in Requests : call[q].op # "create" /\ ~Cascading(q)
        /\ Begin(r, "apply",
                 [op |-> "create", step |-> 1, action |-> action, updatesRow |-> FALSE],
                 [NewRow EXCEPT !.profileImage = image], {}, StepOneTrash(submitted, None, image))
        /\ objects' = objects \cup ({image} \ {None})
        /\ UNCHANGED <<life, row, children, retryList, retrying, jobs>>

StepOneUpdate(r) ==
    \E submitted \in {None, row.profileImage} \cup Staged, action \in StepOneActions :
        LET image == Promoted(r, submitted, row.profileImage) IN
        /\ Editable
        /\ Begin(r, "update",
                 [op |-> "stepOne", step |-> 1, action |-> action, updatesRow |-> TRUE],
                 [row EXCEPT !.profileImage = image],
                 {}, StepOneTrash(submitted, row.profileImage, image))
        /\ objects' = objects \cup ({image} \cap {<<"profiles", r>>})
        /\ UNCHANGED <<life, row, children, retryList, retrying, jobs>>

UpdateRow(r) ==
    /\ pc[r] = "update"
    /\ life = "live"
    /\ Unblocked(r)
    /\ Goto(r, "apply")
    /\ UNCHANGED <<stores, locals>>

-----------------------------------------------------------------------------
(* Steps two to six: findOne and ensureRecordEditable run outside the       *)
(* transaction, which then replaces the step's child rows.                  *)

ChildStep(r) ==
    \E s \in ChildSteps, action \in StepOneActions, any \in BOOLEAN, touch \in BOOLEAN :
        /\ Editable
        /\ s # 4 => touch = (s = 3)
        /\ Begin(r, "delete",
                 [op |-> "child", step |-> s, action |-> action, updatesRow |-> touch],
                 NewRow, IF any THEN {[step |-> s, by |-> r, file |-> None]} ELSE {}, {})
        /\ UNCHANGED stores

AllFiles(files) == Files(Documents)  \* mutant of RemovedFiles

\* removedDocumentReferences
RemovedFiles(files) == Files(Documents) \ files

\* resolveDocumentMetadata: documents of the record are kept by their id, new
\* ones name an upload that storage.stat finds; a document may have no file.
StepSix(r) ==
    \E kept \in SUBSET {d \in Documents : d.file # None}, action \in Actions,
       fresh \in SUBSET ({None} \cup {o \in objects : o[1] = "documents"}) :
        LET files == {d.file : d \in kept} \cup fresh IN
        /\ Editable
        /\ Cardinality(files) <= MaxDocuments
        /\ Begin(r, "delete",
                 [op |-> "stepSix", step |-> 6, action |-> action, updatesRow |-> FALSE],
                 NewRow, {[step |-> 6, by |-> r, file |-> f] : f \in files},
                 RemovedFiles(files))
        /\ UNCHANGED stores

\* The DELETE finds the rows committed now and waits for those who hold them.
DeleteRows(r) ==
    /\ pc[r] = "delete"
    /\ targets' = [targets EXCEPT ![r] = RowsOf(call[r].step)]
    /\ Goto(r, "lock")
    /\ UNCHANGED <<stores, call, entity, loaded, batch, trash>>

LockRows(r) ==
    /\ pc[r] = "lock"
    /\ Unblocked(r)
    /\ Goto(r, "insert")
    /\ UNCHANGED <<stores, locals>>

\* Steps 3 and 4 UPDATE the record after the child rows, the others do not.
AfterInsert(r) == IF call[r].updatesRow THEN "update" ELSE "apply"

\* Mutant of InsertRows: the documents are queued before the commit.
InsertRowsAndQueue(r) ==
    /\ pc[r] = "insert"
    /\ batch[r] # {} => life = "live"
    /\ Unblocked(r)
    /\ Goto(r, AfterInsert(r))
    /\ jobs' = jobs \cup (IF call[r].op = "stepSix" THEN batch[r] ELSE {})
    /\ UNCHANGED <<life, row, children, objects, retryList, retrying, locals>>

\* An INSERT needs the record (foreign key).
InsertRows(r) ==
    /\ pc[r] = "insert"
    /\ batch[r] # {} => life = "live"
    /\ Unblocked(r)
    /\ Goto(r, AfterInsert(r))
    /\ UNCHANGED <<stores, locals>>

-----------------------------------------------------------------------------
(* applyStepAction and TypeORM's save. *)

\* The row as the request's own transaction sees it.
OwnRow(r) ==
    IF call[r].op = "create" THEN entity[r]
    ELSE IF call[r].op = "stepOne"
      THEN [row EXCEPT !.profileImage = entity[r].profileImage]
    ELSE row

RowIsVisible(r) == life = "live" \/ call[r].op = "create"

Second(a, b) == b  \* mutant of Larger

Larger(a, b) == IF a > b THEN a ELSE b

Applied(old, r) ==
    IF call[r].action = "DRAFT" THEN old
    ELSE [old EXCEPT
            !.status = IF call[r].action = "FINAL" THEN "COMPLETED" ELSE "DRAFT",
            !.completedAt = IF call[r].action = "FINAL" THEN r ELSE None,
            !.lastCompletedStep = Larger(@, call[r].step)]

ApplyStepAction(r) ==
    /\ pc[r] = "apply"
    /\ RowIsVisible(r)
    /\ entity' = [entity EXCEPT ![r] = Applied(OwnRow(r), r)]
    /\ Goto(r, "save")
    /\ UNCHANGED <<stores, call, loaded, targets, batch, trash>>

\* save first selects the row again: found, it will write the columns that
\* differ; not found, it will insert the entity.
SaveLoad(r) ==
    /\ pc[r] = "save"
    /\ IF RowIsVisible(r)
         THEN /\ loaded' = [loaded EXCEPT ![r] = OwnRow(r)]
              /\ Goto(r, "write")
         ELSE /\ Goto(r, "revive")
              /\ UNCHANGED loaded
    /\ UNCHANGED <<stores, call, entity, targets, batch, trash>>

Column(new, old, current) == IF new # old THEN new ELSE current

\* Only the changed columns are written; step one's earlier UPDATE set the image.
Merged(r) ==
    LET e == entity[r] o == loaded[r] IN
    [status            |-> Column(e.status, o.status, row.status),
     lastCompletedStep |-> Column(e.lastCompletedStep, o.lastCompletedStep,
                                  row.lastCompletedStep),
     completedAt       |-> Column(e.completedAt, o.completedAt, row.completedAt),
     profileImage      |-> IF call[r].op = "stepOne" THEN e.profileImage
                           ELSE Column(e.profileImage, o.profileImage, row.profileImage)]

\* The child rows of the transaction become visible and its request goes on:
\* steps one and six to the clean-up in storage, the others are answered.
PublishAndGoOn(r) ==
    /\ children' = (children \ targets[r]) \cup batch[r]
    /\ IF call[r].op \in {"create", "stepOne", "stepSix"}
         THEN /\ Goto(r, "cleanup")
              /\ entity' = [entity EXCEPT ![r] = NewRow]
              /\ loaded' = [loaded EXCEPT ![r] = NewRow]
              /\ targets' = [targets EXCEPT ![r] = {}]
              /\ UNCHANGED <<call, batch, trash>>
         ELSE End(r, "done")
    /\ UNCHANGED <<objects, retryList, retrying, jobs>>

CommitUpdate(r) ==
    /\ pc[r] = "write"
    /\ call[r].op # "create"
    /\ life = "live"
    /\ Unblocked(r)
    /\ row' = Merged(r)
    /\ UNCHANGED life
    /\ PublishAndGoOn(r)

CommitInsert(r) ==
    /\ \/ pc[r] = "write" /\ call[r].op = "create"
       \/ pc[r] = "revive" /\ life = "gone" /\ Unblocked(r)
    /\ life' = "live"
    /\ row' = entity[r]
    /\ PublishAndGoOn(r)

-----------------------------------------------------------------------------
(* Reopening, removing, and the removal of the owner's account, each a      *)
(* single statement that commits by itself.                                *)

StatusReopened(old) == [old EXCEPT !.status = "DRAFT"]  \* mutant of Reopened

Reopened(old) == [old EXCEPT !.status = "DRAFT", !.completedAt = None]

Reopen(r) ==
    /\ life = "live"
    /\ Begin(r, "save", Plain("reopen"), Reopened(row), {}, {})
    /\ UNCHANGED stores

\* The row vanished after save had loaded it: the UPDATE changes nothing.
ReopenMissed(r) ==
    /\ pc[r] = "write"
    /\ call[r].op = "reopen"
    /\ life # "live"
    /\ End(r, "done")
    /\ UNCHANGED stores

Remove(r) ==
    /\ life = "live"
    /\ Begin(r, "remove", Plain("remove"), NewRow, {},
             (Files(Documents) \cup {row.profileImage}) \ {None})
    /\ UNCHANGED stores

\* UsersService.remove: nothing of the account's records is looked at or cleaned up.
CloseAccount(r) ==
    /\ life # "closed"
    /\ Begin(r, "remove", Plain("close"), NewRow, {}, {})
    /\ UNCHANGED stores

\* The DELETE takes the row it names ...
LockRecord(r) ==
    /\ pc[r] = "remove"
    /\ IF call[r].op = "close" THEN life # "closed" ELSE life = "live"
    /\ Unblocked(r)
    /\ Goto(r, "cascade")
    /\ UNCHANGED <<stores, locals>>

\* ... and cascades, from the account to the record and on to its child rows.
DeleteRecord(r) ==
    /\ pc[r] = "cascade"
    /\ Unblocked(r)
    /\ life' = IF call[r].op = "close" THEN "closed" ELSE "gone"
    /\ row' = NewRow
    /\ children' = {}
    /\ Goto(r, "cleanup")
    /\ UNCHANGED <<objects, retryList, retrying, jobs, locals>>

\* The DELETE finds nothing: 404 for a record, which users.service.ts leaves out.
RemoveMissed(r) ==
    /\ pc[r] = "remove"
    /\ life \in {"gone", "closed"}
    /\ call[r].op = "close" => life = "closed"
    /\ End(r, IF call[r].op = "close" THEN "done" ELSE "failed")
    /\ UNCHANGED stores

-----------------------------------------------------------------------------
(* Uploads and requests for a new ingestion. *)

StageProfileImage(r) ==
    /\ MayStart(r)
    /\ "stage" \in Ops
    /\ objects' = objects \cup {<<"staging", r>>}
    /\ Goto(r, "done")
    /\ UNCHANGED <<life, row, children, retryList, retrying, jobs, locals>>

UploadDocument(r) ==
    /\ Editable
    /\ Begin(r, "upload", Plain("upload"), NewRow, {}, {})
    /\ UNCHANGED stores

PutDocument(r) ==
    /\ pc[r] = "upload"
    /\ objects' = objects \cup {<<"documents", r>>}
    /\ End(r, "done")
    /\ UNCHANGED <<life, row, children, retryList, retrying, jobs>>

\* reembedDocuments (all) and retryDocumentSearchIndex (a selection).
Requeue(r) ==
    \E docs \in SUBSET Documents :
        /\ life = "live"
        /\ Begin(r, "queue", Plain("requeue"), NewRow, docs, {})
        /\ UNCHANGED stores

QueueDocuments(r) ==
    /\ pc[r] = "queue"
    /\ jobs' = jobs \cup batch[r]
    /\ End(r, "done")
    /\ UNCHANGED <<life, row, children, objects, retryList, retrying>>

\* Step six logs the error and answers as if nothing had happened.
QueueFails(r) ==
    /\ pc[r] = "queue"
    /\ "queue" \in Faults
    /\ \E added \in SUBSET batch[r] : jobs' = jobs \cup added
    /\ End(r, IF call[r].op = "stepSix" THEN "done" ELSE "failed")
    /\ UNCHANGED <<life, row, children, objects, retryList, retrying>>

-----------------------------------------------------------------------------
(* Failure of a request, and the deletions in storage after its outcome. *)

\* StorageService.delete, as its callers use it: the error is swallowed.
Delete(o) ==
    \/ /\ objects' = objects \ {o}
       /\ UNCHANGED retryList
    \/ /\ "storage" \in Faults
       /\ UNCHANGED objects
       /\ \/ retryList' = retryList \cup {o}
          \/ "redis" \in Faults /\ UNCHANGED retryList

OnlyRevived(r) ==  \* mutant of Doomed: a vanished record is not noticed
    pc[r] = "revive" /\ life = "live"

\* The record vanished (not found, foreign key), or came back (primary key), or
\* its owner did not (foreign key).
Doomed(r) ==
    \/ pc[r] \in {"update", "insert", "apply"} /\ ~RowIsVisible(r)
    \/ pc[r] = "write" /\ ~RowIsVisible(r) /\ call[r].op # "reopen"
    \/ pc[r] = "revive" /\ life # "gone"

NoCopy(r) == {}  \* mutant of CopyMade

ImageCarried(r) ==  \* mutant of CopyMade: a kept image counts as a copy
    (IF call[r].op \in {"create", "stepOne"} THEN {entity[r].profileImage} ELSE {})
       \ {None}

CopyMade(r) ==
    {<<"profiles", r>>} \cap (IF call[r].op \in {"create", "stepOne"}
                              THEN {entity[r].profileImage} ELSE {})

\* Nothing was committed; step one deletes the copy it made in storage.
Rollback(r) ==
    /\ \/ Doomed(r) \/ Deadlocked(r)
       \/ "database" \in Faults /\ pc[r] \in OnDatabase
    /\ IF CopyMade(r) = {}
         THEN End(r, "failed")
         ELSE /\ Goto(r, "undo")
              /\ entity' = [entity EXCEPT ![r] = NewRow]
              /\ loaded' = [loaded EXCEPT ![r] = NewRow]
              /\ trash' = [trash EXCEPT ![r] = CopyMade(r)]
              /\ UNCHANGED <<call, targets, batch>>
    /\ UNCHANGED stores

\* rollbackTransaction throws inside the catch: what stands after it is not run.
ConnectionLost(r) ==
    /\ "connection" \in Faults
    /\ pc[r] \in OnDatabase
    /\ End(r, "failed")
    /\ UNCHANGED stores

DeleteObject(r) ==
    /\ pc[r] \in {"cleanup", "undo"}
    /\ \E o \in trash[r] :
          /\ Delete(o)
          /\ trash' = [trash EXCEPT ![r] = @ \ {o}]
    /\ UNCHANGED <<life, row, children, retrying, jobs, pc, call, entity, loaded,
                   targets, batch>>

FinalSubmission(r) == call[r].action = "FINAL"  \* mutant of QueuesDocuments

QueuesDocuments(r) == call[r].op = "stepSix"

CleanupDone(r) ==
    /\ pc[r] \in {"cleanup", "undo"}
    /\ trash[r] = {}
    /\ IF pc[r] = "cleanup" /\ QueuesDocuments(r)
         THEN Goto(r, "queue") /\ UNCHANGED locals
         ELSE End(r, IF pc[r] = "undo" THEN "failed" ELSE "done")
    /\ UNCHANGED stores

-----------------------------------------------------------------------------
(* The hourly timer, and the death of the backend process. *)

PopRetry ==
    /\ retrying = None
    /\ \E o \in retryList :
          /\ retryList' = retryList \ {o}
          /\ retrying' = o
    /\ UNCHANGED <<life, row, children, objects, jobs, pc, locals>>

RetryDeletion ==
    /\ retrying # None
    /\ Delete(retrying)
    /\ retrying' = None
    /\ UNCHANGED <<life, row, children, jobs, pc, locals>>

\* deleteExpiredTransientObjects: a staged image is 24 hours old.
ExpireStaged ==
    /\ \E o \in Staged : Delete(o)
    /\ UNCHANGED <<life, row, children, retrying, jobs, pc, locals>>

Crash ==
    /\ "crash" \in Faults
    /\ retrying # None \/ \E r \in Requests : pc[r] \notin Finished
    /\ pc' = [r \in Requests |-> IF pc[r] \in Finished THEN pc[r] ELSE "failed"]
    /\ call' = [r \in Requests |-> NoCall]
    /\ entity' = [r \in Requests |-> NewRow]
    /\ loaded' = [r \in Requests |-> NewRow]
    /\ targets' = [r \in Requests |-> {}]
    /\ batch' = [r \in Requests |-> {}]
    /\ trash' = [r \in Requests |-> {}]
    /\ retrying' = None
    /\ UNCHANGED <<life, row, children, objects, retryList, jobs>>

-----------------------------------------------------------------------------
Start(r) ==
    \/ StepOneCreate(r) \/ StepOneUpdate(r) \/ ChildStep(r) \/ StepSix(r)
    \/ Reopen(r) \/ Remove(r) \/ StageProfileImage(r) \/ UploadDocument(r)
    \/ Requeue(r) \/ CloseAccount(r)

Continue(r) ==
    \/ UpdateRow(r) \/ DeleteRows(r) \/ LockRows(r) \/ InsertRows(r)
    \/ ApplyStepAction(r) \/ SaveLoad(r) \/ CommitUpdate(r) \/ CommitInsert(r)
    \/ ReopenMissed(r) \/ LockRecord(r) \/ DeleteRecord(r) \/ RemoveMissed(r)
    \/ PutDocument(r) \/ QueueDocuments(r) \/ QueueFails(r) \/ Rollback(r)
    \/ ConnectionLost(r) \/ DeleteObject(r) \/ CleanupDone(r)

Timer == PopRetry \/ RetryDeletion \/ ExpireStaged

Next ==
    \/ \E r \in Requests : Start(r) \/ Continue(r)
    \/ Timer
    \/ Crash

Spec == Init /\ [][Next]_vars

\* Node runs every continuation that is ready; nothing obliges a client to call.
FairSpec == Spec /\ \A r \in Requests : WF_vars(Continue(r))

-----------------------------------------------------------------------------
(* Properties. *)

Places == {"idle", "update", "delete", "lock", "insert", "apply", "save", "write",
           "revive", "remove", "cascade", "upload", "cleanup", "undo", "queue", "done",
           "failed"}

StoresOK ==
    /\ life \in {"unborn", "live", "gone", "closed"}
    /\ row \in RowType
    /\ children \subseteq ChildType
    /\ objects \subseteq Objects
    /\ retryList \subseteq Objects
    /\ retrying \in Objects \cup {None}
    /\ jobs \subseteq ChildType

RequestsOK ==
    /\ pc \in [Requests -> Places]
    /\ call \in [Requests -> CallType]
    /\ entity \in [Requests -> RowType]
    /\ loaded \in [Requests -> RowType]
    /\ targets \in [Requests -> SUBSET ChildType]
    /\ batch \in [Requests -> SUBSET ChildType]
    /\ trash \in [Requests -> SUBSET Objects]

\* Every variable stays in its domain.
TypeOK == StoresOK /\ RequestsOK

AtRest == \A r \in Requests : pc[r] \in Finished

\* The image the row names is in storage: step one deletes the previous image
\* only after the commit that replaced it, and its copy only after a rollback.
ProfileImageStored ==
    life = "live" /\ row.profileImage # None => row.profileImage \in objects

\* The file of every document of the record is in storage: step six deletes
\* the files of removed documents only, and only after its commit.
DocumentFilesStored == Files(Documents) \subseteq objects

\* The rows of a child table were inserted by one and the same submission of
\* its step: "delete all, insert all" replaces, it never mixes two forms.
OneSubmissionPerStep ==
    \A c, d \in children : c.step = d.step => c.by = d.by

\* completedAt is set exactly while the record is COMPLETED.
CompletedAtAgrees == row.status = "COMPLETED" <=> row.completedAt # None

\* A COMPLETED record changes by being reopened or removed, by itself or with its
\* owner's account, by nothing else ("Completed records are locked and cannot be
\* edited.").
CompletedIsLocked ==
    [][life = "live" /\ row.status = "COMPLETED" /\ <<row, children>>' # <<row, children>>
         => \E r \in Requests : call[r].op \in {"reopen", "remove", "close"} /\ pc'[r] # pc[r]]_vars

\* The stored progress of the form never goes back.
ProgressOnlyAdvances ==
    [][life = "live" /\ life' = "live"
         => row'.lastCompletedStep >= row.lastCompletedStep]_vars

\* With nothing under way, no promoted image is left behind in storage: it is
\* the row's, or its deletion is still on the retry list.  The removal of the
\* owner's account is the exception: ON DELETE CASCADE takes the row without a
\* look at storage, and what the row named stays there.
NoOrphanedImage ==
    AtRest /\ life # "closed" =>
        {o \in objects : o[1] = "profiles"}
            \subseteq {row.profileImage, retrying} \cup retryList

\* A request that failed leaves no copy of the image it submitted, whatever
\* ran at the same time: step one undoes its copy after the rollback, unless the
\* ROLLBACK fails itself (fault "connection").
FailureLeavesNoCopy ==
    \A r \in Requests : pc[r] = "failed" /\ <<"profiles", r>> \in objects
        => <<"profiles", r>> \in retryList \cup {retrying}

\* A document row is never without its ingestion job for longer than the
\* request that inserted it takes: step six queues what it inserted.
EveryDocumentIsQueued ==
    \A d \in Documents : d \in jobs \/ pc[d.by] \in {"cleanup", "queue"}

\* A job is only added for a committed document ("Step six queues document
\* embedding through the AI module only after its transaction commits").
QueuedOnlyAfterCommit == [][jobs' \ jobs \subseteq children]_vars

\* No request waits for ever.  A step takes the child rows first and then the
\* record's row, a removal the other way round: when they meet, the database ends
\* one of the two, and no other cycle of waiting requests exists.
RequestsFinish ==
    \A r \in Requests : pc[r] \notin Finished ~> pc[r] \in Finished
=============================================================================
