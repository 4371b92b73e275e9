----------------------- MODULE RecordsServiceInvariant -----------------------
(***************************************************************************)
(* The inductive invariant behind the safety of RecordsService when one    *)
(* request is under way at a time: what a request remembers still agrees   *)
(* with the stores when it acts on it.                                     *)
(***************************************************************************)
EXTENDS RecordsService

Active(r) == pc[r] \notin Finished

Profiles == {"profiles"} \X Names

DocumentFiles == {"documents"} \X Names

Uncommitted == {"update", "delete", "lock", "insert", "apply", "save", "write"}

\* At most one request is under way.
Alone == \A q, r \in Requests : Active(q) /\ Active(r) => q = r

\* A request that has not started has left no trace under its name.
Fresh ==
    \A r \in Requests : pc[r] = "idle" =>
        /\ <<"profiles", r>> \notin objects \cup retryList
        /\ <<"profiles", r>> \notin {retrying, row.profileImage}
        /\ \A q \in Requests : <<"profiles", r>> \notin trash[q]

\* The columns and rows that name files name them in the right bucket.
Buckets ==
    /\ row.profileImage \in Profiles \cup {None}
    /\ \A d \in children : d.file \in DocumentFiles \cup {None}

\* The row's image is in storage and nobody is about to delete it.
ImageKept ==
    row.profileImage # None =>
        /\ row.profileImage \in objects
        /\ row.profileImage \notin retryList \cup {retrying}

\* Without storage failures the retry list is never used.
RetryUnused == "storage" \notin Faults => retryList = {} /\ retrying = None

\* The row a request saw is still there, and no request finds itself reviving it.
RowStillThere(r) ==
    /\ pc[r] # "revive"
    /\ pc[r] \in Uncommitted =>
          life = (IF call[r].op = "create" THEN "unborn" ELSE "live")
    /\ pc[r] \in {"remove", "cascade"} /\ call[r].op # "close" => life = "live"

\* Step one carries an image that is stored, not doomed, and the row's own
\* or a copy made by this request; its trash holds neither.
ImageFlow(r) ==
    /\ pc[r] \in Uncommitted /\ call[r].op \in {"create", "stepOne"} =>
          /\ entity[r].profileImage \in {None, row.profileImage, <<"profiles", r>>}
          /\ entity[r].profileImage # None =>
                /\ entity[r].profileImage \in objects
                /\ entity[r].profileImage \notin retryList \cup {retrying}
          /\ entity[r].profileImage \notin trash[r]
          /\ trash[r] \cap DocumentFiles = {}
          /\ row.profileImage # <<"profiles", r>>
    /\ pc[r] \in {"save", "write"} /\ call[r].op \notin {"create", "stepOne"} =>
          entity[r].profileImage = row.profileImage
    /\ pc[r] \in {"cleanup", "undo"} => row.profileImage \notin trash[r]

\* The rows a request replaces are still all the rows of its step, and those
\* it inserts are its own.
RowsFlow(r) ==
    /\ pc[r] \in {"delete", "lock", "insert"} => call[r].op \in {"child", "stepSix"}
    /\ pc[r] \in {"remove", "cascade"} => call[r].op \in {"remove", "close"}
    /\ pc[r] \in Uncommitted \ {"delete"} =>
          targets[r] = IF call[r].op \in {"child", "stepSix"}
                       THEN RowsOf(call[r].step) ELSE {}
    /\ pc[r] \in Uncommitted =>
          \A d \in batch[r] : /\ d.step = call[r].step
                              /\ d.by = r
                              /\ d.file \in DocumentFiles \cup {None}
                              /\ call[r].op # "stepSix" => d.file = None
    /\ Active(r) => (call[r].op = "stepSix" <=> call[r].step = 6)
    /\ pc[r] \in Uncommitted /\ call[r].op \notin {"child", "stepSix"} => batch[r] = {}

\* Step six inserts documents whose files are stored and not in its trash.
FilesFlow(r) ==
    /\ pc[r] \in Uncommitted /\ call[r].op = "stepSix" =>
          /\ trash[r] \subseteq DocumentFiles
          /\ Files(batch[r]) \cap trash[r] = {}
          /\ "storage" \notin Faults => Files(batch[r]) \subseteq objects
    /\ pc[r] \in Uncommitted /\ call[r].op \in {"child", "reopen"} => trash[r] = {}
    /\ pc[r] \in {"cleanup", "undo"} => Files(Documents) \cap trash[r] = {}

Flow(r) == RowStillThere(r) /\ ImageFlow(r) /\ RowsFlow(r) /\ FilesFlow(r)

StoreInvariant ==
    /\ Fresh
    /\ Buckets
    /\ ImageKept
    /\ RetryUnused
    /\ OneSubmissionPerStep
    /\ "storage" \notin Faults => DocumentFilesStored

\* The whole: it holds in every reachable state when OneAtATime is TRUE.
SerialInvariant == Alone /\ StoreInvariant /\ \A r \in Requests : Flow(r)

-----------------------------------------------------------------------------
(* What the life cycle of the record rests on, for requests one after the   *)
(* other.                                                                   *)

Lifecycle == INSTANCE RecordLifecycle WITH
    phase   <- IF life = "live" THEN row.status
               ELSE IF life = "closed" THEN "gone" ELSE life,
    content <- <<row.lastCompletedStep, row.profileImage, children>>

\* The record goes through the life cycle the module RecordLifecycle promises.
ImplementsLifecycle == Lifecycle!Spec

StepOps == {"create", "stepOne", "child", "stepSix"}

\* A submission starts from a DRAFT, and only step six completes it.
Drafting(r) ==
    /\ pc[r] \in {"update", "delete", "lock", "insert", "apply"} => call[r].op \in StepOps
    /\ pc[r] \in Uncommitted /\ call[r].op \in StepOps =>
          /\ row.status = "DRAFT"
          /\ call[r].op # "stepSix" => call[r].action # "FINAL"
          /\ call[r].op = "create" => entity[r].status = "DRAFT" /\ entity[r].completedAt = None

\* What a request saves is what it makes of the row as it is now, and the columns
\* it compares with are the row's.
Saving(r) ==
    /\ pc[r] \in {"save", "write"} =>
          /\ call[r].op \in StepOps \cup {"reopen"}
          /\ entity[r] = IF call[r].op = "reopen" THEN Reopened(row) ELSE Applied(OwnRow(r), r)
    /\ pc[r] = "write" => loaded[r] = OwnRow(r)

\* What is going to be queued is committed.
QueuesCommitted(r) ==
    pc[r] = "queue" \/ (pc[r] = "cleanup" /\ call[r].op = "stepSix") => batch[r] \subseteq children

\* A row that is not there has no columns and no child rows, and the columns agree.
LifecycleInvariant ==
    /\ life # "live" => row = NewRow /\ children = {}
    /\ CompletedAtAgrees
    /\ \A r \in Requests : Drafting(r) /\ Saving(r) /\ QueuesCommitted(r)

\* What a request under way is going to delete, or to publish as the row's image.
InHand(r) == IF Active(r) THEN trash[r] \cup CopyMade(r) ELSE {}

\* The image a commit or a removal replaces is going to be deleted after it, nothing
\* else that was promoted is in the trash before, and no request ends with a copy.
Discarding(r) ==
    /\ pc[r] \in Uncommitted /\ call[r].op = "stepOne" =>
          row.profileImage \in {None, entity[r].profileImage} \cup trash[r]
    /\ pc[r] \in {"remove", "cascade"} /\ call[r].op = "remove" =>
          row.profileImage \in {None} \cup trash[r]
    /\ pc[r] \in Uncommitted \cup {"remove", "cascade"} => trash[r] \cap Profiles \subseteq {row.profileImage}
    /\ pc[r] \in {"upload", "queue"} => trash[r] = {}
    /\ pc[r] \in {"upload", "queue", "cleanup", "undo"} => CopyMade(r) = {}

\* Every promoted image in storage is the row's, or somebody is going to delete it
\* or to publish it.
ImagesAccounted ==
    /\ objects \cap Profiles
          \subseteq {row.profileImage, retrying} \cup retryList \cup UNION {InHand(r) : r \in Requests}
    /\ \A r \in Requests : Discarding(r)

-----------------------------------------------------------------------------
(* What holds however requests interleave. *)

\* A copy of the submitted image is known to the request that made it, until it is
\* committed or its deletion has been asked for.
CopyKnown(r) ==
    <<"profiles", r>> \in objects =>
        \/ pc[r] \in Uncommitted \cup {"revive"} /\ CopyMade(r) = {<<"profiles", r>>}
        \/ pc[r] = "undo" /\ <<"profiles", r>> \in trash[r]
        \/ pc[r] \in {"cleanup", "done"} /\ call[r].op # "stepSix"
        \/ <<"profiles", r>> \in retryList \cup {retrying}

\* What step six inserts is its own, and what is inserted and not queued yet is
\* still in the memory of the request that is going to queue it.
QueueKnown(r) ==
    /\ pc[r] \in Uncommitted \cup {"revive"} =>
          \A d \in batch[r] : d.by = r /\ (d.step = 6 => call[r].op = "stepSix")
    /\ \A d \in Documents : d.by = r /\ d \notin jobs =>
          pc[r] \in {"cleanup", "queue"} /\ call[r].op = "stepSix" /\ d \in batch[r]

CopiesKnown == \A r \in Requests : CopyKnown(r)

QueuesKnown == \A r \in Requests : QueueKnown(r)
=============================================================================
