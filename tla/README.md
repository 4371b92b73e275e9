# Recordly in TLA+

Specifications of [Recordly](../src/README.md), an application for keeping
personal records with their documents: a Vue frontend, a NestJS backend, a
PostgreSQL database with pgvector, Redis with BullMQ queues, MinIO object
storage, an optional Elasticsearch index and an OCR worker. The modules model
the parts in which something can go wrong between two steps: on the server the
record workflow, the ingestion of documents, OCR, search, the assistant and the
accounts, in the browser the form, the list, the viewer, the chat and the
session. TLC checks them on small instances, and TLAPS proves the most important
theorems for instances of any size.

To check a run: `tlc -config RecordsSerial.cfg MCRecordsService.tla`. To check
proofs: `tlapm RecordsServiceProofs.tla`, and the same for the other modules
whose names end in `Proofs`.

## 1. The system

Paths are below `src/backend/src` unless they say otherwise; views are below
`src/frontend/src/views/record`.

| Component | State it keeps | Operations | What makes it correct |
|---|---|---|---|
| Record workflow, `modules/records` | `records` row, child tables, `documents` | six form steps, reopen, remove, upload, re-embed, retry | files the rows name exist; the rows of a step are one submission; COMPLETED is final until reopened |
| Object storage adapter, `shared/services/storage.service.ts` | objects in three buckets, retry list in Redis | put, copy, stat, delete, hourly clean-up | nothing that is still named is deleted; what nobody names goes in the end |
| Document ingestion, `modules/ai/document-embedding` | BullMQ queue, status columns, `document_chunks` | queue, run, retry | chunks of one run; READY and INDEXED mean what they say; every document settles |
| Search adapter, `modules/search` | Elasticsearch index | index a chunk, delete a document's, search | no promise beyond PostgreSQL's rows |
| Parsing and OCR, `document-parser.service.ts`, `src/ocr-worker` | OCR queue, transient page images | parse, render, recognise, sweep | page images are always deleted; one bad image does not block the others |
| Chunking, `document-chunking.service.ts` | none | redact, split, number | no short passage is cut; one numbering per document |
| Retrieval, `modules/ai/rag` | none | vector and BM25 search, merge of ranks, answer, citations | only accessible, existing chunks; the order follows both searches; sources are those cited |
| Structured retrieval, `modules/ai/structured-retrieval` | paging context per user in Redis | search, next, previous, summary | pages neither repeat nor skip, and show what the user may see |
| Chat, `modules/ai/ai-chat`, `src/frontend/src/stores/aiChat.ts` | messages | ask, stream, fall back, give up | one answer or error per question, in order; the user can always ask again |
| Accounts, `modules/auth`, `modules/users` | `users` | sign up, sign in, approve, change, remove, default administrator | one account per address; nothing for an inactive account |
| Session, `router`, `stores/auth.ts`, `axiosInstance.interceptor.ts` of the frontend | user and token in localStorage, loader | sign in and out, navigate, intercept answers | tabs and storage agree; the loader goes |
| Record form, `RecordForm.vue`, `stores/record.ts` | form sections, document rows, step, route | fill, load, save, upload, jump, submit | a form shows one record; what is shown is what is stored; an upload lands in its row |
| Record list, `ListRecords.vue` | rows, total, page, filter | filter, append, delete, reopen | rows are those the server lists, in its order; they skip no more than a deletion moved up |
| Record detail and review, `components/` | object URLs, retry state, missing fields | summarise, view a file, retry the index | banner, sections and submission agree; one file alive |
| LLM clients, seeder, validation of queries, deployment | none, or none that changes concurrently | | |

How they interact. The frontend calls the API over HTTP; its form, list and
viewer share with the server only what their last answers said, and several
tabs share one localStorage. A step of the form
runs in one database transaction of `RecordsService`, but reads the record on
another connection before it, copies or inspects objects in storage amid it,
deletes objects after its commit, and step six then adds ingestion jobs to a
queue in Redis. A worker in the same backend process takes those jobs one at a
time, reads the stored file, sends page images to the OCR worker over another
queue and waits for the answers, and writes chunks to PostgreSQL and
Elasticsearch. The chat routes a question to the record search, which pages
through PostgreSQL with a context in Redis, or to the search in those chunks,
and streams what comes back.

What is hard: transactions that interleave with each other and with
unprotected reads; two stores (PostgreSQL and MinIO) that no transaction
spans, with clean-ups before and after the commit; a retry list and a timer; a
queue that delivers at least once, with retries, stalled jobs and a process
that may die in any state; an index that shows its entries late; two sides
that wait for each other with different time limits; check-then-insert on
accounts; a search context shared by tabs; and, in the browser,
answers that come back after the state they were asked for has changed. The
list with lines is under `hazards` in `PROJECT.json`, each with the properties
that would catch it going wrong.

## 2. The modules

| Module | Models | Uses |
|---|---|---|
| `RecordsService` | `records.service.ts`, deletion and clean-up of `storage.service.ts`, the staging upload | |
| `RecordLifecycle` | the life cycle a record promises (abstract) | |
| `RecordsServiceInvariant` | the inductive invariants of `RecordsService` and the refinement mapping to `RecordLifecycle` | both |
| `MCRecordsService` | the instance for TLC | `RecordsServiceInvariant` |
| `DocumentIngestion` | the ingestion queue, its worker, the status columns, chunks and index entries | |
| `DocumentLifecycle` | the life cycle a document promises (abstract) | |
| `DocumentIngestionInvariant` | the inductive invariant of `DocumentIngestion` and the refinement mapping to `DocumentLifecycle` | both |
| `MCDocumentIngestion` | the instance for TLC | `DocumentIngestionInvariant` |
| `Orders` | sequences in an order: what ORDER BY, a sort and a filter return | |
| `RecordForm` | the form as seven steps, one browser tab, several records | |
| `RecordFields` | every field of steps one to five from the input to the column and back | `Orders` |
| `DocumentRows` | the rows of step six, their uploads, and the saves that replace the documents | |
| `RecordList` | the list of records and its dialogs | `Orders` |
| `RecordReview` | the review step and the final submission | |
| `RecordViewer` | the file viewer and the button that retries the search index | |
| `MCFrontend` | the instance for TLC of these six | all six |
| `AiChat` | a question from the widget through the event stream to the services and back | |
| `SearchPaging` | record searches and paging through them | `Orders` |
| `DocumentSearch` | hybrid search, answer and citations | `Orders` |
| `OcrPipeline` | parser, OCR queue, OCR worker, transient images | |
| `DocumentChunking` | the splitting of pages into chunks | |
| `MCAssistant` | the instance for TLC of these five | all five |
| `Accounts` | sign-up, sign-in, guards, the administrator's changes, start-up | |
| `Session` | tabs, localStorage, the router's guard, the interceptors, the loader | |
| `MCUsers` | the instance for TLC of these two | both |
| `RecordsServiceProofs`, `RecordsLifecycleProofs` | theorems about the record workflow and its life cycle | `RecordsServiceInvariant` |
| `DocumentIngestionProofs` | theorems about the ingestion | `DocumentIngestionInvariant` |
| `FrontendProofs` | theorems about form, document rows, list, review and viewer | these modules, `OrdersProofs` |
| `AssistantProofs` | theorems about chat, paging, search and OCR | `MCAssistant`, `OrdersProofs` |
| `DocumentChunkingProofs`, `UsersProofs`, `OrdersProofs` | theorems about chunking, about accounts and sessions, about sorted lists | `DocumentChunking`; `Accounts`, `Session`; `Orders` |

### 2.1 RecordsService

One record. `life` and `row` are its row (`"closed"`: gone with the account of
its owner), `children` the committed rows of its child tables (a row knows its step, the request that inserted it and its file),
`objects` the names in storage, `retryList` the list
`storage:deletion-retry` in Redis and `retrying` the entry the timer has just
popped, `jobs` the documents an ingestion job was added for. Every HTTP request
is a process with a program counter `pc` and what the handler keeps in local
variables: `call` (operation, step, submitted action), `entity` (the row it
loaded and changed), `loaded` (what TypeORM's `save` compares with), `targets`
(rows its DELETE found), `batch` (rows it inserts, later the documents it
queues) and `trash` (references it is going to delete).

| Code | Actions |
|---|---|
| `createStepOne` | `StepOneCreate`, or `StepOneUpdate` and `UpdateRow`; then the common path; `DeleteObject`, `CleanupDone` |
| `createStepTwo` .. `createStepFive` | `ChildStep`, `DeleteRows`, `LockRows`, `InsertRows`, in steps 3 and 4 `UpdateRow`; the common path |
| `createStepSix` | `StepSix`, `DeleteRows`, `LockRows`, `InsertRows`; the common path; `DeleteObject`, `CleanupDone`, `QueueDocuments` or `QueueFails` |
| common path: `applyStepAction`, `save`, commit | `ApplyStepAction`, `SaveLoad`, `CommitUpdate` or `CommitInsert` |
| `catch` blocks | `Rollback`, and for step one `DeleteObject` of the copy; `ConnectionLost` when the ROLLBACK fails too and the rest of the block is not run |
| `reopen` | `Reopen`, `SaveLoad`, `CommitUpdate`, `CommitInsert` (the row is gone: save inserts) or `ReopenMissed` |
| `remove` | `Remove`, `LockRecord` and `DeleteRecord`, or `RemoveMissed`; `DeleteObject` |
| `remove` of `users.service.ts` | `CloseAccount`, `LockRecord` and `DeleteRecord`, or `RemoveMissed` |
| uploads | `StageProfileImage`; `UploadDocument`, `PutDocument` |
| `reembedDocuments`, `retryDocumentSearchIndex` | `Requeue`, `QueueDocuments` or `QueueFails` |
| hourly timer | `ExpireStaged`, `PopRetry`, `RetryDeletion` |
| death of the process | `Crash` |

A step of a request ends where the code awaits something another request can
see. Steps that nobody else can tell apart are merged, and these are the
places: the edit check, the storage calls before the first statement and the
copy of the profile image are one step; the last UPDATE of a transaction is
placed at its commit; the rows a DELETE finds are locked together (`LockRows`).
PostgreSQL is taken at READ COMMITTED, TypeORM's default here: a statement sees
what is committed when it starts and waits for who holds what it needs.
`LocksRow`, `SharesRow`, `HoldsRows` and `Cascading` say which locks a request
holds where it stands, `WaitsFor` what its next statement waits for. A step
takes its child rows first (DELETE), then shares the record row (the foreign
key of its INSERT); the DELETE of a record, or of an account, takes the row
first and then cascades to the child rows. The two can wait for each other, and
PostgreSQL then ends one of them (`Deadlocked`, an alternative of `Rollback`).

What it leaves out: the payload columns other than the image, the progress and
the status; the failed validations and permission checks, which change nothing
(a failed check is simply an action whose guard is false); a failing PUT or
COPY, which ends a request before it changed anything; a COMMIT that succeeds
without its acknowledgement. The documents of a submission are a set, the
deletions after a commit happen in any order, and the retry list is a set (the
code pops the oldest entry). A duplicate e-mail address is the fault
`"database"`.

### 2.2 DocumentIngestion

`status`, `searchStatus` and `contentHash` are the columns of the documents
(`"removed"` means that the row is gone), `chunks` the rows of
`document_chunks`, `entries` the entries of the Elasticsearch index and
`unrefreshed` those no search sees yet. A chunk is a document, the run that
made it and its index: two runs over one document make different rows, which is
what the properties tell apart. `queue`, `about`, `attemptsMade` and `stalls`
are the BullMQ jobs; `step`, `job`, `run`, `size` and `next` are the one worker
(concurrency 1).

`Take` to `Throw` are `DocumentIngestionProcessor.process`, await by await, and
the services it calls; `Add` is `queueDocuments`; `RemoveDocument` is what step
six and `remove` do to a document the worker may be busy with. BullMQ is modelled from its use: two
attempts with a back-off (the options of `queueDocuments`), one stall (its default), a
job whose lock was lost is not the worker's to finish. `Die` kills the process amid a
run; `CheckStalled` finds the job later; `LoseLock` is the same for a worker
that lives but was too busy to renew its lock.

What it leaves out: the text (a run makes 1 to `MaxChunks` chunks, or fails),
the creation of the index (a failure of Elasticsearch at that point is a
failure of `ClearIndex`), and the removal of old jobs from Redis.

### 2.3 The form: RecordForm, RecordFields, DocumentRows

The form is modelled three times, each time with the state that one kind of
failure needs.

`RecordForm` has the steps. A section (the object behind a step) keeps only
which record it shows (`content`), whether a rule of its step is broken
(`broken`) and whether the server lacks it (`unsaved`); `route` is what the URL
names, `formStep` what the stepper shows, `remembered` the step the store keeps
per record, `formRequests` the saves and loads on their way. A form that is
opened is always blank until its load has answered: the list's rows are looked
up by a number where the route has a string (`RecordForm.vue:315`), so the row
is never found.
"Create" and "Edit" are two routes of one component instance, which Vue reuses:
an answer finds the form as the user has left it since. `FormUser` is what the
user does (edit, jump, Save & Continue, Save Draft, Finish & Submit, open,
leave, reload), `FormAnswer` what the answers do, in any order, each of which
may be a failure.

`RecordFields` has the values. A value is empty, ordinary, one that no format
rule takes (`"odd"`), or one another record uses. A behaviour is about one step
(`fieldStep`): the user types into fields and rows, and a save takes each value
through the form's rules, the payload the store builds (`PayloadOne` and its
fellows), the DTO, the service and the column; a load takes it back. These six
lists of fields are hand-written in the code and are written out in the module,
since the properties are about a field that one of them forgets.

`DocumentRows` has step six. A row's file is nothing, an upload or a document
of the record. Uploads keep the index their row had (`uploads`), answers come
in any order, a save replaces the record's documents by ones with new ids and
deletes from the bucket what no new row refers to. The load of the record
(`fetch`: `DocumentsRead`, then `DocumentsLoaded` or `DocumentsNotLoaded`)
answers into an instance that the user may already have worked in: its rows take
the place of those on the screen while uploads of that instance still write by
index. `leftUploads` are those of forms that were left: they still reach
storage, but no row. The file picker of a row and the choice in it are one step.

### 2.4 RecordList, RecordReview, RecordViewer

`RecordList` has the rows with their status as shown, the total, the page
number, the filter in the toolbar and the reload that waits 300 ms behind it
(`debounce`, `ResetAndLoad`), pages on their way (`fetches`), and the dialogs
for deletion and reopening. There is one `reopening` for the button and any
number of `reopens` on their way: reopening a second row makes the first one's
button clickable again (`ListRecords.vue:125`). `taken` counts the rows taken
out since the first page and `gap` those of them taken out before the last page
was appended. The server's list is `Listed`, a function of the
records that exist, their status, the filter and whose they are, newest first.
`Orders` defines such lists by what they return - the sequence of a set's
elements in an order - instead of by how they are computed, so that
`OrdersProofs` can say it of every set; `DocumentSearch` and `SearchPaging` take
their rankings and lists from it too.

`RecordReview` relates three lists of what is required: the banner's
(`Blockers`), the dots of the sections (`Dot`, `DocumentsDot`) and the
service's (`Submit`: `Editable`, `DocumentsResolve` and
`ValidateFinalSubmission`, in the order of `createStepSix`), while the form is
edited and saved in between. The file of a row has the state that decides
whether the service resolves it (`FileState`): a save gives the documents new
ids, and the form goes on with the old ones (`AfterSaving`). Others change the
record too: `SavedElsewhere` is step six in another tab, with all documents kept
or with none, `ChangedElsewhere` a reopening or a removal. Their step one would
change no outcome of `Submit` and is left out. A stored record never lacks a
required field, since step one neither stores it without nor clears it, so
`ValidateFinalSubmission` itself never refuses a record made by this code;
`ReviewTypeOK` says so.

`RecordViewer` has the fetches of files with the object URL each answer makes,
shows and revokes, and the retries of the search index per document. A file is
an image, a PDF or something else (Word), for which a URL is made but nothing is
shown (`FileViewer.vue:64`).

### 2.5 AiChat, SearchPaging, DocumentSearch

`AiChat` follows a question: the store's `messages` and flags, the events on the
`wire`, and `chatStage`, where the server stands with it: routing, record
search, its narration, the fall-back to the documents with its notice, the
document answer. A text is a sequence of pieces (the notice, a part the model
wrote, a ready-made answer). The client gives up after two minutes
(`ChatGivesUp`); the server does not notice and goes on. `ConversationInOrder`
is a grammar of the conversation: which message may stand behind which
(`Follows`), and how it begins and ends.

`SearchPaging` has the records with their status, the user's `context` in Redis
and the asks of any number of tabs. An ask reads the context, queries, writes
the context and waits for the model, each a step of its own. Records change
between any two. An entry of `shown` has, beside what the user sees, the place the
page was taken from (filters, offset, limit): the properties do not read these
fields, the invariant of the proof does.

`DocumentSearch` is one search: the candidates by vector distance and by BM25
(any rankings of any chunks: Elasticsearch knows nothing of access and may know
chunks that are gone), the merge (`FinalScore`, weights over ranks, times `Scale`, a
multiple of every rank, so that it stays an integer), the guarded fetch, the model's answer with any citations,
and the sources made of them. Chunks and access go in between.

### 2.6 OcrPipeline and DocumentChunking

`OcrPipeline` is what `DocumentIngestion` sees as one step: the parser of the
ingestion worker renders, uploads, queues, waits for and deletes page after
page; the OCR worker takes, downloads, recognises and cleans up one job at a
time; both may die. Time passes in steps of thirty seconds and only when nobody
has something to do at once: four for the backend's 120 seconds, three for the
worker's 90. That the worker's limit is the shorter one is an assumption on the
constants (`OcrLimit < WaitLimit`; `ocr.processor.ts:16` of the worker,
`ocr.service.ts:26` of the backend). `Sweep` is the hourly deletion of expired transient objects.

`DocumentChunking` cuts the pages of any text of letters and blanks: a chunk's
content is the set of its positions, trimmed as the code trims it.

### 2.7 Accounts and Session

`Accounts` has the table (`users`), the requests in `Slots` and where each
stands, and the accounts that were given a token. Each `await` is a step, so
sign-ups, sign-ins, an administrator's changes and removals interleave. Every
request but sign-up and sign-in passes `Guard`, which looks the account up anew.
`Boot` and `CreateAdmin` are `ensureDefaultAdminUser`; `Restart` loses the
requests. A hash is a pair, so that hashing twice is not hashing once.

`Session` has the user and the token in localStorage (`stored`), each tab's copy
of the user, its page, its loader and its requests. The server answers a request
by the token it carried; `Refuse` makes it refuse a token from any moment on.

### 2.8 The abstract specifications

`RecordLifecycle` says what a client is promised: DRAFT, edited, COMPLETED,
reopened without any other change, removed for good. `DocumentLifecycle` says
it of documents: searchable content only changes while the status is
PROCESSING, READY comes with content, UNSUPPORTED without, removal takes
everything. `RecordsServiceInvariant` and `DocumentIngestionInvariant` give the refinement mappings: the phase of a record
is its status or its life, its content the progress, the image and the child
rows; the content of a document is its set of chunks.

## 3. The runs

Every run allows the system to stop: requests, jobs and user actions are finite,
so a state in which all are done has no successor but stuttering (or the
timer's). Hence `CHECK_DEADLOCK FALSE` everywhere; that nobody waits for ever is
what the liveness properties say instead.

| Run | Instance | Shows |
|---|---|---|
| `records_serial` | three requests one after the other, all operations, database and queue failures, crashes | life cycle, files, forms, progress and order of queueing |
| `records_storage_faults` | three requests one after the other, all faults but the queue's, lost connections among them | the row's image is never lost; the inductive invariant of the proofs |
| `records_no_orphans` | four requests on images, removals of the record and of the account, failing deletions | promoted images are not left behind, as long as the account exists |
| `records_concurrent` | two interleaved requests, all operations | a failed step one cleans up; every document has its job |
| `records_progress` | three interleaved requests, removals of record and account among them, fair | a step and a removal that wait for each other are parted, and no other cycle of waiting requests exists |
| `records_locked` | two interleaved requests | **violated**: a COMPLETED record changes (finding 1) |
| `ingestion_faults` | one document, two jobs, two chunks, all faults, one death | runs never mix; READY, INDEXED; life cycle; the inductive invariant of the proofs |
| `ingestion_settles` | two documents, one unsupported, two jobs, two deaths, lost locks, fair | every job ends and every document settles; who leaves PROCESSING behind |
| `frontend` | form, document rows, fields, list, review or viewer, whichever is mounted | the browser's races: below |
| `review_ready` | the review alone | **violated**: a draft announced as ready is refused (finding 2) |
| `assistant` | chat, paging, search, OCR or chunking, one at a time | questions and texts: below |
| `users` | accounts at the server, or sessions in two tabs | accounts and sessions: below |

### 3.1 Record and ingestion runs

Three requests one after the
other cover an upload, a submission that uses it and one that replaces or
reopens it; the fourth of `records_no_orphans` is a removal after a
replacement. Two interleaved requests cover every pair of handlers, and each
race found in the code needs only two. Two jobs about a document cover a retry
overtaken by a new submission; two chunks per document are the least in which
a run can be cut in the middle; two deaths are one more than BullMQ's allowance
for stalls. Requests, uploads and jobs are model values, and the runs of safety
properties use their symmetry; the liveness runs do not.

Faults are switched by `Faults`, so that a run says under which failures its
properties hold:

- `DocumentFilesStored` and `OneSubmissionPerStep` are properties of requests
  that come one after the other. With two step sixes at once each deletes the
  rows it found and keeps the other's, and each deletes the files the other
  retained.
- `DocumentFilesStored` also needs deletions that work: a document may be
  attached again while its old reference is on the retry list.
- `NoOrphanedImage` needs a process that does not die between commit and
  clean-up, a Redis that takes the failed deletion and a ROLLBACK that works,
  and it speaks of records whose owner's account exists: the removal of an
  account deletes its records by `ON DELETE CASCADE` (`users.service.ts:58`,
  `record.entity.ts:139` to 142), and nobody looks at what they named in
  storage. The run closes accounts, so that a removal during or after any other
  request is among its behaviours; the property sets only its outcome apart.
- `FailureLeavesNoCopy` needs a ROLLBACK that works (no fault `"connection"`):
  `rollbackTransaction` stands before the deletion of the copy
  (`records.service.ts:148`), and when it throws, the copy stays.
- `EveryDocumentIsQueued` needs a queue that accepts jobs and no crash between
  commit and queueing: nothing in the code looks for PENDING documents later.
- `ProcessingHasJob` allows what BullMQ's second stall does: it fails the job
  without running it, and the document says PROCESSING from then on. The run
  leaves the fault `"database"` out, since the update that marks a failure may
  fail itself.
- `DocumentsSettle` makes the same exception of a second stall, for the same
  reason, and leaves the database out as well. With one death and no lost lock
  no job stalls twice, and every document settles. Its run has no Elasticsearch
  (`Hybrid` FALSE), whose failures lead to `markFailed` as those of the embedding
  do; `ingestion_faults` has it.

### 3.2 Frontend, assistant and users

The views of the frontend share no state but the record, of which each module
has as much as its view shows, and the router mounts one of them. So a
behaviour of `MCFrontend` is a behaviour of the mounted view, while the others
stay at one of their initial states; the state space is the sum of the
parts', not their product. `MCAssistant` and `MCUsers` are built the same way:
each part has of the others what it uses of them, as a choice of outcomes
(`AiChat` any result of a search, `Session` any answer of a server). A property
that bundles the safety of one part names its conjuncts:

| Property | Parts | Says |
|---|---|---|
| `FormSafe` | `OneSaveAtATime`, `SectionsOfOneRecord`, `UrlMirrorsStep` | a form shows one record, in step one its route's, unless an answer for an earlier route arrived or "Create" was used on top of it; the URL names the step on the screen |
| `WalkedThroughIsSaved` | | who only presses Save & Continue leaves no step behind that the server lacks |
| `RowsSafe` | `EveryDocumentStored`, `RowGetsItsFile`, `DocumentRefusalHasACause` | an upload ends up in the row made for it unless rows were removed, replaced by a load or used twice meanwhile; a document keeps its object |
| `FieldsSafe` | `FilledInIsStored`, `LoadShowsStored`, `NumbersAreEncrypted`, `FieldRefusalHasACause` | no list of fields on the way forgets one; numbers are never stored in plain text |
| `UntouchedSaveKeeps` | | a save of what was loaded changes no value |
| `ListSafe` | `SkipsOnlyWhatMovedUp`, `RowsAreAPrefix`, `NoDraftAmongCompleted` | no repetition, and as many records skipped at most as were taken out before the last page; none if no page followed |
| `ReviewSafe` | `SectionsShowBlockers`, `RefusalHasACause`, `CompletedIsWhole` | banner and sections agree; a submission is refused for two reasons only; what was announced as complete is completed whole |
| `ViewerSafe` | `OneUrlAlive`, `RetriedOnce` | one object URL at most that was not revoked, that of what is shown or of a file of another type; a document queued again once |
| `FrontendSettles` | | no view is left waiting: the form for an answer, a chosen file for its try, the toolbar for the list |
| `ChatSafe` | `ConversationInOrder`, `FinalIsTheResponse`, `StructuredNeverFallsBack` | abandoned streams write nothing; the answer that stays is the response's |
| `NarrationNeverFailsASearch` | | a search that listed records ends with `done` |
| `PagingSafe` | `PagesFollowOn`, `PreviousTakesBackNext` | pages of changing sizes neither skip nor repeat |
| `SearchSafe` | `MergeKeepsOrder`, `BestMatchIsUsed`, `CitationsAreTheSources` | the better match comes first; the sources are those cited |
| `OcrSafe` | `JobEndsInTime`, `HandedPagesAreDeleted`, `PageIsThereForItsJob` | the worker's limit comes before the backend's; both sides' deletions suffice for one failure |
| `ChunkingSafe` | `ChunksAreNumbered`, `PassagesAreWhole` | no passage as short as the overlap is cut |
| `AnswersAreAuthorized` | `ShowsOnlyOnesOwn`, `SentIsAuthorized` | the guard stands before all that is shown or sent to the model |
| `AssistantSettles` | | the chat gets an answer or a message, the parser an end, and the page images go |
| `AccountsSafe` | `OneAccountPerAddress`, `OnlyTheOwnerLearns`, `DeactivationHolds`, `ChosenPasswordSignsIn` | check-then-insert is caught by the index; a deactivation holds at once |
| `SessionSafe` | `RestrictedHasUser`, `StoredBelongsTogether`, `LoaderHasRequest` | tabs, storage and loader agree |
| `LoaderEnds` | | the loader goes |

The invariants among them hold the module's type invariant as their first
conjunct. For most properties the condition is the interesting part: `strayed`,
`disturbed`, `mixed`, `gap`, `crossed`, `both`, `stale`, `replaced` and
`elsewhere` are history variables that say when the code stops promising
something. Without them the properties are false, as section 3.4 says. They
are, in full:

- `strayed`: the user moved while a request was on its way (`"moved"`), opened
  "Create" over an open form (`"reused"`), or an answer meant for an earlier
  route arrived (`"pulled"`). `SectionsOfOneRecord` still says of a reused form
  that step one is the new record's and that steps two to six are one record's;
  that this is the old record, and would be saved as the new one's, is what the
  code does (section 3.4). The load of the route's own record ends it.
- `disturbed`: while an upload of this form was on its way a row was removed or
  given a second file, or the load's answer replaced the rows.
- `stale`: the documents were replaced since the form got its rows.
- `mixed`: there is no first page yet; answers of the list crossed, or one failed;
  a deletion took out another row than the one it was confirmed for; a reopening was
  of another user's record, or its row was replaced meanwhile, or it came while the
  toolbar's filter was not yet that of the rows, or was DRAFT. A page
  appended after a deletion is not among these: the server's pages have moved up
  by the rows that were taken out, `fetchPage` still asks by page number
  (`ListRecords.vue:174`), and `SkipsOnlyWhatMovedUp` bounds what is skipped by
  `gap`.
- `replaced`, `elsewhere`: this form saved its documents once; somebody else
  changed the record.
- `crossed`, `both`: of the viewer, a file was opened before the one before it had
  answered; the retry of one document was asked for while another's was on its way.

Bounds. The form has two records and five moves of the user: enough to open a
record, save, leave for the other and come back while the first answer is on
its way. There is one blank row at a time, beside the rows that loads and bulk
choices make, three files, one of them too large,
and three of choices of a file, saves and loads (`MaxCalls`): two uploads
overlap and a save is sent between their answers, or a second save is refused
that names a document by the id it had before the first. A field step has two rows and three edits, and
every step of the five is a behaviour. The list has three records (two of them
the administrator's own), pages of one row and two fetches at a time: two pages
follow the first, and two answers cross. The review has one optional field, two
documents and five moves, others' included: fill, save, fill, review, submit; in
`review_ready` one document and four moves suffice to save, review and submit
it. The viewer has three files, an image, a PDF and one of another type, and two
retries. The chat has two questions of two parts each, the second asked while
the first one's stream goes on. Paging has three asks over three records with
limits of one and two and one change of a record. A search has three chunks of
two records, of which two are kept, with the hybrid setting on or off. OCR has two runs, up to two PDF pages each and
two faults of any kind: one more than the clean-ups are built for.
Chunking has every text of up to seven characters on up to two pages with chunks
of three and an overlap of one: three chunks on a page. Accounts have two requests at
a time, four in all, three accounts, an address that differs from another in a
capital letter only, and a restart; sessions have two tabs with two requests at a time each, three requests and two
sign-ins in all.

### 3.3 Fairness

`RecordsService!FairSpec` has weak fairness of each started request's
next step: Node runs every continuation whose await is answered, and a
statement that waits for a lock is continued when the lock is free. No client
is obliged to call. `DocumentIngestion!FairSpec` has weak fairness of the
worker's next step and of BullMQ's timers (back-off, stalled check), which run
as long as the backend does; faults, deaths and removals have none.

In the browser, requests end: axios has a time limit of ten seconds, so an
answer or a failure comes (`FormAnswer`, `UploadAnswer`, `ListAnswer`, `Serve`,
`AnswerArrives`), and so does the end of the delayed reload (`ResetAndLoad`). What the
answer is stays open. Of the chat only the client's own two-minute timer
(`ChatGivesUp`) is fair: the server need not answer. In `OcrPipeline` the parser, the clock, the sweep and the worker's
steps that have a limit of their own are fair; the worker's return
after a death and the end of a recognition are not.

### 3.4 What the checks found

Findings that runs show:

1. `records_locked`. Each step checks that the record is editable before its
   transaction has written anything, on another connection, and takes no lock
   (`records.service.ts:166`, 210, 274, 336, 380). A step that was checked just
   before another request's final submission commits after it and replaces rows
   of the COMPLETED record, although "Completed records are locked and cannot
   be edited." (`records.service.ts:736`).
2. `review_ready`. Step six gives the documents new ids
   (`records.service.ts:409`), the form that sent it keeps the urls with the old
   ones (`RecordForm.vue:529`), and `resolveDocumentMetadata` refuses these
   (`records.service.ts:834` to 841). So a draft with a document whose step six was
   saved from the form cannot be submitted from it, with nobody else at work,
   under the banner "Everything required is complete — ready to submit."
   (`ViewComponent.vue:377`). `RefusalHasACause` says that this and changes by
   others are the only reasons.

Further races that the model of the record workflow has, about which the
repository promises nothing, are listed as hazards: a step one that keeps the
image racing with one that replaces it; two step sixes; `reopen` inserting a
removed record again; an account that is removed and leaves the images and
documents of its records in storage.

Disagreements of the code with its own texts that were met while the other
modules were written. The modules do what the code does, so their behaviours
include each of these; no run asserts them, and the properties of section 3.2
are stated with the conditions under which the code keeps them.

Form, review and list (`src/frontend/src/views/record`):

- The family step of a record with children is refused after a reload:
  `createFamilyData` sends each loaded child's id (`stores/record.ts:124`),
  `ChildDto` has no such property (`family.dto.ts:38`) and the pipe forbids
  unknown ones (`main.ts:40`). `FieldRefusalHasACause` names the exception.
- A scalar field that is emptied is left out of the payload
  (`stores/record.ts:43`), and so the column keeps its value.
- Finish & Submit sends step six only (`RecordForm.vue:548`), while the review
  shows the live form, "Check all entered details before submitting"
  (`RecordForm.vue:1246`): an edit that was not saved is not in the record that
  is then locked.
- "Create" on top of an open form resets step one only (`RecordForm.vue:333`):
  steps two to six go on showing the record before it, and once step one is saved
  they would be saved as the new record's, unless its load answers first.
  `"reused"` in `SectionsOfOneRecord`.
- The form can be used before its record's load has answered
  (`RecordForm.vue:311` sets `edit` ahead of the await at 319): the answer takes
  the place of rows the user made, and uploads under way write into the loaded
  ones by index. `disturbed` in `RowGetsItsFile`.
- A page appended after a deletion skips a record (`ListRecords.vue:174` asks for the
  next page number, and the server's pages have moved up). `gap` in
  `SkipsOnlyWhatMovedUp`.
- "we'll create a row for each" (`RecordForm.vue:1161`): an upload writes to the
  index its row had (`RecordForm.vue:230`), so with a row removed meanwhile the
  file lands in another row or in none. `disturbed` in `RowGetsItsFile`.
- "No file attached — required" (`ViewComponent.vue:153`), but nothing on the
  way asks for it (`records.service.ts:939`): a record is completed with a document
  without a file when the banner is ignored.
- The delete dialog keeps an index (`ListRecords.vue:72`) and looks it up again
  when it is confirmed (line 79): a reload in between makes it another record.
- "Open this draft to continue editing." (`ListRecords.vue:112`) of a record that
  an administrator reopened for another user, which `findOne` does not show him
  (`records.service.ts:543`).

Assistant:

- "Answers that need no model text send only `done`."
  (`ai-chat.controller.ts:30`): the notice of a fall-back is sent as a delta
  before that is known (`ai-chat.service.ts:87`).
- "You are already at the beginning of the matching records."
  (`structured-retrieval.service.ts:318`) is also said behind the last page,
  since every "next" moves the offset on.
- "stores only the latest search filters"
  (`structured-retrieval/README.md:9`): a page that is under way writes back the
  context it has read over that of a newer search
  (`structured-retrieval.service.ts:94`).
- "I couldn't find anything about that in the uploaded documents."
  (`record-rag.service.ts:66`) although the user's own chunk was found: the list
  is cut to its length before chunks of other users are dropped
  (`document-hybrid-search.service.ts:212`).

OCR:

- A scanned PDF is destroyed while it is rendered: `parsePdf` returns the promise
  without awaiting it (`document-parser.service.ts:64`), so its `finally` runs
  first. `Destroy` and `RenderFails` of `OcrPipeline`.
- "Each image gets 90 seconds" (`ocr-worker/README.md:31`): the backend's 120
  seconds run from the queueing (`ocr.service.ts:26`), so after an absence of the worker
  it gives up on images the worker has not come to. The condition of
  `JobEndsInTime`.

Accounts and session:

- An account whose address was typed with a capital letter by an administrator
  cannot sign in, "Invalid email or password" (`auth.service.ts:31`): sign-in
  lower-cases (`signin.dto.ts:5`), creating and renaming do not.
- "Created once and then left alone" (`users.service.ts:68`): after the default
  administrator was renamed or removed, the next start creates it again.
- "Session expired. Please log in again."
  (`axiosInstance.interceptor.ts:81`) is said, and done, on every 401, that of a
  failed sign-in and that of a request with an older token included.

### 3.5 Mutants

Each property of a passing run has a mutant in `PROJECT.json`: a definition of
the model in a form that a plausible mistake in the code would give it (a field
left out of the payload, a page offset of whole pages, a guard that forgets
`isActive`, a `finally` that forgets a failed page), under which TLC finds the
property violated. The mutated operators stand before the definitions they replace and
are marked as such.

## 4. The proofs

`RecordsServiceProofs` proves, for any sets of requests and uploads, any child
steps and any number of documents in a submission:

| Theorem | Says | Assumes, beyond `ConstantsAssumption` |
|---|---|---|
| `TypeCorrect` | `Spec => []TypeOK` | nothing: any interleaving, any faults |
| `SerialCorrect` | `Spec => []SerialInvariant` | `OneAtATime` |
| `ImageNeverLost` | `Spec => []ProfileImageStored` | `OneAtATime` |
| `FilesNeverLost` | `Spec => []DocumentFilesStored` | `OneAtATime`, no storage faults |
| `FormsNeverMix` | `Spec => []OneSubmissionPerStep` | `OneAtATime` |

The properties are not inductive: that the row's image is stored after a commit
depends on what the request's memory held before it. `SerialInvariant`
(module `RecordsServiceInvariant`) therefore describes that memory. `Alone`
says that at most one request is under way, `Fresh` that a request which has not
started has left no object under its name, `Buckets` which columns name objects
of which bucket, `ImageKept` that the row's image is stored and nobody is going
to delete it. For the request under way, `RowStillThere` says that
the row it read is still there, `ImageFlow` that the image it carries is stored
and not in its own trash, `RowsFlow` that the rows it replaces are still all
the rows of its step, and `FilesFlow` that the files it inserts are stored and
not in its trash. `SerialInvariant` is an invariant of the run
`records_storage_faults`, so TLC has checked it on the small instance as well.

The proof has one lemma per action (or group of actions that change the same
variables), one step per conjunct under it, and combines them with `Next`'s
disjuncts and PTL. Steps of type correctness are proved separately and used by
the others.

`RecordsLifecycleProofs` goes on from there:

| Theorem | Says | Assumes, beyond `ConstantsAssumption` |
|---|---|---|
| `CopiesNeverLeft` | `Spec => []FailureLeavesNoCopy` | any interleaving; Redis takes notes, no crash, no lost connection |
| `DocumentsAreQueued` | `Spec => []EveryDocumentIsQueued` | any interleaving; the queue takes jobs, no crash |
| `LifecycleInvariantCorrect` | `Spec => []LifecycleInvariant` | `OneAtATime` |
| `CompletedAtCorrect` | `Spec => []CompletedAtAgrees` | `OneAtATime` |
| `LifecycleImplemented` | `Spec => ImplementsLifecycle` | `OneAtATime` |
| `ProgressNeverBack` | `Spec => ProgressOnlyAdvances` | `OneAtATime` |
| `LockedOneAtATime` | `Spec => CompletedIsLocked` | `OneAtATime` |
| `QueuedAreCommitted` | `Spec => QueuedOnlyAfterCommit` | `OneAtATime` |
| `NoImageLeftBehind` | `Spec => []NoOrphanedImage` | `OneAtATime`; Redis takes notes, no crash, no lost connection |

The first two hold however requests interleave, because each speaks of a request
and what it made itself: `CopiesKnown` says of a promoted copy that its request
still knows it, has committed it, or has asked for its deletion; `QueuesKnown`
says of a document without a job that the request that inserted it is on its way
to the queue with it. The faults they exclude are those of section 3.1.

The others rest on `LifecycleInvariant`: a submission on its way started from a
DRAFT (`Drafting`); what it saves is what it makes of the row as it is, and what
TypeORM compares with is the row (`Saving`); what it is going to queue is committed
(`QueuesCommitted`). Then every commit is a step of `RecordLifecycle`, and no other
step touches the record (`RecordMoves`). `Saving` is what interleaved requests
lose, and with it goes the lock of a COMPLETED record: finding 1 violates
`CompletedIsLocked` with two requests at a time, and `LockedOneAtATime` says that
nothing but the interleaving violates it. For `NoImageLeftBehind`,
`ImagesAccounted` gives every promoted image in the bucket a keeper: the row, a
request that is going to delete or publish it, the retry list or the timer. It
ends with the owner's account, whose removal takes the row and no image; that
exception is in the property itself.

`DocumentIngestionProofs` proves, for any sets of documents and jobs, any number
of chunks, deaths and faults, with or without Elasticsearch:

| Theorem | Says | Assumes |
|---|---|---|
| `IngestionCorrect` | `Spec => []IngestionInvariant` | `ConstantsAssumption` only, as all of them |
| `IngestionTypeCorrect` | `Spec => []TypeOK` | |
| `RunsNeverMix` | `Spec => []ChunksOfOneRun` | |
| `ReadyNeverPartial` | `Spec => []ReadyIsWhole` | |
| `IndexedNeverPartial` | `Spec => []IndexedIsSearchable` | |
| `LifecycleImplemented` | `Spec => ImplementsLifecycle` | |
| `ProcessingIsBacked` | `Spec => []ProcessingHasJob` | the database takes the worker's updates |

Even the type invariant needs more than itself there: that a job fails at most
twice holds because a job that is still to run has an attempt left (`JobsOK`).
`WorkerOK` places the worker in its loop, and `RunOK` says what it has
stored of its document by where it stands: amid a run the document says
PROCESSING, its chunks are none before the loop, exactly the first `next` of
this run within it and all of them at its end, each with its entry. `RunOK`
is claimed only while the document exists: a removed document has no chunks
(`DocumentOK`), and saving another fails. `ChunksOfOneRun` rests on there
being one worker; nothing is assumed of the queue, which may hand a job
out again while its first run goes on. The lemma `WorkStep` reduces a step of
the worker to the one document it is busy with, `QuietStep` to the worker
itself; one lemma per action applies them. For the refinement each document
takes a step of its own (`LifecycleStep`), so the proof has one lemma per
action that changes a status or a chunk. `ProcessingIsBacked` adds `JobKnown`, that
the job of a busy worker is still to be finished or was given up for stalling, and
one fact per step: a job that backs a document goes on backing it (`StillBacked`).

`FrontendProofs` proves, for any number of records, documents, files, rows, moves
and requests (the assumptions of the six modules: bounds are naturals, nothing
more):

| Theorem | Says | Inductive invariant |
|---|---|---|
| `FormStaysTogether` | `FormSpec => []FormSafe` | `FormInvariant` |
| `NothingWalkedPastUnsaved` | `FormSpec => []WalkedThroughIsSaved` | `FormInvariant` |
| `RowsKeepTheirFiles` | `RowsSpec => []RowsSafe` | `RowsInvariant` |
| `FieldsSurvive` | `FieldsSpec => []FieldsSafe` | `FieldsInvariant` |
| `UntouchedIsKept` | `FieldsSpec => UntouchedSaveKeeps` | `FieldsInvariant` |
| `ListFollowsTheServer` | `ListSpec => []ListSafe` | `ListInvariant` |
| `ReviewTellsTheTruth` | `ReviewSpec => []ReviewSafe` | `ReviewInvariant` |
| `ViewerKeepsOneUrl` | `ViewerSpec => []ViewerSafe` | `ViewerInvariant` |

What makes these inductive is what the answers on their way find when they arrive.
Form: while the user is on his path, a save on its way is for the step on the
screen or nothing is left to save (`ContinuesFromTheStep`), a section ahead that
the server lacks was never rendered, so no answer walks past it
(`AheadIsUnseen`), and a load that was left has nothing to outdate
(`LeftLoadIsHarmless`). Rows: until a row is removed or used twice an upload
finds the row made for it (`UploadKnowsItsRow`), and until the documents are
replaced every url of the form, and of the answer it waits for, leads to an
object (`FreshRowsResolve`, `FetchInvariant`). Fields: the lists of
names kept by hand agree (`ListsAgree`: what a step shows, what the store sends,
what the service writes and what a load reads), a stored row is what `WrittenRow`
makes of one (`StoredAsWritten`), and a form that was loaded and not touched is what
is stored (`LoadedIsShown`). Leave one name out of one list and `ListsAgree` is no
longer provable. List: a
page that nothing crossed is the only one on its way, has the answer the server
would still give and is the next by number (`FetchesAreClean`); while nothing
is mixed each row stands where the server lists it or at most `gap` places before,
and the rows fall short of the pages asked for by no more than was taken out
(`RowsAreTrue`); a row that is being reopened is still there (`ReopensHaveRows`). A
deletion shifts the list under the rows, which the proof handles by the uniqueness
of a descending sequence: the list without a record is the list of the set without
it. Review: rows that do not resolve and a record that is not editable have a cause
(`CausesKnown`). Viewer: while no fetch crossed another, there is one fetch at most,
that of the open file, nothing is alive before its answer, and afterwards what is
alive is what the next opening revokes (`UncrossedOne`).

`AssistantProofs` proves, for any number of questions, parts, records, asks,
chunks, runs, pages and faults:

| Theorem | Says | Assumes, beyond the modules' assumptions |
|---|---|---|
| `ConversationIsTheServers` | `ChatSpec => []ChatSafe` | |
| `SearchesEndWithAnAnswer` | `ChatSpec => NarrationNeverFailsASearch` | |
| `PagesNeitherSkipNorRepeat` | `PagingSpec => []PagingSafe` | |
| `BetterMatchIsUsed` | `SearchSpec => []SearchSafe` | `Limit >= 2`, `Bm25Weight <= VectorWeight` |
| `OnlyAuthorizedIsAnswered` | `AssistantSpec => AnswersAreAuthorized` | |
| `JobsAndImagesEnd` | `OcrSpec => []OcrSafe` | `OcrLimit < WaitLimit` is one of them |

- Chat (`ChatInvariant`): one question is waited for, the last one, and the
  message that is streamed is the last of the conversation; a stage says which
  filters and notices there can be; an event on the wire is of the question that is
  waited for, and a `done` carries its answer.
- Paging (`PagingInvariant`): while nothing disturbs a search, the pages shown are
  one walk through one list (`OneWalk`), the only ask under way is its next step
  (`NextStep`) and the context in Redis is where the walk is (`WhereTheContextIs`).
- Search (`SearchInvariant`): the rankings are lists of different chunks, nothing
  is sent before it is fetched, and the vector's best match is among the candidates.
  That last part needs the two assumptions of `BetterMatchIsUsed`: with a
  heavier `Bm25Weight`, or one place only, Elasticsearch's candidates can push
  it out. The limit is 8 (`document-hybrid-search.service.ts:15`); the weights are
  settings with the defaults 0.6 and 0.4 (`app.config.ts:61` to 72), so another
  deployment may lose the property.
- OCR (`OcrInvariant`): while nobody died the only job is the one the parser waits
  for, and the two clocks run together (`TogetherInTime`): hence the worker's
  shorter limit comes first. An image that is still there has been missed by each
  side that should have deleted it, and each miss is a fault (`MissedAreFaults`).

`OrdersProofs` proves, for every finite set and every total order on it, that
`Sorted` is a sequence of all its elements in that order and the only one, and
what follows for `Descending`, `Ascending` and `Places`. The two modules above use
it wherever a list is sorted, cut or filtered.

`UsersProofs` proves of `Accounts`, for any number of requests at a time, accounts,
addresses, passwords and restarts and any kinds of requests
(`AccountsAssumption` only):

| Theorem | Says |
|---|---|
| `AddressesAreUnique` | `AccountsSpec => []OneAccountPerAddress` |
| `DeactivatedIsRefused` | `AccountsSpec => []DeactivationHolds` |
| `ChosenPasswordWorks` | `AccountsSpec => []ChosenPasswordSignsIn` |
| `OwnerAloneLearns` | `AccountsSpec => [](OnlyTheOwnerLearns /\ AccountsTypeOK)` |
| `AccountsAreSafe` | `AccountsSpec => []AccountsSafe` |

The invariant `AccountsInvariant` says in addition what each request remembers
(`Made`: it names accounts that were made; `Kept`: one that is not usable has
got no further than the guard) and that nobody has the administrator's address
between `Boot` and `CreateAdmin` (`NobodyIsAdmin`; requests wait until the server
is up). `Details`, on top of it, has the names of rows and requests and the
password a sign-in compared. The table changes in three ways only (`InsertKeeps`,
update, removal); `RequestMoves` and `Onward` reduce every step that answers a
request or moves it on to a fact about that request.

Of `Session` it proves, for any number of tabs, users and requests
(`SessionAssumption`), `StoredAlwaysBelongs`, `RestrictedGuarded`,
`LoaderNeverLeft` and, of the three together, `SessionIsSafe`
(`SessionSpec => []SessionSafe`). The invariant adds that a
sign-in on its way is somebody's and that its answer carries a token of that user
(`SignInsBelong`), so that what `login` stores belongs together.

`DocumentChunkingProofs` proves, for every chunk size, every overlap below it and
every document, `PassagesNeverCut`, `NumberingCorrect` and, of the two together,
`ChunkingIsSafe` (`ChunkingSpec => []ChunkingSafe`). `PassagesSoFar` is the loop
invariant: every short passage that begins before the next chunk does lies whole in
a chunk that was made.

Only model-checked, not proved:

- `ReadyIsAccepted` and, beyond one request at a time, `CompletedIsLocked`, which the
  code violates.
- Liveness (`RequestsFinish`, `DocumentsSettle`, `FrontendSettles`,
  `AssistantSettles`, `LoaderEnds`), which is out of the reach of TLAPS here.

The type invariants of `RecordsService` and `DocumentIngestion` are proved and left
out of the runs, whose inductive invariants have them as their first conjunct. The
inductive invariants of `FrontendProofs`, `AssistantProofs` and
`RecordsLifecycleProofs` are not runs of their own: the runs check the properties
that follow from them, on the instances of section 3.

## 5. Not modelled

- LLM clients: stateless calls. Their failure is the fault `"embed"` of
  `DocumentIngestion` and a choice of `AiChat` and `DocumentSearch`.
- The seeder: one sequential script that makes development data.
- Deployment: configuration only.
- Validation of queries, accounts and files by type and size, encryption as a
  cipher, redaction patterns and normalisation of texts: functions on texts,
  without state; where another module depends on their outcome, the outcome is
  a choice there. `RecordFields` has the validation of the record's own DTOs.
- Time without a limit in the OCR worker: the download of a page image and the
  start of a recogniser have none in the code (`ocr.processor.ts:48`, 82), and are
  prompt in `OcrPipeline`.
- Signed file streaming, key layout and failing uploads of the storage adapter;
  dashboards and decryption on reading in `RecordsService`.
- Layout, theme, menus, labels and formats. The reading of one record
  for a summary (one guarded query), a choice of outcomes in `AiChat`.

What the checked properties do not say, though the model has the behaviour:

- A loader that goes too early: the first answer hides it while other requests run
  (`loader.store.ts:12`). `LoaderHasRequest` says that a loader has a request, not
  the reverse, which is false.
- That a failure between the DELETE and the INSERT of a step leaves the previous rows:
  `OneSubmissionPerStep` holds of no rows as well. The model publishes rows at the
  commit only, which is PostgreSQL's doing.
- A database that fails while the worker marks a failure: `ingestion_settles` and `ProcessingIsBacked` leave it out, and the code then leaves
  PROCESSING behind.
- Compositions. The record workflow, the ingestion and the form are not one
  behaviour: each has the others' part as actions of its environment
  (`RemoveDocument`, `Add`; the atomic save of `DocumentRows`). A product of
  their state spaces is out of TLC's reach at bounds that show anything new.
