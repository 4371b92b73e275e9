-------------------------- MODULE DocumentIngestion --------------------------
(***************************************************************************)
(* The ingestion of uploaded documents: the BullMQ queue                   *)
(* "document-embedding", its one worker in the backend                     *)
(* (DocumentIngestionProcessor, concurrency 1), the status columns of the  *)
(* documents, their chunks in PostgreSQL and the entries of those chunks   *)
(* in Elasticsearch.                                                       *)
(*                                                                         *)
(* A step of the worker ends at an await.  Between two steps the documents *)
(* may be removed, the process may die and BullMQ may hand the job out     *)
(* again.                                                                  *)
(***************************************************************************)
EXTENDS Naturals, FiniteSets

CONSTANTS
    Documents,    \* documents that step six inserted
    Unsupported,  \* those whose file has an extension nothing can parse
    Jobs,         \* jobs that may be added, each at most once
    MaxChunks,    \* chunks a document's text is split into
    MaxDeaths,    \* how often the backend process may die
    Hybrid,       \* documentSearchHybridEnabled: chunks go to Elasticsearch too
    Faults,       \* what may fail, among AllFaults
    None

AllFaults == {"embed",     \* the model's embedding, or its validation
              "elastic",   \* a request to Elasticsearch
              "database",  \* a statement of the worker
              "lock"}      \* BullMQ's job lock expires under a busy worker

Attempts == 2    \* of a job, as queueDocuments asks

MaxStalled == 1  \* BullMQ's default: a job may stall once, then it fails

ASSUME ConstantsAssumption ==
    /\ Unsupported \subseteq Documents
    /\ MaxChunks \in Nat
    /\ MaxDeaths \in Nat
    /\ Hybrid \in BOOLEAN
    /\ Faults \subseteq AllFaults
    /\ None \notin Documents \cup Jobs

Chunk == [document : Documents, run : Nat, index : Nat]

VARIABLES
    status,        \* extractionStatus of each document, or "removed"
    searchStatus,  \* searchIndexStatus of each document
    contentHash,   \* what the last completed run hashed: its number of chunks
    chunks,        \* rows of document_chunks
    entries,       \* entries of the Elasticsearch index
    unrefreshed,   \* entries that no search sees before the next refresh
    queue,         \* state of each job
    about,         \* the document of each job
    attemptsMade,  \* failed attempts of each job
    stalls,        \* how often each job was found stalled
    deaths,        \* deaths of the process so far
    step,          \* where the worker stands
    job,           \* the job it processes
    run,           \* number of the current run, over all jobs
    size,          \* chunks the text of this run was split into
    next           \* index of the chunk to save or to index

stores == <<status, searchStatus, contentHash, chunks, entries, unrefreshed>>
jobVars == <<queue, about, attemptsMade, stalls>>
worker == <<step, job, run, size, next>>
vars == <<status, searchStatus, contentHash, chunks, entries, unrefreshed,
          queue, about, attemptsMade, stalls, deaths, step, job, run, size, next>>

ChunksOf(d) == {c \in chunks : c.document = d}

\* The first k chunks of a run over a document.
Prefix(d, r, k) == {c \in [document : {d}, run : {r}, index : 0 .. MaxChunks] : c.index < k}

Present(d) == status[d] # "removed"

Unfinished == {"waiting", "active", "delayed"}

-----------------------------------------------------------------------------
Init ==
    /\ status = [d \in Documents |-> "PENDING"]
    /\ searchStatus = [d \in Documents |-> "NOT_INDEXED"]
    /\ contentHash = [d \in Documents |-> None]
    /\ chunks = {}
    /\ entries = {}
    /\ unrefreshed = {}
    /\ queue = [j \in Jobs |-> "new"]
    /\ about = [j \in Jobs |-> None]
    /\ attemptsMade = [j \in Jobs |-> 0]
    /\ stalls = [j \in Jobs |-> 0]
    /\ deaths = 0
    /\ step = "idle"
    /\ job = None
    /\ run = 0
    /\ size = 0
    /\ next = 0

-----------------------------------------------------------------------------
(* What the API does meanwhile. *)

\* queueDocuments, for one of its documents.
Add(j, d) ==
    /\ queue[j] = "new"
    /\ Present(d)
    /\ queue' = [queue EXCEPT ![j] = "waiting"]
    /\ about' = [about EXCEPT ![j] = d]
    /\ UNCHANGED <<stores, attemptsMade, stalls, deaths, worker>>

\* Step six replaces the documents, remove deletes the record: the row goes and
\* its chunks with it (ON DELETE CASCADE), its entries stay in Elasticsearch.
RemoveDocument(d) ==
    /\ Present(d)
    /\ status' = [status EXCEPT ![d] = "removed"]
    /\ chunks' = chunks \ ChunksOf(d)
    /\ UNCHANGED <<searchStatus, contentHash, entries, unrefreshed, jobVars, deaths, worker>>

-----------------------------------------------------------------------------
(* The worker: process(job). *)

Document == about[job]

\* The columns one of the mark... updates writes; no row, no effect.
Mark(extraction, search) ==
    IF Present(Document)
      THEN /\ status' = [status EXCEPT ![Document] = extraction]
           /\ searchStatus' = [searchStatus EXCEPT
                                 ![Document] = IF Hybrid THEN search ELSE "DISABLED"]
      ELSE UNCHANGED <<status, searchStatus>>

Goto(where) == step' = where /\ UNCHANGED <<job, run, size>>

\* The worker is free again.
Leave ==
    /\ step' = "idle"
    /\ job' = None
    /\ size' = 0
    /\ next' = 0
    /\ UNCHANGED run

\* BullMQ hands out a job and process loads its document.
Take(j) ==
    /\ step = "idle"
    /\ queue[j] = "waiting"
    /\ queue' = [queue EXCEPT ![j] = "active"]
    /\ job' = j
    /\ IF Present(about[j]) THEN step' = "start" /\ run' = run + 1
                            ELSE step' = "finish" /\ UNCHANGED run
    /\ UNCHANGED <<stores, about, attemptsMade, stalls, deaths, size, next>>

StartUnmarked ==  \* mutant of MarkStarted: the status stays what it was
    /\ step = "start"
    /\ Goto("clear")
    /\ UNCHANGED <<stores, jobVars, deaths, next>>

\* This update stands before the try: when it fails, nothing marks the failure.
MarkStarted ==
    /\ step = "start"
    /\ \/ Mark("PROCESSING", "INDEXING") /\ Goto("clear")
       \/ "database" \in Faults /\ Goto("throw") /\ UNCHANGED <<status, searchStatus>>
    /\ UNCHANGED <<contentHash, chunks, entries, unrefreshed, jobVars, deaths, next>>

KeepChunks ==  \* mutant of ClearChunks: the chunks of an earlier run stay
    /\ step = "clear"
    /\ Goto(IF Hybrid THEN "unindex" ELSE "extract")
    /\ UNCHANGED <<stores, jobVars, deaths, next>>

\* deleteSavedDocumentChunks
ClearChunks ==
    /\ step = "clear"
    /\ \/ chunks' = chunks \ ChunksOf(Document)
          /\ Goto(IF Hybrid THEN "unindex" ELSE "extract")
       \/ "database" \in Faults /\ Goto("markFailed") /\ UNCHANGED chunks
    /\ UNCHANGED <<status, searchStatus, contentHash, entries, unrefreshed, jobVars,
                   deaths, next>>

\* deleteIndexedDocumentChunks: the query finds what searches see, and the
\* request refreshes the index when it is done.
ClearIndex ==
    /\ step = "unindex"
    /\ \/ /\ entries' = {c \in entries : c.document = Document => c \in unrefreshed}
          /\ unrefreshed' = {}
          /\ Goto("extract")
       \/ "elastic" \in Faults /\ Goto("markFailed") /\ UNCHANGED <<entries, unrefreshed>>
    /\ UNCHANGED <<status, searchStatus, contentHash, chunks, jobVars, deaths, next>>

SkipFirstChunk ==  \* mutant of Extract: the loop starts at the second chunk
    /\ step = "extract"
    /\ Document \notin Unsupported
    /\ \E n \in 1 .. MaxChunks : size' = n
    /\ step' = "save"
    /\ next' = 1
    /\ UNCHANGED <<stores, jobVars, deaths, job, run>>

\* extract and prepareDocumentChunks; the file may be gone or unreadable, OCR
\* may fail, and a text without chunks is an error of its own.
Extract ==
    /\ step = "extract"
    /\ \/ /\ Document \notin Unsupported
          /\ \E n \in 1 .. MaxChunks : size' = n
          /\ step' = "save"
          /\ UNCHANGED <<job, run>>
       \/ Document \notin Unsupported /\ Goto("markFailed")
       \/ Document \in Unsupported /\ Goto("markUnsupported")
    /\ next' = 0
    /\ UNCHANGED <<stores, jobVars, deaths>>

-----------------------------------------------------------------------------
(* ingestDocumentChunks: embed, save and index one chunk after the other. *)

ThisChunk == [document |-> Document, run |-> run, index |-> next]

\* Mutant of Advance: the last chunk is forgotten.
AdvanceTooFar ==
    /\ next' = next + 1
    /\ Goto(IF next + 2 < size THEN "save" ELSE "complete")

\* The next chunk, or the end of the loop.
Advance ==
    /\ next' = next + 1
    /\ Goto(IF next + 1 < size THEN "save" ELSE "complete")

\* Saving fails when the document is gone: the foreign key has no row.
SaveChunk ==
    /\ step = "save"
    /\ \/ /\ Present(Document)
          /\ chunks' = chunks \cup {ThisChunk}
          /\ IF Hybrid THEN Goto("index") /\ UNCHANGED next ELSE Advance
       \/ /\ Faults \cap {"embed", "database"} # {} \/ ~Present(Document)
          /\ Goto("markFailed")
          /\ UNCHANGED <<chunks, next>>
    /\ UNCHANGED <<status, searchStatus, contentHash, entries, unrefreshed, jobVars, deaths>>

\* Mutant of IndexChunk: an error of Elasticsearch is swallowed.
IndexOrSkipChunk ==
    /\ step = "index"
    /\ \/ entries' = entries \cup {ThisChunk} /\ unrefreshed' = unrefreshed \cup {ThisChunk}
       \/ "elastic" \in Faults /\ UNCHANGED <<entries, unrefreshed>>
    /\ Advance
    /\ UNCHANGED <<status, searchStatus, contentHash, chunks, jobVars, deaths>>

\* indexSavedDocumentChunk, without a refresh
IndexChunk ==
    /\ step = "index"
    /\ \/ /\ entries' = entries \cup {ThisChunk}
          /\ unrefreshed' = unrefreshed \cup {ThisChunk}
          /\ Advance
       \/ "elastic" \in Faults /\ Goto("markFailed") /\ UNCHANGED <<entries, unrefreshed, next>>
    /\ UNCHANGED <<status, searchStatus, contentHash, chunks, jobVars, deaths>>

MarkCompleted ==
    /\ step = "complete"
    /\ \/ /\ Mark("READY", "INDEXED")
          /\ contentHash' = IF Present(Document) THEN [contentHash EXCEPT ![Document] = size]
                            ELSE contentHash
          /\ Goto("finish")
       \/ "database" \in Faults /\ Goto("markFailed")
          /\ UNCHANGED <<status, searchStatus, contentHash>>
    /\ UNCHANGED <<chunks, entries, unrefreshed, jobVars, deaths, next>>

FailUnmarked ==  \* mutant of MarkFailed: the catch block only throws
    /\ step \in {"markFailed", "markUnsupported"}
    /\ Goto("throw")
    /\ UNCHANGED <<stores, jobVars, deaths, next>>

\* Mutant of MarkFailed: the document is set back for a retry that may never come.
MarkForRetry ==
    /\ step \in {"markFailed", "markUnsupported"}
    /\ \/ Mark("PENDING", "FAILED")
       \/ "database" \in Faults /\ UNCHANGED <<status, searchStatus>>
    /\ Goto("throw")
    /\ UNCHANGED <<contentHash, chunks, entries, unrefreshed, jobVars, deaths, next>>

\* The catch block; its error replaces the first one, the job fails either way.
MarkFailed ==
    /\ step \in {"markFailed", "markUnsupported"}
    /\ \/ Mark(IF step = "markFailed" THEN "FAILED" ELSE "UNSUPPORTED", "FAILED")
       \/ "database" \in Faults /\ UNCHANGED <<status, searchStatus>>
    /\ Goto("throw")
    /\ UNCHANGED <<contentHash, chunks, entries, unrefreshed, jobVars, deaths, next>>

-----------------------------------------------------------------------------
(* BullMQ: the outcome of a run, retries and stalled jobs. *)

\* process returned; a job whose lock was lost is not the worker's to finish.
Finish ==
    /\ step = "finish"
    /\ queue' = IF queue[job] = "active" THEN [queue EXCEPT ![job] = "completed"] ELSE queue
    /\ Leave
    /\ UNCHANGED <<stores, about, attemptsMade, stalls, deaths>>

\* Where a job goes after its so many-th failed attempt.
AfterFailure(made) == IF made < Attempts THEN "delayed" ELSE "failed"

\* process threw.
Throw ==
    /\ step = "throw"
    /\ IF queue[job] = "active"
         THEN /\ attemptsMade' = [attemptsMade EXCEPT ![job] = @ + 1]
              /\ queue' = [queue EXCEPT ![job] = AfterFailure(attemptsMade[job] + 1)]
         ELSE UNCHANGED <<attemptsMade, queue>>
    /\ Leave
    /\ UNCHANGED <<stores, about, stalls, deaths>>

\* The exponential back-off of the job is over.
BackoffOver(j) ==
    /\ queue[j] = "delayed"
    /\ queue' = [queue EXCEPT ![j] = "waiting"]
    /\ UNCHANGED <<stores, about, attemptsMade, stalls, deaths, worker>>

\* Where a job goes that was found stalled so many times before.
AfterStall(count) == IF count < MaxStalled THEN "waiting" ELSE "failed"

Stall(j) ==
    /\ queue[j] = "active"
    /\ stalls' = [stalls EXCEPT ![j] = @ + 1]
    /\ queue' = [queue EXCEPT ![j] = AfterStall(stalls[j])]
    /\ UNCHANGED <<stores, about, attemptsMade, deaths, worker>>

\* The stalled-job check finds an active job whose worker died.
CheckStalled(j) == job # j /\ Stall(j)

\* ... or one whose worker was too busy to renew its lock, and goes on.
LoseLock(j) == job = j /\ "lock" \in Faults /\ Stall(j)

\* Elasticsearch refreshes its index about once a second.
Refresh ==
    /\ unrefreshed # {}
    /\ unrefreshed' = {}
    /\ UNCHANGED <<status, searchStatus, contentHash, chunks, entries, jobVars, deaths, worker>>

\* The process dies amid a run and is restarted; its job keeps its stale lock.
Die ==
    /\ deaths < MaxDeaths
    /\ step # "idle"
    /\ deaths' = deaths + 1
    /\ Leave
    /\ UNCHANGED <<stores, jobVars>>

-----------------------------------------------------------------------------
Work ==
    \/ \E j \in Jobs : Take(j)
    \/ MarkStarted \/ ClearChunks \/ ClearIndex \/ Extract \/ SaveChunk \/ IndexChunk
    \/ MarkCompleted \/ MarkFailed \/ Finish \/ Throw

Next ==
    \/ \E j \in Jobs, d \in Documents : Add(j, d)
    \/ \E d \in Documents : RemoveDocument(d)
    \/ Work
    \/ \E j \in Jobs : BackoffOver(j) \/ CheckStalled(j) \/ LoseLock(j)
    \/ Refresh
    \/ Die

Spec == Init /\ [][Next]_vars

\* The worker goes on, back-offs end and the stalled-job check runs.
FairSpec ==
    /\ Spec
    /\ WF_vars(Work)
    /\ \A j \in Jobs : WF_vars(BackoffOver(j)) /\ WF_vars(CheckStalled(j))

-----------------------------------------------------------------------------
(* Properties. *)

Statuses == {"PENDING", "PROCESSING", "READY", "UNSUPPORTED", "FAILED", "removed"}

\* Every variable stays in its domain.
TypeOK ==
    /\ status \in [Documents -> Statuses]
    /\ searchStatus \in [Documents ->
            {"NOT_INDEXED", "INDEXING", "INDEXED", "FAILED", "DISABLED"}]
    /\ contentHash \in [Documents -> 1 .. MaxChunks \cup {None}]
    /\ chunks \subseteq Chunk
    /\ entries \subseteq Chunk
    /\ unrefreshed \subseteq entries
    /\ queue \in [Jobs -> Unfinished \cup {"new", "completed", "failed"}]
    /\ about \in [Jobs -> Documents \cup {None}]
    /\ attemptsMade \in [Jobs -> 0 .. Attempts]
    /\ stalls \in [Jobs -> 0 .. MaxStalled + 1]
    /\ deaths \in 0 .. MaxDeaths
    /\ step \in {"idle", "start", "clear", "unindex", "extract", "save", "index",
                 "complete", "markFailed", "markUnsupported", "finish", "throw"}
    /\ job \in Jobs \cup {None}
    /\ run \in Nat
    /\ size \in 0 .. MaxChunks
    /\ next \in 0 .. MaxChunks

\* The chunks a search may find are the beginning of one run's text, in every
\* status: a retry, a second job or a removal never mixes two runs.
ChunksOfOneRun ==
    \A d \in Documents : \E r \in 0 .. run, k \in 0 .. MaxChunks :
        ChunksOf(d) = Prefix(d, r, k)

\* A READY document has all the chunks its last completed run hashed.
ReadyIsWhole ==
    \A d \in Documents : status[d] = "READY" => Cardinality(ChunksOf(d)) = contentHash[d]

\* Every chunk of an INDEXED document has its entry in Elasticsearch.
IndexedIsSearchable ==
    \A d \in Documents : status[d] # "removed" /\ searchStatus[d] = "INDEXED"
        => ChunksOf(d) \subseteq entries

\* A document says PROCESSING only while a job about it is still to come or
\* under way, or when such a job stalled more often than BullMQ allows.
ProcessingHasJob ==
    \A d \in Documents : status[d] = "PROCESSING" =>
        \E j \in Jobs : about[j] = d /\ (queue[j] \in Unfinished \/ job = j
                                         \/ stalls[j] > MaxStalled)

Settled(d) == status[d] \in {"READY", "FAILED", "UNSUPPORTED", "removed"}

GivenUpAsStalled(d) == \E j \in Jobs : about[j] = d /\ stalls[j] > MaxStalled

\* Every job comes to an end, and the document it was added for is settled by then, unless
\* a job about it stalled more often than BullMQ allows.
DocumentsSettle ==
    \A j \in Jobs : \A d \in Documents :
        about[j] = d ~> /\ queue[j] \in {"completed", "failed"}
                        /\ Settled(d) \/ GivenUpAsStalled(d)
=============================================================================
