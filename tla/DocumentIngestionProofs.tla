----------------------- MODULE DocumentIngestionProofs -----------------------
(***************************************************************************)
(* Machine-checked theorems about DocumentIngestion, for every set of      *)
(* documents and jobs, every number of chunks and every set of faults.     *)
(***************************************************************************)
EXTENDS DocumentIngestionInvariant, FiniteSetTheorems, TLAPS

-----------------------------------------------------------------------------
(* The first chunks of a run. *)

\* Before the first chunk nothing is written.
LEMMA PrefixZero == \A d, r : Prefix(d, r, 0) = {}
  BY DEF Prefix

\* Saving the next chunk continues the prefix.
LEMMA PrefixStep ==
  ASSUME NEW d, NEW r, NEW k \in Nat, k < MaxChunks
  PROVE  Prefix(d, r, k + 1) = Prefix(d, r, k) \cup {[document |-> d, run |-> r, index |-> k]}
  BY ConstantsAssumption DEF Prefix

\* A prefix that is not empty holds the first chunk.
LEMMA PrefixNotEmpty ==
  ASSUME NEW d, NEW r, NEW k \in 1 .. MaxChunks
  PROVE  Prefix(d, r, k) # {}
  <1>1. [document |-> d, run |-> r, index |-> 0] \in Prefix(d, r, k)
    BY ConstantsAssumption DEF Prefix
  <1> QED BY <1>1

\* The first k chunks of a run are k chunks.
LEMMA PrefixCardinality ==
  ASSUME NEW d, NEW r, NEW k \in 0 .. MaxChunks
  PROVE  Cardinality(Prefix(d, r, k)) = k
  <1> DEFINE f == [i \in 1 .. k |-> [document |-> d, run |-> r, index |-> i - 1]]
  <1> HIDE DEF f
  <1>1. \A i \in 1 .. k : f[i] \in Prefix(d, r, k)
    BY ConstantsAssumption DEF f, Prefix
  <1>2. \A c \in Prefix(d, r, k) : c.index + 1 \in 1 .. k /\ f[c.index + 1] = c
    BY ConstantsAssumption DEF f, Prefix
  <1>3. \A i, j \in 1 .. k : f[i] = f[j] => i = j
    <2> SUFFICES ASSUME NEW i \in 1 .. k, NEW j \in 1 .. k, f[i] = f[j] PROVE i = j
      OBVIOUS
    <2>1. f[i].index = i - 1 /\ f[j].index = j - 1
      BY DEF f
    <2> QED BY <2>1
  <1>4. f \in Bijection(1 .. k, Prefix(d, r, k))
    <2>1. f \in [1 .. k -> Prefix(d, r, k)]
      BY <1>1 DEF f
    <2>2. \A a, b \in DOMAIN f : f[a] = f[b] => a = b
      BY <1>3, <2>1
    <2>3. \A c \in Prefix(d, r, k) : \E i \in 1 .. k : f[i] = c
      BY <1>2
    <2> QED BY <2>1, <2>2, <2>3 DEF Bijection, Injection, Surjection, IsInjective
  <1> QED BY <1>4, FS_CountingElements DEF ExistsBijection

-----------------------------------------------------------------------------
(* The worker and its document. *)

\* While the worker is busy its job has a document.
LEMMA BusyWithDocument ==
  ASSUME TypeOK, JobsOK, WorkerOK, job # None
  PROVE  job \in Jobs /\ Document \in Documents
  BY DEF TypeOK, JobsOK, WorkerOK, Document

\* Marking a document keeps every other, and a removed one stays removed.
LEMMA MarkTyped ==
  ASSUME TypeOK, NEW e \in Statuses \ {"removed"},
         NEW s \in {"NOT_INDEXED", "INDEXING", "INDEXED", "FAILED", "DISABLED"},
         Document \in Documents, Mark(e, s)
  PROVE  /\ status' \in [Documents -> Statuses]
         /\ searchStatus' \in [Documents ->
              {"NOT_INDEXED", "INDEXING", "INDEXED", "FAILED", "DISABLED"}]
         /\ \A d \in Documents : status'[d] = "removed" <=> status[d] = "removed"
         /\ Present(Document) => /\ status'[Document] = e
                                 /\ searchStatus'[Document] = IF Hybrid THEN s ELSE "DISABLED"
         /\ \A d \in Documents : d # Document \/ ~Present(Document) =>
                status'[d] = status[d] /\ searchStatus'[d] = searchStatus[d]
  BY DEF TypeOK, Mark, Present, Statuses

\* The chunks the worker saves and indexes are chunks.
LEMMA ThisChunkTyped ==
  ASSUME TypeOK, JobsOK, WorkerOK, job # None
  PROVE  ThisChunk \in Chunk /\ ThisChunk.document = Document
  BY BusyWithDocument DEF TypeOK, ThisChunk, Chunk

-----------------------------------------------------------------------------
(* Steps of the API and of BullMQ while the worker stands still. *)

\* A step that leaves the stores and the worker alone, and keeps the document of
\* the worker's job, keeps what is known of them.
LEMMA JobStep ==
  ASSUME IngestionInvariant, UNCHANGED <<stores, worker>>,
         job # None => about'[job] = about[job]
  PROVE  /\ (job # None /\ Present(Document) => RunOK)'
         /\ (\A d \in Documents : DocumentOK(d))'
         /\ ChunksOfOneRun'
         /\ IndexedIsSearchable'
  <1> USE DEF stores, worker, Present, ChunksOf
  <1>1. (job # None /\ Present(Document) => RunOK)'
    <2> SUFFICES ASSUME job # None, Present(Document)' PROVE RunOK'
      BY DEF worker
    <2>1. Document' = Document /\ Present(Document)
      BY DEF Document
    <2>2. RunOK
      BY <2>1 DEF IngestionInvariant
    <2> QED BY <2>1, <2>2 DEF RunOK, Written, ThisChunk
  <1>2. (\A d \in Documents : DocumentOK(d))'
    BY DEF IngestionInvariant, DocumentOK
  <1>3. ChunksOfOneRun'
    BY DEF IngestionInvariant, ChunksOfOneRun
  <1>4. IndexedIsSearchable'
    BY DEF IngestionInvariant, IndexedIsSearchable
  <1> QED BY <1>1, <1>2, <1>3, <1>4

\* Queueing a document keeps the invariant.
LEMMA AddKeeps ==
  ASSUME IngestionInvariant, NEW j \in Jobs, NEW d \in Documents, Add(j, d)
  PROVE  IngestionInvariant'
  <1>1. TypeOK'
    BY DEF IngestionInvariant, TypeOK, Add, stores, worker, Unfinished
  <1>2. JobsOK'
    BY DEF IngestionInvariant, TypeOK, JobsOK, Add, stores, worker, Unfinished
  <1>3. WorkerOK' /\ (job # None => about'[job] = about[job])
    BY DEF IngestionInvariant, TypeOK, WorkerOK, Add, stores, worker
  <1>4. UNCHANGED <<stores, worker>>
    BY DEF Add
  <1> QED BY <1>1, <1>2, <1>3, <1>4, JobStep DEF IngestionInvariant

\* A back-off that ends keeps the invariant.
LEMMA BackoffOverKeeps ==
  ASSUME IngestionInvariant, NEW j \in Jobs, BackoffOver(j)
  PROVE  IngestionInvariant'
  <1>1. TypeOK'
    BY DEF IngestionInvariant, TypeOK, BackoffOver, stores, worker, Unfinished
  <1>2. JobsOK'
    BY DEF IngestionInvariant, TypeOK, JobsOK, BackoffOver, stores, worker, Unfinished
  <1>3. WorkerOK'
    BY DEF IngestionInvariant, TypeOK, WorkerOK, BackoffOver, stores, worker
  <1>4. UNCHANGED <<stores, worker, about>>
    BY DEF BackoffOver
  <1> QED BY <1>1, <1>2, <1>3, <1>4, JobStep DEF IngestionInvariant

\* A job found stalled is handed out again only while it has a stall left.
LEMMA StallKeeps ==
  ASSUME IngestionInvariant, NEW j \in Jobs, Stall(j)
  PROVE  IngestionInvariant'
  <1> USE DEF IngestionInvariant
  <1>1. stalls[j] \in 0 .. MaxStalled
    BY DEF TypeOK, JobsOK, Stall, Unfinished, MaxStalled
  <1>2. AfterStall(stalls[j]) \in {"waiting", "failed"}
    BY DEF AfterStall
  <1>3. TypeOK'
    BY <1>1, <1>2 DEF TypeOK, Stall, stores, worker, Unfinished, MaxStalled
  <1>4. JobsOK'
    BY <1>1 DEF TypeOK, JobsOK, Stall, stores, worker, Unfinished, AfterStall, MaxStalled
  <1>5. WorkerOK'
    BY <1>2 DEF TypeOK, WorkerOK, Stall, stores, worker
  <1>6. UNCHANGED <<stores, worker, about>>
    BY DEF Stall
  <1> QED BY <1>3, <1>4, <1>5, <1>6, JobStep

\* A refresh of the index keeps the invariant.
LEMMA RefreshKeeps ==
  ASSUME IngestionInvariant, Refresh
  PROVE  IngestionInvariant'
  <1> USE DEF IngestionInvariant, Refresh, jobVars, worker
  <1>1. TypeOK' /\ JobsOK' /\ WorkerOK'
    BY DEF TypeOK, JobsOK, WorkerOK
  <1>2. (job # None /\ Present(Document) => RunOK)'
    BY DEF RunOK, Written, ThisChunk, Document, Present, ChunksOf
  <1>3. (\A d \in Documents : DocumentOK(d))'
    BY DEF DocumentOK, Present, ChunksOf
  <1>4. ChunksOfOneRun' /\ IndexedIsSearchable'
    BY DEF ChunksOfOneRun, IndexedIsSearchable, ChunksOf
  <1> QED BY <1>1, <1>2, <1>3, <1>4

\* A removed document has no chunk, whatever was stored of it.
LEMMA RemoveDocumentKeeps ==
  ASSUME IngestionInvariant, NEW d \in Documents, RemoveDocument(d)
  PROVE  IngestionInvariant'
  <1> USE DEF IngestionInvariant, Present, ChunksOf
  <1>1. /\ status' = [status EXCEPT ![d] = "removed"]
        /\ chunks' = chunks \ ChunksOf(d)
        /\ UNCHANGED <<searchStatus, contentHash, entries, unrefreshed, jobVars, deaths, worker>>
    BY DEF RemoveDocument
  <1>2. status'[d] = "removed" /\ {x \in chunks' : x.document = d} = {}
    BY <1>1 DEF TypeOK
  <1>3. ASSUME NEW c \in Documents, c # d
        PROVE  /\ status'[c] = status[c]
               /\ {x \in chunks' : x.document = c} = {x \in chunks : x.document = c}
    BY <1>1, <1>3 DEF TypeOK
  <1>4. TypeOK' /\ JobsOK' /\ WorkerOK'
    BY <1>1 DEF TypeOK, JobsOK, WorkerOK, Statuses, jobVars, worker
  <1>5. (job # None /\ Present(Document) => RunOK)'
    <2> SUFFICES ASSUME job # None, Present(Document)' PROVE RunOK'
      BY <1>1 DEF worker
    <2>1. Document' = Document /\ Document \in Documents
      BY <1>1, BusyWithDocument DEF Document, worker, jobVars
    <2>2. Document # d
      BY <1>2, <2>1
    <2>3. /\ status'[Document] = status[Document]
          /\ {x \in chunks' : x.document = Document} = {x \in chunks : x.document = Document}
      BY <1>3, <2>1, <2>2
    <2>4. RunOK
      BY <2>1, <2>3
    <2> QED BY <1>1, <2>1, <2>3, <2>4 DEF RunOK, Written, ThisChunk, worker
  <1>6. (\A c \in Documents : DocumentOK(c))'
    <2> SUFFICES ASSUME NEW c \in Documents PROVE DocumentOK(c)'
      OBVIOUS
    <2>1. CASE c = d
      BY <1>2, <2>1 DEF DocumentOK
    <2>2. CASE c # d
      BY <1>1, <1>3, <2>2 DEF DocumentOK, worker
    <2> QED BY <2>1, <2>2
  <1>7. ChunksOfOneRun'
    <2> SUFFICES ASSUME NEW c \in Documents
                 PROVE  \E r \in 0 .. run, k \in 0 .. MaxChunks :
                            {x \in chunks' : x.document = c} = Prefix(c, r, k)
      BY <1>1 DEF ChunksOfOneRun, worker
    <2>1. CASE c = d
      BY <1>2, <2>1, PrefixZero, ConstantsAssumption DEF TypeOK
    <2>2. CASE c # d
      BY <1>3, <2>2 DEF ChunksOfOneRun
    <2> QED BY <2>1, <2>2
  <1>8. IndexedIsSearchable'
    BY <1>1, <1>2, <1>3 DEF IndexedIsSearchable
  <1> QED BY <1>4, <1>5, <1>6, <1>7, <1>8

-----------------------------------------------------------------------------
(* Steps of the worker between two documents. *)

\* A step that leaves the stores alone and the worker without a document.
LEMMA LeaveStep ==
  ASSUME IngestionInvariant, UNCHANGED stores, Leave
  PROVE  /\ (job # None /\ Present(Document) => RunOK)'
         /\ (\A d \in Documents : DocumentOK(d))'
         /\ ChunksOfOneRun'
         /\ IndexedIsSearchable'
  BY DEF IngestionInvariant, stores, Leave, DocumentOK, ChunksOfOneRun, IndexedIsSearchable,
         Present, ChunksOf

\* The end of a run keeps the invariant.
LEMMA FinishKeeps ==
  ASSUME IngestionInvariant, Finish
  PROVE  IngestionInvariant'
  <1> USE DEF IngestionInvariant
  <1>1. job \in Jobs
    BY BusyWithDocument DEF Finish, WorkerOK
  <1>2. TypeOK'
    BY <1>1, ConstantsAssumption DEF TypeOK, Finish, Leave, stores
  <1>3. JobsOK'
    BY <1>1 DEF TypeOK, JobsOK, Finish, Leave, Unfinished
  <1>4. WorkerOK'
    BY DEF WorkerOK, Finish, Leave
  <1> QED BY <1>2, <1>3, <1>4, LeaveStep DEF Finish

\* A failed attempt is counted, and the last one fails the job.
LEMMA ThrowKeeps ==
  ASSUME IngestionInvariant, Throw
  PROVE  IngestionInvariant'
  <1> USE DEF IngestionInvariant
  <1>1. job \in Jobs
    BY BusyWithDocument DEF Throw, WorkerOK
  <1>2. queue[job] = "active" => attemptsMade[job] + 1 \in 0 .. Attempts
    BY <1>1 DEF TypeOK, JobsOK, Unfinished, Attempts
  <1>3. TypeOK'
    <2>1. queue' \in [Jobs -> Unfinished \cup {"new", "completed", "failed"}]
      BY <1>1 DEF TypeOK, Throw, AfterFailure, Unfinished
    <2>2. attemptsMade' \in [Jobs -> 0 .. Attempts]
      BY <1>1, <1>2 DEF TypeOK, Throw
    <2> QED BY <2>1, <2>2, ConstantsAssumption DEF TypeOK, Throw, Leave, stores
  <1>4. JobsOK'
    BY <1>1, <1>2 DEF TypeOK, JobsOK, Throw, AfterFailure, Unfinished
  <1>5. WorkerOK'
    BY DEF WorkerOK, Throw, Leave
  <1> QED BY <1>3, <1>4, <1>5, LeaveStep DEF Throw

\* The death of the process keeps the invariant: its job stays active.
LEMMA DieKeeps ==
  ASSUME IngestionInvariant, Die
  PROVE  IngestionInvariant'
  <1> USE DEF IngestionInvariant
  <1>1. TypeOK'
    BY ConstantsAssumption DEF TypeOK, Die, Leave, stores, jobVars
  <1>2. JobsOK' /\ WorkerOK'
    BY DEF JobsOK, WorkerOK, Die, Leave, jobVars
  <1> QED BY <1>1, <1>2, LeaveStep DEF Die

\* Taking a job keeps the invariant: nothing is written yet, and the new run
\* has a number of its own.
LEMMA TakeKeeps ==
  ASSUME IngestionInvariant, NEW j \in Jobs, Take(j)
  PROVE  IngestionInvariant'
  <1> USE DEF IngestionInvariant
  <1>1. TypeOK'
    BY DEF TypeOK, Take, stores, Unfinished
  <1>2. JobsOK'
    BY DEF TypeOK, JobsOK, Take, Unfinished
  <1>3. WorkerOK'
    BY ConstantsAssumption DEF TypeOK, WorkerOK, Take
  <1>4. (job # None /\ Present(Document) => RunOK)'
    BY DEF Take, RunOK, Marked
  <1>5. (\A d \in Documents : DocumentOK(d))'
    BY DEF TypeOK, DocumentOK, Take, stores, Present, ChunksOf
  <1>6. ChunksOfOneRun'
    BY DEF TypeOK, ChunksOfOneRun, Take, stores, ChunksOf
  <1>7. IndexedIsSearchable'
    BY DEF IndexedIsSearchable, Take, stores, ChunksOf
  <1> QED BY <1>1, <1>2, <1>3, <1>4, <1>5, <1>6, <1>7

-----------------------------------------------------------------------------
(* Steps of the worker at its document. *)

\* A step that touches only the document d of the job keeps what is known of
\* every other document, so that d alone remains to be looked at.
LEMMA WorkStep ==
  ASSUME IngestionInvariant, NEW d \in Documents, d = Document, job # None,
         UNCHANGED <<jobVars, job, run>>, TypeOK', WorkerOK',
         \A c \in Documents \ {d} :
            /\ status'[c] = status[c]
            /\ searchStatus'[c] = searchStatus[c]
            /\ contentHash'[c] = contentHash[c]
            /\ {x \in chunks' : x.document = c} = {x \in chunks : x.document = c}
            /\ {x \in entries : x.document = c} \subseteq entries',
         status'[d] # "removed" => RunOK',
         status'[d] = "removed" => {x \in chunks' : x.document = d} = {},
         status'[d] = "READY" =>
            /\ contentHash'[d] \in 1 .. MaxChunks
            /\ \E r \in 0 .. run :
                  {x \in chunks' : x.document = d} = Prefix(d, r, contentHash'[d]),
         \E r \in 0 .. run, k \in 0 .. MaxChunks :
            {x \in chunks' : x.document = d} = Prefix(d, r, k),
         status'[d] # "removed" /\ searchStatus'[d] = "INDEXED" =>
            {x \in chunks' : x.document = d} \subseteq entries'
  PROVE  IngestionInvariant'
  <1> USE DEF Present, ChunksOf
  <1>1. JobsOK'
    BY DEF IngestionInvariant, JobsOK, jobVars
  <1>2. (job # None /\ Present(Document) => RunOK)'
    BY DEF Document, jobVars
  <1>3. (\A c \in Documents : DocumentOK(c))'
    <2> SUFFICES ASSUME NEW c \in Documents PROVE DocumentOK(c)'
      OBVIOUS
    <2>1. CASE c = d
      BY <2>1 DEF DocumentOK
    <2>2. CASE c # d
      BY <2>2 DEF IngestionInvariant, DocumentOK
    <2> QED BY <2>1, <2>2
  <1>4. ChunksOfOneRun'
    <2> SUFFICES ASSUME NEW c \in Documents
                 PROVE  \E r \in 0 .. run, k \in 0 .. MaxChunks :
                            {x \in chunks' : x.document = c} = Prefix(c, r, k)
      BY DEF ChunksOfOneRun
    <2>1. CASE c = d
      BY <2>1
    <2>2. CASE c # d
      BY <2>2 DEF IngestionInvariant, ChunksOfOneRun
    <2> QED BY <2>1, <2>2
  <1>5. IndexedIsSearchable'
    <2> SUFFICES ASSUME NEW c \in Documents, status'[c] # "removed",
                        searchStatus'[c] = "INDEXED"
                 PROVE  {x \in chunks' : x.document = c} \subseteq entries'
      BY DEF IndexedIsSearchable
    <2>1. CASE c = d
      BY <2>1
    <2>2. CASE c # d
      BY <2>2 DEF IngestionInvariant, IndexedIsSearchable
    <2> QED BY <2>1, <2>2
  <1> QED BY <1>1, <1>2, <1>3, <1>4, <1>5 DEF IngestionInvariant

\* The document of a busy worker, as a constant to reason about.
LEMMA BusyDocument ==
  ASSUME IngestionInvariant, step # "idle"
  PROVE  /\ job # None
         /\ \E d \in Documents :
               /\ d = Document
               /\ DocumentOK(d)
               /\ \E r \in 0 .. run, k \in 0 .. MaxChunks : ChunksOf(d) = Prefix(d, r, k)
               /\ status[d] # "removed" => RunOK
  BY BusyWithDocument DEF IngestionInvariant, WorkerOK, ChunksOfOneRun, Present

\* The update that starts a run: the document leaves READY, with the chunks of
\* the run before.
LEMMA MarkStartedKeeps ==
  ASSUME IngestionInvariant, MarkStarted
  PROVE  IngestionInvariant'
  <1>1. job # None
    BY BusyDocument DEF MarkStarted
  <1>2. PICK d \in Documents :
              /\ d = Document
              /\ DocumentOK(d)
              /\ \E r \in 0 .. run, k \in 0 .. MaxChunks : ChunksOf(d) = Prefix(d, r, k)
              /\ status[d] # "removed" => RunOK
    BY BusyDocument DEF MarkStarted
  <1>3. UNCHANGED <<contentHash, chunks, entries, unrefreshed, jobVars, deaths, job, run, size, next>>
    BY DEF MarkStarted, Goto
  <1>4. TypeOK /\ WorkerOK /\ IndexedIsSearchable
    BY DEF IngestionInvariant
  <1>5. ASSUME Mark("PROCESSING", "INDEXING"), step' = "clear"
        PROVE  IngestionInvariant'
    <2>1. /\ status' \in [Documents -> Statuses]
          /\ searchStatus' \in [Documents ->
               {"NOT_INDEXED", "INDEXING", "INDEXED", "FAILED", "DISABLED"}]
          /\ status'[d] = "removed" <=> status[d] = "removed"
          /\ status[d] # "removed" =>
                /\ status'[d] = "PROCESSING"
                /\ searchStatus'[d] = IF Hybrid THEN "INDEXING" ELSE "DISABLED"
          /\ \A c \in Documents \ {d} : status'[c] = status[c] /\ searchStatus'[c] = searchStatus[c]
      BY <1>2, <1>4, <1>5, MarkTyped DEF Statuses, Present
    <2>2. TypeOK'
      BY <1>3, <1>4, <1>5, <2>1 DEF TypeOK, jobVars
    <2>3. WorkerOK'
      BY <1>1, <1>3, <1>4, <1>5 DEF WorkerOK, jobVars
    <2>4. Document' = d
      BY <1>2, <1>3 DEF Document, jobVars
    <2>5. status'[d] # "removed" => RunOK'
      BY <1>5, <2>1, <2>4 DEF RunOK
    <2> QED BY <1>1, <1>2, <1>3, <1>5, <2>1, <2>2, <2>3, <2>5, WorkStep DEF DocumentOK, Present, ChunksOf
  <1>6. ASSUME UNCHANGED <<status, searchStatus>>, step' = "throw"
        PROVE  IngestionInvariant'
    <2>1. TypeOK' /\ WorkerOK'
      BY <1>1, <1>3, <1>4, <1>6 DEF TypeOK, WorkerOK, jobVars
    <2>2. RunOK'
      BY <1>6 DEF RunOK, Marked
    <2> QED
      BY <1>1, <1>2, <1>3, <1>4, <1>6, <2>1, <2>2, WorkStep
      DEF DocumentOK, IndexedIsSearchable, Present, ChunksOf
  <1> QED BY <1>5, <1>6 DEF MarkStarted, Goto

\* Amid a run a step that writes neither the document's row nor its chunks, and
\* drops the entries of no other document, has only the worker to account for.
LEMMA QuietStep ==
  ASSUME IngestionInvariant, step \in Marked,
         UNCHANGED <<status, searchStatus, contentHash, chunks, jobVars, job, run>>,
         \A x \in entries : x.document # Document => x \in entries',
         TypeOK', WorkerOK',
         RunOK => RunOK'
  PROVE  IngestionInvariant'
  <1>1. job # None
    BY BusyDocument DEF Marked
  <1>2. PICK d \in Documents :
              /\ d = Document
              /\ DocumentOK(d)
              /\ \E r \in 0 .. run, k \in 0 .. MaxChunks : ChunksOf(d) = Prefix(d, r, k)
              /\ status[d] # "removed" => RunOK
    BY BusyDocument DEF Marked
  <1>3. status[d] # "removed" => searchStatus[d] # "INDEXED"
    BY <1>2 DEF RunOK
  <1> QED BY <1>1, <1>2, <1>3, WorkStep DEF DocumentOK, Present, ChunksOf

\* Giving up amid a run leaves the document as it is, still PROCESSING.
LEMMA GiveUpKeeps ==
  ASSUME IngestionInvariant, step \in Marked, Goto("markFailed"),
         UNCHANGED <<stores, jobVars, deaths, next>>
  PROVE  IngestionInvariant'
  <1>1. TypeOK' /\ WorkerOK'
    BY DEF IngestionInvariant, TypeOK, WorkerOK, Goto, stores, jobVars, Marked
  <1>2. RunOK => RunOK'
    BY DEF RunOK, Goto, stores, jobVars, Document
  <1> QED BY <1>1, <1>2, QuietStep DEF Goto, stores

\* Clearing the chunks leaves the document none.
LEMMA ClearChunksKeeps ==
  ASSUME IngestionInvariant, ClearChunks
  PROVE  IngestionInvariant'
  <1>1. job # None
    BY BusyDocument DEF ClearChunks
  <1>2. PICK d \in Documents :
              /\ d = Document
              /\ DocumentOK(d)
              /\ \E r \in 0 .. run, k \in 0 .. MaxChunks : ChunksOf(d) = Prefix(d, r, k)
              /\ status[d] # "removed" => RunOK
    BY BusyDocument DEF ClearChunks
  <1>3. TypeOK /\ WorkerOK
    BY DEF IngestionInvariant
  <1>4. /\ UNCHANGED <<status, searchStatus, contentHash, entries, unrefreshed,
                       jobVars, deaths, job, run, size, next>>
        /\ step = "clear" /\ step' \in {"unindex", "extract", "markFailed"}
    BY DEF ClearChunks, Goto
  <1>5. ASSUME chunks' = chunks \ ChunksOf(d)
        PROVE  IngestionInvariant'
    <2>1. TypeOK' /\ WorkerOK'
      BY <1>1, <1>3, <1>4, <1>5 DEF TypeOK, WorkerOK, jobVars
    <2>2. /\ {x \in chunks' : x.document = d} = {}
          /\ \A c \in Documents \ {d} :
                {x \in chunks' : x.document = c} = {x \in chunks : x.document = c}
      BY <1>5 DEF ChunksOf
    <2>3. Document' = d
      BY <1>2, <1>4 DEF Document, jobVars
    <2>4. status'[d] # "removed" => RunOK'
      BY <1>2, <1>4, <2>2, <2>3 DEF RunOK, Marked, ChunksOf
    <2>5. status[d] # "removed" => status[d] = "PROCESSING" /\ searchStatus[d] # "INDEXED"
      BY <1>2, <1>4 DEF RunOK, Marked
    <2>6. \E r \in 0 .. run, k \in 0 .. MaxChunks : {x \in chunks' : x.document = d} = Prefix(d, r, k)
      BY <1>3, <2>2, PrefixZero, ConstantsAssumption DEF TypeOK
    <2> QED BY <1>1, <1>2, <1>4, <2>1, <2>2, <2>4, <2>5, <2>6, WorkStep
  <1>6. CASE UNCHANGED chunks /\ Goto("markFailed")
    BY <1>4, <1>6, GiveUpKeeps DEF stores, Marked
  <1> QED BY <1>2, <1>5, <1>6 DEF ClearChunks

\* Clearing the entries of the document touches those of no other.
LEMMA ClearIndexKeeps ==
  ASSUME IngestionInvariant, ClearIndex
  PROVE  IngestionInvariant'
  <1>1. ASSUME entries' = {c \in entries : c.document = Document => c \in unrefreshed},
               unrefreshed' = {}, Goto("extract")
        PROVE  IngestionInvariant'
    <2>1. TypeOK' /\ WorkerOK'
      BY <1>1 DEF IngestionInvariant, TypeOK, WorkerOK, ClearIndex, Goto, jobVars
    <2>2. RunOK => RunOK'
      BY <1>1 DEF RunOK, Marked, ClearIndex, Goto, Document, ChunksOf, jobVars
    <2> QED BY <1>1, <2>1, <2>2, QuietStep DEF ClearIndex, Goto, Marked
  <1>2. CASE Goto("markFailed") /\ UNCHANGED <<entries, unrefreshed>>
    BY <1>2, GiveUpKeeps DEF ClearIndex, stores, Marked
  <1> QED BY <1>1, <1>2 DEF ClearIndex

\* Extraction starts from a document without chunks.
LEMMA ExtractKeeps ==
  ASSUME IngestionInvariant, Extract
  PROVE  IngestionInvariant'
  <1>1. ASSUME NEW n \in 1 .. MaxChunks, size' = n, step' = "save", UNCHANGED <<job, run>>
        PROVE  IngestionInvariant'
    <2>1. TypeOK' /\ WorkerOK'
      BY <1>1, ConstantsAssumption
      DEF IngestionInvariant, TypeOK, WorkerOK, Extract, stores, jobVars
    <2>2. ASSUME RunOK PROVE RunOK'
      <3>1. ChunksOf(Document) = {} /\ UNCHANGED <<Document, ChunksOf(Document)>>
        BY <1>1, <2>2 DEF RunOK, Extract, Document, ChunksOf, stores, jobVars
      <3>2. Written(next)'
        BY <3>1, PrefixZero DEF Written, Extract
      <3> QED BY <1>1, <2>2, <3>1, <3>2 DEF RunOK, Marked, Extract, Document, stores, jobVars
    <2> QED BY <1>1, <2>1, <2>2, QuietStep DEF Extract, stores, Marked
  <1>2. ASSUME Goto("markFailed") \/ Goto("markUnsupported")
        PROVE  IngestionInvariant'
    <2>1. TypeOK' /\ WorkerOK'
      BY <1>2, ConstantsAssumption
      DEF IngestionInvariant, TypeOK, WorkerOK, Extract, Goto, stores, jobVars
    <2>2. RunOK => RunOK'
      BY <1>2 DEF RunOK, Marked, Extract, Goto, Document, ChunksOf, stores, jobVars
    <2> QED BY <1>2, <2>1, <2>2, QuietStep DEF Extract, Goto, stores, Marked
  <1> QED BY <1>1, <1>2 DEF Extract

\* Saving a chunk continues the prefix of this run, and of no other.
LEMMA SaveChunkKeeps ==
  ASSUME IngestionInvariant, SaveChunk
  PROVE  IngestionInvariant'
  <1>1. job # None /\ step = "save"
    BY BusyDocument DEF SaveChunk
  <1>2. PICK d \in Documents :
              /\ d = Document
              /\ DocumentOK(d)
              /\ \E r \in 0 .. run, k \in 0 .. MaxChunks : ChunksOf(d) = Prefix(d, r, k)
              /\ status[d] # "removed" => RunOK
    BY BusyDocument DEF SaveChunk
  <1>3. TypeOK /\ WorkerOK /\ ThisChunk \in Chunk /\ ThisChunk.document = d
    BY <1>1, <1>2, ThisChunkTyped DEF IngestionInvariant
  <1>4. ASSUME Present(Document), chunks' = chunks \cup {ThisChunk},
               IF Hybrid THEN Goto("index") /\ UNCHANGED next ELSE Advance
        PROVE  IngestionInvariant'
    <2>1. UNCHANGED <<status, searchStatus, contentHash, entries, unrefreshed, jobVars,
                      deaths, job, run, size, Document>>
      BY <1>4 DEF SaveChunk, Goto, Advance, Document, jobVars
    <2>2. next \in 0 .. MaxChunks /\ size \in 0 .. MaxChunks /\ next < size /\ run \in Nat
      BY <1>1, <1>3 DEF TypeOK, WorkerOK
    <2>3. \/ Hybrid /\ step' = "index" /\ next' = next
          \/ ~Hybrid /\ step' = "save" /\ next' = next + 1 /\ next + 1 < size
          \/ ~Hybrid /\ step' = "complete" /\ next' = next + 1 /\ next + 1 = size
      BY <1>4, <2>2, ConstantsAssumption DEF Goto, Advance
    <2>4. TypeOK'
      BY <1>3, <2>1, <2>2, <2>3, <1>4, ConstantsAssumption DEF TypeOK, jobVars
    <2>5. WorkerOK'
      BY <1>1, <1>3, <2>1, <2>2, <2>3 DEF WorkerOK, jobVars
    <2>6. /\ RunOK
          /\ status[d] = "PROCESSING"
          /\ searchStatus[d] # "INDEXED"
          /\ ChunksOf(d) = Prefix(d, run, next)
          /\ Hybrid => ChunksOf(d) \subseteq entries
      BY <1>1, <1>2, <1>4 DEF RunOK, Marked, Written, Present
    <2>7. /\ {x \in chunks' : x.document = d} = ChunksOf(d) \cup {ThisChunk}
          /\ \A c \in Documents \ {d} :
                {x \in chunks' : x.document = c} = {x \in chunks : x.document = c}
      BY <1>3, <1>4 DEF ChunksOf
    <2>8. {x \in chunks' : x.document = d} = Prefix(d, run, next + 1)
      BY <1>2, <2>2, <2>6, <2>7, PrefixStep, ConstantsAssumption DEF ThisChunk
    <2>9. RunOK'
      <3>1. Written(next + 1)' \/ ~Hybrid
        BY <1>2, <2>1, <2>3, <2>8 DEF Written, ChunksOf
      <3>2. step' = "save" => Written(next)'
        BY <1>2, <2>1, <2>3, <2>8 DEF Written, ChunksOf
      <3>3. step' = "complete" => Written(size)'
        BY <1>2, <2>1, <2>3, <2>8 DEF Written, ChunksOf
      <3>4. Hybrid => (ChunksOf(Document) \ {ThisChunk})' \subseteq entries'
        BY <1>2, <2>1, <2>3, <2>6, <2>7 DEF ChunksOf, ThisChunk
      <3>5. (status[Document])' = "PROCESSING"
            /\ (searchStatus[Document])' = IF Hybrid THEN "INDEXING" ELSE "DISABLED"
        BY <1>1, <1>2, <2>1, <2>6 DEF RunOK, Marked
      <3> QED BY <2>3, <3>1, <3>2, <3>3, <3>4, <3>5 DEF RunOK
    <2>10. \E r \in 0 .. run, k \in 0 .. MaxChunks : {x \in chunks' : x.document = d} = Prefix(d, r, k)
      BY <2>2, <2>8, ConstantsAssumption
    <2> QED BY <1>1, <1>2, <2>1, <2>4, <2>5, <2>6, <2>7, <2>9, <2>10, WorkStep
  <1>5. CASE Goto("markFailed") /\ UNCHANGED <<chunks, next>>
    BY <1>1, <1>5, GiveUpKeeps DEF SaveChunk, stores, Marked
  <1> QED BY <1>4, <1>5 DEF SaveChunk

\* Indexing the chunk just saved leaves every chunk of the document an entry.
LEMMA IndexChunkKeeps ==
  ASSUME IngestionInvariant, IndexChunk
  PROVE  IngestionInvariant'
  <1>1. job # None /\ step = "index"
    BY BusyDocument DEF IndexChunk
  <1>2. TypeOK /\ WorkerOK /\ ThisChunk \in Chunk
    BY <1>1, ThisChunkTyped DEF IngestionInvariant
  <1>3. ASSUME entries' = entries \cup {ThisChunk}, unrefreshed' = unrefreshed \cup {ThisChunk},
               Advance
        PROVE  IngestionInvariant'
    <2>1. UNCHANGED <<status, searchStatus, contentHash, chunks, jobVars, deaths,
                      job, run, size, Document, ChunksOf(Document)>>
      BY <1>3 DEF IndexChunk, Goto, Advance, Document, ChunksOf, jobVars
    <2>2. next \in 0 .. MaxChunks /\ size \in 0 .. MaxChunks /\ next < size
      BY <1>1, <1>2 DEF TypeOK, WorkerOK
    <2>3. /\ next' = next + 1
          /\ \/ step' = "save" /\ next + 1 < size
             \/ step' = "complete" /\ next + 1 = size
      BY <1>3, <2>2, ConstantsAssumption DEF Goto, Advance
    <2>4. TypeOK'
      BY <1>2, <1>3, <2>1, <2>2, <2>3, ConstantsAssumption DEF TypeOK, jobVars
    <2>5. WorkerOK'
      BY <1>1, <1>2, <2>1, <2>2, <2>3 DEF WorkerOK, jobVars
    <2>6. ASSUME RunOK PROVE RunOK'
      <3>1. step' = "save" => Written(next)'
        BY <1>1, <2>1, <2>3, <2>6 DEF RunOK, Written
      <3>2. step' = "complete" => Written(size)'
        BY <1>1, <2>1, <2>3, <2>6 DEF RunOK, Written
      <3>3. Hybrid => ChunksOf(Document)' \subseteq entries'
        BY <1>1, <1>3, <2>1, <2>6 DEF RunOK
      <3> QED BY <1>1, <2>1, <2>3, <2>6, <3>1, <3>2, <3>3 DEF RunOK, Marked
    <2> QED BY <1>1, <1>3, <2>1, <2>4, <2>5, <2>6, QuietStep DEF Marked
  <1>4. CASE Goto("markFailed") /\ UNCHANGED <<entries, unrefreshed, next>>
    BY <1>1, <1>4, GiveUpKeeps DEF IndexChunk, stores, Marked
  <1> QED BY <1>3, <1>4 DEF IndexChunk

\* A document becomes READY with every chunk of the run that hashed it.
LEMMA MarkCompletedKeeps ==
  ASSUME IngestionInvariant, MarkCompleted
  PROVE  IngestionInvariant'
  <1>1. job # None /\ step = "complete"
    BY BusyDocument DEF MarkCompleted
  <1>2. PICK d \in Documents :
              /\ d = Document
              /\ DocumentOK(d)
              /\ \E r \in 0 .. run, k \in 0 .. MaxChunks : ChunksOf(d) = Prefix(d, r, k)
              /\ status[d] # "removed" => RunOK
    BY BusyDocument DEF MarkCompleted
  <1>3. TypeOK /\ WorkerOK
    BY DEF IngestionInvariant
  <1>4. ASSUME Mark("READY", "INDEXED"), Goto("finish"),
               contentHash' = IF Present(Document) THEN [contentHash EXCEPT ![Document] = size]
                              ELSE contentHash
        PROVE  IngestionInvariant'
    <2>1. UNCHANGED <<chunks, entries, unrefreshed, jobVars, deaths, job, run, size, next>>
          /\ step' = "finish"
      BY <1>4 DEF MarkCompleted, Goto
    <2>2. /\ status' \in [Documents -> Statuses]
          /\ searchStatus' \in [Documents ->
               {"NOT_INDEXED", "INDEXING", "INDEXED", "FAILED", "DISABLED"}]
          /\ status'[d] = "removed" <=> status[d] = "removed"
          /\ status[d] # "removed" => searchStatus'[d] = IF Hybrid THEN "INDEXED" ELSE "DISABLED"
          /\ \A c \in Documents \ {d} : status'[c] = status[c] /\ searchStatus'[c] = searchStatus[c]
      BY <1>2, <1>3, <1>4, MarkTyped DEF Statuses, Present
    <2>3. size \in 1 .. MaxChunks
      BY <1>1, <1>3 DEF TypeOK, WorkerOK
    <2>4. /\ contentHash' \in [Documents -> 1 .. MaxChunks \cup {None}]
          /\ status[d] # "removed" => contentHash'[d] = size
          /\ \A c \in Documents \ {d} : contentHash'[c] = contentHash[c]
      BY <1>2, <1>3, <1>4, <2>3 DEF TypeOK, Present
    <2>5. TypeOK' /\ WorkerOK'
      BY <1>1, <1>3, <2>1, <2>2, <2>4 DEF TypeOK, WorkerOK, jobVars
    <2>6. RunOK'
      BY <2>1 DEF RunOK, Marked
    <2>7. status[d] # "removed" => /\ ChunksOf(d) = Prefix(d, run, size)
                                   /\ Hybrid => ChunksOf(d) \subseteq entries
      BY <1>1, <1>2 DEF RunOK, Written
    <2>8. run \in 0 .. run
      BY <1>3 DEF TypeOK
    <2> QED
      BY <1>1, <1>2, <2>1, <2>2, <2>3, <2>4, <2>5, <2>6, <2>7, <2>8, WorkStep
      DEF DocumentOK, Present, ChunksOf
  <1>5. CASE Goto("markFailed") /\ UNCHANGED <<status, searchStatus, contentHash>>
    BY <1>1, <1>5, GiveUpKeeps DEF MarkCompleted, stores, Marked
  <1> QED BY <1>4, <1>5 DEF MarkCompleted

\* A failed run leaves its document FAILED or UNSUPPORTED, never READY.
LEMMA MarkFailedKeeps ==
  ASSUME IngestionInvariant, MarkFailed
  PROVE  IngestionInvariant'
  <1>1. job # None /\ step \in Marked
    BY BusyDocument DEF MarkFailed, Marked
  <1>2. PICK d \in Documents :
              /\ d = Document
              /\ DocumentOK(d)
              /\ \E r \in 0 .. run, k \in 0 .. MaxChunks : ChunksOf(d) = Prefix(d, r, k)
              /\ status[d] # "removed" => RunOK
    BY BusyDocument DEF MarkFailed
  <1>3. TypeOK /\ WorkerOK
    BY DEF IngestionInvariant
  <1>4. UNCHANGED <<contentHash, chunks, entries, unrefreshed, jobVars, deaths, job, run, size, next>>
        /\ step' = "throw"
    BY DEF MarkFailed, Goto
  <1>5. RunOK'
    BY <1>4 DEF RunOK, Marked
  <1>6. ASSUME NEW e \in {"FAILED", "UNSUPPORTED"}, Mark(e, "FAILED")
        PROVE  IngestionInvariant'
    <2>1. /\ status' \in [Documents -> Statuses]
          /\ searchStatus' \in [Documents ->
               {"NOT_INDEXED", "INDEXING", "INDEXED", "FAILED", "DISABLED"}]
          /\ status'[d] = "removed" <=> status[d] = "removed"
          /\ status[d] # "removed" =>
                status'[d] = e /\ searchStatus'[d] = IF Hybrid THEN "FAILED" ELSE "DISABLED"
          /\ \A c \in Documents \ {d} : status'[c] = status[c] /\ searchStatus'[c] = searchStatus[c]
      <3>1. e \in Statuses \ {"removed"}
        BY DEF Statuses
      <3> QED BY <3>1, <1>2, <1>3, <1>6, MarkTyped DEF Present
    <2>2. TypeOK' /\ WorkerOK'
      BY <1>1, <1>3, <1>4, <2>1 DEF TypeOK, WorkerOK, jobVars
    <2> QED BY <1>1, <1>2, <1>4, <1>5, <2>1, <2>2, WorkStep DEF DocumentOK, Present, ChunksOf
  <1>7. ASSUME UNCHANGED <<status, searchStatus>>
        PROVE  IngestionInvariant'
    <2>1. TypeOK' /\ WorkerOK'
      BY <1>1, <1>3, <1>4, <1>7 DEF TypeOK, WorkerOK, jobVars
    <2> QED BY <1>1, <1>4, <1>5, <1>7, <2>1, QuietStep
  <1> QED BY <1>6, <1>7 DEF MarkFailed

-----------------------------------------------------------------------------
(* The invariant. *)

\* The invariant holds at the start.
LEMMA InitiallyInvariant == Init => IngestionInvariant
  <1> SUFFICES ASSUME Init PROVE IngestionInvariant
    OBVIOUS
  <1>1. TypeOK
    <2>1. /\ contentHash \in [Documents -> 1 .. MaxChunks \cup {None}]
          /\ about \in [Jobs -> Documents \cup {None}]
      BY DEF Init
    <2>2. /\ attemptsMade \in [Jobs -> 0 .. Attempts]
          /\ stalls \in [Jobs -> 0 .. MaxStalled + 1]
      BY DEF Init, Attempts, MaxStalled
    <2>3. deaths \in 0 .. MaxDeaths /\ size \in 0 .. MaxChunks /\ next \in 0 .. MaxChunks
      BY ConstantsAssumption DEF Init
    <2> QED BY <2>1, <2>2, <2>3 DEF Init, TypeOK, Statuses, Unfinished
  <1>2. JobsOK /\ WorkerOK
    BY DEF Init, JobsOK, WorkerOK, Unfinished, Attempts, MaxStalled
  <1>3. ChunksOfOneRun
    BY PrefixZero, ConstantsAssumption DEF Init, ChunksOfOneRun, ChunksOf
  <1>4. IndexedIsSearchable /\ (\A d \in Documents : DocumentOK(d)) /\ job = None
    BY DEF Init, IndexedIsSearchable, DocumentOK, Present, ChunksOf
  <1> QED BY <1>1, <1>2, <1>3, <1>4 DEF IngestionInvariant

\* Every step keeps the invariant.
LEMMA Invariance == IngestionInvariant /\ [Next]_vars => IngestionInvariant'
  <1> SUFFICES ASSUME IngestionInvariant, [Next]_vars PROVE IngestionInvariant'
    OBVIOUS
  <1>1. CASE Work
    BY <1>1, TakeKeeps, MarkStartedKeeps, ClearChunksKeeps, ClearIndexKeeps, ExtractKeeps,
       SaveChunkKeeps, IndexChunkKeeps, MarkCompletedKeeps, MarkFailedKeeps, FinishKeeps,
       ThrowKeeps DEF Work
  <1>2. CASE \E j \in Jobs : BackoffOver(j) \/ CheckStalled(j) \/ LoseLock(j)
    BY <1>2, BackoffOverKeeps, StallKeeps DEF CheckStalled, LoseLock
  <1>3. CASE UNCHANGED vars
    <2>1. TypeOK' /\ JobsOK' /\ WorkerOK'
      BY <1>3 DEF IngestionInvariant, vars, TypeOK, JobsOK, WorkerOK
    <2>2. UNCHANGED <<stores, worker, about>>
      BY <1>3 DEF vars, stores, worker
    <2> QED BY <2>1, <2>2, JobStep DEF IngestionInvariant
  <1> QED BY <1>1, <1>2, <1>3, AddKeeps, RemoveDocumentKeeps, RefreshKeeps, DieKeeps DEF Next

\* Every variable keeps its type, and what the worker has done of a run is told
\* by where it stands, with every fault, retry, stalled job and removal.
THEOREM IngestionCorrect == Spec => []IngestionInvariant
  BY InitiallyInvariant, Invariance, PTL DEF Spec

\* Every variable stays in its domain.
THEOREM IngestionTypeCorrect == Spec => []TypeOK
  <1>1. IngestionInvariant => TypeOK
    BY DEF IngestionInvariant
  <1> QED BY <1>1, IngestionCorrect, PTL

\* The stored chunks of a document are the beginning of one run's text: runs
\* never mix.
THEOREM RunsNeverMix == Spec => []ChunksOfOneRun
  <1>1. IngestionInvariant => ChunksOfOneRun
    BY DEF IngestionInvariant
  <1> QED BY <1>1, IngestionCorrect, PTL

\* A READY document has exactly as many chunks as its last completed run hashed.
THEOREM ReadyNeverPartial == Spec => []ReadyIsWhole
  <1>1. IngestionInvariant => ReadyIsWhole
    BY PrefixCardinality DEF IngestionInvariant, DocumentOK, ReadyIsWhole
  <1> QED BY <1>1, IngestionCorrect, PTL

\* Every chunk of an INDEXED document has its entry in Elasticsearch.
THEOREM IndexedNeverPartial == Spec => []IndexedIsSearchable
  <1>1. IngestionInvariant => IndexedIsSearchable
    BY DEF IngestionInvariant
  <1> QED BY <1>1, IngestionCorrect, PTL

-----------------------------------------------------------------------------
(* The ingestion implements the life cycle of its documents. *)

\* What one document does in a step, in the terms of DocumentLifecycle.
LifecycleStep(d) ==
    \/ Lifecycle!Start(d) \/ Lifecycle!Process(d) \/ Lifecycle!Ready(d) \/ Lifecycle!Fail(d)
    \/ Lifecycle!Refuse(d) \/ Lifecycle!Remove(d) \/ Lifecycle!Stay(d)

\* A step that leaves the row and the chunks of a document alone lets it stay.
LEMMA StayStep ==
  ASSUME NEW d \in Documents, status'[d] = status[d],
         {x \in chunks' : x.document = d} = {x \in chunks : x.document = d}
  PROVE  LifecycleStep(d)
  BY DEF LifecycleStep, Lifecycle!Stay, ChunksOf

\* Starting a run takes its document from any status to PROCESSING.
LEMMA MarkStartedStep ==
  ASSUME IngestionInvariant, MarkStarted, NEW d \in Documents
  PROVE  LifecycleStep(d)
  <1>1. UNCHANGED chunks /\ Document \in Documents /\ TypeOK
    BY BusyDocument DEF MarkStarted, IngestionInvariant
  <1>2. CASE status'[d] = status[d]
    BY <1>1, <1>2, StayStep
  <1>3. CASE status'[d] # status[d]
    <2>1. status[d] # "removed" /\ status'[d] = "PROCESSING"
      BY <1>1, <1>3 DEF MarkStarted, Mark, TypeOK, Present
    <2>2. Lifecycle!Start(d)
      BY <1>1, <2>1 DEF Lifecycle!Start, Lifecycle!Moves, ChunksOf, TypeOK, Statuses
    <2> QED BY <2>2 DEF LifecycleStep
  <1> QED BY <1>2, <1>3

\* Clearing and saving chunks change what is stored of a PROCESSING document.
LEMMA ChunksStep ==
  ASSUME IngestionInvariant, ClearChunks \/ SaveChunk, NEW d \in Documents
  PROVE  LifecycleStep(d)
  <1>1. /\ UNCHANGED status
        /\ step \in {"clear", "save"}
        /\ step = "save" => ThisChunk.document = Document
    BY DEF ClearChunks, SaveChunk, ThisChunk
  <1>2. CASE d # Document
    BY <1>1, <1>2, StayStep DEF ClearChunks, SaveChunk, ChunksOf
  <1>3. CASE d = Document /\ Present(d)
    <2>1. status[d] = "PROCESSING"
      BY <1>1, <1>3, BusyDocument DEF RunOK, Marked, Present
    <2> QED BY <1>1, <2>1 DEF LifecycleStep, Lifecycle!Process, Lifecycle!Moves
  <1>4. CASE d = Document /\ ~Present(d)
    <2>1. ChunksOf(d) = {}
      BY <1>4 DEF IngestionInvariant, DocumentOK
    <2>2. {x \in chunks' : x.document = d} = {}
      BY <1>4, <2>1 DEF ClearChunks, SaveChunk, ChunksOf
    <2> QED BY <1>1, <2>1, <2>2, StayStep DEF ChunksOf
  <1> QED BY <1>2, <1>3, <1>4

\* A run that completes leaves its document something to find.
LEMMA MarkCompletedStep ==
  ASSUME IngestionInvariant, MarkCompleted, NEW d \in Documents
  PROVE  LifecycleStep(d)
  <1>1. UNCHANGED chunks /\ step = "complete" /\ Document \in Documents /\ TypeOK /\ WorkerOK
    BY BusyDocument DEF MarkCompleted, IngestionInvariant
  <1>2. CASE status'[d] = status[d]
    BY <1>1, <1>2, StayStep
  <1>3. CASE status'[d] # status[d]
    <2>1. d = Document /\ status[d] # "removed" /\ status'[d] = "READY"
      BY <1>1, <1>3 DEF MarkCompleted, Mark, TypeOK, Present
    <2>2. status[d] = "PROCESSING" /\ ChunksOf(d) = Prefix(d, run, size)
      BY <1>1, <2>1, BusyDocument DEF RunOK, Marked, Written
    <2>3. ChunksOf(d) # {}
      <3>1. size \in 1 .. MaxChunks
        BY <1>1 DEF TypeOK, WorkerOK
      <3> QED BY <2>2, <3>1, PrefixNotEmpty
    <2>4. Lifecycle!Ready(d)
      BY <1>1, <2>1, <2>2, <2>3 DEF Lifecycle!Ready, Lifecycle!Moves, ChunksOf
    <2> QED BY <2>4 DEF LifecycleStep
  <1> QED BY <1>2, <1>3

\* A run that fails leaves its document FAILED, or UNSUPPORTED without a chunk.
LEMMA MarkFailedStep ==
  ASSUME IngestionInvariant, MarkFailed, NEW d \in Documents
  PROVE  LifecycleStep(d)
  <1>1. /\ UNCHANGED chunks /\ step \in {"markFailed", "markUnsupported"}
        /\ Document \in Documents /\ TypeOK
    BY BusyDocument DEF MarkFailed, IngestionInvariant
  <1>2. CASE status'[d] = status[d]
    BY <1>1, <1>2, StayStep
  <1>3. CASE status'[d] # status[d]
    <2>1. d = Document /\ status[d] # "removed"
          /\ status'[d] = IF step = "markFailed" THEN "FAILED" ELSE "UNSUPPORTED"
      BY <1>1, <1>3 DEF MarkFailed, Mark, TypeOK, Present
    <2>2. status[d] = "PROCESSING" /\ (step = "markUnsupported" => ChunksOf(d) = {})
      BY <1>1, <2>1, BusyDocument DEF RunOK, Marked
    <2>3. Lifecycle!Fail(d) \/ Lifecycle!Refuse(d)
      BY <1>1, <2>1, <2>2 DEF Lifecycle!Fail, Lifecycle!Refuse, Lifecycle!Moves, ChunksOf
    <2> QED BY <2>3 DEF LifecycleStep
  <1> QED BY <1>2, <1>3

\* Removing a document takes its chunks with it, and those of no other.
LEMMA RemoveDocumentStep ==
  ASSUME IngestionInvariant, NEW c \in Documents, RemoveDocument(c), NEW d \in Documents
  PROVE  LifecycleStep(d)
  <1>1. CASE d = c
    <2>1. status[d] # "removed" /\ status'[d] = "removed" /\ {x \in chunks' : x.document = d} = {}
      BY <1>1 DEF RemoveDocument, Present, ChunksOf, IngestionInvariant, TypeOK
    <2> QED BY <2>1 DEF LifecycleStep, Lifecycle!Remove, ChunksOf
  <1>2. CASE d # c
    BY <1>2, StayStep DEF RemoveDocument, ChunksOf, IngestionInvariant, TypeOK
  <1> QED BY <1>1, <1>2

\* Every step lets every document take a step of its life cycle, or none.
LEMMA EveryStep ==
  ASSUME IngestionInvariant, [Next]_vars, NEW d \in Documents
  PROVE  LifecycleStep(d)
  <1>1. CASE UNCHANGED <<status, chunks>>
    BY <1>1, StayStep
  <1>2. CASE MarkStarted \/ ClearChunks \/ SaveChunk \/ MarkCompleted \/ MarkFailed
    BY <1>2, MarkStartedStep, ChunksStep, MarkCompletedStep, MarkFailedStep
  <1>3. CASE \E c \in Documents : RemoveDocument(c)
    BY <1>3, RemoveDocumentStep
  <1>4. CASE Work
    BY <1>1, <1>2, <1>4
    DEF Work, Take, ClearIndex, Extract, IndexChunk, Finish, Throw, stores
  <1>5. CASE \E j \in Jobs : BackoffOver(j) \/ CheckStalled(j) \/ LoseLock(j)
    BY <1>1, <1>5 DEF BackoffOver, CheckStalled, LoseLock, Stall, stores
  <1>6. CASE Refresh \/ Die \/ UNCHANGED vars \/ \E j \in Jobs, c \in Documents : Add(j, c)
    BY <1>1, <1>6 DEF Refresh, Die, Add, vars, stores
  <1> QED BY <1>3, <1>4, <1>5, <1>6 DEF Next

\* The documents go through the life cycle DocumentLifecycle promises, whatever
\* the worker, its retries, the stalled jobs and the removals do.
THEOREM LifecycleImplemented == Spec => ImplementsLifecycle
  <1>1. Init => Lifecycle!Init
    BY DEF Init, Lifecycle!Init, ChunksOf
  <1>2. IngestionInvariant /\ [Next]_vars => [Lifecycle!Next]_Lifecycle!vars
    BY EveryStep DEF LifecycleStep, Lifecycle!Next
  <1> QED BY <1>1, <1>2, IngestionCorrect, PTL DEF Spec, ImplementsLifecycle, Lifecycle!Spec

-----------------------------------------------------------------------------
(* The jobs behind the documents. *)

\* A job that may still run, or was given up for stalling too often, is behind d.
Backs(j, d) == about[j] = d /\ (queue[j] \in Unfinished \/ job = j \/ stalls[j] > MaxStalled)

\* A step that leaves statuses and documents of jobs alone, and lets every job that
\* backs a document go on backing it, keeps a job behind every document.
LEMMA StillBacked ==
  ASSUME ProcessingHasJob, \A d \in Documents : status'[d] = "PROCESSING" => status[d] = "PROCESSING",
         \A d \in Documents, j \in Jobs : status'[d] = "PROCESSING" /\ Backs(j, d) => Backs(j, d)'
  PROVE  ProcessingHasJob'
  BY DEF ProcessingHasJob, Backs

\* The steps of the worker between taking a job and leaving it.
AtWork ==
    \/ MarkStarted \/ ClearChunks \/ ClearIndex \/ Extract \/ SaveChunk \/ IndexChunk
    \/ MarkCompleted \/ MarkFailed

LEMMA WorkBacked ==
  ASSUME "database" \notin Faults, IngestionInvariant, JobKnown, ProcessingHasJob, AtWork
  PROVE  ProcessingHasJob' /\ JobKnown'
  <1>1. /\ UNCHANGED <<jobVars, job>> /\ job \in Jobs /\ Document \in Documents
        /\ job # None /\ Document' = Document
    <2>1. UNCHANGED <<jobVars, job>> /\ step # "idle"
      BY DEF AtWork, MarkStarted, ClearChunks, ClearIndex, Extract, SaveChunk, IndexChunk,
             MarkCompleted, MarkFailed, Goto, Advance
    <2>2. job # None
      BY <2>1 DEF IngestionInvariant, WorkerOK
    <2> QED BY <2>1, <2>2, BusyWithDocument DEF IngestionInvariant, Document, jobVars
  <1>2. \A d \in Documents \ {Document} : status'[d] = status[d]
    BY DEF AtWork, MarkStarted, ClearChunks, ClearIndex, Extract, SaveChunk, IndexChunk,
           MarkCompleted, MarkFailed, Mark, IngestionInvariant, TypeOK, stores
  <1>3. ProcessingHasJob'
    <2> SUFFICES ASSUME NEW d \in Documents, status'[d] = "PROCESSING"
                 PROVE  \E j \in Jobs : Backs(j, d)'
      BY DEF ProcessingHasJob, Backs
    <2>1. CASE d = Document
      BY <1>1, <2>1 DEF Backs, Document, jobVars
    <2>2. CASE d # Document
      <3>1. PICK j \in Jobs : Backs(j, d)
        BY <1>2, <2>2 DEF ProcessingHasJob, Backs
      <3> QED BY <1>1, <3>1 DEF Backs, jobVars
    <2> QED BY <2>1, <2>2
  <1>4. step' \in {"finish", "throw"} => status'[Document] # "PROCESSING"
    <2> SUFFICES ASSUME step' \in {"finish", "throw"} PROVE status'[Document] # "PROCESSING"
      OBVIOUS
    <2>1. MarkCompleted \/ MarkFailed
      BY DEF AtWork, MarkStarted, ClearChunks, ClearIndex, Extract, SaveChunk, IndexChunk,
             Goto, Advance
    <2>2. \/ Mark("READY", "INDEXED")
          \/ \E e \in {"FAILED", "UNSUPPORTED"} : Mark(e, "FAILED")
      BY <2>1 DEF MarkCompleted, MarkFailed
    <2> QED BY <1>1, <2>2 DEF Mark, Present, IngestionInvariant, TypeOK
  <1> QED BY <1>1, <1>3, <1>4 DEF JobKnown, jobVars

\* The worker takes, finishes or fails a job, or dies with it.
LEMMA LeaveBacked ==
  ASSUME IngestionInvariant, JobKnown, ProcessingHasJob,
         (\E j \in Jobs : Take(j)) \/ Finish \/ Throw \/ Die
  PROVE  ProcessingHasJob' /\ JobKnown'
  <1> USE DEF IngestionInvariant
  <1>1. CASE \E j \in Jobs : Take(j)
    <2>1. PICK j \in Jobs : Take(j)
      BY <1>1
    <2>2. /\ UNCHANGED <<status, about, stalls>> /\ job' = j /\ queue'[j] = "active"
          /\ \A i \in Jobs \ {j} : queue'[i] = queue[i]
          /\ step' = "finish" => status[about[j]] = "removed"
          /\ step' \in {"start", "finish"}
      BY <2>1 DEF Take, stores, TypeOK, Present
    <2>3. job = None
      BY <2>1 DEF Take, WorkerOK
    <2>4. \A d \in Documents, i \in Jobs : Backs(i, d) => Backs(i, d)'
      BY <2>2, <2>3, ConstantsAssumption DEF Backs, Unfinished
    <2>5. ProcessingHasJob'
      BY <2>2, <2>4, StillBacked
    <2>6. JobKnown'
      BY <2>2 DEF JobKnown, Document
    <2> QED BY <2>5, <2>6
  <1>2. CASE Finish \/ Throw
    <2>1. /\ job \in Jobs /\ Document \in Documents /\ status[Document] # "PROCESSING"
          /\ UNCHANGED <<status, about, stalls>> /\ job' = None
          /\ \A i \in Jobs \ {job} : queue'[i] = queue[i]
      BY <1>2, BusyWithDocument DEF Finish, Throw, Leave, stores, TypeOK, WorkerOK, JobKnown
    <2>2. \A d \in Documents, i \in Jobs : status'[d] = "PROCESSING" /\ Backs(i, d) => Backs(i, d)'
      BY <2>1 DEF Backs, Document
    <2> QED BY <2>1, <2>2, StillBacked DEF JobKnown
  <1>3. CASE Die
    <2>1. UNCHANGED <<status, about, stalls, queue>> /\ job' = None /\ job # None
      BY <1>3 DEF Die, Leave, stores, jobVars, WorkerOK
    <2>2. \A d \in Documents, i \in Jobs : Backs(i, d) => Backs(i, d)'
      BY <2>1, ConstantsAssumption DEF Backs, JobKnown, Unfinished
    <2> QED BY <2>1, <2>2, StillBacked DEF JobKnown
  <1> QED BY <1>1, <1>2, <1>3

\* What the API, BullMQ and Elasticsearch do meanwhile.
LEMMA MeanwhileBacked ==
  ASSUME IngestionInvariant, JobKnown, ProcessingHasJob,
         \/ \E j \in Jobs, d \in Documents : Add(j, d)
         \/ \E d \in Documents : RemoveDocument(d)
         \/ \E j \in Jobs : BackoffOver(j) \/ Stall(j)
         \/ Refresh
  PROVE  ProcessingHasJob' /\ JobKnown'
  <1> USE DEF IngestionInvariant
  <1>0. job # None => job \in Jobs /\ Document \in Documents
    BY BusyWithDocument
  <1>1. ASSUME NEW j \in Jobs, NEW d \in Documents, Add(j, d) PROVE ProcessingHasJob' /\ JobKnown'
    <2>1. /\ UNCHANGED <<status, stalls, job, step>> /\ queue[j] = "new"
          /\ \A i \in Jobs \ {j} : queue'[i] = queue[i] /\ about'[i] = about[i]
      BY <1>1 DEF Add, stores, worker, TypeOK
    <2>2. job # j /\ stalls[j] <= MaxStalled /\ queue[j] \notin Unfinished
      BY <2>1, ConstantsAssumption DEF WorkerOK, JobsOK, Unfinished
    <2>3. \A c \in Documents, i \in Jobs : Backs(i, c) => Backs(i, c)'
      BY <2>1, <2>2 DEF Backs, TypeOK, MaxStalled
    <2>4. JobKnown'
      BY <1>0, <2>1, <2>2 DEF JobKnown, Document
    <2> QED BY <2>1, <2>3, <2>4, StillBacked
  <1>2. ASSUME NEW d \in Documents, RemoveDocument(d) PROVE ProcessingHasJob' /\ JobKnown'
    <2>1. /\ UNCHANGED <<jobVars, job, step>>
          /\ \A c \in Documents : status'[c] \in {status[c], "removed"}
      BY <1>2 DEF RemoveDocument, worker, TypeOK
    <2>2. \A c \in Documents, i \in Jobs : Backs(i, c) => Backs(i, c)'
      BY <2>1 DEF Backs, jobVars
    <2>3. JobKnown'
      BY <1>0, <2>1 DEF JobKnown, Document, jobVars
    <2> QED BY <2>1, <2>2, <2>3, StillBacked
  <1>3. ASSUME NEW j \in Jobs, BackoffOver(j) PROVE ProcessingHasJob' /\ JobKnown'
    <2>1. /\ UNCHANGED <<status, about, stalls, job, step>> /\ queue'[j] = "waiting"
          /\ \A i \in Jobs \ {j} : queue'[i] = queue[i]
      BY <1>3 DEF BackoffOver, stores, worker, TypeOK
    <2>2. \A c \in Documents, i \in Jobs : Backs(i, c) => Backs(i, c)'
      BY <2>1 DEF Backs, Unfinished
    <2>3. JobKnown'
      BY <1>0, <2>1 DEF JobKnown, Document
    <2> QED BY <2>1, <2>2, <2>3, StillBacked
  <1>4. ASSUME NEW j \in Jobs, Stall(j) PROVE ProcessingHasJob' /\ JobKnown'
    <2>1. /\ UNCHANGED <<status, about, job, step>>
          /\ queue'[j] = "waiting" \/ stalls'[j] > MaxStalled
          /\ \A i \in Jobs \ {j} : queue'[i] = queue[i] /\ stalls'[i] = stalls[i]
      BY <1>4 DEF Stall, stores, worker, TypeOK, AfterStall, MaxStalled
    <2>2. \A c \in Documents, i \in Jobs : Backs(i, c) => Backs(i, c)'
      BY <2>1 DEF Backs, Unfinished
    <2>3. JobKnown'
      BY <1>0, <2>1 DEF JobKnown, Document
    <2> QED BY <2>1, <2>2, <2>3, StillBacked
  <1>5. ASSUME Refresh PROVE ProcessingHasJob' /\ JobKnown'
    BY <1>5 DEF Refresh, jobVars, worker, ProcessingHasJob, JobKnown, Document
  <1> QED BY <1>1, <1>2, <1>3, <1>4, <1>5

\* A document says PROCESSING only while a job about it is still to come or under
\* way, or when such a job stalled more often than BullMQ allows, as long as the
\* database takes the worker's updates.
THEOREM ProcessingIsBacked ==
  ASSUME "database" \notin Faults
  PROVE  Spec => []ProcessingHasJob
  <1>1. Init => ProcessingHasJob /\ JobKnown
    BY DEF Init, ProcessingHasJob, JobKnown
  <1>2. IngestionInvariant /\ JobKnown /\ ProcessingHasJob /\ [Next]_vars
          => ProcessingHasJob' /\ JobKnown'
    <2>1. ASSUME UNCHANGED vars, JobKnown, ProcessingHasJob PROVE ProcessingHasJob' /\ JobKnown'
      BY <2>1 DEF vars, ProcessingHasJob, JobKnown, Document
    <2> QED BY <2>1, WorkBacked, LeaveBacked, MeanwhileBacked
            DEF Next, Work, AtWork, CheckStalled, LoseLock
  <1> QED BY <1>1, <1>2, IngestionCorrect, PTL DEF Spec
=============================================================================
