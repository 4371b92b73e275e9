---------------------- MODULE DocumentIngestionInvariant ----------------------
(***************************************************************************)
(* The inductive invariant behind the safety of DocumentIngestion, for any *)
(* number of documents and jobs and with every fault: what the worker has  *)
(* done to its document so far, told by where it stands, and the life      *)
(* cycle the documents then go through.                                    *)
(***************************************************************************)
EXTENDS DocumentIngestion

Lifecycle == INSTANCE DocumentLifecycle WITH
    content <- [d \in Documents |-> ChunksOf(d)]

\* The documents go through the life cycle DocumentLifecycle promises: what a
\* search finds changes only while a document says PROCESSING, whatever the
\* worker, its retries and the stalled jobs do.
ImplementsLifecycle == Lifecycle!Spec

\* A job that is still to run has attempts and stalls left, and a document.
JobsOK ==
    \A j \in Jobs :
        /\ queue[j] # "new" => about[j] \in Documents
        /\ queue[j] \in Unfinished \cup {"new"} =>
              attemptsMade[j] < Attempts /\ stalls[j] <= MaxStalled

WorkerOK ==
    /\ step = "idle" <=> job = None
    /\ job # None => queue[job] # "new"
    /\ step \in {"save", "index"} => next < size
    /\ step = "complete" => size > 0 /\ next = size

\* Between the update that starts a run and the one that ends it.
Marked == {"clear", "unindex", "extract", "save", "index", "complete",
           "markFailed", "markUnsupported"}

\* Exactly the first k chunks of this run are stored.
Written(k) == ChunksOf(Document) = Prefix(Document, run, k)

\* What is stored of a document the worker is busy with and nobody removed.
RunOK ==
    /\ step \in Marked =>
          /\ status[Document] = "PROCESSING"
          /\ searchStatus[Document] = IF Hybrid THEN "INDEXING" ELSE "DISABLED"
    /\ step \in {"unindex", "extract", "markUnsupported"} => ChunksOf(Document) = {}
    /\ step = "save" => Written(next)
    /\ step = "index" => Written(next + 1)
    /\ step = "complete" => Written(size)
    /\ Hybrid /\ step \in {"save", "complete"} => ChunksOf(Document) \subseteq entries
    /\ Hybrid /\ step = "index" => ChunksOf(Document) \ {ThisChunk} \subseteq entries

DocumentOK(d) ==
    /\ ~Present(d) => ChunksOf(d) = {}
    /\ status[d] = "READY" =>
          /\ contentHash[d] \in 1 .. MaxChunks
          /\ \E r \in 0 .. run : ChunksOf(d) = Prefix(d, r, contentHash[d])

\* The whole: it holds in every reachable state.
IngestionInvariant ==
    /\ TypeOK
    /\ JobsOK
    /\ WorkerOK
    /\ job # None /\ Present(Document) => RunOK
    /\ \A d \in Documents : DocumentOK(d)
    /\ ChunksOfOneRun
    /\ IndexedIsSearchable

-----------------------------------------------------------------------------
(* Without database faults.                                                *)

\* The job of a busy worker is still to be finished, or was given up for stalling;
\* a run that is over has left its document in another status.
JobKnown ==
    job # None =>
        /\ queue[job] \in {"active", "waiting"} \/ stalls[job] > MaxStalled
        /\ step \in {"finish", "throw"} => status[Document] # "PROCESSING"
===============================================================================
