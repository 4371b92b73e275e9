----------------------------- MODULE OcrPipeline -----------------------------
(***************************************************************************)
(* Reading the text of images: the parser of the ingestion worker, one run  *)
(* at a time, the OCR queue, and the OCR worker, one job at a time.  A run  *)
(* is one attempt on one document, an image file or a scanned PDF whose     *)
(* pages are rendered, uploaded, read and deleted one after the other.      *)
(* Time passes in steps of thirty seconds, and only while nobody has        *)
(* something to do at once: it runs for the two limits, 120 seconds of      *)
(* waiting in the backend and 90 seconds of recognition in the worker.      *)
(***************************************************************************)
EXTENDS Naturals, Sequences, FiniteSets

CONSTANTS MaxRuns, MaxScanned,
          WaitLimit, OcrLimit,  \* 4 and 3 steps of time
          Faults, MaxFaults     \* the kinds of faults of a run, and how many

AllFaults == {"upload",    \* an upload fails, or its answer is lost
              "delete",    \* a deletion fails
              "backend",   \* the backend dies
              "worker"}    \* the OCR worker dies, and stays away for a while

ASSUME OcrAssumption ==
    /\ Faults \subseteq AllFaults /\ MaxFaults \in Nat
    /\ OcrLimit \in Nat \ {0} /\ WaitLimit \in Nat /\ OcrLimit < WaitLimit
    /\ MaxRuns \in Nat /\ MaxScanned \in Nat

Runs == 1 .. MaxRuns

Images == Runs \X (0 .. MaxScanned)  \* page 0 is an image file itself

NoImage == <<0, 0>>

VARIABLES
    at,         \* where the parser is
    run, ocrPage,  \* what it works on
    ocrPages,      \* of the PDF; 0 is an image file
    waited,     \* time in waitUntilFinished
    reference,  \* of the uploaded page, or NoImage
    ok,         \* the page was read
    pdf,        \* "none", "open", "destroying" or "destroyed"
    outcome,    \* of each run
    images,     \* page images in the transient bucket
    job,        \* state of each image's job
    queue,      \* waiting jobs
    stalls,     \* of each job
    worker,     \* where the OCR worker is
    active,     \* its image, or NoImage
    elapsed,    \* time of the recognition
    text,       \* the recognition succeeded
    faults      \* what has failed so far

parser == <<at, run, ocrPage, ocrPages, waited, reference, ok, pdf, outcome>>
ocr == <<worker, active, elapsed, text>>
ocrVars == <<parser, images, job, queue, stalls, ocr, faults>>

OcrInit ==
    /\ at = "idle" /\ run = 0 /\ ocrPage = 0 /\ ocrPages = 0 /\ waited = 0
    /\ reference = NoImage /\ ok = FALSE /\ pdf = "none"
    /\ outcome = [r \in Runs |-> "new"]
    /\ images = {}
    /\ job = [i \in Images |-> "none"] /\ queue = <<>> /\ stalls = [i \in Images |-> 0]
    /\ worker = "idle" /\ active = NoImage /\ elapsed = 0 /\ text = FALSE
    /\ faults = <<>>

Fault(f) == f \in Faults /\ Len(faults) < MaxFaults /\ faults' = Append(faults, f)

Happened(f) == \E k \in DOMAIN faults : faults[k] = f

Current == <<run, ocrPage>>

Finished(i) == job[i] \in {"completed", "failed"}

-----------------------------------------------------------------------------
(* DocumentParserService and OcrService. *)

End(o) ==
    /\ outcome' = [outcome EXCEPT ![run] = o]
    /\ at' = "idle" /\ ocrPage' = 0 /\ ocrPages' = 0 /\ waited' = 0
    /\ reference' = NoImage /\ ok' = FALSE /\ pdf' = "none"
    /\ UNCHANGED run

\* extract: a PDF without text of its own, of no more pages than the limit, or an image.
\* Every other document is settled without the worker.
Extract(n) ==
    /\ at = "idle" /\ run < MaxRuns
    /\ run' = run + 1 /\ ocrPages' = n
    /\ outcome' = [outcome EXCEPT ![run + 1] = "open"]
    /\ IF n = 0 THEN at' = "add" /\ ocrPage' = 0 /\ pdf' = "none"
                ELSE at' = "render" /\ ocrPage' = 1 /\ pdf' = "open"
    /\ UNCHANGED <<waited, reference, ok, images, job, queue, stalls, ocr, faults>>

\* The finally block of parsePdf: the pages' promise is returned, not awaited, so it
\* runs as soon as the loop waits for the first time.
Destroy ==
    /\ \/ pdf = "open" /\ pdf' = "destroying"
       \/ pdf = "destroying" /\ pdf' = "destroyed"
    /\ UNCHANGED <<at, run, ocrPage, ocrPages, waited, reference, ok, outcome,
                   images, job, queue, stalls, ocr, faults>>

Render ==
    /\ at = "render"
    /\ at' = "upload"
    /\ UNCHANGED <<run, ocrPage, ocrPages, waited, reference, ok, pdf, outcome,
                   images, job, queue, stalls, ocr, faults>>

\* A page of a destroyed PDF may or may not be rendered.  While the destruction is
\* awaited nobody handles the loop's promise yet: its rejection ends the process.
RenderFails ==
    /\ at = "render" /\ pdf \in {"destroying", "destroyed"}
    /\ End(IF pdf = "destroying" THEN "died" ELSE "not rendered")
    /\ UNCHANGED <<images, job, queue, stalls, ocr, faults>>

Upload ==
    /\ at = "upload"
    /\ \/ /\ images' = images \cup {Current} /\ reference' = Current /\ at' = "add"
          /\ UNCHANGED faults
       \/ /\ Fault("upload") /\ at' = "delete"
          /\ images' \in {images, images \cup {Current}}
          /\ UNCHANGED reference
    /\ UNCHANGED <<run, ocrPage, ocrPages, waited, ok, pdf, outcome, job, queue, stalls, ocr>>

Queued == Append(queue, Current)

\* extractImageText adds the job and waits.
AddJob ==
    /\ at = "add"
    /\ job' = [job EXCEPT ![Current] = "waiting"]
    /\ queue' = Queued
    /\ at' = "wait" /\ waited' = 0
    /\ UNCHANGED <<run, ocrPage, ocrPages, reference, ok, pdf, outcome, images, stalls, ocr, faults>>

\* A page goes on with its finally block, an image file is finished.
WaitOver(good) ==
    IF ocrPage = 0 THEN End(IF good THEN "read" ELSE "failed")
    ELSE /\ at' = "delete" /\ ok' = good /\ waited' = 0
         /\ UNCHANGED <<run, ocrPage, ocrPages, reference, pdf, outcome>>

\* The job is kept after it ended, so it does not matter when the backend starts to wait.
HearOfJob ==
    /\ at = "wait" /\ Finished(Current)
    /\ WaitOver(job[Current] = "completed")
    /\ UNCHANGED <<images, job, queue, stalls, ocr, faults>>

NeverGivesUp == FALSE  \* mutant of PastLimit: waitUntilFinished without a timeout

PastLimit == waited >= WaitLimit

\* The job stays in the queue, or at work.
StopWaiting ==
    /\ at = "wait" /\ PastLimit
    /\ WaitOver(FALSE)
    /\ UNCHANGED <<images, job, queue, stalls, ocr, faults>>

\* The finally block of a page; errors of the deletion are swallowed.
DeletePage ==
    /\ at = "delete"
    /\ \/ images' = images \ {reference} /\ UNCHANGED faults
       \/ Fault("delete") /\ UNCHANGED images
    /\ IF ~ok THEN End("failed")
       ELSE IF ocrPage = ocrPages THEN End("read")
       ELSE /\ at' = "render" /\ ocrPage' = ocrPage + 1 /\ ok' = FALSE /\ reference' = NoImage
            /\ UNCHANGED <<run, ocrPages, waited, pdf, outcome>>
    /\ UNCHANGED <<job, queue, stalls, ocr>>

BackendDies ==
    /\ at # "idle" /\ Fault("backend")
    /\ End("died")
    /\ UNCHANGED <<images, job, queue, stalls, ocr>>

\* Older than TRANSIENT_RETENTION_MS: no parser has anything to do with it any more.
Expired(i) == i \in images /\ ~(at # "idle" /\ i = Current)

\* deleteExpiredTransientObjects, on a timer of the backend.
Sweep(i) ==
    /\ Expired(i)
    /\ images' = images \ {i}
    /\ UNCHANGED <<parser, job, queue, stalls, ocr, faults>>

-----------------------------------------------------------------------------
(* OcrProcessor. *)

Take ==
    /\ worker = "idle" /\ queue # <<>>
    /\ active' = Head(queue) /\ queue' = Tail(queue)
    /\ job' = [job EXCEPT ![Head(queue)] = "active"]
    /\ worker' = "download" /\ elapsed' = 0 /\ text' = FALSE
    /\ UNCHANGED <<parser, images, stalls, faults>>

Stored(i) == i[2] = 0 \/ i \in images

\* downloadToTempFile and createWorker.
Download ==
    /\ worker = "download"
    /\ worker' = IF Stored(active) THEN "recognize" ELSE "clean"
    /\ UNCHANGED <<parser, images, job, queue, stalls, active, elapsed, text, faults>>

Recognize ==
    /\ worker = "recognize"
    /\ text' \in BOOLEAN
    /\ worker' = "clean"
    /\ UNCHANGED <<parser, images, job, queue, stalls, active, elapsed, faults>>

Overdue == elapsed >= OcrLimit

\* The timeout wins the race; the tesseract worker is terminated.
RecognitionTimesOut ==
    /\ worker = "recognize" /\ Overdue
    /\ worker' = "clean"
    /\ UNCHANGED <<parser, images, job, queue, stalls, active, elapsed, text, faults>>

OnlyReadPages == text  \* mutant of DeletesAfterwards: the image is deleted after a success only

DeletesAfterwards == active[2] # 0

\* The finally block and the end of the job.
CleanUp ==
    /\ worker = "clean"
    /\ \/ images' = (IF DeletesAfterwards THEN images \ {active} ELSE images) /\ UNCHANGED faults
       \/ DeletesAfterwards /\ Fault("delete") /\ UNCHANGED images
    /\ job' = [job EXCEPT ![active] = IF text THEN "completed" ELSE "failed"]
    /\ worker' = "idle" /\ active' = NoImage /\ elapsed' = 0 /\ text' = FALSE
    /\ UNCHANGED <<parser, queue, stalls>>

\* The process exits; its job is put back once, by BullMQ's check for stalled jobs.
WorkerDies ==
    /\ worker # "down" /\ Fault("worker")
    /\ IF active = NoImage THEN UNCHANGED <<job, queue, stalls>>
       ELSE /\ stalls' = [stalls EXCEPT ![active] = @ + 1]
            /\ job' = [job EXCEPT ![active] = IF stalls[active] = 0 THEN "waiting" ELSE "failed"]
            /\ queue' = IF stalls[active] = 0 THEN Append(queue, active) ELSE queue
    /\ worker' = "down" /\ active' = NoImage /\ elapsed' = 0 /\ text' = FALSE
    /\ UNCHANGED <<parser, images>>

WorkerRestarts ==
    /\ worker = "down"
    /\ worker' = "idle"
    /\ UNCHANGED <<parser, images, job, queue, stalls, active, elapsed, text, faults>>

-----------------------------------------------------------------------------

\* Nobody has something to do at once.
Waiting ==
    /\ at \in {"idle", "wait"} /\ (at = "wait" => ~Finished(Current) /\ ~PastLimit)
    /\ worker = "down" \/ (worker = "idle" /\ queue = <<>>) \/ (worker = "recognize" /\ ~Overdue)

Tick ==
    /\ Waiting
    /\ waited' = IF at = "wait" /\ waited <= WaitLimit THEN waited + 1 ELSE waited
    /\ elapsed' = IF worker = "recognize" THEN elapsed + 1 ELSE elapsed
    /\ <<waited', elapsed'>> # <<waited, elapsed>>
    /\ UNCHANGED <<at, run, ocrPage, ocrPages, reference, ok, pdf, outcome, images, job, queue, stalls,
                   worker, active, text, faults>>

Parse ==
    \/ Destroy \/ Render \/ RenderFails \/ Upload \/ AddJob \/ HearOfJob \/ StopWaiting \/ DeletePage

Work == Take \/ Download \/ Recognize \/ RecognitionTimesOut \/ CleanUp

OcrNext ==
    \/ \E n \in 0 .. MaxScanned : Extract(n)
    \/ Parse \/ BackendDies
    \/ \E i \in Images : Sweep(i)
    \/ Work \/ WorkerDies \/ WorkerRestarts
    \/ Tick

OcrSpec == OcrInit /\ [][OcrNext]_ocrVars

\* The parser and the clock go on; the worker need not come back or end what it does.
OcrFairSpec ==
    /\ OcrSpec
    /\ WF_ocrVars(Parse) /\ WF_ocrVars(Tick) /\ WF_ocrVars(Take \/ Download \/ RecognitionTimesOut \/ CleanUp)
    /\ \A i \in Images : WF_ocrVars(Sweep(i))

-----------------------------------------------------------------------------
(* Properties. *)

\* Every variable has its type, and a waiting job is in the queue once.
OcrTypeOK ==
    /\ at \in {"idle", "render", "upload", "add", "wait", "delete"}
    /\ outcome \in [Runs -> {"new", "open", "read", "failed", "not rendered", "died"}]
    /\ images \subseteq Images /\ waited \in Nat /\ elapsed \in Nat
    /\ \A i \in Images : Cardinality({k \in DOMAIN queue : queue[k] = i})
                           = IF job[i] = "waiting" THEN 1 ELSE 0
    /\ \A i \in Images : job[i] = "active" <=> active = i

\* "A failing job fails ... A hung image fails with `OCR timed out` ... and the next job
\* runs" (ocr-worker/README.md), before the backend stops waiting (OCR_TIMEOUT_MS): a job
\* the backend waits for ends in time, and none is left behind for a parser that is gone.
\* While neither process has died.
JobEndsInTime ==
    ~Happened("backend") /\ ~Happened("worker") =>
      /\ at = "wait" /\ waited = WaitLimit => Finished(Current)
      /\ \A i \in Images : job[i] \in {"waiting", "active"} => at = "wait" /\ i = Current

\* A page image that was handed to a job is deleted by the parser or by the worker, even if
\* one of them dies or one of the deletions fails (the finally blocks of
\* parseScannedPdfToText and OcrProcessor.process).
HandedPagesAreDeleted ==
    Len(faults) <= 1 /\ at = "idle" /\ (\A i \in Images : job[i] \notin {"waiting", "active"})
    => \A i \in images : job[i] = "none"

\* A page is not taken from under its parser (deleteExpiredTransientObjects): while its job
\* waits or is read for it, the image is there.
PageIsThereForItsJob ==
    at = "wait" /\ ocrPage # 0 /\ job[Current] \in {"waiting", "active"} /\ worker # "clean"
    /\ stalls[Current] = 0 => Current \in images

\* Jobs end before anybody stops waiting for them; their images stay until then and no longer.
OcrSafe == OcrTypeOK /\ JobEndsInTime /\ HandedPagesAreDeleted /\ PageIsThereForItsJob

=============================================================================
