--------------------------- MODULE AssistantProofs ---------------------------
(***************************************************************************)
(* For any number of questions, runs and faults: what holds of the OCR      *)
(* queue, the chat, the document search and the paging, in this order.      *)
(* Each part has the inductive invariant, the lemma that its steps keep it, *)
(* and the theorems that follow; the last theorem is about all of them.     *)
(***************************************************************************)
EXTENDS MCAssistant, OrdersProofs, FiniteSetTheorems, SequenceTheorems, TLAPS

-----------------------------------------------------------------------------
(* The OCR queue: OcrPipeline. *)

Statuses == {"none", "waiting", "active", "completed", "failed"}

\* The run and the page the parser works on.
PageCounts ==
    /\ run \in 0 .. MaxRuns /\ ocrPages \in 0 .. MaxScanned /\ ocrPage \in 0 .. ocrPages
    /\ at # "idle" => run # 0 /\ (ocrPage = 0 => ocrPages = 0)
    /\ at \in {"render", "upload", "delete"} => ocrPage # 0

\* Where the parser is.
ParserPlaces ==
    /\ at \in {"idle", "render", "upload", "add", "wait", "delete"}
    /\ ok \in BOOLEAN
    /\ outcome \in [Runs -> {"new", "open", "read", "failed", "not rendered", "died"}]

\* Where the worker is, and that it has an image just when it is at work.
WorkerPlaces ==
    /\ worker \in {"idle", "download", "recognize", "clean", "down"}
    /\ active \in Images \cup {NoImage}
    /\ active = NoImage => worker \in {"idle", "down"}
    /\ active # NoImage => worker \in {"download", "recognize", "clean"}

Clocks == waited \in Nat /\ elapsed \in Nat

\* The jobs, and the queue that holds each waiting one once.
OcrJobs ==
    /\ job \in [Images -> Statuses] /\ stalls \in [Images -> Nat]
    /\ images \subseteq {i \in Images : i[2] # 0}
    /\ queue \in Seq(Images)
    /\ \A j, k \in DOMAIN queue : queue[j] = queue[k] => j = k
    /\ \A i \in Images : job[i] = "waiting" <=> \E k \in DOMAIN queue : queue[k] = i
    /\ \A i \in Images : job[i] = "active" <=> active = i

\* The parser is through with an image.
LeftBehind(i) == i[1] < run \/ (i[1] = run /\ (at = "idle" \/ i[2] < ocrPage))

\* A job is of a page that is done with, or of the current one from the time it is added.
JobsInTheirTime ==
    /\ \A i \in Images : job[i] # "none" => LeftBehind(i) \/ (i = Current /\ at \in {"wait", "delete"})
    /\ at = "wait" => job[Current] # "none"
    /\ at \in {"add", "wait"} /\ ocrPage # 0 => reference = Current
    /\ at = "delete" => reference = Current \/ job[Current] = "none"
    /\ at = "add" /\ ocrPage # 0 => Current \in images

\* While nobody died, the only job is the one the parser waits for, and they count alike.
TogetherInTime ==
    ~Happened("backend") /\ ~Happened("worker") =>
      /\ worker # "down"
      /\ \A i \in Images : job[i] \in {"waiting", "active"} => at = "wait" /\ i = Current
      /\ at = "wait" => waited <= OcrLimit
      /\ at = "wait" /\ job[Current] = "waiting" => waited = 0
      /\ worker = "download" => waited = 0
      /\ worker \in {"download", "recognize"} => elapsed = waited

\* An image that is still there has been missed: once by the parser that left it, once by
\* the worker that ended its job.
MissedAreFaults ==
    /\ \A i \in Images : stalls[i] # 0 => Len(faults) >= 1
    /\ \A i \in images : Finished(i) => Len(faults) >= 1
    /\ \A i \in images : LeftBehind(i) /\ job[i] # "none" => Len(faults) >= 1
    /\ \A i \in images : LeftBehind(i) /\ Finished(i) => Len(faults) >= 2

\* As PageIsThereForItsJob, whatever the worker does.
PageIsThere ==
    at = "wait" /\ ocrPage # 0 /\ job[Current] \in {"waiting", "active"} => Current \in images

OcrInvariant ==
    /\ PageCounts /\ ParserPlaces /\ WorkerPlaces /\ Clocks /\ faults \in Seq(Faults)
    /\ OcrJobs /\ JobsInTheirTime /\ TogetherInTime /\ MissedAreFaults /\ PageIsThere
LEMMA ImageParts ==
    \A i \in Images : i = <<i[1], i[2]>> /\ i[1] \in Nat \ {0} /\ i[2] \in Nat
<1>1. \A i \in Images : i = <<i[1], i[2]>> /\ i[1] \in Runs /\ i[2] \in 0 .. MaxScanned
  BY DEF Images
<1> QED
  BY <1>1, OcrAssumption DEF Runs

\* The parser's page is an image of its own.
LEMMA CurrentIsAnImage ==
    ASSUME PageCounts, at # "idle"
    PROVE  Current \in Images /\ Current[1] = run /\ Current[2] = ocrPage /\ run \in Runs
<1>1. run \in Runs /\ ocrPage \in 0 .. MaxScanned
  BY OcrAssumption DEF PageCounts, Runs
<1> QED
  BY <1>1 DEF Current, Images

LEMMA NoImageIsNone == NoImage \notin Images
BY DEF NoImage, Images, Runs

\* A fault is counted; what has happened has happened.
LEMMA FaultsGrow ==
    ASSUME faults \in Seq(Faults), UNCHANGED faults \/ \E f \in AllFaults : Fault(f)
    PROVE  /\ faults' \in Seq(Faults)
           /\ Len(faults) \in Nat /\ Len(faults') \in Nat /\ Len(faults') >= Len(faults)
           /\ \A g \in AllFaults : Happened(g) => Happened(g)'
<1>0. Len(faults) \in Nat /\ DOMAIN faults = 1 .. Len(faults)
  BY LenProperties
<1>1. CASE UNCHANGED faults
  BY <1>0, <1>1 DEF Happened
<1>2. CASE \E f \in AllFaults : Fault(f)
  <2>1. PICK f \in Faults : faults' = Append(faults, f)
    BY <1>2 DEF Fault
  <2>2. faults' \in Seq(Faults) /\ Len(faults') = Len(faults) + 1
        /\ \A k \in 1 .. Len(faults) : faults'[k] = faults[k]
    BY <2>1, AppendProperties
  <2>3. DOMAIN faults' = 1 .. Len(faults) + 1
    BY <2>2, LenProperties
  <2>4. \A k \in DOMAIN faults : k \in DOMAIN faults' /\ faults'[k] = faults[k]
    BY <1>0, <2>2, <2>3
  <2> QED
    BY <1>0, <2>2, <2>4 DEF Happened
<1> QED
  BY <1>1, <1>2

LEMMA OneFaultMore ==
    ASSUME faults \in Seq(Faults), NEW f \in AllFaults, Fault(f)
    PROVE  Len(faults') = Len(faults) + 1 /\ Len(faults) \in Nat /\ Happened(f)'
<1>1. faults' = Append(faults, f) /\ f \in Faults
  BY DEF Fault
<1>2. faults' \in Seq(Faults) /\ Len(faults') = Len(faults) + 1 /\ Len(faults) \in Nat
      /\ faults'[Len(faults) + 1] = f
  BY <1>1, AppendProperties, LenProperties
<1>3. Len(faults) + 1 \in DOMAIN faults'
  BY <1>2, LenProperties
<1> QED
  BY <1>2, <1>3 DEF Happened

LEMMA OcrInitially == OcrInit => OcrInvariant
<1> SUFFICES ASSUME OcrInit PROVE OcrInvariant
  OBVIOUS
<1> USE OcrAssumption DEF OcrInit
<1>1. PageCounts /\ ParserPlaces /\ WorkerPlaces /\ Clocks /\ faults \in Seq(Faults)
  <2>1. faults \in Seq(Faults)
    OBVIOUS
  <2>2. ParserPlaces
    BY DEF ParserPlaces
  <2>3. PageCounts /\ WorkerPlaces /\ Clocks
    BY DEF PageCounts, WorkerPlaces, Clocks
  <2> QED
    BY <2>1, <2>2, <2>3
<1>2. OcrJobs
  <2>1. \A i \in Images : job[i] = "none" /\ active # i
    BY NoImageIsNone
  <2>2. queue \in Seq(Images) /\ DOMAIN queue = {}
    OBVIOUS
  <2> QED
    BY <2>1, <2>2 DEF OcrJobs, Statuses
<1>3. JobsInTheirTime /\ TogetherInTime /\ MissedAreFaults /\ PageIsThere
  BY DEF JobsInTheirTime, TogetherInTime, MissedAreFaults, PageIsThere, Finished
<1> QED
  BY <1>1, <1>2, <1>3 DEF OcrInvariant

\* The parser's steps that leave the worker, the queue and the jobs alone.
ParserOnly == UNCHANGED <<job, queue, stalls, ocr>>

LEMMA ExtractKeeps ==
    ASSUME OcrInvariant, NEW n \in 0 .. MaxScanned, Extract(n)
    PROVE  OcrInvariant'
<1> USE OcrAssumption
<1>1. /\ at = "idle" /\ run < MaxRuns /\ run' = run + 1 /\ ocrPages' = n
      /\ outcome' = [outcome EXCEPT ![run + 1] = "open"]
      /\ \/ n = 0 /\ at' = "add" /\ ocrPage' = 0 /\ pdf' = "none"
         \/ n # 0 /\ at' = "render" /\ ocrPage' = 1 /\ pdf' = "open"
      /\ UNCHANGED <<waited, reference, ok, images, job, queue, stalls, worker, active, elapsed, text, faults>>
  BY DEF Extract, ocr
<1>2. PageCounts' /\ ParserPlaces' /\ WorkerPlaces' /\ Clocks' /\ faults' \in Seq(Faults)
  <2>1. PageCounts'
    BY <1>1 DEF OcrInvariant, PageCounts
  <2>2. ParserPlaces'
    BY <1>1 DEF OcrInvariant, ParserPlaces
  <2>3. WorkerPlaces' /\ Clocks' /\ faults' \in Seq(Faults)
    BY <1>1 DEF OcrInvariant, WorkerPlaces, Clocks
  <2> QED
    BY <2>1, <2>2, <2>3
<1>3. OcrJobs'
  BY <1>1 DEF OcrInvariant, OcrJobs, Images, Runs
<1>4. \A i \in Images : job[i] # "none" => LeftBehind(i)
  BY <1>1 DEF OcrInvariant, JobsInTheirTime
<1>5. \A i \in Images : i[1] \in Int /\ i[2] \in Int /\ run \in Int
  <2>1. run \in Int
    BY DEF OcrInvariant, PageCounts
  <2> QED
    BY <2>1, ImageParts
<1>6. \A i \in Images : LeftBehind(i) => LeftBehind(i)'
  BY <1>1, <1>5 DEF LeftBehind
<1>7. \A i \in Images : LeftBehind(i)' => i[1] < run' \/ (i[1] = run' /\ i[2] < ocrPage')
  BY <1>1 DEF LeftBehind
<1>8. JobsInTheirTime'
  BY <1>1, <1>4, <1>6 DEF JobsInTheirTime
<1>9. TogetherInTime'
  BY <1>1 DEF OcrInvariant, TogetherInTime, Happened
<1>10. MissedAreFaults'
  <2>1. \A i \in Images : job'[i] # "none" => LeftBehind(i)
    BY <1>1, <1>4
  <2> QED
    BY <1>1, <2>1 DEF OcrInvariant, MissedAreFaults, OcrJobs, Finished
<1>11. PageIsThere'
  BY <1>1 DEF PageIsThere
<1> QED
  BY <1>2, <1>3, <1>8, <1>9, <1>10, <1>11 DEF OcrInvariant
\* A step of the parser that leaves it not waiting: what the worker does is not touched, and
\* no job is left behind, unless it has ended or something died.
LEMMA QuietStep ==
    ASSUME OcrInvariant, ParserOnly, at' # "wait",
           \/ at # "wait" \/ Finished(Current)
           \/ Happened("backend") \/ Happened("worker") \/ Happened("backend")',
           UNCHANGED faults \/ \E f \in AllFaults : Fault(f),
           images' \subseteq {i \in Images : i[2] # 0}, waited' \in Nat
    PROVE  /\ WorkerPlaces' /\ Clocks' /\ faults' \in Seq(Faults)
           /\ OcrJobs' /\ TogetherInTime' /\ PageIsThere'
           /\ Len(faults) \in Nat /\ Len(faults') \in Nat /\ Len(faults') >= Len(faults)
<1>0. UNCHANGED <<job, queue, stalls, worker, active, elapsed, text>>
  BY DEF ParserOnly, ocr
<1>1. WorkerPlaces' /\ Clocks'
  BY <1>0 DEF OcrInvariant, WorkerPlaces, Clocks
<1>2. /\ faults' \in Seq(Faults)
      /\ Len(faults) \in Nat /\ Len(faults') \in Nat /\ Len(faults') >= Len(faults)
      /\ \A g \in AllFaults : Happened(g) => Happened(g)'
  BY FaultsGrow DEF OcrInvariant
<1>3. OcrJobs'
  BY <1>0 DEF OcrInvariant, OcrJobs
<1>4. TogetherInTime'
  <2> SUFFICES ASSUME ~Happened("backend")', ~Happened("worker")'
               PROVE  /\ worker # "down"
                      /\ \A i \in Images : job[i] \notin {"waiting", "active"}
                      /\ worker \notin {"download", "recognize"}
    BY <1>0 DEF TogetherInTime
  <2>1. ~Happened("backend") /\ ~Happened("worker")
    BY <1>2 DEF AllFaults
  <2>2. worker # "down" /\ \A i \in Images : job[i] \in {"waiting", "active"} => at = "wait" /\ i = Current
    BY <2>1 DEF OcrInvariant, TogetherInTime
  <2>3. \A i \in Images : job[i] \notin {"waiting", "active"}
    BY <2>1, <2>2 DEF Finished
  <2>4. active = NoImage
    BY <2>3 DEF OcrInvariant, OcrJobs, WorkerPlaces
  <2> QED
    BY <2>2, <2>3, <2>4 DEF OcrInvariant, WorkerPlaces
<1>5. PageIsThere'
  BY DEF PageIsThere
<1> QED
  BY <1>1, <1>2, <1>3, <1>4, <1>5

\* An image that a step leaves behind has no job, or the step counts a fault.
LEMMA MissedStill ==
    ASSUME OcrInvariant, UNCHANGED <<job, stalls>>,
           Len(faults) \in Nat, Len(faults') \in Nat, Len(faults') >= Len(faults),
           \A i \in images' :
             \/ job[i] = "none"
             \/ i \in images /\ (LeftBehind(i)' => LeftBehind(i) \/ Len(faults') >= Len(faults) + 1)
    PROVE  MissedAreFaults'
<1>1. \A i \in Images : stalls'[i] # 0 => Len(faults') >= 1
  BY DEF OcrInvariant, MissedAreFaults
<1>2. ASSUME NEW i \in images', Finished(i)' PROVE Len(faults') >= 1
  BY <1>2 DEF OcrInvariant, MissedAreFaults, Finished
<1>3. ASSUME NEW i \in images', LeftBehind(i)', job'[i] # "none" PROVE Len(faults') >= 1
  <2>1. i \in images /\ (LeftBehind(i) \/ Len(faults') >= Len(faults) + 1)
    BY <1>3
  <2> QED
    BY <1>3, <2>1 DEF OcrInvariant, MissedAreFaults
<1>4. ASSUME NEW i \in images', LeftBehind(i)', Finished(i)' PROVE Len(faults') >= 2
  <2>1. i \in images /\ (LeftBehind(i) \/ Len(faults') >= Len(faults) + 1) /\ Finished(i)
    BY <1>4 DEF Finished
  <2> QED
    BY <1>4, <2>1 DEF OcrInvariant, MissedAreFaults
<1> QED
  BY <1>1, <1>2, <1>3, <1>4 DEF MissedAreFaults

LEMMA NoPageCounts == 0 \in 0 .. MaxScanned /\ 0 \in 0 .. 0
BY OcrAssumption

\* The end of a run leaves its page behind.
LEMMA EndLeaves ==
    ASSUME OcrInvariant, at # "idle", NEW o \in {"read", "failed", "not rendered", "died"},
           End(o), UNCHANGED job
    PROVE  /\ PageCounts' /\ ParserPlaces' /\ at' = "idle" /\ waited' = 0
           /\ JobsInTheirTime'
           /\ \A i \in Images : LeftBehind(i)' /\ job[i] # "none" => LeftBehind(i) \/ i = Current
<1>1. /\ outcome' = [outcome EXCEPT ![run] = o]
      /\ at' = "idle" /\ ocrPage' = 0 /\ ocrPages' = 0 /\ waited' = 0
      /\ reference' = NoImage /\ ok' = FALSE /\ run' = run
  BY DEF End
<1>2. PageCounts'
  <2>1. run' \in 0 .. MaxRuns
    BY <1>1 DEF OcrInvariant, PageCounts
  <2>2. ocrPages' \in 0 .. MaxScanned /\ ocrPage' \in 0 .. ocrPages'
    BY <1>1, NoPageCounts
  <2> QED
    BY <1>1, <2>1, <2>2 DEF PageCounts
<1>3. ParserPlaces'
  BY <1>1 DEF OcrInvariant, ParserPlaces
<1>4. Current \in Images /\ Current[1] = run
  BY CurrentIsAnImage DEF OcrInvariant
<1>5. \A i \in Images : job[i] # "none" => LeftBehind(i) \/ i = Current
  BY DEF OcrInvariant, JobsInTheirTime
<1>6. \A i \in Images : job[i] # "none" => LeftBehind(i)'
  BY <1>1, <1>4, <1>5 DEF LeftBehind
<1>7. JobsInTheirTime'
  BY <1>1, <1>6 DEF JobsInTheirTime
<1> QED
  BY <1>1, <1>2, <1>3, <1>5, <1>7

\* The current page is not left behind.
LEMMA CurrentIsNotLeft ==
    ASSUME PageCounts, at # "idle" PROVE ~LeftBehind(Current)
<1>1. run \in Int /\ ocrPage \in Int /\ Current[1] = run /\ Current[2] = ocrPage
  BY CurrentIsAnImage DEF PageCounts
<1> QED
  BY <1>1 DEF LeftBehind

LEMMA DestroyKeeps == OcrInvariant /\ Destroy => OcrInvariant'
<1> SUFFICES ASSUME OcrInvariant, Destroy PROVE OcrInvariant'
  OBVIOUS
<1>1. UNCHANGED <<at, run, ocrPage, ocrPages, waited, reference, ok, outcome, images, job, queue, stalls,
                  worker, active, elapsed, text, faults>>
  BY DEF Destroy, ocr
<1>2. PageCounts' /\ ParserPlaces' /\ WorkerPlaces' /\ Clocks' /\ faults' \in Seq(Faults)
  BY <1>1 DEF OcrInvariant, PageCounts, ParserPlaces, WorkerPlaces, Clocks
<1>3. OcrJobs' /\ JobsInTheirTime'
  BY <1>1 DEF OcrInvariant, OcrJobs, JobsInTheirTime, LeftBehind, Current
<1>4. TogetherInTime' /\ MissedAreFaults' /\ PageIsThere'
  BY <1>1 DEF OcrInvariant, TogetherInTime, MissedAreFaults, PageIsThere, LeftBehind, Finished, Happened, Current
<1> QED
  BY <1>2, <1>3, <1>4 DEF OcrInvariant

LEMMA RenderKeeps == OcrInvariant /\ Render => OcrInvariant'
<1> SUFFICES ASSUME OcrInvariant, Render PROVE OcrInvariant'
  OBVIOUS
<1>1. /\ at = "render" /\ at' = "upload" /\ ParserOnly
      /\ UNCHANGED <<run, ocrPage, ocrPages, waited, reference, ok, outcome, images, job, stalls, faults>>
  BY DEF Render, ParserOnly
<1>2. PageCounts' /\ ParserPlaces'
  BY <1>1 DEF OcrInvariant, PageCounts, ParserPlaces
<1>3. images' \subseteq {i \in Images : i[2] # 0} /\ waited' \in Nat
  BY <1>1 DEF OcrInvariant, OcrJobs, Clocks
<1>4. /\ WorkerPlaces' /\ Clocks' /\ faults' \in Seq(Faults)
      /\ OcrJobs' /\ TogetherInTime' /\ PageIsThere'
      /\ Len(faults) \in Nat /\ Len(faults') \in Nat /\ Len(faults') >= Len(faults)
  BY <1>1, <1>3, QuietStep
<1>5. \A i : LeftBehind(i)' <=> LeftBehind(i)
  BY <1>1 DEF LeftBehind
<1>6. JobsInTheirTime'
  BY <1>1, <1>5 DEF OcrInvariant, JobsInTheirTime
<1>7. MissedAreFaults'
  BY <1>1, <1>4, <1>5, MissedStill
<1> QED
  BY <1>2, <1>4, <1>6, <1>7 DEF OcrInvariant

LEMMA RenderFailsKeeps == OcrInvariant /\ RenderFails => OcrInvariant'
<1> SUFFICES ASSUME OcrInvariant, RenderFails PROVE OcrInvariant'
  OBVIOUS
<1>1. at = "render" /\ ParserOnly /\ UNCHANGED <<images, job, stalls, faults>>
  BY DEF RenderFails, ParserOnly
<1>2. PICK o \in {"died", "not rendered"} : End(o)
  BY DEF RenderFails
<1>3. /\ PageCounts' /\ ParserPlaces' /\ at' = "idle" /\ waited' = 0
      /\ JobsInTheirTime'
      /\ \A i \in Images : LeftBehind(i)' /\ job[i] # "none" => LeftBehind(i) \/ i = Current
  BY <1>1, <1>2, EndLeaves
<1>4. images' \subseteq {i \in Images : i[2] # 0}
  BY <1>1 DEF OcrInvariant, OcrJobs
<1>5. /\ WorkerPlaces' /\ Clocks' /\ faults' \in Seq(Faults)
      /\ OcrJobs' /\ TogetherInTime' /\ PageIsThere'
      /\ Len(faults) \in Nat /\ Len(faults') \in Nat /\ Len(faults') >= Len(faults)
  BY <1>1, <1>3, <1>4, QuietStep
<1>6. job[Current] = "none"
  BY <1>1, CurrentIsAnImage, CurrentIsNotLeft DEF OcrInvariant, JobsInTheirTime
<1>7. MissedAreFaults'
  BY <1>1, <1>3, <1>4, <1>5, <1>6, MissedStill
<1> QED
  BY <1>3, <1>5, <1>7 DEF OcrInvariant

\* A page that was uploaded has no job yet.
LEMMA UploadKeeps == OcrInvariant /\ Upload => OcrInvariant'
<1> SUFFICES ASSUME OcrInvariant, Upload PROVE OcrInvariant'
  OBVIOUS
<1>1. /\ at = "upload" /\ ParserOnly
      /\ UNCHANGED <<run, ocrPage, ocrPages, waited, ok, outcome, job, stalls>>
      /\ images' \subseteq images \cup {Current}
      /\ \/ images' = images \cup {Current} /\ reference' = Current /\ at' = "add" /\ UNCHANGED faults
         \/ Fault("upload") /\ at' = "delete"
  BY DEF Upload, ParserOnly
<1>2. PageCounts' /\ ParserPlaces'
  BY <1>1 DEF OcrInvariant, PageCounts, ParserPlaces
<1>3. Current \in Images /\ Current[2] # 0 /\ ~LeftBehind(Current)
  BY <1>1, CurrentIsAnImage, CurrentIsNotLeft DEF OcrInvariant, PageCounts
<1>4. images' \subseteq {i \in Images : i[2] # 0} /\ waited' \in Nat
  BY <1>1, <1>3 DEF OcrInvariant, OcrJobs, Clocks
<1>5. /\ WorkerPlaces' /\ Clocks' /\ faults' \in Seq(Faults)
      /\ OcrJobs' /\ TogetherInTime' /\ PageIsThere'
      /\ Len(faults) \in Nat /\ Len(faults') \in Nat /\ Len(faults') >= Len(faults)
  BY <1>1, <1>4, QuietStep DEF AllFaults
<1>6. (\A i : LeftBehind(i)' <=> LeftBehind(i)) /\ Current' = Current
  BY <1>1 DEF LeftBehind, Current
<1>7. job[Current] = "none"
  BY <1>1, <1>3 DEF OcrInvariant, JobsInTheirTime
<1>8. JobsInTheirTime'
  BY <1>1, <1>6, <1>7 DEF OcrInvariant, JobsInTheirTime
<1>9. MissedAreFaults'
  BY <1>1, <1>5, <1>6, <1>7, MissedStill
<1> QED
  BY <1>2, <1>5, <1>8, <1>9 DEF OcrInvariant
\* The job is queued while its image is there, and the clock of the parser starts.
LEMMA AddJobKeeps == OcrInvariant /\ AddJob => OcrInvariant'
<1> SUFFICES ASSUME OcrInvariant, AddJob PROVE OcrInvariant'
  OBVIOUS
<1>1. /\ at = "add"
      /\ job' = [job EXCEPT ![Current] = "waiting"]
      /\ queue' = Append(queue, Current)
      /\ at' = "wait" /\ waited' = 0
      /\ UNCHANGED <<run, ocrPage, ocrPages, reference, ok, outcome, images, stalls, worker, active, elapsed,
                     text, faults>>
  BY DEF AddJob, Queued, ocr
<1>2. /\ Current \in Images /\ ~LeftBehind(Current) /\ Current' = Current
      /\ \A i : LeftBehind(i)' <=> LeftBehind(i)
  BY <1>1, CurrentIsAnImage, CurrentIsNotLeft DEF OcrInvariant, LeftBehind, Current
<1>3. job[Current] = "none"
  BY <1>1, <1>2 DEF OcrInvariant, JobsInTheirTime
<1>4. job' \in [Images -> Statuses] /\ job'[Current] = "waiting"
      /\ \A i \in Images : i # Current => job'[i] = job[i]
  BY <1>1, <1>2 DEF OcrInvariant, OcrJobs, Statuses
<1>5. PageCounts' /\ ParserPlaces' /\ WorkerPlaces' /\ Clocks' /\ faults' \in Seq(Faults)
  BY <1>1 DEF OcrInvariant, PageCounts, ParserPlaces, WorkerPlaces, Clocks
<1>6. OcrJobs'
  <2>1. /\ queue' \in Seq(Images) /\ DOMAIN queue = 1 .. Len(queue) /\ Len(queue) \in Nat
        /\ DOMAIN queue' = 1 .. Len(queue) + 1
        /\ \A k \in 1 .. Len(queue) : queue'[k] = queue[k]
        /\ queue'[Len(queue) + 1] = Current
    BY <1>1, <1>2, AppendProperties, LenProperties DEF OcrInvariant, OcrJobs
  <2>2. \A k \in DOMAIN queue : queue[k] \in Images /\ queue[k] # Current
    BY <1>3, <2>1, ElementOfSeq DEF OcrInvariant, OcrJobs
  <2>3. \A k \in DOMAIN queue' : (k \in DOMAIN queue /\ queue'[k] = queue[k]) \/ (k = Len(queue) + 1 /\ queue'[k] = Current)
    BY <2>1
  <2>4. \A j, k \in DOMAIN queue' : queue'[j] = queue'[k] => j = k
    BY <2>2, <2>3 DEF OcrInvariant, OcrJobs
  <2>5. ASSUME NEW i \in Images PROVE job'[i] = "waiting" <=> \E k \in DOMAIN queue' : queue'[k] = i
    <3>1. CASE i = Current
      BY <1>4, <2>1, <3>1
    <3>2. CASE i # Current
      <4>1. (\E k \in DOMAIN queue' : queue'[k] = i) <=> (\E k \in DOMAIN queue : queue[k] = i)
        BY <2>1, <2>3, <3>2
      <4> QED
        BY <1>4, <3>2, <4>1 DEF OcrInvariant, OcrJobs
    <3> QED
      BY <3>1, <3>2
  <2>6. \A i \in Images : job'[i] = "active" <=> active' = i
    BY <1>1, <1>3, <1>4 DEF OcrInvariant, OcrJobs
  <2> QED
    BY <1>1, <1>4, <2>1, <2>4, <2>5, <2>6 DEF OcrInvariant, OcrJobs
<1>7. JobsInTheirTime'
  BY <1>1, <1>2, <1>4 DEF OcrInvariant, JobsInTheirTime
<1>8. TogetherInTime'
  <2> SUFFICES ASSUME ~Happened("backend"), ~Happened("worker")
               PROVE  /\ worker # "down"
                      /\ \A i \in Images : job'[i] \in {"waiting", "active"} => i = Current
                      /\ worker \notin {"download", "recognize"}
    BY <1>1, <1>2, OcrAssumption DEF TogetherInTime, Happened
  <2>1. worker # "down" /\ \A i \in Images : job[i] \notin {"waiting", "active"}
    BY <1>1 DEF OcrInvariant, TogetherInTime
  <2>2. active = NoImage
    BY <2>1 DEF OcrInvariant, OcrJobs, WorkerPlaces
  <2> QED
    BY <1>4, <2>1, <2>2 DEF OcrInvariant, WorkerPlaces
<1>9. MissedAreFaults'
  <2>1. \A i \in Images : Finished(i)' => Finished(i)
    BY <1>4 DEF Finished
  <2>2. \A i \in Images : LeftBehind(i)' /\ job'[i] # "none" => LeftBehind(i) /\ job[i] # "none"
    BY <1>2, <1>4
  <2> QED
    <3>1. (\A i \in Images : stalls[i] # 0 => Len(faults) >= 1)'
      BY <1>1 DEF OcrInvariant, MissedAreFaults
    <3>2. images' \subseteq Images
      BY <1>1 DEF OcrInvariant, OcrJobs
    <3>3. /\ \A i \in images' : Finished(i)' => Len(faults') >= 1
          /\ \A i \in images' : LeftBehind(i)' /\ job'[i] # "none" => Len(faults') >= 1
          /\ \A i \in images' : LeftBehind(i)' /\ Finished(i)' => Len(faults') >= 2
      BY <1>1, <1>2, <2>1, <2>2, <3>2 DEF OcrInvariant, MissedAreFaults
    <3> QED
      BY <3>1, <3>3 DEF MissedAreFaults
<1>10. PageIsThere'
  BY <1>1, <1>2 DEF OcrInvariant, JobsInTheirTime, PageIsThere
<1> QED
  BY <1>5, <1>6, <1>7, <1>8, <1>9, <1>10 DEF OcrInvariant

\* Waiting is over: an image file is done with, a page goes on to its deletion.
LEMMA WaitIsOver ==
    ASSUME OcrInvariant, at = "wait", NEW good \in BOOLEAN, WaitOver(good), ParserOnly,
           UNCHANGED <<images, faults>>,
           Finished(Current) \/ Happened("backend") \/ Happened("worker")
    PROVE  OcrInvariant'
<1>0. UNCHANGED <<job, stalls>>
  BY DEF ParserOnly
<1>1. Current \in Images /\ Current[2] = ocrPage /\ ~LeftBehind(Current)
  BY CurrentIsAnImage, CurrentIsNotLeft DEF OcrInvariant
<1>2. images' \subseteq {i \in Images : i[2] # 0}
  BY DEF OcrInvariant, OcrJobs
<1>3. CASE ocrPage = 0
  <2>1. PICK o \in {"read", "failed"} : End(o)
    BY <1>3 DEF WaitOver
  <2>2. /\ PageCounts' /\ ParserPlaces' /\ at' = "idle" /\ waited' = 0
        /\ JobsInTheirTime'
        /\ \A i \in Images : LeftBehind(i)' /\ job[i] # "none" => LeftBehind(i) \/ i = Current
    BY <1>0, <2>1, EndLeaves
  <2>3. /\ WorkerPlaces' /\ Clocks' /\ faults' \in Seq(Faults)
        /\ OcrJobs' /\ TogetherInTime' /\ PageIsThere'
        /\ Len(faults) \in Nat /\ Len(faults') \in Nat /\ Len(faults') >= Len(faults)
    BY <1>2, <2>2, QuietStep
  <2>4. Current \notin images
    BY <1>1, <1>2, <1>3
  <2>5. MissedAreFaults'
    BY <1>0, <1>2, <2>2, <2>3, <2>4, MissedStill
  <2> QED
    BY <2>2, <2>3, <2>5 DEF OcrInvariant
<1>4. CASE ocrPage # 0
  <2>1. /\ at' = "delete" /\ ok' = good /\ waited' = 0
        /\ UNCHANGED <<run, ocrPage, ocrPages, reference, outcome>>
    BY <1>4 DEF WaitOver
  <2>2. PageCounts' /\ ParserPlaces'
    BY <1>4, <2>1 DEF OcrInvariant, PageCounts, ParserPlaces
  <2>3. /\ WorkerPlaces' /\ Clocks' /\ faults' \in Seq(Faults)
        /\ OcrJobs' /\ TogetherInTime' /\ PageIsThere'
        /\ Len(faults) \in Nat /\ Len(faults') \in Nat /\ Len(faults') >= Len(faults)
    BY <1>2, <2>1, QuietStep
  <2>4. (\A i : LeftBehind(i)' <=> LeftBehind(i)) /\ Current' = Current
    BY <2>1 DEF OcrInvariant, LeftBehind, Current
  <2>5. JobsInTheirTime'
    BY <1>0, <1>4, <2>1, <2>4 DEF OcrInvariant, JobsInTheirTime
  <2>6. MissedAreFaults'
    BY <1>0, <2>3, <2>4, MissedStill
  <2> QED
    BY <2>2, <2>3, <2>5, <2>6 DEF OcrInvariant
<1> QED
  BY <1>3, <1>4

LEMMA HearOfJobKeeps == OcrInvariant /\ HearOfJob => OcrInvariant'
<1> SUFFICES ASSUME OcrInvariant, HearOfJob PROVE OcrInvariant'
  OBVIOUS
<1>1. (job[Current] = "completed") \in BOOLEAN
  OBVIOUS
<1> QED
  BY <1>1, WaitIsOver DEF HearOfJob, ParserOnly

\* The backend stops waiting only after something died: the worker's limit is the shorter.
LEMMA StopWaitingKeeps == OcrInvariant /\ StopWaiting => OcrInvariant'
<1> SUFFICES ASSUME OcrInvariant, StopWaiting PROVE OcrInvariant'
  OBVIOUS
<1>1. at = "wait" /\ waited >= WaitLimit
  BY DEF StopWaiting, PastLimit
<1>2. Happened("backend") \/ Happened("worker")
  <2> SUFFICES ASSUME ~Happened("backend"), ~Happened("worker") PROVE FALSE
    OBVIOUS
  <2>1. waited <= OcrLimit /\ waited \in Nat
    BY <1>1 DEF OcrInvariant, TogetherInTime, Clocks
  <2> QED
    BY <1>1, <2>1, OcrAssumption
<1> QED
  BY <1>1, <1>2, WaitIsOver DEF StopWaiting, ParserOnly

\* The parser leaves a page with its image gone, or with one more fault.
LEMMA DeletePageKeeps == OcrInvariant /\ DeletePage => OcrInvariant'
<1> SUFFICES ASSUME OcrInvariant, DeletePage PROVE OcrInvariant'
  OBVIOUS
<1>1. /\ at = "delete" /\ ParserOnly /\ UNCHANGED <<job, stalls>>
      /\ \/ images' = images \ {reference} /\ UNCHANGED faults
         \/ Fault("delete") /\ UNCHANGED images
  BY DEF DeletePage, ParserOnly
<1>2. /\ Current \in Images /\ ~LeftBehind(Current)
      /\ Current[1] = run /\ Current[2] = ocrPage
  BY <1>1, CurrentIsAnImage, CurrentIsNotLeft DEF OcrInvariant
<1>3. images' \subseteq images /\ images' \subseteq {i \in Images : i[2] # 0}
  BY <1>1 DEF OcrInvariant, OcrJobs
<1>4. Current \in images' /\ job[Current] # "none" => Len(faults') >= Len(faults) + 1
  BY <1>1, OneFaultMore DEF OcrInvariant, JobsInTheirTime, AllFaults
<1>5. UNCHANGED faults \/ \E f \in AllFaults : Fault(f)
  BY <1>1 DEF AllFaults
<1>6. CASE \E o \in {"read", "failed"} : End(o)
  <2>1. /\ PageCounts' /\ ParserPlaces' /\ at' = "idle" /\ waited' = 0
        /\ JobsInTheirTime'
        /\ \A i \in Images : LeftBehind(i)' /\ job[i] # "none" => LeftBehind(i) \/ i = Current
    BY <1>1, <1>6, EndLeaves
  <2>2. /\ WorkerPlaces' /\ Clocks' /\ faults' \in Seq(Faults)
        /\ OcrJobs' /\ TogetherInTime' /\ PageIsThere'
        /\ Len(faults) \in Nat /\ Len(faults') \in Nat /\ Len(faults') >= Len(faults)
    BY <1>1, <1>3, <1>5, <2>1, QuietStep
  <2>3. MissedAreFaults'
    BY <1>1, <1>3, <1>4, <2>1, <2>2, MissedStill
  <2> QED
    BY <2>1, <2>2, <2>3 DEF OcrInvariant
<1>7. CASE /\ ocrPage # ocrPages
           /\ at' = "render" /\ ocrPage' = ocrPage + 1 /\ ok' = FALSE /\ reference' = NoImage
           /\ UNCHANGED <<run, ocrPages, waited, outcome>>
  <2>1. PageCounts'
    BY <1>1, <1>7 DEF OcrInvariant, PageCounts
  <2>2. ParserPlaces' /\ waited' \in Nat
    BY <1>7 DEF OcrInvariant, ParserPlaces, Clocks
  <2>3. /\ WorkerPlaces' /\ Clocks' /\ faults' \in Seq(Faults)
        /\ OcrJobs' /\ TogetherInTime' /\ PageIsThere'
        /\ Len(faults) \in Nat /\ Len(faults') \in Nat /\ Len(faults') >= Len(faults)
    BY <1>1, <1>3, <1>5, <1>7, <2>2, QuietStep
  <2>4. run \in Int /\ ocrPage \in Int
    BY DEF OcrInvariant, PageCounts
  <2>5. \A i \in Images : LeftBehind(i)' => LeftBehind(i) \/ i = Current
    <3> SUFFICES ASSUME NEW i \in Images, LeftBehind(i)', ~LeftBehind(i) PROVE i = Current
      OBVIOUS
    <3>1. i[1] = run /\ i[2] < ocrPage + 1 /\ ~(i[2] < ocrPage)
      BY <1>1, <1>7 DEF LeftBehind
    <3>2. i = <<i[1], i[2]>> /\ i[2] \in Int
      BY ImageParts
    <3>3. i[2] = ocrPage
      BY <2>4, <3>1, <3>2
    <3> QED
      BY <3>1, <3>2, <3>3 DEF Current
  <2>6. \A i \in Images : LeftBehind(i) \/ i = Current => LeftBehind(i)'
    BY <1>1, <1>2, <1>7, <2>4, ImageParts DEF LeftBehind
  <2>7. JobsInTheirTime'
    BY <1>1, <1>7, <2>6 DEF OcrInvariant, JobsInTheirTime
  <2>8. MissedAreFaults'
    BY <1>1, <1>3, <1>4, <2>3, <2>5, MissedStill
  <2> QED
    BY <2>1, <2>2, <2>3, <2>7, <2>8 DEF OcrInvariant
<1> QED
  BY <1>6, <1>7 DEF DeletePage

LEMMA BackendDiesKeeps == OcrInvariant /\ BackendDies => OcrInvariant'
<1> SUFFICES ASSUME OcrInvariant, BackendDies PROVE OcrInvariant'
  OBVIOUS
<1>1. at # "idle" /\ Fault("backend") /\ End("died") /\ ParserOnly /\ UNCHANGED <<images, job, stalls>>
  BY DEF BackendDies, ParserOnly
<1>2. /\ PageCounts' /\ ParserPlaces' /\ at' = "idle" /\ waited' = 0
      /\ JobsInTheirTime'
  BY <1>1, EndLeaves
<1>3. Len(faults') = Len(faults) + 1 /\ Happened("backend")'
  BY <1>1, OneFaultMore DEF OcrInvariant, AllFaults
<1>4. images' \subseteq {i \in Images : i[2] # 0}
  BY <1>1 DEF OcrInvariant, OcrJobs
<1>5. UNCHANGED faults \/ \E f \in AllFaults : Fault(f)
  BY <1>1 DEF AllFaults
<1>6. /\ WorkerPlaces' /\ Clocks' /\ faults' \in Seq(Faults)
      /\ OcrJobs' /\ TogetherInTime' /\ PageIsThere'
      /\ Len(faults) \in Nat /\ Len(faults') \in Nat /\ Len(faults') >= Len(faults)
  BY <1>1, <1>2, <1>3, <1>4, <1>5, QuietStep
<1>7. MissedAreFaults'
  BY <1>1, <1>3, <1>6, MissedStill
<1> QED
  BY <1>2, <1>6, <1>7 DEF OcrInvariant

\* The timer takes images that no parser works on.
LEMMA SweepKeeps ==
    ASSUME OcrInvariant, NEW i \in Images, Sweep(i)
    PROVE  OcrInvariant'
<1>1. /\ images' = images \ {i} /\ ~(at # "idle" /\ i = Current)
      /\ UNCHANGED <<at, run, ocrPage, ocrPages, waited, reference, ok, outcome, job, queue, stalls,
                     worker, active, elapsed, text, faults>>
  BY DEF Sweep, Expired, parser, ocr
<1>2. PageCounts' /\ ParserPlaces' /\ WorkerPlaces' /\ Clocks' /\ faults' \in Seq(Faults)
  BY <1>1 DEF OcrInvariant, PageCounts, ParserPlaces, WorkerPlaces, Clocks
<1>3. OcrJobs'
  BY <1>1 DEF OcrInvariant, OcrJobs
<1>4. JobsInTheirTime'
  BY <1>1 DEF OcrInvariant, JobsInTheirTime, LeftBehind, Current
<1>5. TogetherInTime' /\ MissedAreFaults' /\ PageIsThere'
  BY <1>1 DEF OcrInvariant, TogetherInTime, MissedAreFaults, PageIsThere, LeftBehind, Finished, Happened, Current
<1> QED
  BY <1>2, <1>3, <1>4, <1>5 DEF OcrInvariant
\* Steps of the worker and of the clock: the parser is where it was.
ParserRests == UNCHANGED <<at, run, ocrPage, ocrPages, reference, ok, outcome>>

LEMMA RestingParser ==
    ASSUME OcrInvariant, ParserRests
    PROVE  /\ PageCounts' /\ ParserPlaces' /\ Current' = Current
           /\ \A i : LeftBehind(i)' <=> LeftBehind(i)
<1>1. UNCHANGED <<at, run, ocrPage, ocrPages, reference, ok, outcome>>
  BY DEF ParserRests
<1>2. PageCounts' /\ ParserPlaces'
  BY <1>1 DEF OcrInvariant, PageCounts, ParserPlaces
<1> QED
  BY <1>1, <1>2 DEF LeftBehind, Current

\* No job comes or goes, and no image but the worker's.
LEMMA JobsStay ==
    ASSUME OcrInvariant, ParserRests,
           \A i \in Images : job'[i] = "none" <=> job[i] = "none",
           images \ images' \subseteq {active}
    PROVE  JobsInTheirTime'
<1>1. UNCHANGED <<at, run, ocrPage, ocrPages, reference>>
  BY DEF ParserRests
<1>2. Current' = Current /\ \A i \in Images : LeftBehind(i)' <=> LeftBehind(i)
  BY RestingParser
<1>3. at # "idle" => Current \in Images /\ ~LeftBehind(Current)
  BY CurrentIsAnImage, CurrentIsNotLeft DEF OcrInvariant
<1>4. at = "add" /\ ocrPage # 0 => Current \in images'
  <2> SUFFICES ASSUME at = "add", ocrPage # 0, Current = active PROVE FALSE
    BY DEF OcrInvariant, JobsInTheirTime
  <2>1. job[Current] = "active"
    BY <1>3 DEF OcrInvariant, OcrJobs
  <2> QED
    BY <1>3, <2>1 DEF OcrInvariant, JobsInTheirTime
<1>5. \A i \in Images : job'[i] # "none" => LeftBehind(i)' \/ (i = Current' /\ at' \in {"wait", "delete"})
  BY <1>1, <1>2 DEF OcrInvariant, JobsInTheirTime
<1>6. /\ at' = "wait" => job'[Current'] # "none"
      /\ at' = "delete" => reference' = Current' \/ job'[Current'] = "none"
  BY <1>1, <1>2, <1>3 DEF OcrInvariant, JobsInTheirTime
<1>7. at' \in {"add", "wait"} /\ ocrPage' # 0 => reference' = Current'
  BY <1>1, <1>2 DEF OcrInvariant, JobsInTheirTime
<1> QED
  BY <1>1, <1>2, <1>4, <1>5, <1>6, <1>7 DEF JobsInTheirTime

\* The worker takes the job that has waited longest.
LEMMA TakeKeeps == OcrInvariant /\ Take => OcrInvariant'
<1> SUFFICES ASSUME OcrInvariant, Take PROVE OcrInvariant'
  OBVIOUS
<1> DEFINE first == Head(queue)
<1>1. /\ worker = "idle" /\ queue # <<>>
      /\ active' = first /\ queue' = Tail(queue)
      /\ job' = [job EXCEPT ![first] = "active"]
      /\ worker' = "download" /\ elapsed' = 0 /\ text' = FALSE
      /\ UNCHANGED <<waited, images, stalls, faults>> /\ ParserRests
  BY DEF Take, parser, ParserRests
<1>2. /\ first \in Images /\ first = queue[1] /\ 1 \in DOMAIN queue
      /\ DOMAIN queue = 1 .. Len(queue) /\ Len(queue) \in Nat \ {0}
      /\ queue' \in Seq(Images) /\ DOMAIN queue' = 1 .. Len(queue) - 1
      /\ \A k \in 1 .. Len(queue) - 1 : queue'[k] = queue[k + 1]
  <2>1. queue \in Seq(Images)
    BY DEF OcrInvariant, OcrJobs
  <2>2. DOMAIN queue = 1 .. Len(queue) /\ Len(queue) \in Nat \ {0}
    BY <1>1, <2>1, EmptySeq, LenProperties
  <2>3. /\ first \in Images /\ queue' \in Seq(Images) /\ Len(queue') = Len(queue) - 1
        /\ \A k \in 1 .. Len(queue) - 1 : queue'[k] = queue[k + 1]
    BY <1>1, <2>1, HeadTailProperties
  <2>4. first = queue[1]
    BY <2>1, <1>1
  <2>5. DOMAIN queue' = 1 .. Len(queue) - 1
    BY <2>3, LenProperties
  <2> QED
    BY <2>2, <2>3, <2>4, <2>5
<1> HIDE DEF first
<1>3. active = NoImage
  BY <1>1 DEF OcrInvariant, WorkerPlaces
<1>4. job[first] = "waiting"
  BY <1>2 DEF OcrInvariant, OcrJobs
<1>5. /\ job' \in [Images -> Statuses] /\ job'[first] = "active"
      /\ \A i \in Images : i # first => job'[i] = job[i]
  BY <1>1, <1>2 DEF OcrInvariant, OcrJobs, Statuses
<1>6. PageCounts' /\ ParserPlaces' /\ Current' = Current /\ (\A i : LeftBehind(i)' <=> LeftBehind(i))
  BY <1>1, RestingParser
<1>7. WorkerPlaces' /\ Clocks' /\ faults' \in Seq(Faults)
  BY <1>1, <1>2, NoImageIsNone DEF OcrInvariant, WorkerPlaces, Clocks
<1>8. OcrJobs'
  <2>1. \A k \in DOMAIN queue' : k + 1 \in DOMAIN queue /\ queue'[k] = queue[k + 1] /\ queue'[k] # first
    <3> SUFFICES ASSUME NEW k \in DOMAIN queue'
                 PROVE  k + 1 \in DOMAIN queue /\ queue'[k] = queue[k + 1] /\ queue'[k] # first
      OBVIOUS
    <3>1. k + 1 \in DOMAIN queue /\ queue'[k] = queue[k + 1] /\ k + 1 # 1
      BY <1>2
    <3> QED
      BY <1>2, <3>1 DEF OcrInvariant, OcrJobs
  <2>2. \A k \in DOMAIN queue : k # 1 => k - 1 \in DOMAIN queue' /\ queue'[k - 1] = queue[k]
    BY <1>2
  <2>3. \A j, k \in DOMAIN queue' : queue'[j] = queue'[k] => j = k
    <3> SUFFICES ASSUME NEW j \in DOMAIN queue', NEW k \in DOMAIN queue', queue'[j] = queue'[k] PROVE j = k
      OBVIOUS
    <3>1. j + 1 = k + 1
      BY <2>1 DEF OcrInvariant, OcrJobs
    <3> QED
      BY <1>2, <3>1
  <2>4. ASSUME NEW i \in Images PROVE job'[i] = "waiting" <=> \E k \in DOMAIN queue' : queue'[k] = i
    <3>1. CASE i = first
      BY <1>5, <2>1, <3>1
    <3>2. CASE i # first
      <4>1. (\E k \in DOMAIN queue' : queue'[k] = i) => \E k \in DOMAIN queue : queue[k] = i
        BY <2>1
      <4>2. (\E k \in DOMAIN queue : queue[k] = i) => \E k \in DOMAIN queue' : queue'[k] = i
        BY <1>2, <2>2, <3>2
      <4> QED
        BY <1>5, <3>2, <4>1, <4>2 DEF OcrInvariant, OcrJobs
    <3> QED
      BY <3>1, <3>2
  <2>5. \A i \in Images : job'[i] = "active" <=> active' = i
    BY <1>1, <1>3, <1>5, NoImageIsNone DEF OcrInvariant, OcrJobs
  <2> QED
    BY <1>1, <1>2, <1>5, <2>3, <2>4, <2>5 DEF OcrInvariant, OcrJobs
<1>9. JobsInTheirTime'
  BY <1>1, <1>4, <1>5, JobsStay
<1>10. TogetherInTime'
  <2> SUFFICES ASSUME ~Happened("backend"), ~Happened("worker")
               PROVE  /\ \A i \in Images : job'[i] \in {"waiting", "active"} => at = "wait" /\ i = Current
                      /\ at = "wait" => waited <= OcrLimit
                      /\ at = "wait" /\ job'[Current] = "waiting" => waited = 0
                      /\ waited = 0
    BY <1>1, <1>6 DEF TogetherInTime, Happened, ParserRests
  <2>1. /\ \A i \in Images : job[i] \in {"waiting", "active"} => at = "wait" /\ i = Current
        /\ at = "wait" => waited <= OcrLimit
        /\ at = "wait" /\ job[Current] = "waiting" => waited = 0
    BY DEF OcrInvariant, TogetherInTime
  <2>2. at = "wait" /\ first = Current
    BY <1>2, <1>4, <2>1
  <2> QED
    BY <1>2, <1>4, <1>5, <2>1, <2>2
<1>11. MissedAreFaults'
  <2>1. \A i \in Images : Finished(i)' => Finished(i)
    BY <1>5 DEF Finished
  <2>2. \A i \in Images : LeftBehind(i)' /\ job'[i] # "none" => LeftBehind(i) /\ job[i] # "none"
    BY <1>4, <1>5, <1>6
  <2>3. (\A i \in Images : stalls[i] # 0 => Len(faults) >= 1)'
    BY <1>1 DEF OcrInvariant, MissedAreFaults
  <2>4. images' \subseteq Images
    BY <1>1 DEF OcrInvariant, OcrJobs
  <2>5. /\ \A i \in images' : Finished(i)' => Len(faults') >= 1
        /\ \A i \in images' : LeftBehind(i)' /\ job'[i] # "none" => Len(faults') >= 1
        /\ \A i \in images' : LeftBehind(i)' /\ Finished(i)' => Len(faults') >= 2
    BY <1>1, <1>6, <2>1, <2>2, <2>4 DEF OcrInvariant, MissedAreFaults
  <2> QED
    BY <2>3, <2>5 DEF MissedAreFaults
<1>12. PageIsThere'
  <2>1. at' = at /\ ocrPage' = ocrPage /\ images' = images
    BY <1>1 DEF ParserRests
  <2>2. at = "wait" => Current \in Images
    BY CurrentIsAnImage DEF OcrInvariant
  <2> QED
    BY <1>4, <1>5, <1>6, <2>1, <2>2 DEF OcrInvariant, PageIsThere
<1> QED
  BY <1>6, <1>7, <1>8, <1>9, <1>10, <1>11, <1>12 DEF OcrInvariant

\* The worker goes on with its job.
LEMMA WorkerGoesOn ==
    ASSUME OcrInvariant, ParserRests,
           \/ worker \in {"download", "recognize"} /\ worker' \in {"recognize", "clean"}
           \/ worker = "down" /\ worker' = "idle",
           UNCHANGED <<waited, images, job, queue, stalls, active, elapsed, faults>>
    PROVE  OcrInvariant'
<1>1. PageCounts' /\ ParserPlaces' /\ Current' = Current /\ (\A i : LeftBehind(i)' <=> LeftBehind(i))
  BY RestingParser
<1>2. WorkerPlaces' /\ Clocks' /\ faults' \in Seq(Faults)
  BY DEF OcrInvariant, WorkerPlaces, Clocks
<1>3. OcrJobs'
  BY DEF OcrInvariant, OcrJobs
<1>4. JobsInTheirTime'
  BY JobsStay
<1>5. TogetherInTime'
  BY <1>1 DEF OcrInvariant, TogetherInTime, Happened, ParserRests
<1>6. MissedAreFaults' /\ PageIsThere'
  BY <1>1 DEF OcrInvariant, MissedAreFaults, PageIsThere, Finished, ParserRests
<1> QED
  BY <1>1, <1>2, <1>3, <1>4, <1>5, <1>6 DEF OcrInvariant

\* A job ends with its image gone, or with one more fault.
LEMMA CleanUpKeeps == OcrInvariant /\ CleanUp => OcrInvariant'
<1> SUFFICES ASSUME OcrInvariant, CleanUp PROVE OcrInvariant'
  OBVIOUS
<1>1. /\ worker = "clean"
      /\ \/ images' = (IF active[2] # 0 THEN images \ {active} ELSE images) /\ UNCHANGED faults
         \/ active[2] # 0 /\ Fault("delete") /\ UNCHANGED images
      /\ job' = [job EXCEPT ![active] = IF text THEN "completed" ELSE "failed"]
      /\ worker' = "idle" /\ active' = NoImage /\ elapsed' = 0
      /\ UNCHANGED <<waited, queue, stalls>> /\ ParserRests
  BY DEF CleanUp, DeletesAfterwards, parser, ParserRests
<1>2. active \in Images
  BY <1>1 DEF OcrInvariant, WorkerPlaces
<1>3. job[active] = "active"
  BY <1>2 DEF OcrInvariant, OcrJobs
<1>4. /\ job' \in [Images -> Statuses] /\ job'[active] \in {"completed", "failed"}
      /\ \A i \in Images : i # active => job'[i] = job[i]
  BY <1>1, <1>2 DEF OcrInvariant, OcrJobs, Statuses
<1>5. PageCounts' /\ ParserPlaces' /\ Current' = Current /\ (\A i : LeftBehind(i)' <=> LeftBehind(i))
  BY <1>1, RestingParser
<1>6. /\ faults' \in Seq(Faults)
      /\ Len(faults) \in Nat /\ Len(faults') \in Nat /\ Len(faults') >= Len(faults)
      /\ \A g \in AllFaults : Happened(g) => Happened(g)'
  BY <1>1, FaultsGrow DEF OcrInvariant, AllFaults
<1>7. WorkerPlaces' /\ Clocks'
  BY <1>1 DEF OcrInvariant, WorkerPlaces, Clocks
<1>8. images' \subseteq images /\ images \ images' \subseteq {active}
      /\ (active \in images' => Len(faults') >= Len(faults) + 1)
  <2>1. active[2] = 0 => active \notin images
    BY DEF OcrInvariant, OcrJobs
  <2> QED
    BY <1>1, <2>1, OneFaultMore DEF OcrInvariant, AllFaults
<1>9. OcrJobs'
  <2>1. \A i \in Images : job'[i] = "waiting" <=> job[i] = "waiting"
    BY <1>3, <1>4
  <2>2. \A i \in Images : job'[i] = "active" <=> active' = i
    BY <1>1, <1>4, NoImageIsNone DEF OcrInvariant, OcrJobs
  <2> QED
    BY <1>1, <1>4, <1>8, <2>1, <2>2 DEF OcrInvariant, OcrJobs
<1>10. JobsInTheirTime'
  BY <1>1, <1>3, <1>4, <1>8, JobsStay
<1>11. TogetherInTime'
  <2> SUFFICES ASSUME ~Happened("backend"), ~Happened("worker")
               PROVE  /\ \A i \in Images : job'[i] \in {"waiting", "active"} => at = "wait" /\ i = Current
                      /\ at = "wait" => waited <= OcrLimit
                      /\ at = "wait" /\ job'[Current] = "waiting" => waited = 0
    BY <1>1, <1>5, <1>6 DEF TogetherInTime, ParserRests, AllFaults
  <2>1. at = "wait" => Current \in Images
    BY CurrentIsAnImage DEF OcrInvariant
  <2> QED
    BY <1>4, <2>1 DEF OcrInvariant, TogetherInTime
<1>12. MissedAreFaults'
  <2>1. (\A i \in Images : stalls[i] # 0 => Len(faults) >= 1)'
    BY <1>1, <1>6 DEF OcrInvariant, MissedAreFaults
  <2>2. \A i \in images' : i \in images /\ i \in Images
    BY <1>8 DEF OcrInvariant, OcrJobs
  <2>3. ASSUME NEW i \in images', Finished(i)' PROVE Len(faults') >= 1
    <3>1. CASE i = active
      BY <1>6, <1>8, <3>1
    <3>2. CASE i # active
      BY <1>4, <1>6, <2>2, <2>3, <3>2 DEF OcrInvariant, MissedAreFaults, Finished
    <3> QED
      BY <3>1, <3>2
  <2>4. ASSUME NEW i \in images', LeftBehind(i)', job'[i] # "none" PROVE Len(faults') >= 1
    BY <1>3, <1>4, <1>5, <1>6, <2>2, <2>4 DEF OcrInvariant, MissedAreFaults
  <2>5. ASSUME NEW i \in images', LeftBehind(i)', Finished(i)' PROVE Len(faults') >= 2
    <3>1. LeftBehind(i)
      BY <1>5, <2>5
    <3>2. CASE i = active
      <4>1. Len(faults) >= 1
        BY <1>3, <2>2, <3>1, <3>2 DEF OcrInvariant, MissedAreFaults
      <4> QED
        BY <1>6, <1>8, <3>2, <4>1
    <3>3. CASE i # active
      BY <1>4, <1>6, <2>2, <2>5, <3>1, <3>3 DEF OcrInvariant, MissedAreFaults, Finished
    <3> QED
      BY <3>2, <3>3
  <2> QED
    BY <2>1, <2>3, <2>4, <2>5 DEF MissedAreFaults
<1>13. PageIsThere'
  <2>1. at' = at /\ ocrPage' = ocrPage
    BY <1>1 DEF ParserRests
  <2>2. at = "wait" => Current \in Images
    BY CurrentIsAnImage DEF OcrInvariant
  <2> QED
    BY <1>4, <1>5, <1>8, <2>1, <2>2 DEF OcrInvariant, PageIsThere
<1> QED
  BY <1>5, <1>6, <1>7, <1>9, <1>10, <1>11, <1>12, <1>13 DEF OcrInvariant
\* The job of a worker that dies is put back once; the second time it has failed.
LEMMA WorkerDiesKeeps == OcrInvariant /\ WorkerDies => OcrInvariant'
<1> SUFFICES ASSUME OcrInvariant, WorkerDies PROVE OcrInvariant'
  OBVIOUS
<1>1. /\ Fault("worker") /\ worker' = "down" /\ active' = NoImage /\ elapsed' = 0
      /\ UNCHANGED <<waited, images>> /\ ParserRests
  BY DEF WorkerDies, parser, ParserRests
<1>2. \/ /\ active = NoImage /\ UNCHANGED <<job, queue, stalls>>
      \/ /\ active \in Images
         /\ stalls' = [stalls EXCEPT ![active] = @ + 1]
         /\ \/ /\ stalls[active] = 0
               /\ job' = [job EXCEPT ![active] = "waiting"] /\ queue' = Append(queue, active)
            \/ /\ stalls[active] # 0
               /\ job' = [job EXCEPT ![active] = "failed"] /\ queue' = queue
  BY DEF WorkerDies, OcrInvariant, WorkerPlaces
<1>3. PageCounts' /\ ParserPlaces' /\ Current' = Current /\ (\A i : LeftBehind(i)' <=> LeftBehind(i))
  BY <1>1, RestingParser
<1>4. faults' \in Seq(Faults)
  BY <1>1, FaultsGrow DEF OcrInvariant, AllFaults
<1>5. Len(faults') = Len(faults) + 1 /\ Len(faults) \in Nat /\ Happened("worker")'
  BY <1>1, OneFaultMore DEF OcrInvariant, AllFaults
<1>6. WorkerPlaces' /\ Clocks'
  BY <1>1 DEF OcrInvariant, WorkerPlaces, Clocks
<1>7. active \in Images => job[active] = "active"
  BY DEF OcrInvariant, OcrJobs
<1>8. /\ job' \in [Images -> Statuses] /\ stalls' \in [Images -> Nat]
      /\ \A i \in Images : i # active => job'[i] = job[i]
      /\ active \in Images => job'[active] \in {"waiting", "failed"}
  <2>1. job \in [Images -> Statuses] /\ stalls \in [Images -> Nat]
    BY DEF OcrInvariant, OcrJobs
  <2>2. job' \in [Images -> Statuses] /\ stalls' \in [Images -> Nat]
    BY <1>2, <2>1 DEF Statuses
  <2>3. \A i \in Images : i # active => job'[i] = job[i]
    BY <1>2, <2>1
  <2>4. active \in Images => job'[active] \in {"waiting", "failed"}
    BY <1>2, <2>1, NoImageIsNone
  <2> QED
    BY <2>2, <2>3, <2>4
<1>9. \A i \in Images : job'[i] = "none" <=> job[i] = "none"
  <2>1. CASE active \in Images
    BY <1>7, <1>8, <2>1
  <2>2. CASE active \notin Images
    BY <1>8, <2>2
  <2> QED
    BY <2>1, <2>2
<1>10. OcrJobs'
  <2>1. \A i \in Images : job'[i] = "active" <=> active' = i
    <3>1. \A i \in Images : job[i] = "active" <=> active = i
      BY DEF OcrInvariant, OcrJobs
    <3>2. \A i \in Images : job'[i] # "active"
      BY <1>8, <3>1
    <3> QED
      BY <1>1, <3>2, NoImageIsNone
  <2>2. CASE UNCHANGED queue /\ (active \in Images => job'[active] = "failed")
    <3>1. \A i \in Images : job'[i] = "waiting" <=> job[i] = "waiting"
      BY <1>7, <1>8, <2>2
    <3> QED
      BY <1>1, <1>8, <2>1, <2>2, <3>1 DEF OcrInvariant, OcrJobs
  <2>3. CASE active \in Images /\ job'[active] = "waiting" /\ queue' = Append(queue, active)
    <3>1. /\ queue' \in Seq(Images) /\ DOMAIN queue = 1 .. Len(queue) /\ Len(queue) \in Nat
          /\ DOMAIN queue' = 1 .. Len(queue) + 1
          /\ \A k \in 1 .. Len(queue) : queue'[k] = queue[k]
          /\ queue'[Len(queue) + 1] = active
      BY <2>3, AppendProperties, LenProperties DEF OcrInvariant, OcrJobs
    <3>2. \A k \in DOMAIN queue : queue[k] \in Images /\ queue[k] # active
      BY <1>7, <2>3, <3>1, ElementOfSeq DEF OcrInvariant, OcrJobs
    <3>3. \A k \in DOMAIN queue' : (k \in DOMAIN queue /\ queue'[k] = queue[k]) \/ (k = Len(queue) + 1 /\ queue'[k] = active)
      BY <3>1
    <3>4. \A j, k \in DOMAIN queue' : queue'[j] = queue'[k] => j = k
      BY <3>2, <3>3 DEF OcrInvariant, OcrJobs
    <3>5. ASSUME NEW i \in Images PROVE job'[i] = "waiting" <=> \E k \in DOMAIN queue' : queue'[k] = i
      <4>1. CASE i = active
        BY <2>3, <3>1, <4>1
      <4>2. CASE i # active
        <5>1. (\E k \in DOMAIN queue' : queue'[k] = i) <=> (\E k \in DOMAIN queue : queue[k] = i)
          BY <3>1, <3>3, <4>2
        <5> QED
          BY <1>8, <4>2, <5>1 DEF OcrInvariant, OcrJobs
      <4> QED
        BY <4>1, <4>2
    <3> QED
      BY <1>1, <1>8, <2>1, <3>1, <3>4, <3>5 DEF OcrInvariant, OcrJobs
  <2>4. job \in [Images -> Statuses]
    BY DEF OcrInvariant, OcrJobs
  <2> QED
    BY <1>2, <2>2, <2>3, <2>4, NoImageIsNone
<1>11. JobsInTheirTime'
  BY <1>1, <1>9, JobsStay
<1>12. TogetherInTime'
  BY <1>5 DEF TogetherInTime
<1>13. MissedAreFaults'
  <2>1. \A i \in images' : i \in images /\ i \in Images
    BY <1>1 DEF OcrInvariant, OcrJobs
  <2>2. ASSUME NEW i \in images', LeftBehind(i)', Finished(i)' PROVE Len(faults') >= 2
    <3>1. CASE i = active
      <4>1. stalls[active] # 0
        <5>1. job \in [Images -> Statuses]
          BY DEF OcrInvariant, OcrJobs
        <5>2. job'[active] \in {"completed", "failed"}
          BY <2>2, <3>1 DEF Finished
        <5> QED
          BY <1>2, <2>1, <3>1, <5>1, <5>2, NoImageIsNone
      <4>2. Len(faults) >= 1
        BY <2>1, <3>1, <4>1 DEF OcrInvariant, MissedAreFaults
      <4> QED
        BY <1>5, <4>2
    <3>2. CASE i # active
      <4>1. LeftBehind(i) /\ Finished(i)
        BY <1>3, <1>8, <2>1, <2>2, <3>2 DEF Finished
      <4>2. Len(faults) >= 2
        BY <2>1, <4>1 DEF OcrInvariant, MissedAreFaults
      <4> QED
        BY <1>5, <4>2
    <3> QED
      BY <3>1, <3>2
  <2>3. Len(faults') >= 1
    BY <1>5
  <2> QED
    BY <2>2, <2>3 DEF MissedAreFaults
<1>14. PageIsThere'
  <2>1. at' = at /\ ocrPage' = ocrPage
    BY <1>1 DEF ParserRests
  <2>2. at = "wait" => Current \in Images
    BY CurrentIsAnImage DEF OcrInvariant
  <2> QED
    BY <1>1, <1>3, <1>7, <1>8, <2>1, <2>2 DEF OcrInvariant, PageIsThere
<1> QED
  BY <1>3, <1>4, <1>6, <1>10, <1>11, <1>12, <1>13, <1>14 DEF OcrInvariant

\* The two clocks go together while nobody died, and stop at the worker's limit.
LEMMA TickKeeps == OcrInvariant /\ Tick => OcrInvariant'
<1> SUFFICES ASSUME OcrInvariant, Tick PROVE OcrInvariant'
  OBVIOUS
<1>1. /\ Waiting
      /\ waited' = IF at = "wait" /\ waited <= WaitLimit THEN waited + 1 ELSE waited
      /\ elapsed' = IF worker = "recognize" THEN elapsed + 1 ELSE elapsed
      /\ UNCHANGED <<at, run, ocrPage, ocrPages, reference, ok, outcome, images, job, queue, stalls,
                     worker, active, faults>>
  BY DEF Tick
<1>2. waited \in Nat /\ elapsed \in Nat /\ WaitLimit \in Nat /\ OcrLimit \in Nat /\ OcrLimit < WaitLimit
  BY OcrAssumption DEF OcrInvariant, Clocks
<1>3. PageCounts' /\ ParserPlaces' /\ Current' = Current /\ (\A i : LeftBehind(i)' <=> LeftBehind(i))
  BY <1>1, RestingParser DEF ParserRests
<1>4. WorkerPlaces' /\ faults' \in Seq(Faults)
  BY <1>1 DEF OcrInvariant, WorkerPlaces
<1>5. Clocks'
  BY <1>1, <1>2 DEF Clocks
<1>6. OcrJobs'
  BY <1>1 DEF OcrInvariant, OcrJobs
<1>7. JobsInTheirTime'
  BY <1>1, JobsStay DEF ParserRests
<1>8. TogetherInTime'
  <2> SUFFICES ASSUME ~Happened("backend"), ~Happened("worker")
               PROVE  /\ at = "wait" => waited' <= OcrLimit
                      /\ at = "wait" /\ job[Current] = "waiting" => waited' = 0
                      /\ worker # "download"
                      /\ worker = "recognize" => elapsed' = waited'
    BY <1>1, <1>3 DEF OcrInvariant, TogetherInTime, Happened
  <2>1. /\ worker # "down"
        /\ \A i \in Images : job[i] \in {"waiting", "active"} => at = "wait" /\ i = Current
        /\ worker = "recognize" => elapsed = waited
    BY DEF OcrInvariant, TogetherInTime
  <2>2. (worker = "idle" /\ queue = <<>>) \/ (worker = "recognize" /\ ~(elapsed >= OcrLimit))
    BY <1>1, <2>1 DEF Waiting, Overdue
  <2>3. CASE worker = "recognize" /\ ~(elapsed >= OcrLimit)
    <3>1. active \in Images
      BY <2>3 DEF OcrInvariant, WorkerPlaces
    <3>2. at = "wait" /\ job[Current] = "active"
      BY <2>1, <3>1 DEF OcrInvariant, OcrJobs
    <3>3. waited' = waited + 1 /\ elapsed' = elapsed + 1 /\ elapsed = waited /\ waited < OcrLimit
      BY <1>1, <1>2, <2>1, <2>3, <3>2
    <3> QED
      BY <1>2, <2>3, <3>2, <3>3
  <2>4. CASE worker = "idle" /\ queue = <<>>
    <3>1. DOMAIN queue = {} /\ active = NoImage
      BY <2>4 DEF OcrInvariant, WorkerPlaces
    <3>2. \A i \in Images : job[i] \notin {"waiting", "active"}
      BY <3>1, NoImageIsNone DEF OcrInvariant, OcrJobs
    <3>3. at # "wait"
      <4> SUFFICES ASSUME at = "wait" PROVE FALSE
        OBVIOUS
      <4>1. Current \in Images /\ job[Current] # "none" /\ job[Current] \in Statuses
        BY CurrentIsAnImage DEF OcrInvariant, OcrJobs, JobsInTheirTime
      <4>2. ~Finished(Current)
        BY <1>1 DEF Waiting
      <4> QED
        BY <3>2, <4>1, <4>2 DEF Statuses, Finished
    <3> QED
      BY <2>4, <3>3
  <2> QED
    BY <2>2, <2>3, <2>4
<1>9. MissedAreFaults' /\ PageIsThere'
  BY <1>1, <1>3 DEF OcrInvariant, MissedAreFaults, PageIsThere, Finished
<1> QED
  BY <1>3, <1>4, <1>5, <1>6, <1>7, <1>8, <1>9 DEF OcrInvariant

LEMMA OcrKeeps == OcrInvariant /\ [OcrNext]_ocrVars => OcrInvariant'
<1> SUFFICES ASSUME OcrInvariant, [OcrNext]_ocrVars PROVE OcrInvariant'
  OBVIOUS
<1>1. CASE Parse
  BY <1>1, DestroyKeeps, RenderKeeps, RenderFailsKeeps, UploadKeeps, AddJobKeeps, HearOfJobKeeps,
     StopWaitingKeeps, DeletePageKeeps DEF Parse
<1>2. CASE Work
  <2>1. CASE Download
    BY <2>1, WorkerGoesOn DEF Download, parser, ParserRests
  <2>2. CASE Recognize
    BY <2>2, WorkerGoesOn DEF Recognize, parser, ParserRests
  <2>3. CASE RecognitionTimesOut
    BY <2>3, WorkerGoesOn DEF RecognitionTimesOut, parser, ParserRests
  <2> QED
    BY <1>2, <2>1, <2>2, <2>3, TakeKeeps, CleanUpKeeps DEF Work
<1>3. CASE WorkerRestarts
  BY <1>3, WorkerGoesOn DEF WorkerRestarts, parser, ParserRests
<1>4. CASE UNCHANGED ocrVars
  <2>1. UNCHANGED <<at, run, ocrPage, ocrPages, waited, reference, ok, outcome, images, job, queue, stalls,
                    worker, active, elapsed, faults>>
    BY <1>4 DEF ocrVars, parser, ocr
  <2>2. PageCounts' /\ ParserPlaces' /\ WorkerPlaces' /\ Clocks' /\ faults' \in Seq(Faults)
    BY <2>1 DEF OcrInvariant, PageCounts, ParserPlaces, WorkerPlaces, Clocks
  <2>3. OcrJobs' /\ JobsInTheirTime'
    BY <2>1 DEF OcrInvariant, OcrJobs, JobsInTheirTime, LeftBehind, Current
  <2>4. TogetherInTime' /\ MissedAreFaults' /\ PageIsThere'
    BY <2>1 DEF OcrInvariant, TogetherInTime, MissedAreFaults, PageIsThere, LeftBehind, Finished, Happened, Current
  <2> QED
    BY <2>2, <2>3, <2>4 DEF OcrInvariant
<1> QED
  BY <1>1, <1>2, <1>3, <1>4, ExtractKeeps, BackendDiesKeeps, SweepKeeps, WorkerDiesKeeps, TickKeeps DEF OcrNext

\* What OcrTypeOK counts: each waiting job is in the queue once.
LEMMA InQueueOnce ==
    ASSUME OcrJobs, NEW i \in Images
    PROVE  Cardinality({k \in DOMAIN queue : queue[k] = i}) = IF job[i] = "waiting" THEN 1 ELSE 0
<1>1. CASE job[i] = "waiting"
  <2>1. PICK k \in DOMAIN queue : queue[k] = i
    BY <1>1 DEF OcrJobs
  <2>2. {j \in DOMAIN queue : queue[j] = i} = {k}
    BY <2>1 DEF OcrJobs
  <2>3. Cardinality({k}) = 1
    BY FS_Singleton
  <2> QED
    BY <1>1, <2>2, <2>3
<1>2. CASE job[i] # "waiting"
  <2>1. {j \in DOMAIN queue : queue[j] = i} = {}
    BY <1>2 DEF OcrJobs
  <2>2. Cardinality({}) = 0
    BY FS_EmptySet
  <2> QED
    BY <1>2, <2>1, <2>2
<1> QED
  BY <1>1, <1>2

\* The two limits and the two finally blocks do what they are for: while neither process has
\* died no job is given up on or left behind; no single fault leaves a page image in the
\* bucket; and none is gone while a job of its parser needs it.
THEOREM JobsAndImagesEnd == OcrSpec => []OcrSafe
<1>1. OcrInvariant => OcrSafe
  <2> SUFFICES ASSUME OcrInvariant PROVE OcrSafe
    OBVIOUS
  <2>1. OcrTypeOK
    <3>1. \A i \in Images : Cardinality({k \in DOMAIN queue : queue[k] = i}) = IF job[i] = "waiting" THEN 1 ELSE 0
      BY InQueueOnce DEF OcrInvariant
    <3>2. images \subseteq Images /\ \A i \in Images : job[i] = "active" <=> active = i
      BY DEF OcrInvariant, OcrJobs
    <3>3. /\ at \in {"idle", "render", "upload", "add", "wait", "delete"}
          /\ outcome \in [Runs -> {"new", "open", "read", "failed", "not rendered", "died"}]
      BY DEF OcrInvariant, ParserPlaces
    <3>4. waited \in Nat /\ elapsed \in Nat
      BY DEF OcrInvariant, Clocks
    <3> QED
      BY <3>1, <3>2, <3>3, <3>4 DEF OcrTypeOK
  <2>2. JobEndsInTime
    <3> SUFFICES ASSUME ~Happened("backend"), ~Happened("worker")
                 PROVE  /\ ~(at = "wait" /\ waited = WaitLimit)
                        /\ \A i \in Images : job[i] \in {"waiting", "active"} => at = "wait" /\ i = Current
      BY DEF JobEndsInTime
    <3>1. \A i \in Images : job[i] \in {"waiting", "active"} => at = "wait" /\ i = Current
      BY DEF OcrInvariant, TogetherInTime
    <3>2. at = "wait" => waited <= OcrLimit
      BY DEF OcrInvariant, TogetherInTime
    <3>3. OcrLimit \in Nat /\ WaitLimit \in Nat /\ OcrLimit < WaitLimit /\ waited \in Nat
      BY OcrAssumption DEF OcrInvariant, Clocks
    <3> QED
      BY <3>1, <3>2, <3>3
  <2>3. HandedPagesAreDeleted
    <3> SUFFICES ASSUME Len(faults) <= 1, at = "idle", \A i \in Images : job[i] \notin {"waiting", "active"},
                        NEW i \in images, job[i] # "none"
                 PROVE  FALSE
      BY DEF HandedPagesAreDeleted
    <3>1. i \in Images /\ job[i] \in Statuses
      BY DEF OcrInvariant, OcrJobs
    <3>2. Finished(i)
      BY <3>1 DEF Statuses, Finished
    <3>3. LeftBehind(i)
      BY <3>1 DEF OcrInvariant, JobsInTheirTime
    <3>4. Len(faults) >= 2 /\ Len(faults) \in Nat
      BY <3>2, <3>3, LenProperties DEF OcrInvariant, MissedAreFaults
    <3> QED
      BY <3>4
  <2>4. PageIsThereForItsJob
    BY DEF OcrInvariant, PageIsThere, PageIsThereForItsJob
  <2> QED
    BY <2>1, <2>2, <2>3, <2>4 DEF OcrSafe
<1> QED
  BY <1>1, OcrInitially, OcrKeeps, PTL DEF OcrSpec
-----------------------------------------------------------------------------
(* The chat: AiChat. *)

Stages == {"new", "intent", "records", "page", "summary", "documents", "narrate", "write", "ended"}

Messages ==
    [role : {"user", "assistant"}, ask : Questions, text : Seq(Pieces),
     kind : {"question", "streaming", "final", "error"}]

Events == [event : {"delta", "done", "error"}, text : Seq(Pieces)]

\* The answers the server can have ended with.
Answers(a) == {AnswerOf(a, <<Ready>>), AnswerOf(a, Written(a))}

\* The client: one question is waited for, the last one, and the message that is streamed is
\* the last of the conversation.
ClientInvariant ==
    /\ messages \in Seq(Messages)
    /\ chatAsked \in 0 .. MaxQuestions /\ current \in {0, chatAsked}
    /\ isLoading = (current # 0)
    /\ isStreaming = (current # 0 /\ streaming # 0)
    /\ chatAsked = 0 => messages = <<>>
    /\ \A i \in DOMAIN messages : messages[i].ask <= chatAsked
    /\ current # 0 => IF streaming = 0 THEN Last(messages).kind = "question"
                      ELSE streaming = Len(messages) /\ Last(messages).kind = "streaming"

\* The server: what a stage tells of the filters, of the notice and of the end.
ServerInvariant ==
    /\ chatStage \in [Questions -> Stages] /\ noticed \in [Questions -> BOOLEAN]
    /\ parts \in [Questions -> 0 .. MaxParts] /\ filters \in [Questions -> SUBSET FilterKinds]
    /\ ended \in [Questions -> {"none", "done", "error"}]
    /\ \A a \in Questions :
         /\ chatStage[a] = "new" <=> a > chatAsked
         /\ chatStage[a] \in {"new", "intent", "page", "summary"} => filters[a] = {}
         /\ chatStage[a] \in {"new", "intent", "page", "summary", "records"} => ~noticed[a]
         /\ noticed[a] => "structured" \notin filters[a]
         /\ ended[a] # "none" => chatStage[a] = "ended"

\* The events on their way are of the question that is waited for.
WireInvariant ==
    /\ wire \in Seq(Events)
    /\ current = 0 => wire = <<>>
    /\ \A k \in DOMAIN wire : wire[k].event = "done" =>
         ended[current] = "done" /\ wire[k].text \in Answers(current)

ChatInvariant ==
    ClientInvariant /\ ServerInvariant /\ WireInvariant /\ ConversationInOrder /\ FinalIsTheResponse

\* The first two parts of ConversationInOrder, for any messages.
Conversation(ms) ==
    /\ ms # <<>> => ms[1].kind = "question" /\ ms[1].ask = 1
    /\ \A i \in 1 .. Len(ms) - 1 : Follows(ms[i], ms[i + 1])

LEMMA LastOf ==
    ASSUME NEW S, NEW s \in Seq(S), s # <<>>
    PROVE  Len(s) \in DOMAIN s /\ Last(s) = s[Len(s)] /\ Last(s) \in S
<1>1. Len(s) \in Nat \ {0} /\ DOMAIN s = 1 .. Len(s)
  BY EmptySeq, LenProperties
<1> QED
  BY <1>1, ElementOfSeq DEF Last

\* A message that may stand below the last one, or the first question.
LEMMA OneMoreMessage ==
    ASSUME NEW ms \in Seq(Messages), NEW m \in Messages, Conversation(ms),
           ms # <<>> => Follows(Last(ms), m),
           ms = <<>> => m.kind = "question" /\ m.ask = 1
    PROVE  /\ Append(ms, m) \in Seq(Messages) /\ Append(ms, m) # <<>>
           /\ Len(Append(ms, m)) = Len(ms) + 1 /\ Last(Append(ms, m)) = m
           /\ \A i \in DOMAIN Append(ms, m) :
                (i \in DOMAIN ms /\ Append(ms, m)[i] = ms[i]) \/ (i = Len(ms) + 1 /\ Append(ms, m)[i] = m)
           /\ Conversation(Append(ms, m))
<1> DEFINE new == Append(ms, m)
<1>1. /\ new \in Seq(Messages) /\ Len(new) = Len(ms) + 1 /\ new[Len(ms) + 1] = m
      /\ \A i \in 1 .. Len(ms) : new[i] = ms[i]
  BY AppendProperties
<1>2. DOMAIN new = 1 .. Len(ms) + 1 /\ DOMAIN ms = 1 .. Len(ms) /\ Len(ms) \in Nat
  BY <1>1, LenProperties
<1> HIDE DEF new
<1>3. new # <<>> /\ Last(new) = m
  <2>1. new # <<>>
    BY <1>1, <1>2
  <2> QED
    BY <1>1, <2>1, LastOf
<1>4. \A i \in DOMAIN new : (i \in DOMAIN ms /\ new[i] = ms[i]) \/ (i = Len(ms) + 1 /\ new[i] = m)
  BY <1>1, <1>2
<1>5. Conversation(new)
  <2>1. new[1].kind = "question" /\ new[1].ask = 1
    <3>1. CASE ms = <<>>
      <4>1. Len(ms) = 0
        BY <3>1
      <4> QED
        BY <1>1, <3>1, <4>1
    <3>2. CASE ms # <<>>
      <4>1. 1 \in 1 .. Len(ms)
        BY <3>2, EmptySeq
      <4> QED
        BY <1>1, <3>2, <4>1 DEF Conversation
    <3> QED
      BY <3>1, <3>2
  <2>2. ASSUME NEW i \in 1 .. Len(new) - 1 PROVE Follows(new[i], new[i + 1])
    <3>1. CASE i = Len(ms)
      <4>1. ms # <<>>
        BY <1>2, <2>2, <3>1
      <4>2. new[i] = Last(ms) /\ new[i + 1] = m
        BY <1>1, <1>2, <2>2, <3>1, <4>1, LastOf
      <4> QED
        BY <4>1, <4>2
    <3>2. CASE i # Len(ms)
      <4>0. i \in Nat /\ 1 <= i /\ i <= Len(ms) /\ Len(ms) \in Nat
        BY <1>1, <1>2
      <4>1. i \in 1 .. Len(ms) - 1 /\ i + 1 \in 1 .. Len(ms) /\ i \in 1 .. Len(ms)
        BY <4>0, <3>2
      <4> QED
        BY <1>1, <4>1 DEF Conversation
    <3> QED
      BY <3>1, <3>2
  <2> QED
    BY <2>1, <2>2 DEF Conversation
<1> QED
  BY <1>1, <1>3, <1>4, <1>5 DEF new

\* The message that is streamed grows, or the answer takes its place.
LEMMA LastMessageReplaced ==
    ASSUME NEW ms \in Seq(Messages), ms # <<>>, NEW m \in Messages, Conversation(ms),
           Last(ms).kind = "streaming", m.kind \in {"streaming", "final"}, m.ask = Last(ms).ask,
           NEW new, new = [ms EXCEPT ![Len(ms)] = m]
    PROVE  /\ new \in Seq(Messages) /\ new # <<>> /\ Len(new) = Len(ms) /\ Last(new) = m
           /\ DOMAIN new = DOMAIN ms
           /\ \A i \in DOMAIN new : new[i] = IF i = Len(ms) THEN m ELSE ms[i]
           /\ Conversation(new)
<1>1. DOMAIN ms = 1 .. Len(ms) /\ Len(ms) \in Nat \ {0} /\ Last(ms) = ms[Len(ms)]
  BY LenProperties, EmptySeq, LastOf
<1>2. /\ new \in Seq(Messages) /\ Len(new) = Len(ms)
      /\ \A i \in 1 .. Len(ms) : new[i] = IF i = Len(ms) THEN m ELSE ms[i]
  BY <1>1, ExceptSeq
<1>3. DOMAIN new = 1 .. Len(ms) /\ new # <<>>
  BY <1>1, <1>2, LenProperties
<1>4. Last(new) = m
  BY <1>1, <1>2, <1>3, LastOf
<1>5. Conversation(new)
  <2>1. new[1].kind = "question" /\ new[1].ask = 1
    <3>1. Len(ms) # 1
      BY <1>1 DEF Conversation
    <3> QED
      BY <1>1, <1>2, <3>1 DEF Conversation
  <2>2. ASSUME NEW i \in 1 .. Len(new) - 1 PROVE Follows(new[i], new[i + 1])
    <3>0. i \in Nat /\ 1 <= i /\ i <= Len(ms) - 1 /\ Len(ms) \in Nat
      BY <1>1, <1>2
    <3>1. i \in 1 .. Len(ms) - 1 /\ i \in 1 .. Len(ms) /\ i + 1 \in 1 .. Len(ms) /\ i # Len(ms)
      BY <3>0
    <3>2. Follows(ms[i], ms[i + 1]) /\ new[i] = ms[i]
      BY <1>2, <3>1 DEF Conversation
    <3>3. CASE i + 1 = Len(ms)
      <4>1. new[i + 1] = m /\ ms[i + 1] = Last(ms)
        BY <1>1, <1>2, <3>1, <3>3
      <4> QED
        BY <3>2, <4>1 DEF Follows
    <3>4. CASE i + 1 # Len(ms)
      BY <1>2, <3>1, <3>2, <3>4
    <3> QED
      BY <3>3, <3>4
  <2> QED
    BY <2>1, <2>2 DEF Conversation
<1> QED
  BY <1>1, <1>2, <1>3, <1>4, <1>5

LEMMA ChatInitially == ChatInit => ChatInvariant
<1> SUFFICES ASSUME ChatInit PROVE ChatInvariant
  OBVIOUS
<1> USE ChatAssumption DEF ChatInit
<1>1. messages \in Seq(Messages) /\ wire \in Seq(Events) /\ DOMAIN messages = {} /\ DOMAIN wire = {}
      /\ Len(messages) = 0
  OBVIOUS
<1>2. ClientInvariant
  <2>1. chatAsked \in 0 .. MaxQuestions /\ current = 0 /\ chatAsked = 0
    OBVIOUS
  <2>2. isLoading = (current # 0) /\ isStreaming = (current # 0 /\ streaming # 0)
    OBVIOUS
  <2> QED
    BY <1>1, <2>1, <2>2 DEF ClientInvariant
<1>3. ServerInvariant
  <2>1. \A a \in Questions : a > chatAsked
    BY DEF Questions
  <2> QED
    BY <2>1 DEF ServerInvariant, Stages
<1>4. WireInvariant
  BY <1>1 DEF WireInvariant
<1>5. ConversationInOrder /\ FinalIsTheResponse
  BY <1>1 DEF ConversationInOrder, FinalIsTheResponse
<1> QED
  BY <1>2, <1>3, <1>4, <1>5 DEF ChatInvariant

\* A step of the server for one question: it emits at most one event, of that question, and
\* the answer that a done event carries is the one it has ended with.
LEMMA ServerStepKeeps ==
    ASSUME ChatInvariant, UNCHANGED client, NEW a \in Questions,
           chatStage[a] \notin {"new", "ended"},
           NEW s \in Stages \ {"new"}, chatStage' = [chatStage EXCEPT ![a] = s],
           NEW n \in BOOLEAN, noticed' = [noticed EXCEPT ![a] = n],
           NEW p \in 0 .. MaxParts, parts' = [parts EXCEPT ![a] = p],
           NEW fs \in SUBSET FilterKinds, filters' = [filters EXCEPT ![a] = fs],
           NEW o \in {"none", "done", "error"}, ended' = [ended EXCEPT ![a] = o],
           o # "none" => s = "ended",
           s \in {"intent", "page", "summary"} => fs = {},
           s \in {"intent", "page", "summary", "records"} => ~n,
           n => "structured" \notin fs,
           \/ UNCHANGED wire
           \/ \E e \in Events : /\ Emits(a, e)
                                /\ e.event = "done" => o = "done" /\ e.text \in Answers(a)'
    PROVE  ChatInvariant'
<1>0. UNCHANGED <<messages, isLoading, isStreaming, streaming, current, chatAsked>>
  BY DEF client
<1>1. ClientInvariant'
  BY <1>0 DEF ChatInvariant, ClientInvariant
<1>2. ServerInvariant'
  <2>1. a <= chatAsked
    BY DEF ChatInvariant, ServerInvariant, ClientInvariant, Questions
  <2>2. /\ chatStage' \in [Questions -> Stages] /\ noticed' \in [Questions -> BOOLEAN]
        /\ parts' \in [Questions -> 0 .. MaxParts] /\ filters' \in [Questions -> SUBSET FilterKinds]
        /\ ended' \in [Questions -> {"none", "done", "error"}]
    BY DEF ChatInvariant, ServerInvariant
  <2>3. ASSUME NEW b \in Questions
        PROVE  /\ chatStage'[b] = "new" <=> b > chatAsked'
               /\ chatStage'[b] \in {"new", "intent", "page", "summary"} => filters'[b] = {}
               /\ chatStage'[b] \in {"new", "intent", "page", "summary", "records"} => ~noticed'[b]
               /\ noticed'[b] => "structured" \notin filters'[b]
               /\ ended'[b] # "none" => chatStage'[b] = "ended"
    <3>1. CASE b = a
      <4>1. chatStage'[b] = s /\ noticed'[b] = n /\ filters'[b] = fs /\ ended'[b] = o
        BY <3>1 DEF ChatInvariant, ServerInvariant
      <4>2. ~(b > chatAsked')
        BY <1>0, <2>1, <3>1 DEF ChatInvariant, ClientInvariant, Questions
      <4> QED
        BY <4>1, <4>2
    <3>2. CASE b # a
      BY <1>0, <3>2 DEF ChatInvariant, ServerInvariant
    <3> QED
      BY <3>1, <3>2
  <2> QED
    BY <2>2, <2>3 DEF ServerInvariant
<1>3. \A b \in Questions : ended[b] = "done" => ended'[b] = "done" /\ Answers(b)' = Answers(b)
  <2> SUFFICES ASSUME NEW b \in Questions, ended[b] = "done" PROVE ended'[b] = "done" /\ Answers(b)' = Answers(b)
    OBVIOUS
  <2>1. b # a
    BY DEF ChatInvariant, ServerInvariant
  <2>2. ended'[b] = ended[b] /\ noticed'[b] = noticed[b] /\ parts'[b] = parts[b]
    BY <2>1 DEF ChatInvariant, ServerInvariant
  <2> QED
    BY <2>2 DEF Answers, AnswerOf, Written
<1>4. WireInvariant'
  <2>1. wire # <<>> => current \in Questions
    BY DEF ChatInvariant, WireInvariant, ClientInvariant, Questions
  <2>2. CASE UNCHANGED wire
    <3>1. wire \in Seq(Events) /\ (current = 0 => wire = <<>>)
      BY DEF ChatInvariant, WireInvariant
    <3>2. ASSUME NEW k \in DOMAIN wire, wire[k].event = "done"
          PROVE  ended'[current] = "done" /\ wire[k].text \in Answers(current)'
      <4>1. wire # <<>>
        BY <3>2
      <4>2. ended[current] = "done" /\ wire[k].text \in Answers(current)
        BY <3>2 DEF ChatInvariant, WireInvariant
      <4> QED
        BY <1>0, <1>3, <2>1, <4>1, <4>2 DEF Answers, AnswerOf, Written
    <3> QED
      BY <1>0, <2>2, <3>1, <3>2 DEF WireInvariant, Answers, AnswerOf, Written
  <2>3. CASE \E e \in Events : /\ current = a /\ wire' = Append(wire, e)
                               /\ e.event = "done" => o = "done" /\ e.text \in Answers(a)'
    <3>1. PICK e \in Events : /\ current = a /\ wire' = Append(wire, e)
                              /\ e.event = "done" => o = "done" /\ e.text \in Answers(a)'
      BY <2>3
    <3>2. /\ wire' \in Seq(Events) /\ wire \in Seq(Events)
          /\ DOMAIN wire' = 1 .. Len(wire) + 1 /\ DOMAIN wire = 1 .. Len(wire) /\ Len(wire) \in Nat
          /\ \A k \in 1 .. Len(wire) : wire'[k] = wire[k]
          /\ wire'[Len(wire) + 1] = e
      BY <3>1, AppendProperties, LenProperties DEF ChatInvariant, WireInvariant
    <3>3. ASSUME NEW k \in DOMAIN wire', wire'[k].event = "done"
          PROVE  ended'[a] = "done" /\ wire'[k].text \in Answers(a)'
      <4>1. CASE k \in DOMAIN wire
        <5>1. ended[a] = "done" /\ wire[k].text \in Answers(a)
          BY <3>1, <3>2, <3>3, <4>1 DEF ChatInvariant, WireInvariant
        <5> QED
          BY <1>3, <3>2, <4>1, <5>1
      <4>2. CASE k = Len(wire) + 1
        <5>1. ended'[a] = o
          BY DEF ChatInvariant, ServerInvariant
        <5> QED
          BY <3>1, <3>2, <3>3, <4>2, <5>1
      <4> QED
        BY <3>2, <4>1, <4>2
    <3>4. current' = a /\ a # 0
      BY <1>0, <3>1 DEF Questions
    <3> QED
      BY <3>2, <3>3, <3>4 DEF WireInvariant
  <2> QED
    BY <2>2, <2>3 DEF Emits
<1>5. ConversationInOrder'
  BY <1>0 DEF ChatInvariant, ConversationInOrder
<1>6. FinalIsTheResponse'
  <2> SUFFICES ASSUME NEW i \in DOMAIN messages, messages[i].kind = "final"
               PROVE  messages[i].text \in Answers(messages[i].ask)' /\ ended'[messages[i].ask] = "done"
    BY <1>0 DEF FinalIsTheResponse, Answers
  <2>1. messages[i].text \in Answers(messages[i].ask) /\ ended[messages[i].ask] = "done"
    BY DEF ChatInvariant, FinalIsTheResponse, Answers
  <2>2. messages[i].ask \in Questions
    <3>1. messages[i] \in Messages
      BY ElementOfSeq, LenProperties DEF ChatInvariant, ClientInvariant
    <3> QED
      BY <3>1 DEF Messages
  <2> QED
    BY <1>0, <1>3, <2>1, <2>2 DEF Answers, AnswerOf, Written
<1> QED
  BY <1>1, <1>2, <1>4, <1>5, <1>6 DEF ChatInvariant

LEMMA AnswersAreTexts ==
    ASSUME ServerInvariant, NEW a \in Questions
    PROVE  Answers(a) \subseteq Seq(Pieces)
<1>1. <<Ready>> \in Seq(Pieces) /\ <<Notice>> \in Seq(Pieces) /\ Part \in Pieces
  BY DEF Pieces
<1>2. Written(a) \in Seq(Pieces)
  <2>1. parts[a] \in Nat
    BY DEF ServerInvariant
  <2>2. Written(a) \in [1 .. parts[a] -> Pieces]
    BY <1>1 DEF Written
  <2>3. \A S : \A n \in Nat : \A g \in [1 .. n -> S] : g \in Seq(S)
    BY SeqDef
  <2> QED
    BY <2>1, <2>2, <2>3
<1>3. \A t \in Seq(Pieces) : <<Notice>> \o t \in Seq(Pieces)
  BY <1>1, ConcatProperties
<1> QED
  BY <1>1, <1>2, <1>3 DEF Answers, AnswerOf

\* What a step of the server for a leaves, written as the lemma above wants it.
LEMMA SameForOne ==
    ASSUME ServerInvariant, NEW a \in Questions
    PROVE  /\ noticed = [noticed EXCEPT ![a] = noticed[a]] /\ noticed[a] \in BOOLEAN
           /\ parts = [parts EXCEPT ![a] = parts[a]] /\ parts[a] \in 0 .. MaxParts
           /\ filters = [filters EXCEPT ![a] = filters[a]] /\ filters[a] \in SUBSET FilterKinds
           /\ ended = [ended EXCEPT ![a] = ended[a]] /\ ended[a] \in {"none", "done", "error"}
           /\ noticed[a] => "structured" \notin filters[a]
           /\ chatStage[a] # "ended" => ended[a] = "none"
BY DEF ServerInvariant

\* The server is at work on the question.
AtWork(a) == chatStage[a] \notin {"new", "ended"}

LEMMA DoneKeeps ==
    ASSUME ChatInvariant, UNCHANGED client, NEW a \in Questions, AtWork(a),
           NEW t \in {<<Ready>>, Written(a)}, Done(a, t), UNCHANGED <<noticed, parts, filters>>
    PROVE  ChatInvariant'
<1> DEFINE e == Event("done", AnswerOf(a, t))
<1>1. e \in Events /\ e.event = "done" /\ e.text \in Answers(a)
  <2>1. AnswerOf(a, t) \in Answers(a)
    BY DEF Answers
  <2>2. Answers(a) \subseteq Seq(Pieces)
    BY AnswersAreTexts DEF ChatInvariant
  <2> QED
    BY <2>1, <2>2 DEF Event, Events
<1>2. Answers(a)' = Answers(a)
  BY DEF Answers, AnswerOf, Written
<1>3. /\ Emits(a, e)
      /\ chatStage' = [chatStage EXCEPT ![a] = "ended"] /\ ended' = [ended EXCEPT ![a] = "done"]
  BY DEF Done
<1> HIDE DEF e
<1>4. \E d \in Events : Emits(a, d) /\ (d.event = "done" => "done" = "done" /\ d.text \in Answers(a)')
  BY <1>1, <1>2, <1>3
<1>5. "ended" \in Stages \ {"new"}
  BY DEF Stages
<1> QED
  BY <1>3, <1>4, <1>5, SameForOne, ServerStepKeeps DEF ChatInvariant, AtWork

LEMMA ChatFailsKeeps ==
    ASSUME ChatInvariant, UNCHANGED client, NEW a \in Questions, AtWork(a),
           ChatFails(a), UNCHANGED <<noticed, parts, filters>>
    PROVE  ChatInvariant'
<1> DEFINE e == Event("error", <<>>)
<1>1. e \in Events /\ e.event # "done"
  BY DEF Event, Events
<1>2. /\ Emits(a, e)
      /\ chatStage' = [chatStage EXCEPT ![a] = "ended"] /\ ended' = [ended EXCEPT ![a] = "error"]
  BY DEF ChatFails
<1> HIDE DEF e
<1>3. \E d \in Events : Emits(a, d) /\ (d.event = "done" => "error" = "done" /\ d.text \in Answers(a)')
  BY <1>1, <1>2
<1>4. "ended" \in Stages \ {"new"}
  BY DEF Stages
<1> QED
  BY <1>2, <1>3, <1>4, SameForOne, ServerStepKeeps DEF ChatInvariant, AtWork

LEMMA ContinuesKeeps ==
    ASSUME ChatInvariant, UNCHANGED client, NEW a \in Questions, AtWork(a),
           NEW s \in {"records", "page", "summary", "documents", "narrate", "write"}, Continues(a, s),
           NEW fs \in SUBSET FilterKinds, filters' = [filters EXCEPT ![a] = fs],
           s \in {"page", "summary"} => fs = {}, s \in {"page", "summary", "records"} => ~noticed[a],
           noticed[a] => "structured" \notin fs,
           UNCHANGED <<noticed, parts>>
    PROVE  ChatInvariant'
<1>1. chatStage' = [chatStage EXCEPT ![a] = s] /\ UNCHANGED wire /\ ended' = ended
  BY DEF Continues
<1>2. s \in Stages \ {"new"}
  BY DEF Stages
<1>3. ended[a] = "none"
  BY SameForOne DEF AtWork, ChatInvariant
<1> QED
  BY <1>1, <1>2, <1>3, SameForOne, ServerStepKeeps DEF ChatInvariant, AtWork

\* The notice goes with filters that are no structured ones.
LEMMA SendNoticeKeeps ==
    ASSUME ChatInvariant, UNCHANGED client, NEW a \in Questions, AtWork(a),
           "structured" \notin filters[a], SendNotice(a), UNCHANGED <<parts, filters>>
    PROVE  ChatInvariant'
<1> DEFINE e == Event("delta", <<Notice>>)
<1>1. e \in Events /\ e.event # "done"
  <2>1. <<Notice>> \in Seq(Pieces)
    BY DEF Pieces
  <2> QED
    BY <2>1 DEF Event, Events
<1>2. /\ Emits(a, e) /\ noticed' = [noticed EXCEPT ![a] = TRUE]
      /\ chatStage' = [chatStage EXCEPT ![a] = "documents"] /\ ended' = ended
  BY DEF SendNotice
<1> HIDE DEF e
<1>3. \E d \in Events : Emits(a, d) /\ (d.event = "done" => ended[a] = "done" /\ d.text \in Answers(a)')
  BY <1>1, <1>2
<1>4. "documents" \in Stages \ {"new"}
  BY DEF Stages
<1>5. ended[a] = "none"
  BY SameForOne DEF AtWork, ChatInvariant
<1>6. PICK n \in BOOLEAN : n = TRUE
  OBVIOUS
<1>7. /\ noticed' = [noticed EXCEPT ![a] = n]
      /\ parts' = [parts EXCEPT ![a] = parts[a]] /\ parts[a] \in 0 .. MaxParts
      /\ filters' = [filters EXCEPT ![a] = filters[a]] /\ filters[a] \in SUBSET FilterKinds
      /\ ended' = [ended EXCEPT ![a] = ended[a]] /\ ended[a] \in {"none", "done", "error"}
  BY <1>2, <1>6, SameForOne DEF ChatInvariant
<1> QED
  BY <1>2, <1>3, <1>4, <1>5, <1>7, ServerStepKeeps DEF AtWork

LEMMA ModelWritesKeeps ==
    ASSUME ChatInvariant, NEW a \in Questions, ModelWrites(a)
    PROVE  ChatInvariant'
<1> DEFINE e == Event("delta", <<Part>>)
<1>1. e \in Events /\ e.event # "done"
  <2>1. <<Part>> \in Seq(Pieces)
    BY DEF Pieces
  <2> QED
    BY <2>1 DEF Event, Events
<1>2. /\ Emits(a, e) /\ parts' = [parts EXCEPT ![a] = parts[a] + 1] /\ parts[a] < MaxParts
      /\ chatStage[a] \in {"narrate", "write"}
      /\ UNCHANGED <<client, chatStage, noticed, filters, ended>>
  BY DEF ModelWrites
<1> HIDE DEF e
<1>3. \E d \in Events : Emits(a, d) /\ (d.event = "done" => ended[a] = "done" /\ d.text \in Answers(a)')
  BY <1>1, <1>2
<1>4. chatStage[a] \in Stages \ {"new"} /\ chatStage = [chatStage EXCEPT ![a] = chatStage[a]]
  BY <1>2 DEF ChatInvariant, ServerInvariant
<1>5. parts[a] + 1 \in 0 .. MaxParts
  <2>1. parts[a] \in 0 .. MaxParts /\ MaxParts \in Nat
    BY ChatAssumption DEF ChatInvariant, ServerInvariant
  <2> QED
    BY <1>2, <2>1
<1>6. ended[a] = "none"
  BY <1>2, SameForOne DEF ChatInvariant
<1>7. chatStage' = [chatStage EXCEPT ![a] = chatStage[a]] /\ noticed' = [noticed EXCEPT ![a] = noticed[a]]
      /\ filters' = [filters EXCEPT ![a] = filters[a]] /\ ended' = [ended EXCEPT ![a] = ended[a]]
  BY <1>2, <1>4, SameForOne DEF ChatInvariant
<1> QED
  BY <1>2, <1>3, <1>4, <1>5, <1>6, <1>7, SameForOne, ServerStepKeeps DEF ChatInvariant

\* Every step of the server for a question.
LEMMA ServerKeeps ==
    ASSUME ChatInvariant, NEW a \in Questions, Server(a)
    PROVE  ChatInvariant'
<1> USE DEF AtWork
<1>0. /\ filters = [filters EXCEPT ![a] = filters[a]] /\ filters[a] \in SUBSET FilterKinds
      /\ noticed[a] => "structured" \notin filters[a]
  BY SameForOne DEF ChatInvariant
<1>1. CASE Classify(a)
  <2>1. chatStage[a] = "intent" /\ UNCHANGED <<client, noticed, parts>>
    BY <1>1 DEF Classify
  <2>2. filters[a] = {} /\ ~noticed[a]
    BY <2>1 DEF ChatInvariant, ServerInvariant
  <2>3. CASE \E fs \in SUBSET FilterKinds : filters' = [filters EXCEPT ![a] = fs] /\ Continues(a, "records")
    BY <2>1, <2>2, <2>3, ContinuesKeeps
  <2>4. CASE UNCHANGED filters /\ \E s \in {"page", "summary", "documents"} : Continues(a, s)
    BY <1>0, <2>1, <2>2, <2>4, ContinuesKeeps
  <2>5. CASE UNCHANGED filters /\ Done(a, <<Ready>>)
    BY <2>1, <2>5, DoneKeeps
  <2>6. CASE UNCHANGED filters /\ ChatFails(a)
    BY <2>1, <2>6, ChatFailsKeeps
  <2> QED
    BY <1>1, <2>3, <2>4, <2>5, <2>6 DEF Classify
<1>2. CASE SearchRecords(a)
  <2>1. chatStage[a] = "records" /\ UNCHANGED <<client, parts, filters>>
    BY <1>2 DEF SearchRecords
  <2>2. CASE FallsBack(a) /\ SendNotice(a)
    BY <2>1, <2>2, SendNoticeKeeps DEF FallsBack
  <2>3. CASE UNCHANGED noticed /\ Done(a, <<Ready>>)
    BY <2>1, <2>3, DoneKeeps
  <2>4. CASE UNCHANGED noticed /\ Continues(a, "narrate")
    BY <1>0, <2>1, <2>4, ContinuesKeeps
  <2>5. CASE UNCHANGED noticed /\ ChatFails(a)
    BY <2>1, <2>5, ChatFailsKeeps
  <2> QED
    BY <1>2, <2>2, <2>3, <2>4, <2>5 DEF SearchRecords
<1>3. CASE TurnPage(a)
  <2>1. chatStage[a] = "page" /\ UNCHANGED <<client, noticed, parts, filters>>
    BY <1>3 DEF TurnPage
  <2> QED
    BY <1>0, <1>3, <2>1, DoneKeeps, ContinuesKeeps, ChatFailsKeeps DEF TurnPage
<1>4. CASE Summarize(a)
  <2>1. chatStage[a] = "summary" /\ UNCHANGED <<client, parts, filters>>
    BY <1>4 DEF Summarize
  <2>2. filters[a] = {}
    BY <2>1 DEF ChatInvariant, ServerInvariant
  <2>3. CASE SendNotice(a)
    BY <2>1, <2>2, <2>3, SendNoticeKeeps
  <2>4. CASE UNCHANGED noticed /\ Done(a, <<Ready>>)
    BY <2>1, <2>4, DoneKeeps
  <2>5. CASE UNCHANGED noticed /\ \E s \in {"narrate", "write"} : Continues(a, s)
    BY <1>0, <2>1, <2>5, ContinuesKeeps
  <2>6. CASE UNCHANGED noticed /\ ChatFails(a)
    BY <2>1, <2>6, ChatFailsKeeps
  <2> QED
    BY <1>4, <2>3, <2>4, <2>5, <2>6 DEF Summarize
<1>5. CASE SearchDocuments(a)
  <2>1. chatStage[a] = "documents" /\ UNCHANGED <<client, noticed, parts, filters>>
    BY <1>5 DEF SearchDocuments
  <2> QED
    BY <1>0, <1>5, <2>1, DoneKeeps, ContinuesKeeps, ChatFailsKeeps DEF SearchDocuments
<1>6. CASE ModelEnds(a)
  BY <1>6, DoneKeeps DEF ModelEnds
<1>7. CASE ModelFails(a)
  BY <1>7, DoneKeeps, ChatFailsKeeps DEF ModelFails, NarrationFails
<1> QED
  BY <1>1, <1>2, <1>3, <1>4, <1>5, <1>6, <1>7, ModelWritesKeeps DEF Server

\* What is said next goes below: the conversation stays in order if it may stand there.
LEMMA SaidNext ==
    ASSUME ChatInvariant, NEW m \in Messages, messages' = Append(messages, m),
           UNCHANGED <<noticed, parts, ended>>,
           chatAsked \in Nat, chatAsked' \in Nat, chatAsked <= chatAsked', m.ask = chatAsked',
           messages # <<>> => Follows(Last(messages), m),
           messages = <<>> => m.kind = "question" /\ m.ask = 1,
           m.kind = "final" => ended[m.ask] = "done" /\ m.text \in Answers(m.ask),
           current' = 0 <=> m.kind \in {"final", "error"}
    PROVE  /\ messages' \in Seq(Messages) /\ messages' # <<>>
           /\ Len(messages') = Len(messages) + 1 /\ Last(messages') = m
           /\ \A i \in DOMAIN messages' : messages'[i].ask <= chatAsked'
           /\ ConversationInOrder' /\ FinalIsTheResponse'
<1>1. messages \in Seq(Messages) /\ Conversation(messages)
  BY DEF ChatInvariant, ClientInvariant, ConversationInOrder, Conversation
<1>2. /\ messages' \in Seq(Messages) /\ messages' # <<>>
      /\ Len(messages') = Len(messages) + 1 /\ Last(messages') = m
      /\ \A i \in DOMAIN messages' :
           (i \in DOMAIN messages /\ messages'[i] = messages[i]) \/ (i = Len(messages) + 1 /\ messages'[i] = m)
      /\ Conversation(messages')
  BY <1>1, OneMoreMessage
<1>3. ASSUME NEW i \in DOMAIN messages' PROVE messages'[i].ask <= chatAsked'
  <2>1. CASE i \in DOMAIN messages /\ messages'[i] = messages[i]
    <3>1. messages[i].ask <= chatAsked /\ messages[i].ask \in Nat
      <4>1. messages[i] \in Messages
        BY <1>1, <2>1, ElementOfSeq, LenProperties
      <4> QED
        BY <2>1, <4>1 DEF Messages, Questions, ChatInvariant, ClientInvariant
    <3> QED
      BY <2>1, <3>1
  <2> QED
    BY <1>2, <2>1
<1>4. ConversationInOrder'
  BY <1>2 DEF ConversationInOrder, Conversation
<1>5. FinalIsTheResponse'
  <2> SUFFICES ASSUME NEW i \in DOMAIN messages', messages'[i].kind = "final"
               PROVE  messages'[i].text \in Answers(messages'[i].ask) /\ ended[messages'[i].ask] = "done"
    BY DEF FinalIsTheResponse, Answers, AnswerOf, Written
  <2>1. CASE i \in DOMAIN messages /\ messages'[i] = messages[i]
    BY <2>1 DEF ChatInvariant, FinalIsTheResponse, Answers
  <2> QED
    BY <1>2, <2>1
<1> QED
  BY <1>2, <1>3, <1>4, <1>5

\* The message that is streamed is the last; what takes its place is about the same question.
LEMMA SaidInstead ==
    ASSUME ChatInvariant, NEW m \in Messages, current # 0, streaming # 0,
           messages' = [messages EXCEPT ![streaming] = m],
           UNCHANGED <<noticed, parts, ended, chatAsked>>, m.ask = chatAsked,
           m.kind \in {"streaming", "final"},
           m.kind = "final" => ended[m.ask] = "done" /\ m.text \in Answers(m.ask),
           current' = 0 <=> m.kind = "final"
    PROVE  /\ messages' \in Seq(Messages) /\ messages' # <<>>
           /\ Len(messages') = Len(messages) /\ Last(messages') = m
           /\ \A i \in DOMAIN messages' : messages'[i].ask <= chatAsked'
           /\ ConversationInOrder' /\ FinalIsTheResponse'
<1>0. chatAsked \in Nat /\ chatAsked > 0
  BY ChatAssumption DEF ChatInvariant, ClientInvariant
<1>1. /\ messages \in Seq(Messages) /\ Conversation(messages) /\ messages # <<>>
      /\ Last(messages).ask = chatAsked /\ streaming = Len(messages) /\ Last(messages).kind = "streaming"
  BY <1>0 DEF ChatInvariant, ClientInvariant, ConversationInOrder, Conversation
<1>2. /\ messages' \in Seq(Messages) /\ messages' # <<>>
      /\ Len(messages') = Len(messages) /\ Last(messages') = m /\ DOMAIN messages' = DOMAIN messages
      /\ \A i \in DOMAIN messages' : messages'[i] = IF i = Len(messages) THEN m ELSE messages[i]
      /\ Conversation(messages')
  BY <1>1, LastMessageReplaced
<1>3. \A i \in DOMAIN messages' : messages'[i].ask <= chatAsked'
  BY <1>0, <1>2 DEF ChatInvariant, ClientInvariant
<1>4. ConversationInOrder'
  BY <1>2 DEF ConversationInOrder, Conversation
<1>5. FinalIsTheResponse'
  <2> SUFFICES ASSUME NEW i \in DOMAIN messages', messages'[i].kind = "final"
               PROVE  messages'[i].text \in Answers(messages'[i].ask) /\ ended[messages'[i].ask] = "done"
    BY DEF FinalIsTheResponse, Answers, AnswerOf, Written
  <2>1. CASE i # Len(messages)
    BY <1>2, <2>1 DEF ChatInvariant, FinalIsTheResponse, Answers
  <2> QED
    BY <1>2, <2>1
<1> QED
  BY <1>2, <1>3, <1>4, <1>5

\* What is known of the last message.
LEMMA TheLastMessage ==
    ASSUME ChatInvariant
    PROVE  /\ chatAsked \in Nat /\ chatAsked <= MaxQuestions /\ MaxQuestions \in Nat
           /\ messages \in Seq(Messages)
           /\ chatAsked > 0 => messages # <<>> /\ Last(messages).ask = chatAsked
           /\ messages # <<>> => chatAsked > 0
           /\ current # 0 => /\ current = chatAsked /\ chatAsked > 0 /\ current \in Questions
                             /\ Last(messages).kind = IF streaming = 0 THEN "question" ELSE "streaming"
           /\ current = 0 /\ chatAsked > 0 => Last(messages).kind \in {"final", "error"}
<1>1. chatAsked \in Nat /\ chatAsked <= MaxQuestions /\ MaxQuestions \in Nat
  BY ChatAssumption DEF ChatInvariant, ClientInvariant
<1>2. messages \in Seq(Messages) /\ (chatAsked = 0 => messages = <<>>) /\ current \in {0, chatAsked}
  BY DEF ChatInvariant, ClientInvariant
<1>3. chatAsked > 0 => /\ messages # <<>> /\ Last(messages).ask = chatAsked
                       /\ current = 0 <=> Last(messages).kind \in {"final", "error"}
  BY DEF ChatInvariant, ConversationInOrder
<1>4. current # 0 => Last(messages).kind = IF streaming = 0 THEN "question" ELSE "streaming"
  BY DEF ChatInvariant, ClientInvariant
<1> QED
  BY <1>1, <1>2, <1>3, <1>4 DEF Questions

LEMMA SendMessageKeeps ==
    ASSUME ChatInvariant, SendMessage
    PROVE  ChatInvariant'
<1> DEFINE m == Message("user", chatAsked + 1, <<>>, "question")
<1>1. /\ chatAsked < MaxQuestions /\ ~isLoading /\ chatAsked' = chatAsked + 1
      /\ messages' = Append(messages, m)
      /\ isLoading' = TRUE /\ current' = chatAsked + 1 /\ streaming' = 0 /\ wire' = <<>>
      /\ chatStage' = [chatStage EXCEPT ![chatAsked + 1] = "intent"]
      /\ isStreaming' = isStreaming
      /\ UNCHANGED <<noticed, parts, filters, ended>>
  BY DEF SendMessage, Free
<1>2. current = 0 /\ isStreaming = FALSE
  BY <1>1 DEF ChatInvariant, ClientInvariant
<1>3. /\ chatAsked \in Nat /\ chatAsked + 1 \in Questions /\ chatAsked + 1 \in 0 .. MaxQuestions
      /\ chatAsked + 1 # 0
  BY <1>1, TheLastMessage DEF Questions
<1>4. m \in Messages /\ m.kind = "question" /\ m.ask = chatAsked + 1
  BY <1>3 DEF Message, Messages
<1> HIDE DEF m
<1>5. messages # <<>> => Follows(Last(messages), m)
  BY <1>2, <1>4, TheLastMessage DEF Follows
<1>6. messages = <<>> => m.ask = 1
  BY <1>3, <1>4, TheLastMessage
<1>7. chatAsked' \in Nat /\ chatAsked <= chatAsked'
  BY <1>1, <1>3
<1>8. /\ messages' \in Seq(Messages) /\ messages' # <<>> /\ Last(messages') = m
      /\ \A i \in DOMAIN messages' : messages'[i].ask <= chatAsked'
      /\ ConversationInOrder' /\ FinalIsTheResponse'
  BY <1>1, <1>3, <1>4, <1>5, <1>6, <1>7, SaidNext
<1>9. ClientInvariant'
  <2>1. isLoading' = (current' # 0)
    BY <1>1, <1>3
  <2>2. isStreaming' = (current' # 0 /\ streaming' # 0)
    BY <1>1, <1>2
  <2> QED
    BY <1>1, <1>3, <1>4, <1>8, <2>1, <2>2 DEF ClientInvariant
<1>10. ServerInvariant'
  <2>1. chatStage' \in [Questions -> Stages]
    BY <1>1 DEF ChatInvariant, ServerInvariant, Stages
  <2>2. ASSUME NEW b \in Questions
        PROVE  /\ chatStage'[b] = "new" <=> b > chatAsked'
               /\ chatStage'[b] \in {"new", "intent", "page", "summary"} => filters[b] = {}
               /\ chatStage'[b] \in {"new", "intent", "page", "summary", "records"} => ~noticed[b]
               /\ ended[b] # "none" => chatStage'[b] = "ended"
    <3>1. b \in Nat /\ (chatStage[b] = "new" <=> b > chatAsked)
      BY DEF Questions, ChatInvariant, ServerInvariant
    <3>2. CASE b = chatAsked + 1
      <4>1. chatStage[b] = "new" /\ chatStage'[b] = "intent"
        BY <1>1, <1>3, <3>1, <3>2 DEF ChatInvariant, ServerInvariant
      <4> QED
        BY <1>1, <1>3, <3>2, <4>1 DEF ChatInvariant, ServerInvariant
    <3>3. CASE b # chatAsked + 1
      <4>1. chatStage'[b] = chatStage[b]
        BY <1>1, <3>3 DEF ChatInvariant, ServerInvariant
      <4>2. b > chatAsked <=> b > chatAsked + 1
        BY <1>3, <3>1, <3>3
      <4> QED
        BY <1>1, <3>1, <4>1, <4>2 DEF ChatInvariant, ServerInvariant
    <3> QED
      BY <3>2, <3>3
  <2> QED
    BY <1>1, <2>1, <2>2 DEF ChatInvariant, ServerInvariant
<1>11. WireInvariant'
  <2>1. wire' \in Seq(Events) /\ DOMAIN wire' = {} /\ wire' = <<>>
    BY <1>1
  <2> QED
    BY <2>1 DEF WireInvariant
<1> QED
  BY <1>8, <1>9, <1>10, <1>11 DEF ChatInvariant

\* A server that stays as it was.
LEMMA ServerStays ==
    ASSUME ServerInvariant, UNCHANGED server, UNCHANGED chatAsked
    PROVE  ServerInvariant' /\ UNCHANGED <<noticed, parts, ended>>
<1>1. UNCHANGED <<chatStage, noticed, parts, filters, ended>>
  BY DEF server
<1> QED
  BY <1>1 DEF ServerInvariant

\* The events that are left when one is read.
LEMMA OneEventRead ==
    ASSUME ChatInvariant, wire # <<>>, wire' = Tail(wire), current' = current, current # 0,
           UNCHANGED <<noticed, parts, ended>>
    PROVE  WireInvariant' /\ Head(wire) \in Events
<1>1. wire \in Seq(Events)
  BY DEF ChatInvariant, WireInvariant
<1>2. /\ wire' \in Seq(Events) /\ Head(wire) \in Events
      /\ Len(wire') = Len(wire) - 1 /\ \A k \in 1 .. Len(wire') : wire'[k] = wire[k + 1]
  BY <1>1, HeadTailProperties
<1>3. DOMAIN wire' = 1 .. Len(wire') /\ DOMAIN wire = 1 .. Len(wire) /\ Len(wire) \in Nat
  BY <1>1, <1>2, LenProperties
<1>4. ASSUME NEW k \in DOMAIN wire', wire'[k].event = "done"
      PROVE  ended[current] = "done" /\ wire'[k].text \in Answers(current)
  <2>1. k + 1 \in DOMAIN wire /\ wire'[k] = wire[k + 1]
    BY <1>2, <1>3
  <2> QED
    BY <1>4, <2>1 DEF ChatInvariant, WireInvariant
<1>5. Answers(current)' = Answers(current)
  BY DEF Answers, AnswerOf, Written
<1> QED
  BY <1>2, <1>4, <1>5 DEF WireInvariant

LEMMA ReceiveDeltaKeeps ==
    ASSUME ChatInvariant, ReceiveDelta
    PROVE  ChatInvariant'
<1>1. /\ current # 0 /\ wire # <<>> /\ wire' = Tail(wire)
      /\ UNCHANGED <<isLoading, current, chatAsked>> /\ UNCHANGED server
  BY DEF ReceiveDelta
<1>2. ServerInvariant' /\ UNCHANGED <<noticed, parts, ended>>
  BY <1>1, ServerStays DEF ChatInvariant
<1>3. WireInvariant' /\ Head(wire).text \in Seq(Pieces)
  BY <1>1, <1>2, OneEventRead DEF Events
<1>4. /\ current = chatAsked /\ chatAsked \in Nat /\ current \in Questions
      /\ messages \in Seq(Messages) /\ messages # <<>> /\ Last(messages).ask = chatAsked
      /\ Last(messages).kind = IF streaming = 0 THEN "question" ELSE "streaming"
  BY <1>1, TheLastMessage
<1>5. isLoading = (current # 0)
  BY DEF ChatInvariant, ClientInvariant
<1>6. CASE streaming = 0
  <2> DEFINE m == Message("assistant", current, Head(wire).text, "streaming")
  <2>1. messages' = Append(messages, m) /\ streaming' = Len(messages) + 1 /\ isStreaming' = TRUE
    BY <1>6 DEF ReceiveDelta
  <2>2. m \in Messages /\ m.kind = "streaming" /\ m.ask = chatAsked
    BY <1>3, <1>4 DEF Message, Messages
  <2> HIDE DEF m
  <2>3. Follows(Last(messages), m)
    BY <1>4, <1>6, <2>2 DEF Follows
  <2>4. /\ messages' \in Seq(Messages) /\ messages' # <<>> /\ Last(messages') = m
        /\ Len(messages') = Len(messages) + 1
        /\ \A i \in DOMAIN messages' : messages'[i].ask <= chatAsked'
        /\ ConversationInOrder' /\ FinalIsTheResponse'
    BY <1>1, <1>2, <1>4, <2>1, <2>2, <2>3, SaidNext
  <2>5. streaming' # 0
    <3>1. Len(messages) \in Nat
      BY <1>4, LenProperties
    <3> QED
      BY <2>1, <3>1
  <2>6. isLoading' = (current' # 0) /\ isStreaming' = (current' # 0 /\ streaming' # 0)
    BY <1>1, <1>5, <2>1, <2>5
  <2>7. ClientInvariant'
    BY <1>1, <1>4, <2>1, <2>2, <2>4, <2>5, <2>6 DEF ChatInvariant, ClientInvariant
  <2> QED
    BY <1>2, <1>3, <2>4, <2>7 DEF ChatInvariant
<1>7. CASE streaming # 0
  <2>1. streaming = Len(messages) /\ messages[streaming] = Last(messages) /\ Last(messages) \in Messages
        /\ streaming \in DOMAIN messages
    BY <1>1, <1>4, <1>7, LastOf DEF ChatInvariant, ClientInvariant
  <2>2. PICK m : m = [Last(messages) EXCEPT !.text = Last(messages).text \o Head(wire).text]
    OBVIOUS
  <2>3. m \in Messages /\ m.kind = "streaming" /\ m.ask = chatAsked
    <3>1. Last(messages).text \o Head(wire).text \in Seq(Pieces)
      BY <1>3, <2>1, ConcatProperties DEF Messages
    <3> QED
      BY <1>4, <1>7, <2>1, <2>2, <3>1 DEF Messages
  <2>4. messages' = [messages EXCEPT ![streaming] = m] /\ UNCHANGED <<streaming, isStreaming>>
    <3>1. messages' = [messages EXCEPT ![streaming].text = @ \o Head(wire).text]
          /\ UNCHANGED <<streaming, isStreaming>>
      BY <1>7 DEF ReceiveDelta
    <3> QED
      BY <2>1, <2>2, <3>1
  <2>5. /\ messages' \in Seq(Messages) /\ messages' # <<>> /\ Last(messages') = m
        /\ Len(messages') = Len(messages)
        /\ \A i \in DOMAIN messages' : messages'[i].ask <= chatAsked'
        /\ ConversationInOrder' /\ FinalIsTheResponse'
    BY <1>1, <1>2, <1>7, <2>3, <2>4, SaidInstead
  <2>6. isLoading' = (current' # 0) /\ isStreaming' = (current' # 0 /\ streaming' # 0)
    BY <1>1, <2>4 DEF ChatInvariant, ClientInvariant
  <2>7. ClientInvariant'
    BY <1>1, <1>4, <1>7, <2>1, <2>3, <2>4, <2>5, <2>6 DEF ChatInvariant, ClientInvariant
  <2> QED
    BY <1>2, <1>3, <2>5, <2>7 DEF ChatInvariant
<1> QED
  BY <1>6, <1>7

\* The client comes to rest: nothing is waited for, nothing is read any more.
LEMMA AtRest ==
    ASSUME ChatInvariant, Settled, current' = 0, wire' = <<>>, UNCHANGED chatAsked, current # 0,
           messages' \in Seq(Messages), \A i \in DOMAIN messages' : messages'[i].ask <= chatAsked'
    PROVE  ClientInvariant' /\ WireInvariant'
<1>1. chatAsked' \in 0 .. MaxQuestions /\ chatAsked' # 0
  BY DEF ChatInvariant, ClientInvariant
<1>2. isLoading' = (current' # 0) /\ isStreaming' = (current' # 0 /\ streaming' # 0)
  BY DEF Settled
<1>3. wire' \in Seq(Events) /\ DOMAIN wire' = {}
  OBVIOUS
<1> QED
  BY <1>1, <1>2, <1>3 DEF ClientInvariant, WireInvariant

LEMMA ReceiveDoneKeeps ==
    ASSUME ChatInvariant, ReceiveDone
    PROVE  ChatInvariant'
<1> DEFINE m == Message("assistant", current, Head(wire).text, "final")
<1>1. /\ current # 0 /\ wire # <<>> /\ Head(wire).event = "done"
      /\ messages' = IF streaming # 0 THEN [messages EXCEPT ![streaming] = m] ELSE Append(messages, m)
      /\ Settled /\ wire' = <<>> /\ current' = 0 /\ chatAsked' = chatAsked /\ UNCHANGED server
  BY DEF ReceiveDone, ApplyResponse
<1>2. ServerInvariant' /\ UNCHANGED <<noticed, parts, ended>>
  BY <1>1, ServerStays DEF ChatInvariant
<1>3. /\ current = chatAsked /\ chatAsked \in Nat /\ current \in Questions
      /\ messages \in Seq(Messages) /\ messages # <<>> /\ Last(messages).ask = chatAsked
      /\ Last(messages).kind = IF streaming = 0 THEN "question" ELSE "streaming"
  BY <1>1, TheLastMessage
<1>4. ended[current] = "done" /\ Head(wire).text \in Answers(current) /\ Head(wire).text \in Seq(Pieces)
  <2>1. wire \in Seq(Events)
    BY DEF ChatInvariant, WireInvariant
  <2>2. 1 \in DOMAIN wire /\ Head(wire) = wire[1] /\ Head(wire) \in Events
    <3>1. Len(wire) \in Nat \ {0} /\ DOMAIN wire = 1 .. Len(wire)
      BY <1>1, <2>1, EmptySeq, LenProperties
    <3> QED
      BY <1>1, <2>1, <3>1, HeadTailProperties DEF Head
  <2> QED
    BY <1>1, <2>2 DEF ChatInvariant, WireInvariant, Events
<1>5. m \in Messages /\ m.kind = "final" /\ m.ask = chatAsked /\ m.text = Head(wire).text
  BY <1>3, <1>4 DEF Message, Messages
<1> HIDE DEF m
<1>6. /\ messages' \in Seq(Messages) /\ \A i \in DOMAIN messages' : messages'[i].ask <= chatAsked'
      /\ ConversationInOrder' /\ FinalIsTheResponse'
  <2>1. CASE streaming # 0
    BY <1>1, <1>2, <1>3, <1>4, <1>5, <2>1, SaidInstead
  <2>2. CASE streaming = 0
    <3>1. Follows(Last(messages), m)
      BY <1>3, <1>5, <2>2 DEF Follows
    <3> QED
      BY <1>1, <1>2, <1>3, <1>4, <1>5, <2>2, <3>1, SaidNext
  <2> QED
    BY <2>1, <2>2
<1>7. ClientInvariant' /\ WireInvariant'
  BY <1>1, <1>6, AtRest
<1> QED
  BY <1>2, <1>6, <1>7 DEF ChatInvariant

\* An error, the client's timer or a refusal: an error message closes the question.
LEMMA ThrownKeeps ==
    ASSUME ChatInvariant, current # 0, Thrown, UNCHANGED <<noticed, parts, filters, ended>>,
           chatStage' \in {chatStage, [chatStage EXCEPT ![current] = "ended"]}
    PROVE  ChatInvariant'
<1> DEFINE m == Message("assistant", current, <<>>, "error")
<1>1. /\ messages' = Append(messages, m) /\ Settled /\ wire' = <<>> /\ current' = 0
      /\ UNCHANGED chatAsked
  BY DEF Thrown
<1>2. /\ current = chatAsked /\ chatAsked \in Nat /\ current \in Questions
      /\ messages \in Seq(Messages) /\ messages # <<>> /\ Last(messages).ask = chatAsked
      /\ Last(messages).kind = IF streaming = 0 THEN "question" ELSE "streaming"
  BY TheLastMessage
<1>3. m \in Messages /\ m.kind = "error" /\ m.ask = chatAsked
  <2>1. <<>> \in Seq(Pieces)
    OBVIOUS
  <2> QED
    BY <1>2, <2>1 DEF Message, Messages
<1> HIDE DEF m
<1>4. Follows(Last(messages), m)
  BY <1>2, <1>3 DEF Follows
<1>5. /\ messages' \in Seq(Messages) /\ \A i \in DOMAIN messages' : messages'[i].ask <= chatAsked'
      /\ ConversationInOrder' /\ FinalIsTheResponse'
  BY <1>1, <1>2, <1>3, <1>4, SaidNext
<1>6. ClientInvariant' /\ WireInvariant'
  BY <1>1, <1>5, AtRest
<1>7. ServerInvariant'
  <2>1. CASE chatStage' = chatStage
    BY <1>1, <2>1 DEF ChatInvariant, ServerInvariant
  <2>2. CASE chatStage' = [chatStage EXCEPT ![current] = "ended"]
    <3>1. chatStage' \in [Questions -> Stages]
      BY <2>2 DEF ChatInvariant, ServerInvariant, Stages
    <3>2. chatStage[current] # "new"
      BY <1>2 DEF ChatInvariant, ServerInvariant
    <3>3. \A b \in Questions : chatStage'[b] = IF b = current THEN "ended" ELSE chatStage[b]
      BY <2>2 DEF ChatInvariant, ServerInvariant
    <3> QED
      BY <1>1, <3>1, <3>2, <3>3 DEF ChatInvariant, ServerInvariant
  <2> QED
    BY <2>1, <2>2
<1> QED
  BY <1>5, <1>6, <1>7 DEF ChatInvariant

LEMMA ChatKeeps == ChatInvariant /\ [ChatNext]_chatVars => ChatInvariant'
<1> SUFFICES ASSUME ChatInvariant, [ChatNext]_chatVars PROVE ChatInvariant'
  OBVIOUS
<1>1. CASE SendMessage
  BY <1>1, SendMessageKeeps
<1>2. CASE ReceiveDelta
  BY <1>2, ReceiveDeltaKeeps
<1>3. CASE ReceiveDone
  BY <1>3, ReceiveDoneKeeps
<1>4. CASE ReceiveError \/ ChatGivesUp
  <2>1. current # 0 /\ Thrown /\ UNCHANGED <<chatStage, noticed, parts, filters, ended>>
    BY <1>4 DEF ReceiveError, ChatGivesUp, server
  <2> QED
    BY <2>1, ThrownKeeps
<1>5. CASE Refused
  <2>1. /\ current # 0 /\ Thrown /\ UNCHANGED <<noticed, parts, filters, ended>>
        /\ chatStage' = [chatStage EXCEPT ![current] = "ended"]
    BY <1>5 DEF Refused
  <2> QED
    BY <2>1, ThrownKeeps
<1>6. CASE \E a \in Questions : Server(a)
  BY <1>6, ServerKeeps
<1>7. CASE UNCHANGED chatVars
  <2>1. /\ UNCHANGED <<messages, isLoading, isStreaming, streaming, current, chatAsked, wire>>
        /\ UNCHANGED <<chatStage, noticed, parts, filters, ended>>
    BY <1>7 DEF chatVars, client, server
  <2>2. ClientInvariant' /\ ServerInvariant' /\ ConversationInOrder'
    BY <2>1 DEF ChatInvariant, ClientInvariant, ServerInvariant, ConversationInOrder
  <2>3. WireInvariant' /\ FinalIsTheResponse'
    BY <2>1 DEF ChatInvariant, WireInvariant, FinalIsTheResponse, Answers, AnswerOf, Written
  <2> QED
    BY <2>2, <2>3 DEF ChatInvariant
<1> QED
  BY <1>1, <1>2, <1>3, <1>4, <1>5, <1>6, <1>7 DEF ChatNext, Client

LEMMA ChatInvariantHolds == ChatSpec => []ChatInvariant
BY ChatInitially, ChatKeeps, PTL DEF ChatSpec

\* The conversation is one the server led (AiChat): each question is followed by what was said
\* to it and nothing else, the answer that stays is the response's - with the notice of a
\* fallback, without what an abandoned stream or a broken narration wrote - and a record search
\* with structured filters is never answered from documents.
THEOREM ConversationIsTheServers == ChatSpec => []ChatSafe
<1>1. ChatInvariant => ChatSafe
  <2> SUFFICES ASSUME ChatInvariant PROVE ChatSafe
    OBVIOUS
  <2>1. ChatTypeOK
    <3>1. ASSUME NEW i \in DOMAIN messages
          PROVE  /\ messages[i].role \in {"user", "assistant"}
                 /\ messages[i].ask \in 1 .. chatAsked
                 /\ messages[i].text \in Seq(Pieces)
      <4>1. messages[i] \in Messages /\ messages[i].ask <= chatAsked
        BY ElementOfSeq, LenProperties DEF ChatInvariant, ClientInvariant
      <4>2. chatAsked \in Nat
        BY TheLastMessage
      <4> QED
        BY <4>1, <4>2 DEF Messages, Questions
    <3>2. isLoading = (current # 0)
      BY DEF ChatInvariant, ClientInvariant
    <3>3. isStreaming => isLoading /\ streaming \in DOMAIN messages
      <4> SUFFICES ASSUME isStreaming PROVE isLoading /\ streaming \in DOMAIN messages
        OBVIOUS
      <4>1. current # 0 /\ streaming = Len(messages) /\ isLoading
        BY DEF ChatInvariant, ClientInvariant
      <4>2. messages \in Seq(Messages) /\ messages # <<>>
        BY <4>1, TheLastMessage
      <4> QED
        BY <4>1, <4>2, LastOf
    <3>4. /\ ended \in [Questions -> {"none", "done", "error"}]
          /\ parts \in [Questions -> 0 .. MaxParts]
          /\ \A a \in Questions : chatStage[a] = "new" <=> a > chatAsked
      BY DEF ChatInvariant, ServerInvariant
    <3> QED
      BY <3>1, <3>2, <3>3, <3>4 DEF ChatTypeOK
  <2>2. StructuredNeverFallsBack
    BY DEF ChatInvariant, ServerInvariant, StructuredNeverFallsBack
  <2> QED
    BY <2>1, <2>2 DEF ChatInvariant, ChatSafe
<1> QED
  BY <1>1, ChatInvariantHolds, PTL

\* Once records are found, the question ends with an answer and not with an error, whatever
\* the model does that narrates them: only a done event ends a question in that stage.
THEOREM SearchesEndWithAnAnswer == ChatSpec => NarrationNeverFailsASearch
<1>1. ASSUME ChatInvariant, [ChatNext]_chatVars, NEW a \in Questions,
             chatStage[a] = "narrate", chatStage'[a] = "ended"
      PROVE  ended'[a] = "done"
  <2>0. chatStage \in [Questions -> Stages] /\ ended \in [Questions -> {"none", "done", "error"}]
    BY <1>1 DEF ChatInvariant, ServerInvariant
  <2>1. PICK b \in Questions : Server(b)
    <3>1. CASE UNCHANGED chatStage
      BY <1>1, <3>1
    <3>2. CASE SendMessage
      BY <1>1, <2>0, <3>2 DEF SendMessage
    <3>3. CASE Refused
      BY <1>1, <2>0, <3>3 DEF Refused
    <3>4. CASE ReceiveDelta \/ ReceiveDone \/ ReceiveError \/ ChatGivesUp
      BY <3>1, <3>4 DEF ReceiveDelta, ReceiveDone, ReceiveError, ChatGivesUp, server
    <3>5. CASE UNCHANGED chatVars
      BY <3>1, <3>5 DEF chatVars, server
    <3> QED
      BY <1>1, <3>2, <3>3, <3>4, <3>5 DEF ChatNext, Client
  <2>2. b = a
    <3>1. \E s : chatStage' = [chatStage EXCEPT ![b] = s] \/ chatStage' = chatStage
      BY <2>1 DEF Server, Classify, SearchRecords, TurnPage, Summarize, SearchDocuments, ModelWrites,
                  ModelEnds, ModelFails, NarrationFails, Done, ChatFails, Continues, SendNotice
    <3> QED
      BY <1>1, <2>0, <3>1
  <2>3. ModelWrites(a) \/ ModelEnds(a) \/ ModelFails(a)
    BY <1>1, <2>1, <2>2 DEF Server, Classify, SearchRecords, TurnPage, Summarize, SearchDocuments
  <2>4. ~ModelWrites(a)
    BY <1>1 DEF ModelWrites
  <2>5. \E t : Done(a, t)
    BY <1>1, <2>3, <2>4 DEF ModelEnds, ModelFails, NarrationFails
  <2> QED
    BY <2>0, <2>5 DEF Done
<1>2. ChatInvariant /\ [ChatNext]_chatVars =>
        [\A a \in Questions : chatStage[a] = "narrate" /\ chatStage'[a] = "ended"
                              => ended'[a] = "done"]_chatVars
  BY <1>1
<1> QED
  BY <1>2, ChatInvariantHolds, PTL DEF ChatSpec, NarrationNeverFailsASearch
-----------------------------------------------------------------------------
(* The search for passages: DocumentSearch. *)

SearchStages == {"vector", "bm25", "rank", "fetch", "write", "nothing", "answered", "failed"}

\* A list of different chunks.
Candidates(q) == q \in Seq(Chunks) /\ IsInjective(q)

\* As in app.config.ts.
VectorWeighsMore == Limit >= 2 /\ Bm25Weight <= VectorWeight

\* Each ranking is a list of different chunks of its length, the second one is empty until
\* Elasticsearch has answered, nothing is sent before it is fetched, and with such weights the
\* vector's best match is among the candidates that are fetched.
SearchInvariant ==
    /\ searchStage \in SearchStages
    /\ Candidates(vector) /\ Len(vector) <= Limit
    /\ Candidates(bm25) /\ Len(bm25) <= Bm25Limit
    /\ Candidates(ranked) /\ Len(ranked) <= Limit
    /\ Candidates(sent) /\ ToSet(sent) \subseteq ToSet(ranked)
    /\ searchStage \in {"vector", "bm25"} => bm25 = <<>>
    /\ searchStage \in {"vector", "bm25", "rank"} => sent = <<>>
    /\ VectorWeighsMore /\ searchStage = "fetch" /\ vector # <<>> => vector[1] \in ToSet(ranked)
    /\ MergeKeepsOrder /\ (VectorWeighsMore => BestMatchIsUsed) /\ CitationsAreTheSources

LEMMA CandidatesAre ==
    ASSUME NEW q, Candidates(q)
    PROVE  /\ Len(q) \in Nat /\ DOMAIN q = 1 .. Len(q)
           /\ \A i \in DOMAIN q : q[i] \in Chunks /\ q[i] \in ToSet(q) /\ Rank(q, q[i]) = i
           /\ \A c \in ToSet(q) : c \in Chunks /\ Rank(q, c) \in DOMAIN q /\ q[Rank(q, c)] = c
<1>1. Len(q) \in Nat /\ DOMAIN q = 1 .. Len(q) /\ q \in [1 .. Len(q) -> Chunks]
  BY LenProperties DEF Candidates
<1>2. \A c \in ToSet(q) : c \in Chunks /\ Rank(q, c) \in DOMAIN q /\ q[Rank(q, c)] = c
  BY <1>1 DEF ToSet, Rank
<1>3. \A i \in DOMAIN q : q[i] \in Chunks /\ q[i] \in ToSet(q)
  BY <1>1 DEF ToSet
<1>4. \A i \in DOMAIN q : Rank(q, q[i]) = i
  BY <1>2, <1>3 DEF Candidates, IsInjective
<1> QED
  BY <1>1, <1>2, <1>3, <1>4

\* What a search may return.
LEMMA RankingsAre ==
    ASSUME NEW S \in SUBSET Chunks, NEW n \in Nat, NEW q \in Rankings(S, n)
    PROVE  Candidates(q) /\ Len(q) <= n /\ ToSet(q) \subseteq S
<1>1. PICK m \in 0 .. n : q \in [1 .. m -> S]
  BY DEF Rankings, SeqOf
<1>2. q \in Seq(S) /\ Len(q) = m /\ m \in Nat /\ m <= n
  BY <1>1, SeqDef
<1>3. q \in Seq(Chunks)
  BY <1>2, SeqMonotonic
<1> QED
  BY <1>1, <1>2, <1>3 DEF Candidates, Rankings, ToSet

-----------------------------------------------------------------------------

LEMMA ExactDivision ==
    ASSUME NEW s \in Nat, NEW i \in Nat \ {0}, s % i = 0
    PROVE  s \div i \in Nat /\ (s \div i) * i = s
OBVIOUS

LEMMA SmallerShare ==
    ASSUME NEW s \in Nat \ {0}, NEW i \in Nat \ {0}, NEW j \in Nat, i < j,
           NEW a \in Nat, NEW b \in Nat, a * i = s, b * j = s
    PROVE  a > b
OBVIOUS

LEMMA HalfShare ==
    ASSUME NEW s \in Nat, NEW i \in Nat, i > 1, NEW a \in Nat, a * i = s
    PROVE  a + a <= s
OBVIOUS

LEMMA PositiveShare ==
    ASSUME NEW s \in Nat \ {0}, NEW i \in Nat \ {0}, NEW a \in Nat, a * i = s
    PROVE  a > 0 /\ a <= s
OBVIOUS

LEMMA WeightKeepsOrder ==
    ASSUME NEW a \in Nat, NEW b \in Nat, NEW w \in Nat \ {0}
    PROVE  a * w \in Nat /\ (a <= b => a * w <= b * w) /\ (a < b => a * w < b * w)
OBVIOUS

\* The score of a rank.
LEMMA ScoreOfRank ==
    ASSUME NEW q, Candidates(q), Len(q) <= Limit \/ Len(q) <= Bm25Limit, NEW c
    PROVE  /\ RankScore(q, c) \in Nat
           /\ c \notin ToSet(q) => RankScore(q, c) = 0
           /\ c \in ToSet(q) => /\ RankScore(q, c) * Rank(q, c) = Scale
                                /\ RankScore(q, c) > 0 /\ RankScore(q, c) <= Scale
                                /\ Rank(q, c) \in Nat \ {0}
           /\ c \in ToSet(q) /\ Rank(q, c) > 1 => RankScore(q, c) + RankScore(q, c) <= Scale
           /\ c \in ToSet(q) /\ Rank(q, c) = 1 => RankScore(q, c) = Scale
<1>0. Scale \in Nat \ {0} /\ Limit \in Nat /\ Bm25Limit \in Nat
  BY SearchAssumption
<1>1. CASE c \in ToSet(q)
  <2>1. Rank(q, c) \in 1 .. Len(q) /\ Len(q) \in Nat
    BY <1>1, CandidatesAre
  <2>2. Rank(q, c) \in Nat \ {0} /\ Rank(q, c) \in (1 .. Limit) \cup (1 .. Bm25Limit)
    BY <1>0, <2>1
  <2>3. Scale % Rank(q, c) = 0
    BY <2>2, SearchAssumption
  <2>4. RankScore(q, c) = Scale \div Rank(q, c)
    BY <1>1 DEF RankScore
  <2>5. RankScore(q, c) \in Nat /\ RankScore(q, c) * Rank(q, c) = Scale
    BY <1>0, <2>2, <2>3, <2>4, ExactDivision
  <2>6. RankScore(q, c) > 0 /\ RankScore(q, c) <= Scale
    BY <1>0, <2>2, <2>5, PositiveShare
  <2>7. Rank(q, c) > 1 => RankScore(q, c) + RankScore(q, c) <= Scale
    BY <1>0, <2>2, <2>5, HalfShare
  <2>8. Rank(q, c) = 1 => RankScore(q, c) = Scale
    BY <2>5
  <2> QED
    BY <1>1, <2>2, <2>5, <2>6, <2>7, <2>8
<1>2. CASE c \notin ToSet(q)
  BY <1>2 DEF RankScore
<1> QED
  BY <1>1, <1>2

\* The score keeps the order of a ranking.
LEMMA ScoreKeepsOrder ==
    ASSUME NEW q, Candidates(q), Len(q) <= Limit \/ Len(q) <= Bm25Limit, NEW c, NEW d
    PROVE  /\ RankScore(q, c) \in Nat /\ RankScore(q, d) \in Nat
           /\ Better(q, c, d) => RankScore(q, d) < RankScore(q, c)
           /\ NotWorse(q, c, d) => RankScore(q, d) <= RankScore(q, c)
<1>1. RankScore(q, c) \in Nat /\ RankScore(q, d) \in Nat /\ Scale \in Nat \ {0}
  BY ScoreOfRank, SearchAssumption
<1>2. ASSUME Better(q, c, d) PROVE RankScore(q, d) < RankScore(q, c)
  <2>1. c \in ToSet(q) /\ RankScore(q, c) > 0 /\ RankScore(q, c) * Rank(q, c) = Scale
        /\ Rank(q, c) \in Nat \ {0}
    BY <1>2, ScoreOfRank DEF Better
  <2>2. CASE d \notin ToSet(q)
    BY <1>1, <2>1, <2>2, ScoreOfRank
  <2>3. CASE d \in ToSet(q)
    <3>1. Rank(q, c) < Rank(q, d) /\ RankScore(q, d) * Rank(q, d) = Scale /\ Rank(q, d) \in Nat
      BY <1>2, <2>3, ScoreOfRank DEF Better
    <3> QED
      BY <1>1, <2>1, <3>1, SmallerShare
  <2> QED
    BY <2>2, <2>3
<1>3. NotWorse(q, c, d) => RankScore(q, d) <= RankScore(q, c)
  <2>1. CASE c \notin ToSet(q) /\ d \notin ToSet(q)
    BY <1>1, <2>1, ScoreOfRank
  <2> QED
    BY <1>1, <1>2, <2>1 DEF NotWorse
<1> QED
  BY <1>1, <1>2, <1>3

LEMMA FinalScoreKeepsOrder ==
    ASSUME Candidates(vector), Len(vector) <= Limit, Candidates(bm25), Len(bm25) <= Bm25Limit,
           NEW c, NEW d, NotWorse(vector, c, d), NotWorse(bm25, c, d),
           Better(vector, c, d) \/ Better(bm25, c, d)
    PROVE  FinalScore(c) > FinalScore(d) /\ FinalScore(c) \in Nat /\ FinalScore(d) \in Nat
<1> DEFINE vc == RankScore(vector, c) * VectorWeight
           vd == RankScore(vector, d) * VectorWeight
           bc == RankScore(bm25, c) * Bm25Weight
           bd == RankScore(bm25, d) * Bm25Weight
<1>1. /\ RankScore(vector, c) \in Nat /\ RankScore(vector, d) \in Nat
      /\ RankScore(bm25, c) \in Nat /\ RankScore(bm25, d) \in Nat
      /\ VectorWeight \in Nat \ {0} /\ Bm25Weight \in Nat \ {0}
  BY ScoreKeepsOrder, SearchAssumption
<1>2. vc \in Nat /\ vd \in Nat /\ vd <= vc /\ (Better(vector, c, d) => vd < vc)
  BY <1>1, ScoreKeepsOrder, WeightKeepsOrder
<1>3. bc \in Nat /\ bd \in Nat /\ bd <= bc /\ (Better(bm25, c, d) => bd < bc)
  BY <1>1, ScoreKeepsOrder, WeightKeepsOrder
<1>4. FinalScore(c) = vc + bc /\ FinalScore(d) = vd + bd
  BY DEF FinalScore
<1> HIDE DEF vc, vd, bc, bd
<1> QED
  BY <1>2, <1>3, <1>4

LEMMA SmallerOf ==
    ASSUME NEW a \in Nat, NEW b \in Nat
    PROVE  Min({a, b}) \in {a, b} /\ Min({a, b}) <= a /\ Min({a, b}) <= b
<1>1. \E x \in {a, b} : \A y \in {a, b} : x =< y
  <2>1. CASE a <= b
    BY <2>1
  <2>2. CASE b < a
    BY <2>2
  <2> QED
    BY <2>1, <2>2
<1> QED
  BY <1>1 DEF Min

\* A part of the candidates in their order.
LEMMA CandidatesLeft ==
    ASSUME NEW q, Candidates(q), NEW I \in SUBSET DOMAIN q
    PROVE  /\ Candidates(Places(q, I)) /\ Len(Places(q, I)) <= Len(q)
           /\ ToSet(Places(q, I)) = {q[i] : i \in I}
<1>1. /\ Len(q) \in Nat /\ DOMAIN q = 1 .. Len(q) /\ q \in Seq(Chunks)
      /\ \A i, j \in DOMAIN q : q[i] = q[j] => i = j
  BY CandidatesAre DEF Candidates, IsInjective
<1> DEFINE n == Cardinality(I)
           a == Ascending(I)
           p == Places(q, I)
<1>2. /\ n \in Nat /\ n <= Len(q) /\ p \in Seq(Chunks) /\ Len(p) = n
      /\ \A k \in 1 .. n : a[k] \in I /\ p[k] = q[a[k]]
      /\ \A k, l \in 1 .. n : k < l => a[k] < a[l]
      /\ \A i \in I : \E k \in 1 .. n : a[k] = i
  BY <1>1, PlacesLeft
<1>3. DOMAIN p = 1 .. n
  BY <1>2, LenProperties
<1> HIDE DEF n, a, p
<1>4. ASSUME NEW k \in 1 .. n, NEW l \in 1 .. n, p[k] = p[l] PROVE k = l
  <2>1. a[k] = a[l] /\ a[k] \in Nat
    BY <1>1, <1>2, <1>4
  <2>2. k \in Nat /\ l \in Nat /\ ~(k < l) /\ ~(l < k)
    BY <1>1, <1>2, <2>1
  <2> QED
    BY <2>2
<1>5. ToSet(p) = {q[i] : i \in I}
  BY <1>2, <1>3 DEF ToSet
<1> QED
  BY <1>2, <1>3, <1>4, <1>5 DEF Candidates, IsInjective, p

\* Both rankings.
Rankings2 == Candidates(vector) /\ Len(vector) <= Limit /\ Candidates(bm25) /\ Len(bm25) <= Bm25Limit

LEMMA MergedIs ==
    ASSUME Rankings2
    PROVE  /\ Candidates(Merged) /\ ToSet(Merged) = ToSet(vector) \cup ToSet(bm25)
           /\ Len(vector) <= Len(Merged)
           /\ \A i \in 1 .. Len(vector) : Merged[i] = vector[i]
<1> DEFINE I == {i \in DOMAIN bm25 : bm25[i] \notin ToSet(vector)}
           rest == Places(bm25, I)
<1>1. Candidates(rest) /\ ToSet(rest) = {bm25[i] : i \in I}
  BY CandidatesLeft DEF Rankings2
<1>2. Merged = vector \o rest
  BY DEF Merged
<1>3. /\ Len(vector) \in Nat /\ DOMAIN vector = 1 .. Len(vector) /\ vector \in Seq(Chunks)
      /\ Len(rest) \in Nat /\ DOMAIN rest = 1 .. Len(rest) /\ rest \in Seq(Chunks)
      /\ IsInjective(vector) /\ IsInjective(rest)
  BY <1>1, CandidatesAre DEF Rankings2, Candidates
<1>4. ToSet(rest) = ToSet(bm25) \ ToSet(vector)
  BY <1>1 DEF ToSet
<1> HIDE DEF I, rest
<1>5. /\ Merged \in Seq(Chunks) /\ Len(Merged) = Len(vector) + Len(rest)
      /\ \A i \in 1 .. Len(vector) + Len(rest) :
           Merged[i] = IF i <= Len(vector) THEN vector[i] ELSE rest[i - Len(vector)]
  BY <1>2, <1>3, ConcatProperties
<1>6. DOMAIN Merged = 1 .. Len(vector) + Len(rest)
  BY <1>5, LenProperties
<1>7. \A i \in 1 .. Len(vector) : Merged[i] = vector[i] /\ i \in DOMAIN Merged
  BY <1>3, <1>5, <1>6
<1>8. \A i \in 1 .. Len(rest) : Merged[Len(vector) + i] = rest[i] /\ Len(vector) + i \in DOMAIN Merged
  <2> SUFFICES ASSUME NEW i \in 1 .. Len(rest)
               PROVE  Merged[Len(vector) + i] = rest[i] /\ Len(vector) + i \in DOMAIN Merged
    OBVIOUS
  <2>1. /\ Len(vector) + i \in 1 .. Len(vector) + Len(rest) /\ ~(Len(vector) + i <= Len(vector))
        /\ Len(vector) + i - Len(vector) = i
    BY <1>3
  <2> QED
    BY <1>5, <1>6, <2>1
<1>9. \A k \in DOMAIN Merged : \/ k \in 1 .. Len(vector)
                               \/ \E i \in 1 .. Len(rest) : k = Len(vector) + i
  <2> SUFFICES ASSUME NEW k \in DOMAIN Merged, k \notin 1 .. Len(vector)
               PROVE  \E i \in 1 .. Len(rest) : k = Len(vector) + i
    OBVIOUS
  <2>1. k - Len(vector) \in 1 .. Len(rest) /\ k = Len(vector) + (k - Len(vector))
    BY <1>3, <1>6
  <2> QED
    BY <2>1
<1>10. ToSet(Merged) = ToSet(vector) \cup ToSet(rest)
  BY <1>3, <1>7, <1>8, <1>9 DEF ToSet
<1>11. ASSUME NEW k \in DOMAIN Merged, NEW l \in DOMAIN Merged, Merged[k] = Merged[l] PROVE k = l
  <2>1. CASE k \in 1 .. Len(vector) /\ l \in 1 .. Len(vector)
    BY <1>3, <1>7, <1>11, <2>1 DEF IsInjective
  <2>2. CASE \E i, j \in 1 .. Len(rest) : k = Len(vector) + i /\ l = Len(vector) + j
    BY <1>3, <1>8, <1>11, <2>2 DEF IsInjective
  <2>3. \A i \in 1 .. Len(vector), j \in 1 .. Len(rest) : Merged[i] # Merged[Len(vector) + j]
    BY <1>3, <1>4, <1>7, <1>8 DEF ToSet
  <2> QED
    BY <1>9, <1>11, <2>1, <2>2, <2>3
<1>12. IsInjective(Merged)
  BY <1>11 DEF IsInjective
<1>13. Len(vector) <= Len(Merged)
  BY <1>3, <1>5
<1> QED
  BY <1>4, <1>5, <1>7, <1>10, <1>12, <1>13 DEF Candidates

LEMMA FinalScoreType ==
    ASSUME Rankings2, NEW c
    PROVE  FinalScore(c) \in Nat
<1>1. RankScore(vector, c) \in Nat /\ RankScore(bm25, c) \in Nat
  BY ScoreOfRank DEF Rankings2
<1>2. RankScore(vector, c) * VectorWeight \in Nat /\ RankScore(bm25, c) * Bm25Weight \in Nat
  BY <1>1, WeightKeepsOrder, SearchAssumption
<1> QED
  BY <1>2 DEF FinalScore

\* Which place of Merged comes where.
Placing == Sorted(DOMAIN Merged, ByScore)

\* What the sort makes of the merged rankings.
LEMMA PlacingIs ==
    ASSUME Rankings2, NEW n, n = Len(Merged)
    PROVE  /\ n \in Nat /\ DOMAIN Merged = 1 .. n /\ Placing \in [1 .. n -> 1 .. n]
           /\ \A k, l \in 1 .. n : k < l => <<Placing[k], Placing[l]>> \in ByScore
           /\ \A k, l \in 1 .. n : k # l => Placing[k] # Placing[l]
           /\ \A i \in 1 .. n : \E k \in 1 .. n : Placing[k] = i
           /\ \A i, j \in 1 .. n : <<i, j>> \in ByScore => <<j, i>> \notin ByScore /\ i # j
<1>1. n \in Nat /\ DOMAIN Merged = 1 .. n
  BY MergedIs, CandidatesAre
<1>2. IsFiniteSet(1 .. n) /\ Cardinality(1 .. n) = n
  BY <1>1, IntervalSize
<1>3. TotalOrder(1 .. n, ByScore)
  <2>1. \A i \in DOMAIN Merged : FinalScore(Merged[i]) \in Nat /\ i \in Nat
    BY <1>1, FinalScoreType
  <2> QED
    BY <1>1, <2>1 DEF TotalOrder, ByScore
<1>4. Placing = Sorted(1 .. n, ByScore)
  BY <1>1 DEF Placing
<1> DEFINE S == 1 .. n
<1>5. IsFiniteSet(S) /\ Cardinality(S) = n /\ TotalOrder(S, ByScore) /\ Placing = Sorted(S, ByScore)
  BY <1>2, <1>3, <1>4
<1> HIDE DEF S
<1>6. InOrder(Placing, S, ByScore)
  BY <1>5, SortedInOrder
<1>7. /\ \A k, l \in DOMAIN Placing : k # l => Placing[k] # Placing[l]
      /\ \A i \in S : \E k \in DOMAIN Placing : Placing[k] = i
  BY <1>5, <1>6, InOrderPlaces
<1>8. Placing \in [1 .. n -> S] /\ DOMAIN Placing = 1 .. n
  BY <1>5, <1>6 DEF InOrder
<1>9. \A k, l \in 1 .. n : k < l => <<Placing[k], Placing[l]>> \in ByScore
  BY <1>6, <1>8 DEF InOrder
<1>10. \A i, j \in 1 .. n : <<i, j>> \in ByScore => <<j, i>> \notin ByScore /\ i # j
  BY <1>3 DEF TotalOrder
<1> QED
  BY <1>1, <1>7, <1>8, <1>9, <1>10 DEF S

LEMMA RankedIs ==
    ASSUME Rankings2
    PROVE  /\ Candidates(Ranked) /\ Len(Ranked) <= Limit /\ Len(Ranked) <= Len(Merged)
           /\ \A k \in 1 .. Len(Merged) : k <= Limit => k \in DOMAIN Ranked
           /\ \A k \in DOMAIN Ranked : k \in 1 .. Len(Merged) /\ Ranked[k] = Merged[Placing[k]]
<1> DEFINE n == Len(Merged)
           m == Min({Limit, n})
<1>1. /\ n \in Nat /\ DOMAIN Merged = 1 .. n /\ Placing \in [1 .. n -> 1 .. n]
      /\ \A k, l \in 1 .. n : k # l => Placing[k] # Placing[l]
  BY PlacingIs
<1>2. m \in Nat /\ m <= n /\ m <= Limit /\ m \in {Limit, n} /\ Limit \in Nat
  BY <1>1, SmallerOf, SearchAssumption
<1>3. Ranked = [k \in 1 .. m |-> Merged[Placing[k]]]
  BY DEF Ranked, Placing
<1> HIDE DEF n, m
<1>4. \A k \in 1 .. m : k \in 1 .. n
  BY <1>1, <1>2
<1>5. \A k \in 1 .. m : Placing[k] \in 1 .. n /\ Placing[k] \in DOMAIN Merged
  BY <1>1, <1>4
<1>6. \A i \in DOMAIN Merged : Merged[i] \in Chunks
  BY MergedIs, CandidatesAre
<1>7. Ranked \in Seq(Chunks) /\ Len(Ranked) = m /\ DOMAIN Ranked = 1 .. m
  <2>1. Ranked \in [1 .. m -> Chunks]
    BY <1>3, <1>5, <1>6
  <2> QED
    BY <1>2, <2>1, SeqDef
<1>8. \A k \in DOMAIN Ranked : k \in 1 .. n /\ Ranked[k] = Merged[Placing[k]]
  BY <1>3, <1>4, <1>7
<1>9. IsInjective(Ranked)
  <2>1. \A i, j \in DOMAIN Merged : Merged[i] = Merged[j] => i = j
    BY MergedIs DEF Candidates, IsInjective
  <2>2. ASSUME NEW k \in 1 .. m, NEW l \in 1 .. m, Ranked[k] = Ranked[l] PROVE k = l
    <3>1. Merged[Placing[k]] = Merged[Placing[l]]
      BY <1>7, <1>8, <2>2
    <3>2. Placing[k] = Placing[l]
      BY <1>5, <2>1, <3>1
    <3> QED
      BY <1>1, <1>4, <3>2
  <2> QED
    BY <1>7, <2>2 DEF IsInjective
<1>10. \A k \in 1 .. n : k <= Limit => k \in DOMAIN Ranked
  BY <1>1, <1>2, <1>7
<1> QED
  BY <1>2, <1>7, <1>8, <1>9, <1>10 DEF Candidates, n

\* Of two candidates, the one that scores higher is kept if the other one is, and comes first.
LEMMA HigherScoreFirst ==
    ASSUME Rankings2, NEW c \in ToSet(Merged), NEW d \in ToSet(Ranked), FinalScore(c) > FinalScore(d)
    PROVE  c \in ToSet(Ranked) /\ Rank(Ranked, c) < Rank(Ranked, d)
<1> DEFINE n == Len(Merged)
<1>1. /\ n \in Nat /\ DOMAIN Merged = 1 .. n /\ Placing \in [1 .. n -> 1 .. n]
      /\ \A k, l \in 1 .. n : k < l => <<Placing[k], Placing[l]>> \in ByScore
      /\ \A i \in 1 .. n : \E k \in 1 .. n : Placing[k] = i
      /\ \A i, j \in 1 .. n : <<i, j>> \in ByScore => <<j, i>> \notin ByScore /\ i # j
  BY PlacingIs
<1>2. /\ Candidates(Ranked) /\ Len(Ranked) <= Limit /\ Limit \in Nat
      /\ \A k \in 1 .. n : k <= Limit => k \in DOMAIN Ranked
      /\ \A k \in DOMAIN Ranked : k \in 1 .. n /\ Ranked[k] = Merged[Placing[k]]
  BY RankedIs, SearchAssumption
<1> HIDE DEF n
<1>3. PICK i \in 1 .. n : Merged[i] = c
  BY <1>1 DEF ToSet
<1>4. PICK k \in 1 .. n : Placing[k] = i
  BY <1>1
<1>5. PICK l \in DOMAIN Ranked : Ranked[l] = d
  BY DEF ToSet
<1>6. l \in 1 .. n /\ Merged[Placing[l]] = d /\ Placing[l] \in 1 .. n
  BY <1>1, <1>2, <1>5
<1>7. <<i, Placing[l]>> \in ByScore
  <2>1. <<i, Placing[l]>> \in (DOMAIN Merged) \X (DOMAIN Merged)
    BY <1>1, <1>6
  <2> QED
    BY <1>3, <1>6, <2>1 DEF ByScore
<1>8. ~(l < k) /\ l # k
  BY <1>1, <1>4, <1>6, <1>7
<1>9. k < l /\ l \in Nat /\ k \in Nat
  <2>1. l \in Nat /\ k \in Nat
    BY <1>1, <1>6
  <2> QED
    BY <1>8, <2>1
<1>10. l <= Limit
  <2>1. DOMAIN Ranked = 1 .. Len(Ranked) /\ Len(Ranked) \in Nat
    BY <1>2, CandidatesAre
  <2> QED
    BY <1>2, <1>5, <2>1
<1>11. k \in DOMAIN Ranked
  BY <1>2, <1>9, <1>10
<1>12. Ranked[k] = c
  BY <1>2, <1>3, <1>4, <1>11
<1>13. Rank(Ranked, c) = k /\ Rank(Ranked, d) = l /\ c \in ToSet(Ranked)
  BY <1>2, <1>5, <1>11, <1>12, CandidatesAre
<1> QED
  BY <1>9, <1>13
LEMMA TwoHalves ==
    ASSUME NEW s \in Nat, NEW a \in Nat, NEW b \in Nat, a + a <= s, b + b <= s,
           NEW v \in Nat, NEW w \in Nat, w <= v
    PROVE  a * v + b * w <= s * v
<1>1. b * w <= b * v
  OBVIOUS
<1>2. a + b <= s
  OBVIOUS
<1>3. (a + b) * v <= s * v
  BY <1>2
<1>4. (a + b) * v = a * v + b * v
  OBVIOUS
<1>5. a * v \in Nat /\ b * v \in Nat /\ b * w \in Nat /\ s * v \in Nat
  OBVIOUS
<1> QED
  BY <1>1, <1>3, <1>4, <1>5

\* Only the best match of Elasticsearch can score higher than the vector's best one.
LEMMA AboveTheBest ==
    ASSUME Rankings2, vector # <<>>, Bm25Weight <= VectorWeight,
           NEW x, FinalScore(x) > FinalScore(vector[1])
    PROVE  x \in ToSet(bm25) /\ x = bm25[1]
<1> DEFINE a == RankScore(vector, x)
           b == RankScore(bm25, x)
           best == RankScore(bm25, vector[1])
<1>1. Scale \in Nat \ {0} /\ VectorWeight \in Nat /\ Bm25Weight \in Nat
  BY SearchAssumption
<1>2. 1 \in DOMAIN vector
  BY CandidatesAre, EmptySeq DEF Rankings2, Candidates
<1>3. RankScore(vector, vector[1]) = Scale
  <2>1. Rank(vector, vector[1]) = 1 /\ vector[1] \in ToSet(vector)
    BY <1>2, CandidatesAre DEF Rankings2
  <2>2. Scale \div 1 = Scale
    BY <1>1
  <2> QED
    BY <2>1, <2>2 DEF RankScore
<1>4. x # vector[1]
  <2>1. FinalScore(x) \in Nat
    BY FinalScoreType
  <2> QED
    BY <2>1
<1>5. a \in Nat /\ a + a <= Scale
  <2>1. a \in Nat
    BY ScoreOfRank DEF Rankings2
  <2>2. CASE x \in ToSet(vector)
    <3>1. Rank(vector, x) \in DOMAIN vector /\ vector[Rank(vector, x)] = x /\ DOMAIN vector = 1 .. Len(vector)
          /\ Len(vector) \in Nat
      BY <2>2, CandidatesAre DEF Rankings2
    <3>2. Rank(vector, x) > 1
      BY <1>4, <3>1
    <3> QED
      BY <2>1, <2>2, <3>2, ScoreOfRank DEF Rankings2
  <2>3. CASE x \notin ToSet(vector)
    BY <1>1, <2>3, ScoreOfRank DEF Rankings2
  <2> QED
    BY <2>2, <2>3
<1>6. b \in Nat /\ best \in Nat
  BY ScoreOfRank DEF Rankings2
<1>7. FinalScore(x) = a * VectorWeight + b * Bm25Weight
      /\ FinalScore(vector[1]) = Scale * VectorWeight + best * Bm25Weight
  BY <1>3 DEF FinalScore
<1> HIDE DEF a, b, best
<1>8. ~(b + b <= Scale)
  <2> SUFFICES ASSUME b + b <= Scale PROVE FALSE
    OBVIOUS
  <2>1. a * VectorWeight + b * Bm25Weight <= Scale * VectorWeight
    BY <1>1, <1>5, <1>6, TwoHalves
  <2>2. /\ a * VectorWeight \in Nat /\ b * Bm25Weight \in Nat
        /\ Scale * VectorWeight \in Nat /\ best * Bm25Weight \in Nat
    BY <1>1, <1>5, <1>6, WeightKeepsOrder
  <2> HIDE DEF a, b, best
  <2> QED
    BY <1>7, <2>1, <2>2
<1>9. x \in ToSet(bm25)
  <2> SUFFICES ASSUME x \notin ToSet(bm25) PROVE FALSE
    OBVIOUS
  <2>1. b = 0
    BY ScoreOfRank DEF Rankings2, b
  <2> QED
    BY <1>1, <1>8, <2>1
<1>10. ~(Rank(bm25, x) > 1)
  BY <1>8, <1>9, ScoreOfRank DEF Rankings2, b
<1>11. Rank(bm25, x) \in 1 .. Len(bm25) /\ Len(bm25) \in Nat /\ bm25[Rank(bm25, x)] = x
  BY <1>9, CandidatesAre DEF Rankings2
<1>12. Rank(bm25, x) = 1
  BY <1>10, <1>11
<1> QED
  BY <1>9, <1>11, <1>12

\* So it is among the first two, and is kept.
LEMMA BestKept ==
    ASSUME Rankings2, vector # <<>>, Limit >= 2, Bm25Weight <= VectorWeight
    PROVE  vector[1] \in ToSet(Ranked)
<1> DEFINE n == Len(Merged)
<1>1. /\ n \in Nat /\ DOMAIN Merged = 1 .. n /\ Placing \in [1 .. n -> 1 .. n]
      /\ \A k, l \in 1 .. n : k < l => <<Placing[k], Placing[l]>> \in ByScore
      /\ \A k, l \in 1 .. n : k # l => Placing[k] # Placing[l]
      /\ \A i \in 1 .. n : \E k \in 1 .. n : Placing[k] = i
  BY PlacingIs
<1>2. /\ Candidates(Ranked) /\ Limit \in Nat
      /\ \A k \in 1 .. n : k <= Limit => k \in DOMAIN Ranked
      /\ \A k \in DOMAIN Ranked : k \in 1 .. n /\ Ranked[k] = Merged[Placing[k]]
  BY RankedIs, SearchAssumption
<1>3. Len(vector) \in Nat /\ Len(vector) > 0 /\ Len(vector) <= n /\ Merged[1] = vector[1]
  <2>1. Len(vector) \in Nat /\ Len(vector) # 0
    BY EmptySeq DEF Rankings2, Candidates
  <2>2. 1 \in 1 .. Len(vector)
    BY <2>1
  <2> QED
    BY <2>1, <2>2, MergedIs
<1>4. \A i, j \in DOMAIN Merged : Merged[i] = Merged[j] => i = j
  BY MergedIs DEF Candidates, IsInjective
<1> HIDE DEF n
<1>5. PICK k \in 1 .. n : Placing[k] = 1
  <2>1. 1 \in 1 .. n
    BY <1>1, <1>3
  <2> QED
    BY <1>1, <2>1
<1>6. \A l \in 1 .. n : l < k => Merged[Placing[l]] = bm25[1]
  <2> SUFFICES ASSUME NEW l \in 1 .. n, l < k PROVE Merged[Placing[l]] = bm25[1]
    OBVIOUS
  <2>1. <<Placing[l], 1>> \in ByScore /\ Placing[l] \in 1 .. n
    BY <1>1, <1>5
  <2>2. Placing[l] \in Nat /\ ~(Placing[l] < 1)
    BY <1>1, <2>1
  <2>3. FinalScore(Merged[Placing[l]]) > FinalScore(vector[1])
    BY <1>3, <2>1, <2>2 DEF ByScore
  <2> QED
    BY <2>3, AboveTheBest
<1>7. k <= 2
  <2> SUFFICES ASSUME ~(k <= 2) PROVE FALSE
    OBVIOUS
  <2>1. 1 \in 1 .. n /\ 2 \in 1 .. n /\ 1 < k /\ 2 < k
    BY <1>1, <1>5
  <2>2. Merged[Placing[1]] = Merged[Placing[2]]
    BY <1>6, <2>1
  <2>3. Placing[1] \in DOMAIN Merged /\ Placing[2] \in DOMAIN Merged /\ Placing[1] # Placing[2]
    BY <1>1, <2>1
  <2> QED
    BY <1>4, <2>2, <2>3
<1>8. k \in DOMAIN Ranked
  <2>1. k \in Nat
    BY <1>1
  <2>2. k <= Limit
    BY <1>2, <1>7, <2>1
  <2> QED
    BY <1>2, <2>2
<1>9. Ranked[k] = vector[1]
  BY <1>2, <1>3, <1>5, <1>8
<1> QED
  BY <1>8, <1>9 DEF ToSet
-----------------------------------------------------------------------------

LEMMA NoCandidates == Candidates(<<>>) /\ Len(<<>>) = 0 /\ ToSet(<<>>) = {}
<1>1. DOMAIN <<>> = {}
  OBVIOUS
<1> QED
  BY <1>1 DEF Candidates, IsInjective, ToSet

LEMMA SearchInitially == SearchInit => SearchInvariant
BY NoCandidates, SearchAssumption
   DEF SearchInit, SearchInvariant, SearchStages, MergeKeepsOrder, BestMatchIsUsed,
       CitationsAreTheSources

LEMMA BestInRanking ==
    ASSUME NEW q, Candidates(q), q # <<>>
    PROVE  q[1] \in ToSet(q)
<1>1. Len(q) \in Nat /\ Len(q) # 0 /\ DOMAIN q = 1 .. Len(q)
  BY CandidatesAre, EmptySeq DEF Candidates
<1>2. 1 \in DOMAIN q
  BY <1>1
<1> QED
  BY <1>2 DEF ToSet

\* With the vector's ranking alone there is nothing to merge.
LEMMA VectorAlone ==
    ASSUME SearchInvariant, searchStage' = "fetch", ranked' = vector', bm25' = <<>>,
           Candidates(vector'), Len(vector') <= Limit, sent' = <<>>
    PROVE  SearchInvariant'
<1>1. Candidates(bm25') /\ Len(bm25') <= Bm25Limit /\ ToSet(bm25') = {}
  BY NoCandidates, SearchAssumption
<1>2. Candidates(sent') /\ ToSet(sent') \subseteq ToSet(ranked')
  BY NoCandidates
<1>3. MergeKeepsOrder'
  BY <1>1 DEF MergeKeepsOrder, Better, NotWorse, Rank
<1>4. (BestMatchIsUsed /\ CitationsAreTheSources)'
  BY DEF BestMatchIsUsed, CitationsAreTheSources
<1>5. vector' # <<>> => vector'[1] \in ToSet(ranked')
  BY BestInRanking
<1> QED
  BY <1>1, <1>2, <1>3, <1>4, <1>5 DEF SearchInvariant, SearchStages, Candidates

LEMMA FindVectorChunksKeeps ==
    ASSUME SearchInvariant, FindVectorChunks
    PROVE  SearchInvariant'
<1>1. Candidates(vector') /\ Len(vector') <= Limit
  BY RankingsAre, SearchAssumption DEF FindVectorChunks
<1>2. bm25' = <<>> /\ sent' = <<>>
  BY DEF FindVectorChunks, SearchInvariant
<1>3. CASE searchStage' = "fetch" /\ ranked' = vector'
  BY <1>1, <1>2, <1>3, VectorAlone
<1>4. CASE searchStage' = "bm25" /\ ranked' = ranked
  <2>1. Candidates(bm25') /\ Len(bm25') <= Bm25Limit /\ Candidates(sent') /\ ToSet(sent') \subseteq ToSet(ranked')
    BY <1>2, NoCandidates, SearchAssumption
  <2>2. (MergeKeepsOrder /\ BestMatchIsUsed /\ CitationsAreTheSources)'
    BY <1>4 DEF MergeKeepsOrder, BestMatchIsUsed, CitationsAreTheSources
  <2> QED
    BY <1>1, <1>2, <1>4, <2>1, <2>2 DEF SearchInvariant, SearchStages, Candidates
<1> QED
  BY <1>3, <1>4 DEF FindVectorChunks

LEMMA SearchDocumentChunksKeeps ==
    ASSUME SearchInvariant, SearchDocumentChunks
    PROVE  SearchInvariant'
<1>1. Candidates(bm25') /\ Len(bm25') <= Bm25Limit
  BY RankingsAre, SearchAssumption DEF SearchDocumentChunks
<1>2. (MergeKeepsOrder /\ BestMatchIsUsed /\ CitationsAreTheSources)'
  BY DEF SearchDocumentChunks, MergeKeepsOrder, BestMatchIsUsed, CitationsAreTheSources
<1> QED
  BY <1>1, <1>2 DEF SearchDocumentChunks, SearchInvariant, SearchStages, Candidates

\* The merged candidates keep the order both rankings agree on, and the best match.
LEMMA RankHybridChunkIdsKeeps ==
    ASSUME SearchInvariant, RankHybridChunkIds
    PROVE  SearchInvariant'
<1>1. /\ ranked' = Ranked /\ searchStage' = "fetch"
      /\ UNCHANGED <<stored, access, about, vector, bm25, sent, cited, citations, records>>
      /\ Rankings2 /\ sent = <<>>
  BY DEF RankHybridChunkIds, SearchInvariant, Rankings2
<1>2. Candidates(Ranked) /\ Len(Ranked) <= Limit
  BY <1>1, RankedIs
<1>3. VectorWeighsMore /\ vector # <<>> => vector[1] \in ToSet(Ranked)
  BY <1>1, BestKept DEF VectorWeighsMore
<1>4. ASSUME NEW c \in Chunks, NEW d \in Chunks, d \in ToSet(Ranked),
             NotWorse(vector, c, d), NotWorse(bm25, c, d),
             Better(vector, c, d) \/ Better(bm25, c, d)
      PROVE  c \in ToSet(Ranked) /\ Rank(Ranked, c) < Rank(Ranked, d)
  <2>1. FinalScore(c) > FinalScore(d)
    BY <1>1, <1>4, FinalScoreKeepsOrder DEF Rankings2
  <2>2. c \in ToSet(Merged)
    BY <1>1, <1>4, MergedIs DEF Better
  <2> QED
    BY <1>1, <1>4, <2>1, <2>2, HigherScoreFirst
<1>5. MergeKeepsOrder'
  BY <1>1, <1>4 DEF MergeKeepsOrder
<1>6. (BestMatchIsUsed /\ CitationsAreTheSources)'
  BY <1>1 DEF BestMatchIsUsed, CitationsAreTheSources
<1>7. Candidates(sent') /\ ToSet(sent') \subseteq ToSet(ranked')
  BY <1>1, NoCandidates
<1> QED
  BY <1>1, <1>2, <1>3, <1>5, <1>6, <1>7 DEF SearchInvariant, SearchStages, Rankings2, Candidates

LEMMA Bm25FailsKeeps ==
    ASSUME SearchInvariant, Bm25Fails
    PROVE  SearchInvariant'
BY VectorAlone DEF Bm25Fails, VectorOnly, SearchInvariant

\* What is fetched of the candidates: those the user may see.
LEMMA Fetched ==
    ASSUME SearchInvariant, FetchChunks
    PROVE  /\ Candidates(sent')
           /\ ToSet(sent') = {c \in ToSet(ranked) : Authorized(c)}
<1> DEFINE asked == SubSeq(ranked, 1, Min({Limit, Len(ranked)}))
           I == {i \in DOMAIN asked : Authorized(asked[i])}
<1>1. Candidates(ranked) /\ Len(ranked) <= Limit /\ Len(ranked) \in Nat /\ Limit \in Nat
  BY CandidatesAre, SearchAssumption DEF SearchInvariant
<1>2. Min({Limit, Len(ranked)}) = Len(ranked)
  <2>1. /\ Min({Limit, Len(ranked)}) \in {Limit, Len(ranked)}
        /\ Min({Limit, Len(ranked)}) <= Limit /\ Min({Limit, Len(ranked)}) <= Len(ranked)
    BY <1>1, SmallerOf
  <2> QED
    BY <1>1, <2>1
<1>3. asked = ranked
  BY <1>1, <1>2, SubSeqFull DEF Candidates
<1>4. sent' = Places(asked, I)
  BY DEF FetchChunks
<1> HIDE DEF asked
<1>5. sent' = Places(ranked, I) /\ I \in SUBSET DOMAIN ranked
      /\ I = {i \in DOMAIN ranked : Authorized(ranked[i])}
  BY <1>3, <1>4
<1> HIDE DEF I
<1>6. Candidates(sent') /\ ToSet(sent') = {ranked[i] : i \in I}
  BY <1>1, <1>5, CandidatesLeft
<1> QED
  BY <1>5, <1>6 DEF ToSet

LEMMA FetchChunksKeeps ==
    ASSUME SearchInvariant, FetchChunks
    PROVE  SearchInvariant'
<1>1. Candidates(sent') /\ ToSet(sent') = {c \in ToSet(ranked) : Authorized(c)}
  BY Fetched
<1>2. /\ searchStage = "fetch" /\ searchStage' \in {"write", "nothing"}
      /\ UNCHANGED <<stored, access, about, vector, bm25, ranked, cited, citations, records>>
  BY DEF FetchChunks
<1>3. VectorWeighsMore => BestMatchIsUsed'
  BY <1>1, <1>2 DEF BestMatchIsUsed, SearchInvariant, Authorized, Suggested, RecordOf
<1>4. (MergeKeepsOrder /\ CitationsAreTheSources)'
  BY <1>2 DEF MergeKeepsOrder, CitationsAreTheSources
<1>5. ToSet(sent') \subseteq ToSet(ranked')
  BY <1>1, <1>2
<1> QED
  BY <1>1, <1>2, <1>3, <1>4, <1>5 DEF SearchInvariant, SearchStages, Candidates

\* Exactly the chunks cited by the number they were sent with are sources.
LEMMA AnswerQuestionKeeps ==
    ASSUME SearchInvariant, AnswerQuestion
    PROVE  SearchInvariant'
<1>1. /\ searchStage = "write" /\ searchStage' = "answered"
      /\ UNCHANGED <<stored, access, about, vector, bm25, ranked, sent>>
      /\ citations' = {Place(sent[i]) : i \in CitedChunks(cited')}
      /\ records' = {RecordOf(sent[i]) : i \in CitedChunks(cited')}
  BY DEF AnswerQuestion
<1>2. CitedChunks(cited') = cited' \cap DOMAIN sent
  BY DEF CitedChunks
<1>3. CitationsAreTheSources'
  <2> DEFINE I == cited' \cap DOMAIN sent
  <2>1. citations' = {Place(sent[i]) : i \in I} /\ records' = {RecordOf(sent[i]) : i \in I}
    BY <1>1, <1>2
  <2>2. I = {} <=> (citations' = {} /\ records' = {})
    BY <2>1
  <2> QED
    BY <1>1, <2>1, <2>2 DEF CitationsAreTheSources, Place, RecordOf
<1>4. (MergeKeepsOrder /\ BestMatchIsUsed)'
  BY <1>1 DEF MergeKeepsOrder, BestMatchIsUsed
<1> QED
  BY <1>1, <1>3, <1>4 DEF SearchInvariant, SearchStages, Candidates

LEMMA SearchFailsKeeps ==
    ASSUME SearchInvariant, SearchFails
    PROVE  SearchInvariant'
<1>1. (MergeKeepsOrder /\ BestMatchIsUsed /\ CitationsAreTheSources)'
  BY DEF SearchFails, MergeKeepsOrder, BestMatchIsUsed, CitationsAreTheSources
<1> QED
  BY <1>1 DEF SearchFails, SearchInvariant, SearchStages, Candidates

\* What goes away meanwhile does not change the candidates.
LEMMA GoingAwayKeeps ==
    ASSUME SearchInvariant,
           (\E c \in Chunks : ChunkGoes(c)) \/ (\E r \in {1, 2} : AccessGoes(r))
    PROVE  SearchInvariant'
<1>1. /\ searchStage \in {"bm25", "rank", "fetch"}
      /\ UNCHANGED <<searchStage, vector, bm25, ranked, sent, cited, citations, records>>
  BY DEF ChunkGoes, AccessGoes
<1>2. MergeKeepsOrder'
  BY <1>1 DEF SearchInvariant, MergeKeepsOrder
<1>3. (BestMatchIsUsed /\ CitationsAreTheSources)'
  BY <1>1 DEF BestMatchIsUsed, CitationsAreTheSources
<1> QED
  BY <1>1, <1>2, <1>3 DEF SearchInvariant, SearchStages, Candidates

LEMMA SearchKeeps ==
    ASSUME SearchInvariant, [SearchNext]_searchVars
    PROVE  SearchInvariant'
<1>1. CASE UNCHANGED searchVars
  <2>1. (MergeKeepsOrder /\ CitationsAreTheSources)'
    BY <1>1 DEF searchVars, SearchInvariant, MergeKeepsOrder, CitationsAreTheSources
  <2>2. VectorWeighsMore => BestMatchIsUsed'
    BY <1>1 DEF searchVars, SearchInvariant, BestMatchIsUsed, Authorized, Suggested
  <2> QED
    BY <1>1, <2>1, <2>2 DEF searchVars, SearchInvariant, Candidates
<1>2. CASE SearchNext
  BY <1>2, FindVectorChunksKeeps, SearchDocumentChunksKeeps, RankHybridChunkIdsKeeps, Bm25FailsKeeps,
     FetchChunksKeeps, AnswerQuestionKeeps, SearchFailsKeeps, GoingAwayKeeps DEF SearchNext
<1> QED
  BY <1>1, <1>2

LEMMA SearchInvariantHolds == SearchSpec => []SearchInvariant
BY SearchInitially, SearchKeeps, PTL DEF SearchSpec

\* The better match comes first and is used, and the sources shown are those the answer cites
\* (DocumentSearch) - if the vector search weighs no less than Elasticsearch and two chunks or
\* more are asked for, as in app.config.ts: the vector's best match can then fall behind no
\* other than Elasticsearch's.
THEOREM BetterMatchIsUsed ==
    ASSUME Limit >= 2, Bm25Weight <= VectorWeight
    PROVE  SearchSpec => []SearchSafe
<1>1. SearchInvariant => SearchSafe
  BY DEF VectorWeighsMore, SearchInvariant, SearchSafe, SearchTypeOK, SearchStages, Candidates
<1> QED
  BY <1>1, SearchInvariantHolds, PTL

\* A chunk is sent to the model only if it was stored, and its record the user's to see and the
\* one asked about, when it was fetched.
LEMMA OnlyAuthorizedAreSent ==
    ASSUME SearchInvariant, [SearchNext]_searchVars, NEW c \in ToSet(sent') \ ToSet(sent)
    PROVE  c \in stored /\ RecordOf(c) \in access /\ about \in {0, RecordOf(c)}
<1>1. FetchChunks
  BY DEF searchVars, SearchNext, FindVectorChunks, SearchDocumentChunks, RankHybridChunkIds,
         Bm25Fails, AnswerQuestion, SearchFails, ChunkGoes, AccessGoes
<1>2. Authorized(c)
  BY <1>1, Fetched
<1> QED
  BY <1>2 DEF Authorized, Suggested
-----------------------------------------------------------------------------
(* Record searches and paging: SearchPaging. *)

Contexts == [filters : Filters, limit : 1 .. MaxLimit, offset : Nat]

AskRecords ==
    [kind : {"none", "search", "next", "previous"}, filters : Filters \cup {"none"}, requested : Nat,
     stage : {"new", "read", "query", "store", "narrate", "ended"},
     offset : Nat, limit : 0 .. MaxLimit, page : Seq(Records)]

Claims == {"page", "nothing", "no more", "beginning"}

AnswerRecords ==
    [kind : {"search", "next", "previous"}, filters : Filters, requested : Nat,
     offset : Nat, limit : 1 .. MaxLimit, page : Seq(Records), claim : Claims]

PagingTypes ==
    /\ status \in [Records -> {"absent", "draft", "completed", "removed"}] /\ mine \subseteq Records
    /\ context \in Contexts \cup {None} /\ asks \in [Asks -> AskRecords]
    /\ shown \in Seq(AnswerRecords) /\ disturbed \in BOOLEAN
    /\ latest \in Filters \cup {"none"} /\ changes \in Nat

\* What an ask knows at each of its stages.
AskFlow ==
    \A a \in Asks :
      LET ask == asks[a]
      IN /\ ask.stage = "read" => ask.kind \in {"next", "previous"}
         /\ ask.stage \in {"query", "store", "narrate"} =>
              ask.filters \in Filters /\ ask.kind \in {"search", "next", "previous"}
         /\ ask.stage = "query" /\ ask.kind # "search" => ask.limit # 0
         /\ ask.stage \in {"new", "read", "query"} => ask.page = <<>>
         /\ ask.stage \in {"store", "narrate"} => ask.limit # 0
         /\ Len(ask.page) <= ask.limit

Lists == [f \in Filters |-> Matching(f)]

\* What p shows is the page it says it is.
OnItsPage(p) == p.page = PageOf(Lists[p.filters], p.offset, p.limit)

\* The page q comes after the page p, in the direction it was asked for.
GoesOn(p, q) ==
    /\ q.kind \in {"next", "previous"} /\ q.filters = p.filters
    /\ q.limit = IF q.requested = 0 THEN p.limit ELSE RecordLimit(q.requested)
    /\ q.offset = IF q.kind = "next" THEN NextOffset(p, q.limit) ELSE PreviousOffset(p, q.limit)

SamePlace(p, q) == p.filters = q.filters /\ p.limit = q.limit /\ p.offset = q.offset

\* While nothing disturbs the search: what was shown is one walk through one list, the
\* only ask under way is its next step, and the context is where the walk is.
OneWalk ==
    /\ \A i \in DOMAIN shown : OnItsPage(shown[i])
    /\ \A i \in DOMAIN shown : i + 1 \in DOMAIN shown => GoesOn(shown[i], shown[i + 1])
    /\ \A i, j \in DOMAIN shown : shown[i].filters = shown[j].filters
    /\ \A i \in DOMAIN shown : shown[i].kind = "search" => shown[i].offset = 0 /\ latest = shown[i].filters

NextStep ==
    /\ \A a, b \in Open : a = b
    /\ \A a \in Asks : asks[a].stage \in {"store", "narrate"} => OnItsPage(asks[a])
    /\ \A a \in Open : asks[a].kind = "search" =>
         /\ shown = <<>> /\ asks[a].offset = 0
         /\ asks[a].stage = "narrate" => latest = asks[a].filters
    /\ \A a \in Asks :
         asks[a].stage \in {"query", "store", "narrate"} /\ asks[a].kind # "search" /\ shown # <<>>
         => GoesOn(shown[Len(shown)], asks[a])

WhereTheContextIs ==
    /\ \A a \in Asks : asks[a].stage = "narrate" /\ context # None => SamePlace(context, asks[a])
    /\ (\A a \in Asks : asks[a].stage # "narrate") /\ shown # <<>> /\ context # None
       => SamePlace(context, shown[Len(shown)])

PagingInvariant ==
    PagingTypes /\ AskFlow /\ (~disturbed => OneWalk /\ NextStep /\ WhereTheContextIs)

\* The list of a search has the records it finds.
LEMMA MatchingIs ==
    ASSUME NEW f
    PROVE  /\ Matching(f) \in Seq(Records)
           /\ \A i \in DOMAIN Matching(f) : Matching(f)[i] \in Records /\ Found(Matching(f)[i], f)
<1> DEFINE S == {r \in Records : Found(r, f)}
<1>1. IsFiniteSet(Records) /\ Records \in SUBSET Nat
  BY PagingAssumption, IntervalSize DEF Records
<1>2. S \in SUBSET Nat /\ IsFiniteSet(S)
  BY <1>1, FS_Subset
<1>3. Matching(f) = Descending(S)
  BY DEF Matching
<1>4. S \in SUBSET Records /\ \A r \in S : Found(r, f)
  OBVIOUS
<1> HIDE DEF S
<1>5. Cardinality(S) \in Nat /\ Matching(f) \in [1 .. Cardinality(S) -> S]
  BY <1>2, <1>3, DescendingOrder
<1>6. Matching(f) \in [1 .. Cardinality(S) -> Records]
  BY <1>4, <1>5
<1> QED
  BY <1>4, <1>5, <1>6, SeqDef

\* A page of a list is a part of it, no longer than the limit.
LEMMA PageIs ==
    ASSUME NEW S, NEW q \in Seq(S), NEW offset \in Nat, NEW limit \in Nat
    PROVE  /\ PageOf(q, offset, limit) \in Seq(S)
           /\ Len(PageOf(q, offset, limit)) <= limit
           /\ \A i \in DOMAIN PageOf(q, offset, limit) :
                offset + i \in DOMAIN q /\ PageOf(q, offset, limit)[i] = q[offset + i]
<1> DEFINE p == PageOf(q, offset, limit)
           m == Min({offset + limit, Len(q)})
<1>1. Len(q) \in Nat /\ DOMAIN q = 1 .. Len(q) /\ \A i \in 1 .. Len(q) : q[i] \in S
  BY LenProperties, ElementOfSeq
<1>2. m \in Nat /\ m <= offset + limit /\ m <= Len(q)
  <2>1. offset + limit \in Nat
    OBVIOUS
  <2>2. m \in {offset + limit, Len(q)} /\ m <= offset + limit /\ m <= Len(q)
    BY <1>1, <2>1, SmallerOf
  <2> QED
    BY <1>1, <2>1, <2>2
<1>3. p = SubSeq(q, offset + 1, m)
  BY DEF PageOf
<1> HIDE DEF p, m
<1> DEFINE first == offset + 1
<1>0. first \in Nat /\ first = offset + 1 /\ first > 0
  OBVIOUS
<1> HIDE DEF first
<1>4. /\ SubSeq(q, offset + 1, m) \in Seq(S)
      /\ Len(SubSeq(q, offset + 1, m)) = IF offset + 1 <= m THEN m - (offset + 1) + 1 ELSE 0
      /\ \A i \in 1 .. m - (offset + 1) + 1 : SubSeq(q, offset + 1, m)[i] = q[(offset + 1) + i - 1]
  <2>1. first \in Nat \ {0} /\ m \in Nat /\ m <= Len(q)
    BY <1>0, <1>2
  <2>3. /\ SubSeq(q, first, m) \in Seq(S)
        /\ Len(SubSeq(q, first, m)) = IF first <= m THEN m - first + 1 ELSE 0
        /\ \A i \in 1 .. m - first + 1 : SubSeq(q, first, m)[i] = q[first + i - 1]
    BY <2>1, PartFrom
  <2> QED
    BY <2>3 DEF first
<1>5. Len(p) <= limit
  BY <1>2, <1>3, <1>4
<1>6. DOMAIN p = 1 .. Len(p) /\ p \in Seq(S)
  BY <1>3, <1>4, LenProperties
<1>7. ASSUME NEW i \in DOMAIN p PROVE offset + i \in DOMAIN q /\ p[i] = q[offset + i]
  <2>1. i \in Nat /\ i > 0 /\ i <= Len(p) /\ Len(p) \in Nat
    BY <1>6, LenProperties
  <2>2. offset + 1 <= m /\ Len(p) = m - (offset + 1) + 1
    BY <1>3, <1>4, <2>1
  <2>3. i \in 1 .. m - (offset + 1) + 1 /\ (offset + 1) + i - 1 = offset + i /\ offset + i <= m
    BY <1>2, <2>1, <2>2
  <2>4. p[i] = q[offset + i]
    <3>1. SubSeq(q, offset + 1, m)[i] = q[(offset + 1) + i - 1]
      BY <1>4, <2>3
    <3> QED
      BY <1>3, <2>3, <3>1
  <2>5. offset + i \in 1 .. Len(q)
    BY <1>1, <1>2, <2>1, <2>3
  <2> QED
    BY <1>1, <2>4, <2>5
<1> QED
  BY <1>3, <1>5, <1>6, <1>7 DEF p

\* What getRecordLimit gives.
LEMMA RecordLimitIs ==
    ASSUME NEW n \in Nat
    PROVE  RecordLimit(n) \in 1 .. MaxLimit
<1>1. MaxLimit \in Nat /\ DefaultLimit \in 1 .. MaxLimit
  BY PagingAssumption
<1>2. CASE n = 0
  BY <1>1, <1>2 DEF RecordLimit
<1>3. CASE n # 0
  <2>1. Min({n, MaxLimit}) \in {n, MaxLimit} /\ Min({n, MaxLimit}) <= MaxLimit
    BY <1>1, SmallerOf
  <2>2. RecordLimit(n) = Min({n, MaxLimit})
    BY <1>3 DEF RecordLimit
  <2> QED
    BY <1>1, <1>3, <2>1, <2>2
<1> QED
  BY <1>2, <1>3

LEMMA PagingInitially == PagingInit => PagingInvariant
<1> SUFFICES ASSUME PagingInit PROVE PagingInvariant
  OBVIOUS
<1>1. NoAsk \in AskRecords
  BY PagingAssumption, EmptySeq DEF NoAsk, AskRecords
<1>2. PagingTypes
  BY <1>1, EmptySeq DEF PagingInit, PagingTypes, Records
<1>3. AskFlow
  <2>1. Len(NoAsk.page) = 0 /\ NoAsk.limit = 0 /\ NoAsk.stage = "new"
    BY EmptySeq DEF NoAsk
  <2>2. \A a \in Asks : asks[a] = NoAsk
    BY DEF PagingInit
  <2> QED
    BY <2>1, <2>2 DEF AskFlow
<1>4. OneWalk /\ NextStep /\ WhereTheContextIs
  <2>1. \A a \in Asks : asks[a].stage = "new"
    BY DEF PagingInit, NoAsk
  <2>2. shown = <<>> /\ DOMAIN shown = {} /\ context = None
    BY DEF PagingInit
  <2>3. Open = {}
    BY <2>1 DEF Open
  <2>4. OneWalk
    BY <2>2 DEF OneWalk
  <2>5. NextStep
    BY <2>1, <2>2, <2>3 DEF NextStep
  <2> QED
    BY <2>1, <2>2, <2>4, <2>5 DEF WhereTheContextIs
<1> QED
  BY <1>2, <1>3, <1>4 DEF PagingInvariant

\* The walk goes on undisturbed while nothing it is about changes.
LEMMA WalkStays ==
    ASSUME OneWalk, UNCHANGED <<status, mine, shown, latest>>
    PROVE  OneWalk'
<1>1. Lists' = Lists
  BY DEF Lists, Matching, Found, Present, Accessible
<1> QED
  BY <1>1 DEF OneWalk, OnItsPage

\* An ask begins.
LEMMA AskKeeps ==
    ASSUME PagingInvariant, NEW a \in Asks, NEW kind, NEW f, NEW n \in Nat, Ask(a, kind, f, n),
           \/ kind = "search" /\ f \in Filters
           \/ kind \in {"next", "previous"} /\ f = "none"
    PROVE  PagingInvariant'
<1> DEFINE ask == [NoAsk EXCEPT !.kind = kind, !.filters = f, !.requested = n,
                                !.stage = IF kind = "search" THEN "query" ELSE "read"]
<1>1. /\ ask.kind = kind /\ ask.filters = f /\ ask.requested = n /\ ask.offset = 0 /\ ask.limit = 0
      /\ ask.page = <<>> /\ ask.stage = IF kind = "search" THEN "query" ELSE "read"
      /\ ask \in AskRecords
  <2>1. PICK stage \in {"query", "read"} : stage = IF kind = "search" THEN "query" ELSE "read"
    BY Zenon
  <2>2. NoAsk \in AskRecords
    BY PagingAssumption, EmptySeq DEF NoAsk, AskRecords
  <2>3. ask = [NoAsk EXCEPT !.kind = kind, !.filters = f, !.requested = n, !.stage = stage]
    BY <2>1
  <2>4. kind \in {"search", "next", "previous"} /\ f \in Filters \cup {"none"}
    OBVIOUS
  <2>5. ask \in AskRecords
    BY <2>2, <2>3, <2>4 DEF AskRecords
  <2>6. NoAsk.offset = 0 /\ NoAsk.limit = 0 /\ NoAsk.page = <<>>
    BY DEF NoAsk
  <2>7. /\ ask.kind = kind /\ ask.filters = f /\ ask.requested = n /\ ask.stage = stage
        /\ ask.offset = NoAsk.offset /\ ask.limit = NoAsk.limit /\ ask.page = NoAsk.page
    BY <2>2, <2>3 DEF AskRecords
  <2> QED
    BY <2>1, <2>5, <2>6, <2>7
<1>2. asks' = [asks EXCEPT ![a] = ask] /\ asks \in [Asks -> AskRecords]
  BY DEF Ask, PagingInvariant, PagingTypes
<1>3. /\ asks[a].stage = "new" /\ UNCHANGED <<status, mine, context, latest, changes>>
      /\ \/ kind = "search" /\ shown' = <<>> /\ disturbed' = (Open # {})
         \/ kind # "search" /\ shown' = shown /\ disturbed' = (disturbed \/ Open # {})
  BY DEF Ask
<1> HIDE DEF ask
<1>4. asks'[a] = ask /\ \A b \in Asks \ {a} : asks'[b] = asks[b]
  BY <1>2
<1>5. PagingTypes'
  <2>1. asks' \in [Asks -> AskRecords]
    BY <1>1, <1>2
  <2>2. shown' \in Seq(AnswerRecords) /\ disturbed' \in BOOLEAN
    BY <1>3, EmptySeq DEF PagingInvariant, PagingTypes
  <2> QED
    BY <1>3, <2>1, <2>2 DEF PagingInvariant, PagingTypes
<1>6. AskFlow'
  <2>1. Len(ask.page) = 0
    BY <1>1, EmptySeq
  <2> QED
    BY <1>1, <1>4, <2>1 DEF PagingInvariant, AskFlow
<1>7. ASSUME ~disturbed' PROVE (OneWalk /\ NextStep /\ WhereTheContextIs)'
  <2>1. Open = {} /\ (kind # "search" => ~disturbed)
    BY <1>3, <1>7
  <2>2. \A b \in Asks : asks[b].stage \in {"new", "ended"}
    BY <2>1 DEF Open
  <2>3. \A b \in Asks : asks'[b].stage \notin {"store", "narrate"}
                        /\ (b # a => asks'[b].stage \in {"new", "ended"})
    BY <1>1, <1>4, <2>2
  <2>4. OneWalk'
    <3>1. CASE kind = "search"
      <4>1. DOMAIN shown' = {}
        BY <1>3, <3>1
      <4> QED
        BY <4>1 DEF OneWalk
    <3>2. CASE kind # "search"
      BY <1>3, <2>1, <3>2, WalkStays DEF PagingInvariant
    <3> QED
      BY <3>1, <3>2
  <2>5. NextStep'
    <3>1. \A b \in Open' : b = a
      BY <2>3 DEF Open
    <3>2. ask.kind = "search" => shown' = <<>> /\ ask.offset = 0
      BY <1>1, <1>3
    <3>3. asks'[a].stage \in {"query", "store", "narrate"} => ask.kind = "search"
      BY <1>1, <1>4
    <3> QED
      BY <1>4, <2>3, <3>1, <3>2, <3>3 DEF NextStep
  <2>6. WhereTheContextIs'
    <3>1. CASE kind = "search"
      BY <1>3, <2>3, <3>1 DEF WhereTheContextIs
    <3>2. CASE kind # "search"
      BY <1>3, <2>1, <2>2, <2>3, <3>2 DEF WhereTheContextIs, PagingInvariant
    <3> QED
      BY <3>1, <3>2
  <2> QED
    BY <2>4, <2>5, <2>6
<1> QED
  BY <1>5, <1>6, <1>7 DEF PagingInvariant
LEMMA AskIs ==
    ASSUME PagingInvariant, NEW a \in Asks
    PROVE  /\ asks[a] \in AskRecords /\ asks \in [Asks -> AskRecords]
           /\ asks[a].offset \in Nat /\ asks[a].requested \in Nat /\ asks[a].limit \in 0 .. MaxLimit
           /\ asks[a].page \in Seq(Records)
BY DEF PagingInvariant, PagingTypes, AskRecords

\* The record of an ask whose stage and place changed.
LEMMA AskWith ==
    ASSUME NEW ask \in AskRecords, NEW stage \in {"read", "query", "store", "narrate", "ended"},
           NEW f \in Filters \cup {"none"}, NEW offset \in Nat, NEW limit \in 0 .. MaxLimit,
           NEW p \in Seq(Records), NEW new,
           new = [ask EXCEPT !.stage = stage, !.filters = f, !.offset = offset, !.limit = limit, !.page = p]
    PROVE  /\ new \in AskRecords /\ new.stage = stage /\ new.filters = f /\ new.offset = offset
           /\ new.limit = limit /\ new.page = p /\ new.kind = ask.kind /\ new.requested = ask.requested
BY DEF AskRecords

\* The context it reads says where the walk is; the ask goes on from there.
LEMMA ReadContextKeeps ==
    ASSUME PagingInvariant, NEW a \in Asks, ReadContext(a), context # None
    PROVE  PagingInvariant'
<1> DEFINE ask == asks[a]
           limit == IF ask.requested = 0 THEN context.limit ELSE RecordLimit(ask.requested)
           offset == IF ask.kind = "next" THEN NextOffset(context, limit) ELSE PreviousOffset(context, limit)
           new == [ask EXCEPT !.stage = "query", !.filters = context.filters, !.limit = limit, !.offset = offset]
<1>1. /\ context \in Contexts /\ context.filters \in Filters /\ context.limit \in 1 .. MaxLimit
      /\ context.offset \in Nat
  BY DEF PagingInvariant, PagingTypes, Contexts
<1>2. /\ ask \in AskRecords /\ asks \in [Asks -> AskRecords] /\ ask.requested \in Nat
      /\ ask.offset \in Nat /\ ask.page \in Seq(Records) /\ ask.limit \in 0 .. MaxLimit
      /\ ask.stage = "read" /\ ask.kind \in {"next", "previous"}
  BY AskIs DEF ReadContext, PagingInvariant, AskFlow
<1>3. limit \in 1 .. MaxLimit
  BY <1>1, <1>2, RecordLimitIs
<1>4. MaxLimit \in Nat
  BY PagingAssumption
<1>5. limit \in Nat /\ limit # 0 /\ limit \in 0 .. MaxLimit /\ limit <= MaxLimit
  BY <1>3, <1>4
<1>6. offset \in Nat
  <2> HIDE DEF limit
  <2>1. NextOffset(context, limit) \in Nat
    BY <1>1, <1>4 DEF NextOffset
  <2>2. PreviousOffset(context, limit) \in Nat
    BY <1>1, <1>5 DEF PreviousOffset
  <2> QED
    BY <2>1, <2>2
<1>7. asks' = [asks EXCEPT ![a] = new]
      /\ UNCHANGED <<status, mine, context, shown, disturbed, latest, changes>>
  BY DEF ReadContext
<1> HIDE DEF limit, offset
<1>8. PICK l \in 1 .. MaxLimit, o \in Nat : l = limit /\ o = offset
  BY <1>3, <1>6
<1>9. /\ new \in AskRecords /\ new.stage = "query" /\ new.filters = context.filters /\ new.limit = limit
      /\ new.offset = offset /\ new.kind = ask.kind /\ new.requested = ask.requested
      /\ new.page = ask.page
  BY <1>1, <1>2, <1>5, <1>6 DEF AskRecords
<1> HIDE DEF new
<1>10. asks'[a] = new /\ \A b \in Asks \ {a} : asks'[b] = asks[b]
  BY <1>2, <1>7
<1>11. PagingTypes'
  BY <1>2, <1>7, <1>9 DEF PagingInvariant, PagingTypes
<1>12. Len(new.page) <= new.limit
  <2>1. Len(ask.page) = 0
    <3>1. ask.page = <<>>
      BY <1>2 DEF PagingInvariant, AskFlow
    <3> QED
      BY <3>1, EmptySeq
  <2> QED
    BY <1>5, <1>9, <2>1
<1>13. AskFlow'
  BY <1>1, <1>2, <1>5, <1>9, <1>10, <1>12 DEF PagingInvariant, AskFlow
<1>14. ASSUME ~disturbed' PROVE (OneWalk /\ NextStep /\ WhereTheContextIs)'
  <2>1. OneWalk /\ NextStep /\ WhereTheContextIs
    BY <1>7, <1>14 DEF PagingInvariant
  <2>2. OneWalk'
    BY <1>7, <2>1, WalkStays
  <2>3. Lists' = Lists
    BY <1>7 DEF Lists, Matching, Found, Present, Accessible
  <2>4. Open' = Open /\ a \in Open
    BY <1>2, <1>9, <1>10 DEF Open
  <2>5. \A b \in Asks : asks[b].stage = "narrate" => b = a
    BY <2>1, <2>4 DEF NextStep, Open
  <2>6. shown # <<>> => SamePlace(context, shown[Len(shown)])
    BY <1>2, <2>1, <2>5 DEF WhereTheContextIs
  <2>7. shown # <<>> => GoesOn(shown[Len(shown)], new)
    BY <1>2, <1>9, <2>6 DEF SamePlace, GoesOn, NextOffset, PreviousOffset, limit, offset
  <2>8. NextStep'
    <3>1. \A b \in Asks : asks'[b].stage \in {"store", "narrate"} => b # a /\ OnItsPage(asks[b])
      BY <1>9, <1>10, <2>1 DEF NextStep
    <3>2. \A b \in Asks : asks'[b].stage \in {"store", "narrate"} => OnItsPage(asks[b])'
      BY <1>10, <2>3, <3>1 DEF OnItsPage
    <3> QED
      BY <1>2, <1>7, <1>9, <1>10, <2>1, <2>4, <2>7, <3>2 DEF NextStep
  <2>9. WhereTheContextIs'
    BY <1>2, <1>7, <1>9, <1>10, <2>1, <2>5, <2>6 DEF WhereTheContextIs
  <2> QED
    BY <2>2, <2>8, <2>9
<1> QED
  BY <1>11, <1>13, <1>14 DEF PagingInvariant

\* An ask that ends without an answer.
LEMMA EndingKeeps ==
    ASSUME PagingInvariant, NEW a \in Asks, asks' = [asks EXCEPT ![a] = Ended],
           asks[a].stage # "narrate" \/ disturbed',
           disturbed' \in BOOLEAN, disturbed => disturbed',
           UNCHANGED <<status, mine, context, shown, latest, changes>>
    PROVE  PagingInvariant'
<1>1. /\ Ended \in AskRecords /\ Ended.stage = "ended" /\ Len(Ended.page) = 0 /\ Ended.limit = 0
  <2>1. NoAsk \in AskRecords /\ Len(NoAsk.page) = 0 /\ NoAsk.limit = 0
    BY PagingAssumption, EmptySeq DEF NoAsk, AskRecords
  <2> QED
    BY <2>1 DEF Ended, AskRecords
<1>2. asks'[a] = Ended /\ asks' \in [Asks -> AskRecords] /\ \A b \in Asks \ {a} : asks'[b] = asks[b]
  BY <1>1, AskIs
<1>3. PagingTypes' /\ AskFlow'
  BY <1>1, <1>2 DEF PagingInvariant, PagingTypes, AskFlow
<1>4. ASSUME ~disturbed' PROVE (OneWalk /\ NextStep /\ WhereTheContextIs)'
  <2>1. OneWalk /\ NextStep /\ WhereTheContextIs
    BY <1>4 DEF PagingInvariant
  <2>2. OneWalk' /\ Lists' = Lists
    BY <2>1, WalkStays DEF Lists, Matching, Found, Present, Accessible
  <2>3. Open' \subseteq Open /\ a \notin Open'
    BY <1>1, <1>2 DEF Open
  <2>4. NextStep'
    <3>1. \A b \in Asks : asks'[b].stage \in {"store", "narrate"} => b # a /\ OnItsPage(asks[b])
      BY <1>1, <1>2, <2>1 DEF NextStep
    <3>2. \A b \in Asks : asks'[b].stage \in {"store", "narrate"} => OnItsPage(asks[b])'
      BY <1>2, <2>2, <3>1 DEF OnItsPage
    <3> QED
      BY <1>1, <1>2, <2>1, <2>3, <3>2 DEF NextStep
  <2>5. WhereTheContextIs'
    BY <1>1, <1>2, <1>4, <2>1 DEF WhereTheContextIs
  <2> QED
    BY <2>2, <2>4, <2>5
<1> QED
  BY <1>3, <1>4 DEF PagingInvariant
\* The query: its page is the one the list has there.
LEMMA QueryKeeps ==
    ASSUME PagingInvariant, NEW a \in Asks, Query(a)
    PROVE  PagingInvariant'
<1> DEFINE ask == asks[a]
           limit == IF ask.kind = "search" THEN RecordLimit(ask.requested) ELSE ask.limit
           p == PageOf(Matching(ask.filters), ask.offset, limit)
           new == [ask EXCEPT !.stage = "store", !.limit = limit, !.page = p]
<1>1. /\ ask \in AskRecords /\ asks \in [Asks -> AskRecords] /\ ask.requested \in Nat
      /\ ask.offset \in Nat /\ ask.limit \in 0 .. MaxLimit /\ ask.stage = "query"
      /\ ask.filters \in Filters /\ ask.kind \in {"search", "next", "previous"}
      /\ ask.kind # "search" => ask.limit # 0
  BY AskIs DEF Query, PagingInvariant, AskFlow
<1>2. limit \in 0 .. MaxLimit /\ limit # 0 /\ limit \in Nat
  BY <1>1, RecordLimitIs, PagingAssumption
<1>3. p \in Seq(Records) /\ Len(p) <= limit
  <2> HIDE DEF limit
  <2> QED
    BY <1>1, <1>2, MatchingIs, PageIs
<1>4. asks' = [asks EXCEPT ![a] = new]
      /\ UNCHANGED <<status, mine, context, shown, disturbed, latest, changes>>
  <2>1. asks' = [asks EXCEPT ![a].stage = "store", ![a].limit = limit, ![a].page = p]
        /\ UNCHANGED <<status, mine, context, shown, disturbed, latest, changes>>
    BY DEF Query
  <2> HIDE DEF limit, p
  <2> QED
    BY <1>1, <2>1
<1> HIDE DEF limit, p
<1>5. /\ new \in AskRecords /\ new.stage = "store" /\ new.limit = limit /\ new.page = p
      /\ new.filters = ask.filters /\ new.offset = ask.offset /\ new.kind = ask.kind
      /\ new.requested = ask.requested
  BY <1>1, <1>2, <1>3 DEF AskRecords
<1> HIDE DEF new
<1>6. asks'[a] = new /\ \A b \in Asks \ {a} : asks'[b] = asks[b]
  BY <1>1, <1>4
<1>7. PagingTypes' /\ AskFlow'
  BY <1>1, <1>2, <1>3, <1>4, <1>5, <1>6 DEF PagingInvariant, PagingTypes, AskFlow
<1>8. ASSUME ~disturbed' PROVE (OneWalk /\ NextStep /\ WhereTheContextIs)'
  <2>1. OneWalk /\ NextStep /\ WhereTheContextIs
    BY <1>4, <1>8 DEF PagingInvariant
  <2>2. OneWalk' /\ Lists' = Lists
    BY <1>4, <2>1, WalkStays DEF Lists, Matching, Found, Present, Accessible
  <2>3. Open' = Open /\ a \in Open
    BY <1>1, <1>5, <1>6 DEF Open
  <2>4. OnItsPage(asks[a])'
    <3>1. p = PageOf(Lists[ask.filters], ask.offset, limit)
      BY <1>1 DEF p, Lists
    <3> QED
      BY <1>5, <1>6, <2>2, <3>1 DEF OnItsPage
  <2>5. NextStep'
    <3>1. \A b \in Asks \ {a} : asks'[b].stage \in {"store", "narrate"} => OnItsPage(asks[b])
      BY <1>6, <2>1 DEF NextStep
    <3>2. \A b \in Asks : asks'[b].stage \in {"store", "narrate"} => OnItsPage(asks[b])'
      BY <1>6, <2>2, <2>4, <3>1 DEF OnItsPage
    <3>3. shown # <<>> /\ ask.kind # "search" => GoesOn(shown[Len(shown)], new)
      <4>1. limit = ask.limit \/ ask.kind = "search"
        BY DEF limit
      <4> QED
        BY <1>1, <1>5, <2>1, <4>1 DEF NextStep, GoesOn, NextOffset, PreviousOffset
    <3> QED
      BY <1>1, <1>4, <1>5, <1>6, <2>1, <2>3, <3>2, <3>3 DEF NextStep
  <2>6. WhereTheContextIs'
    BY <1>1, <1>4, <1>5, <1>6, <2>1 DEF WhereTheContextIs
  <2> QED
    BY <2>2, <2>5, <2>6
<1> QED
  BY <1>7, <1>8 DEF PagingInvariant

\* The context moves on, before the answer is seen.
LEMMA SetContextKeeps ==
    ASSUME PagingInvariant, NEW a \in Asks, SetContext(a)
    PROVE  PagingInvariant'
<1> DEFINE ask == asks[a]
           new == [ask EXCEPT !.stage = "narrate"]
<1>1. /\ ask \in AskRecords /\ asks \in [Asks -> AskRecords] /\ ask.stage = "store"
      /\ ask.offset \in Nat /\ ask.limit \in 0 .. MaxLimit /\ ask.limit # 0
      /\ ask.filters \in Filters /\ ask.kind \in {"search", "next", "previous"}
  BY AskIs DEF SetContext, PagingInvariant, AskFlow
<1>2. /\ asks' = [asks EXCEPT ![a] = new]
      /\ context' = [filters |-> ask.filters, limit |-> ask.limit, offset |-> ask.offset]
      /\ latest' = IF ask.kind = "search" THEN ask.filters ELSE latest
      /\ UNCHANGED <<status, mine, shown, disturbed, changes>>
  BY <1>1 DEF SetContext, ContextOf
<1>3. /\ new \in AskRecords /\ new.stage = "narrate" /\ new.limit = ask.limit /\ new.page = ask.page
      /\ new.filters = ask.filters /\ new.offset = ask.offset /\ new.kind = ask.kind
      /\ new.requested = ask.requested
  BY <1>1 DEF AskRecords
<1> HIDE DEF new
<1>4. asks'[a] = new /\ \A b \in Asks \ {a} : asks'[b] = asks[b]
  BY <1>1, <1>2
<1>5. context' \in Contexts /\ SamePlace(context', new)
  <2>1. ask.limit \in 1 .. MaxLimit
    BY <1>1, PagingAssumption
  <2> QED
    BY <1>1, <1>2, <1>3, <2>1 DEF Contexts, SamePlace
<1>6. PagingTypes'
  BY <1>1, <1>2, <1>3, <1>5 DEF PagingInvariant, PagingTypes
<1>7. AskFlow'
  BY <1>1, <1>3, <1>4 DEF PagingInvariant, AskFlow
<1>8. ASSUME ~disturbed' PROVE (OneWalk /\ NextStep /\ WhereTheContextIs)'
  <2>1. OneWalk /\ NextStep /\ WhereTheContextIs
    BY <1>2, <1>8 DEF PagingInvariant
  <2>2. Lists' = Lists
    BY <1>2 DEF Lists, Matching, Found, Present, Accessible
  <2>3. Open' = Open /\ a \in Open
    BY <1>1, <1>3, <1>4 DEF Open
  <2>4. OneWalk'
    <3>1. CASE ask.kind = "search"
      <4>1. DOMAIN shown' = {}
        BY <1>1, <1>2, <2>1, <2>3, <3>1 DEF NextStep
      <4> QED
        BY <4>1 DEF OneWalk
    <3>2. CASE ask.kind # "search"
      BY <1>2, <2>1, <3>2, WalkStays
    <3> QED
      BY <3>1, <3>2
  <2>5. NextStep'
    <3>1. \A b \in Asks \ {a} : asks'[b].stage \in {"store", "narrate"} => OnItsPage(asks[b])
      BY <1>4, <2>1 DEF NextStep
    <3>2. ask.page = PageOf(Lists[ask.filters], ask.offset, ask.limit)
      BY <1>1, <2>1 DEF NextStep, OnItsPage
    <3>3. \A b \in Asks : asks'[b].stage \in {"store", "narrate"} => OnItsPage(asks[b])'
      BY <1>3, <1>4, <2>2, <3>1, <3>2 DEF OnItsPage
    <3>4. shown # <<>> /\ ask.kind # "search" => GoesOn(shown[Len(shown)], new)
      BY <1>1, <1>3, <2>1 DEF NextStep, GoesOn, NextOffset, PreviousOffset
    <3>5. \A b \in Asks : asks'[b].stage \in {"query", "store", "narrate"} /\ asks'[b].kind # "search"
                          /\ shown # <<>> => GoesOn(shown[Len(shown)], asks'[b])
      <4>1. \A b \in Asks \ {a} :
              asks[b].stage \in {"query", "store", "narrate"} /\ asks[b].kind # "search" /\ shown # <<>>
              => GoesOn(shown[Len(shown)], asks[b])
        BY <2>1 DEF NextStep
      <4>2. shown # <<>> /\ asks'[a].kind # "search" => GoesOn(shown[Len(shown)], asks'[a])
        BY <1>3, <1>4, <3>4
      <4> QED
        BY <1>4, <4>1, <4>2
    <3>6. \A b \in Open : asks'[b].kind = "search" =>
            /\ shown = <<>> /\ asks'[b].offset = 0
            /\ asks'[b].stage = "narrate" => latest' = asks'[b].filters
      BY <1>2, <1>3, <1>4, <2>1, <2>3 DEF NextStep
    <3> QED
      BY <1>2, <2>1, <2>3, <3>3, <3>5, <3>6 DEF NextStep
  <2>6. WhereTheContextIs'
    <3>1. \A b \in Asks : asks'[b].stage = "narrate" => b = a
      BY <1>3, <1>4, <2>1, <2>3 DEF NextStep, Open
    <3>2. asks'[a].stage = "narrate" /\ SamePlace(context', asks'[a])
      BY <1>3, <1>4, <1>5
    <3> QED
      BY <3>1, <3>2 DEF WhereTheContextIs
  <2> QED
    BY <2>4, <2>5, <2>6
<1> QED
  BY <1>6, <1>7, <1>8 DEF PagingInvariant
\* The answer is the next step of the walk.
LEMMA AnswerPageKeeps ==
    ASSUME PagingInvariant, NEW a \in Asks, AnswerPage(a)
    PROVE  PagingInvariant'
<1> DEFINE ask == asks[a]
           answer == [kind |-> ask.kind, filters |-> ask.filters, requested |-> ask.requested,
                      offset |-> ask.offset, limit |-> ask.limit, page |-> ask.page, claim |-> Claim(a)]
           n == Len(shown)
<1>1. /\ ask \in AskRecords /\ asks \in [Asks -> AskRecords] /\ ask.stage = "narrate"
      /\ ask.offset \in Nat /\ ask.limit \in 0 .. MaxLimit /\ ask.limit # 0 /\ ask.requested \in Nat
      /\ ask.page \in Seq(Records) /\ ask.filters \in Filters /\ ask.kind \in {"search", "next", "previous"}
  BY AskIs DEF AnswerPage, PagingInvariant, AskFlow
<1>2. /\ shown' = Append(shown, answer) /\ asks' = [asks EXCEPT ![a] = Ended]
      /\ UNCHANGED <<status, mine, context, disturbed, latest, changes>>
  BY DEF AnswerPage
<1>3. answer \in AnswerRecords
  <2>1. Claim(a) \in Claims
    BY <1>1 DEF Claim, Claims
  <2>2. ask.limit \in 1 .. MaxLimit
    BY <1>1, PagingAssumption
  <2> QED
    BY <1>1, <2>1, <2>2 DEF AnswerRecords
<1>4. shown \in Seq(AnswerRecords) /\ n \in Nat
  BY LenProperties DEF PagingInvariant, PagingTypes
<1>5. /\ answer.kind = ask.kind /\ answer.filters = ask.filters /\ answer.requested = ask.requested
      /\ answer.offset = ask.offset /\ answer.limit = ask.limit /\ answer.page = ask.page
  OBVIOUS
<1> HIDE DEF answer, n
<1>6. /\ shown' \in Seq(AnswerRecords) /\ Len(shown') = n + 1 /\ DOMAIN shown' = 1 .. n + 1
      /\ \A i \in 1 .. n : shown'[i] = shown[i]
      /\ DOMAIN shown = 1 .. n /\ shown' # <<>>
  <2>1. /\ shown' \in Seq(AnswerRecords) /\ Len(shown') = n + 1
        /\ \A i \in 1 .. n : shown'[i] = shown[i]
    BY <1>2, <1>3, <1>4, AppendProperties DEF n
  <2>2. DOMAIN shown' = 1 .. n + 1 /\ DOMAIN shown = 1 .. n
    BY <1>4, <2>1, LenProperties DEF n
  <2>3. shown' # <<>>
    BY <1>4, <2>1, EmptySeq
  <2> QED
    BY <2>1, <2>2, <2>3
<1>7. shown'[n + 1] = answer
  BY <1>2, <1>3, <1>4, AppendProperties DEF n
<1>8. /\ Ended \in AskRecords /\ Ended.stage = "ended" /\ Len(Ended.page) = 0 /\ Ended.limit = 0
  <2>1. NoAsk \in AskRecords /\ Len(NoAsk.page) = 0 /\ NoAsk.limit = 0
    BY PagingAssumption, EmptySeq DEF NoAsk, AskRecords
  <2> QED
    BY <2>1 DEF Ended, AskRecords
<1>9. asks'[a] = Ended /\ asks' \in [Asks -> AskRecords] /\ \A b \in Asks \ {a} : asks'[b] = asks[b]
  BY <1>1, <1>2, <1>8
<1>10. PagingTypes' /\ AskFlow'
  BY <1>2, <1>6, <1>8, <1>9 DEF PagingInvariant, PagingTypes, AskFlow
<1>11. ASSUME ~disturbed' PROVE (OneWalk /\ NextStep /\ WhereTheContextIs)'
  <2>1. OneWalk /\ NextStep /\ WhereTheContextIs
    BY <1>2, <1>11 DEF PagingInvariant
  <2>2. Lists' = Lists
    BY <1>2 DEF Lists, Matching, Found, Present, Accessible
  <2>3. a \in Open /\ Open' = {}
    <3>1. a \in Open
      BY <1>1 DEF Open
    <3>2. \A b \in Open : b = a
      BY <2>1, <3>1 DEF NextStep
    <3> QED
      BY <1>8, <1>9, <3>1, <3>2 DEF Open
  <2>4. \A b \in Asks : asks'[b].stage \in {"new", "ended"}
    BY <1>9, <2>3 DEF Open
  <2>5. n # 0 => shown # <<>> /\ n \in DOMAIN shown /\ ask.kind # "search" /\ GoesOn(shown[n], answer)
    <3> SUFFICES ASSUME n # 0
                 PROVE  shown # <<>> /\ n \in DOMAIN shown /\ ask.kind # "search" /\ GoesOn(shown[n], answer)
      OBVIOUS
    <3>1. shown # <<>>
      BY EmptySeq DEF n
    <3>2. ask.kind # "search"
      BY <2>1, <2>3, <3>1 DEF NextStep
    <3>3. GoesOn(shown[n], ask)
      BY <1>1, <2>1, <3>1, <3>2 DEF NextStep, n
    <3>4. GoesOn(shown[n], answer)
      BY <1>5, <3>3 DEF GoesOn
    <3>5. n \in DOMAIN shown
      BY <1>4, <1>6
    <3> QED
      BY <3>1, <3>2, <3>4, <3>5
  <2>6. OneWalk'
    <3>1. \A i \in DOMAIN shown' : OnItsPage(shown[i])'
      <4>1. answer.page = PageOf(Lists[answer.filters], answer.offset, answer.limit)
        BY <1>1, <1>5, <2>1 DEF NextStep, OnItsPage
      <4>2. \A i \in 1 .. n : shown[i].page = PageOf(Lists[shown[i].filters], shown[i].offset, shown[i].limit)
        BY <1>6, <2>1 DEF OneWalk, OnItsPage
      <4>3. \A i \in 1 .. n + 1 : i \in 1 .. n \/ i = n + 1
        BY <1>4
      <4> QED
        BY <1>6, <1>7, <2>2, <4>1, <4>2, <4>3 DEF OnItsPage
    <3>2. ASSUME NEW i \in DOMAIN shown', i + 1 \in DOMAIN shown' PROVE GoesOn(shown'[i], shown'[i + 1])
      <4>1. i \in Nat /\ i > 0 /\ i <= n
        BY <1>4, <1>6, <3>2
      <4>2. CASE i = n
        BY <1>6, <1>7, <2>5, <4>1, <4>2
      <4>3. CASE i # n
        <5>1. i \in 1 .. n /\ i + 1 \in 1 .. n
          BY <1>4, <4>1, <4>3
        <5>2. GoesOn(shown[i], shown[i + 1])
          BY <1>6, <2>1, <5>1 DEF OneWalk
        <5> QED
          BY <1>6, <5>1, <5>2
      <4> QED
        BY <4>2, <4>3
    <3>3. \A i \in 1 .. n : shown[i].filters = answer.filters
      <4> SUFFICES ASSUME NEW i \in 1 .. n PROVE shown[i].filters = answer.filters
        OBVIOUS
      <4>1. n # 0
        BY <1>4
      <4>2. answer.filters = shown[n].filters
        BY <2>5, <4>1 DEF GoesOn
      <4> QED
        BY <1>6, <2>1, <2>5, <4>1, <4>2 DEF OneWalk
    <3>4. \A i \in 1 .. n + 1 : i \in 1 .. n \/ i = n + 1
      BY <1>4
    <3>5. \A i, j \in DOMAIN shown' : shown'[i].filters = shown'[j].filters
      BY <1>6, <1>7, <3>3, <3>4
    <3>6. answer.kind = "search" => answer.offset = 0 /\ latest = answer.filters
      BY <1>1, <1>5, <2>1, <2>3 DEF NextStep
    <3>7. \A i \in DOMAIN shown' : shown'[i].kind = "search" =>
            shown'[i].offset = 0 /\ latest' = shown'[i].filters
      BY <1>2, <1>6, <1>7, <2>1, <3>4, <3>6 DEF OneWalk
    <3> QED
      BY <3>1, <3>2, <3>5, <3>7 DEF OneWalk
  <2>7. NextStep'
    BY <2>3, <2>4 DEF NextStep
  <2>8. WhereTheContextIs'
    <3>1. context # None => SamePlace(context, answer)
      BY <1>1, <1>5, <2>1 DEF WhereTheContextIs, SamePlace
    <3> QED
      BY <1>2, <1>6, <1>7, <2>4, <3>1 DEF WhereTheContextIs
  <2> QED
    BY <2>6, <2>7, <2>8
<1> QED
  BY <1>10, <1>11 DEF PagingInvariant

LEMMA PagingKeeps ==
    ASSUME PagingInvariant, [PagingNext]_pagingVars
    PROVE  PagingInvariant'
<1>1. ASSUME UNCHANGED <<status, mine, asks, shown, disturbed, latest>>, changes' \in Nat,
             context' = context \/ context' = None
      PROVE  PagingInvariant'
  <2>1. PagingTypes' /\ AskFlow'
    BY <1>1 DEF PagingInvariant, PagingTypes, AskFlow
  <2>2. Lists' = Lists /\ (OneWalk => OneWalk')
    BY <1>1, WalkStays DEF Lists, Matching, Found, Present, Accessible
  <2>3. NextStep => NextStep'
    BY <1>1, <2>2 DEF NextStep, OnItsPage, Open
  <2>4. WhereTheContextIs => WhereTheContextIs'
    BY <1>1 DEF WhereTheContextIs
  <2> QED
    BY <1>1, <2>1, <2>2, <2>3, <2>4 DEF PagingInvariant
<1>2. CASE UNCHANGED pagingVars
  BY <1>1, <1>2 DEF pagingVars, PagingInvariant, PagingTypes
<1>3. CASE Expire
  BY <1>1, <1>3 DEF Expire, PagingInvariant, PagingTypes
<1>4. ASSUME NEW r \in Records, NEW s \in {"draft", "completed", "removed"}, Change(r, s)
      PROVE  PagingInvariant'
  BY <1>4 DEF Change, PagingInvariant, PagingTypes, AskFlow
<1>5. ASSUME NEW a \in Asks, NEW f \in Filters, NEW n \in Requested, Ask(a, "search", f, n)
      PROVE  PagingInvariant'
  BY <1>5, AskKeeps, PagingAssumption
<1>6. ASSUME NEW a \in Asks, NEW kind \in Directions, NEW n \in Requested, Ask(a, kind, "none", n)
      PROVE  PagingInvariant'
  <2>1. kind \in {"next", "previous"} /\ n \in Nat
    BY PagingAssumption
  <2> QED
    BY <1>6, <2>1, AskKeeps
<1>7. ASSUME NEW a \in Asks, ReadContext(a) PROVE PagingInvariant'
  <2>1. CASE context # None
    BY <1>7, <2>1, ReadContextKeeps
  <2>2. CASE context = None
    <3>1. asks' = [asks EXCEPT ![a] = Ended] /\ asks[a].stage = "read"
          /\ UNCHANGED <<status, mine, context, shown, disturbed, latest, changes>>
      BY <1>7, <2>2 DEF ReadContext
    <3> QED
      BY <3>1, EndingKeeps DEF PagingInvariant, PagingTypes
  <2> QED
    BY <2>1, <2>2
<1>8. ASSUME NEW a \in Asks, Fail(a) PROVE PagingInvariant'
  BY <1>8, EndingKeeps DEF Fail, PagingInvariant, PagingTypes
<1>9. ASSUME NEW a \in Asks, GiveUpAsk(a) PROVE PagingInvariant'
  BY <1>9, EndingKeeps DEF GiveUpAsk
<1> QED
  BY <1>2, <1>3, <1>4, <1>5, <1>6, <1>7, <1>8, <1>9, QueryKeeps, SetContextKeeps, AnswerPageKeeps
     DEF PagingNext

LEMMA PagingInvariantHolds == PagingSpec => []PagingInvariant
BY PagingInitially, PagingKeeps, PTL DEF PagingSpec
LEMMA FlattenDef ==
    ASSUME NEW q, Len(q) # 0, NEW f,
           f = CHOOSE f0 : f0 = [i \in 1 .. Len(q) |-> IF i = 1 THEN q[i] ELSE f0[i - 1] \o q[i]]
    PROVE  FlattenSeq(q) = f[Len(q)]
BY DEF FlattenSeq

\* What the sequences of q are together, if g says it for the first i of them.
LEMMA FlattenIs ==
    ASSUME NEW n \in Nat \ {0}, NEW q, Len(q) = n, NEW g,
           g = [i \in 1 .. n |-> IF i = 1 THEN q[i] ELSE g[i - 1] \o q[i]]
    PROVE  FlattenSeq(q) = g[n]
<1>1. PICK f : f = CHOOSE f0 : f0 = [i \in 1 .. Len(q) |-> IF i = 1 THEN q[i] ELSE f0[i - 1] \o q[i]]
  OBVIOUS
<1>2. f = [i \in 1 .. n |-> IF i = 1 THEN q[i] ELSE f[i - 1] \o q[i]]
  BY <1>1
<1>3. FlattenSeq(q) = f[n]
  BY <1>1, FlattenDef
<1>4. \A i \in 1 .. n : /\ f[i] = IF i = 1 THEN q[i] ELSE f[i - 1] \o q[i]
                        /\ g[i] = IF i = 1 THEN q[i] ELSE g[i - 1] \o q[i]
  BY <1>2
<1> DEFINE S == {i \in 1 .. n : f[i] # g[i]}
<1>5. S = {}
  <2> SUFFICES ASSUME S # {} PROVE FALSE
    OBVIOUS
  <2>1. S \in SUBSET Nat /\ IsFiniteSet(S)
    <3>1. S \in SUBSET (1 .. n) /\ S \in SUBSET Nat
      OBVIOUS
    <3>2. IsFiniteSet(1 .. n) /\ n \in Nat
      BY IntervalSize
    <3> HIDE DEF S
    <3> QED
      BY <3>1, <3>2, FS_Subset
  <2>2. PICK m \in S : \A x \in S : m <= x
    <3> HIDE DEF S
    <3> QED
      BY <2>1, LeastOf
  <2>3. m \in 1 .. n /\ f[m] # g[m]
    OBVIOUS
  <2>4. CASE m = 1
    BY <1>4, <2>3, <2>4
  <2>5. CASE m # 1
    <3>1. m - 1 \in 1 .. n /\ ~(m <= m - 1)
      BY <2>3, <2>5
    <3>2. f[m - 1] = g[m - 1]
      BY <2>2, <3>1
    <3>3. f[m] = f[m - 1] \o q[m]
      BY <1>4, <2>3, <2>5
    <3>4. g[m] = g[m - 1] \o q[m]
      BY <1>4, <2>3, <2>5
    <3> QED
      BY <2>3, <3>2, <3>3, <3>4
  <2> QED
    BY <2>4, <2>5
<1>6. f[n] = g[n]
  <2>1. n \in 1 .. n
    OBVIOUS
  <2> QED
    BY <1>5, <2>1
<1> QED
  BY <1>3, <1>6

\* The first n elements of q, or all of them.
Beginning(q, n) == SubSeq(q, 1, Min({n, Len(q)}))

\* A page goes on where the beginning of the list ends.
LEMMA PageFollows ==
    ASSUME NEW S, NEW q \in Seq(S), NEW offset \in Nat, NEW limit \in Nat
    PROVE  /\ Beginning(q, offset) \o PageOf(q, offset, limit) = Beginning(q, offset + limit)
           /\ PageOf(q, 0, limit) = Beginning(q, limit)
<1> DEFINE k == Min({offset, Len(q)})
           m == Min({offset + limit, Len(q)})
<1>1. Len(q) \in Nat
  BY LenProperties
<1>2. k \in Nat /\ k <= offset /\ k <= Len(q) /\ (k = offset \/ k = Len(q))
  BY <1>1, SmallerOf
<1>3. m \in Nat /\ m <= offset + limit /\ m <= Len(q) /\ (m = offset + limit \/ m = Len(q))
  <2>1. offset + limit \in Nat
    OBVIOUS
  <2>2. m \in {offset + limit, Len(q)} /\ m <= offset + limit /\ m <= Len(q)
    BY <1>1, <2>1, SmallerOf
  <2> QED
    BY <1>1, <2>1, <2>2
<1>4. /\ Beginning(q, offset) = SubSeq(q, 1, k) /\ PageOf(q, offset, limit) = SubSeq(q, offset + 1, m)
      /\ Beginning(q, offset + limit) = SubSeq(q, 1, m)
  BY DEF Beginning, PageOf
<1> HIDE DEF k, m
<1>5. k <= m
  BY <1>1, <1>2, <1>3
<1>6. SubSeq(q, 1, k) \o SubSeq(q, k + 1, m) = SubSeq(q, 1, m)
  <2>1. 1 \in 1 .. Len(q) + 1 /\ k \in 1 - 1 .. Len(q) /\ m \in k .. Len(q)
    BY <1>1, <1>2, <1>3, <1>5
  <2> QED
    BY <2>1, ConcatAdjacentSubSeq
<1>7. SubSeq(q, k + 1, m) = SubSeq(q, offset + 1, m)
  <2>1. CASE k = offset
    BY <2>1
  <2>2. CASE k # offset
    <3>1. m < k + 1 /\ m < offset + 1 /\ k + 1 \in Int /\ offset + 1 \in Int /\ m \in Int
      BY <1>1, <1>2, <1>3, <2>2
    <3> QED
      BY <3>1, SubSeqEmpty
  <2> QED
    BY <2>1, <2>2
<1>8. PageOf(q, 0, limit) = Beginning(q, limit)
  <2>1. 0 + 1 = 1 /\ 0 + limit = limit
    OBVIOUS
  <2> QED
    BY <2>1 DEF PageOf, Beginning
<1> QED
  BY <1>4, <1>6, <1>7, <1>8

LEMMA BeginningIsPrefix ==
    ASSUME NEW S, NEW q \in Seq(S), NEW n \in Nat
    PROVE  IsPrefix(Beginning(q, n), q)
<1> DEFINE k == Min({n, Len(q)})
<1>1. Len(q) \in Nat
  BY LenProperties
<1>2. k \in Nat /\ k <= Len(q)
  BY <1>1, SmallerOf
<1>3. Beginning(q, n) = SubSeq(q, 1, k)
  BY DEF Beginning
<1> HIDE DEF k
<1>4. SubSeq(q, 1, k) \in Seq(S) /\ Len(SubSeq(q, 1, k)) = k
  <2>1. SubSeq(q, 1, k) \in Seq(S) /\ Len(SubSeq(q, 1, k)) = IF 1 <= k THEN k - 1 + 1 ELSE 0
    BY <1>1, <1>2, PartFrom
  <2> QED
    BY <1>2, <2>1
<1>5. SubSeq(SubSeq(q, 1, k), 1, k) = SubSeq(q, 1, k)
  BY <1>4, SubSeqFull
<1> QED
  BY <1>2, <1>3, <1>4, <1>5 DEF IsPrefix
\* What is known of an answer that was shown.
LEMMA ShownIs ==
    ASSUME PagingInvariant, ~disturbed, NEW i \in DOMAIN shown
    PROVE  /\ shown[i].filters \in Filters /\ shown[i].offset \in Nat /\ shown[i].limit \in Nat
           /\ shown[i].limit # 0 /\ shown[i].page \in Seq(Records) /\ shown[i].requested \in Nat
           /\ shown[i].page = PageOf(Matching(shown[i].filters), shown[i].offset, shown[i].limit)
           /\ Matching(shown[i].filters) \in Seq(Records)
           /\ DOMAIN shown = 1 .. Len(shown) /\ Len(shown) \in Nat
<1>1. shown \in Seq(AnswerRecords) /\ OneWalk
  BY DEF PagingInvariant, PagingTypes
<1>2. DOMAIN shown = 1 .. Len(shown) /\ Len(shown) \in Nat /\ shown[i] \in AnswerRecords
  BY <1>1, LenProperties, ElementOfSeq
<1>3. /\ shown[i].filters \in Filters /\ shown[i].offset \in Nat /\ shown[i].limit \in 1 .. MaxLimit
      /\ shown[i].page \in Seq(Records) /\ shown[i].requested \in Nat
  BY <1>2 DEF AnswerRecords
<1>4. shown[i].limit \in Nat /\ shown[i].limit # 0
  BY <1>3, PagingAssumption
<1>5. shown[i].page = PageOf(Matching(shown[i].filters), shown[i].offset, shown[i].limit)
  BY <1>1, <1>3 DEF OneWalk, OnItsPage, Lists
<1> QED
  BY <1>2, <1>3, <1>4, <1>5, MatchingIs

LEMMA ForwardPagesFollowOn ==
    ASSUME PagingInvariant
    PROVE  PagesFollowOn
<1> SUFFICES ASSUME ~disturbed, OnlyForward
             PROVE  IsPrefix(FlattenSeq([i \in DOMAIN shown |-> shown[i].page]), Matching(SearchFilters))
  BY DEF PagesFollowOn
<1> DEFINE n == Len(shown)
           q == [i \in DOMAIN shown |-> shown[i].page]
           M == Matching(shown[n].filters)
           g == [i \in 1 .. n |-> Beginning(M, shown[i].offset + shown[i].limit)]
<1>1. /\ shown \in Seq(AnswerRecords) /\ n \in Nat /\ n # 0 /\ DOMAIN shown = 1 .. n /\ shown # <<>>
      /\ OneWalk /\ NextStep /\ WhereTheContextIs
      /\ \A i \in DOMAIN shown : shown[i].kind = IF i = 1 THEN "search" ELSE "next"
  BY LenProperties, EmptySeq DEF PagingInvariant, PagingTypes, OnlyForward
<1>2. n \in DOMAIN shown /\ 1 \in DOMAIN shown
  BY <1>1
<1>3. \A i \in DOMAIN shown : /\ shown[i].filters = shown[n].filters
                              /\ shown[i].offset \in Nat /\ shown[i].limit \in Nat
                              /\ shown[i].page \in Seq(Records)
                              /\ shown[i].page = PageOf(M, shown[i].offset, shown[i].limit)
  <2> HIDE DEF n
  <2>1. \A i \in DOMAIN shown : shown[i].filters = shown[n].filters
    BY <1>1, <1>2 DEF OneWalk
  <2> QED
    BY <2>1, ShownIs
<1>4. shown[1].offset = 0 /\ latest = shown[n].filters
  BY <1>1, <1>2, <1>3 DEF OneWalk
<1>5. M \in Seq(Records)
  BY <1>2, ShownIs
<1>6. SearchFilters = shown[n].filters
  <2>1. CASE context = None
    BY <1>4, <2>1 DEF SearchFilters
  <2>2. CASE context # None /\ \E a \in Asks : asks[a].stage = "narrate"
    <3>1. PICK a \in Asks : asks[a].stage = "narrate"
      BY <2>2
    <3>2. a \in Open /\ context.filters = asks[a].filters
      BY <1>1, <2>2, <3>1 DEF Open, WhereTheContextIs, SamePlace
    <3>3. asks[a].kind # "search"
      BY <1>1, <3>2 DEF NextStep
    <3>4. asks[a].filters = shown[n].filters
      BY <1>1, <3>1, <3>3 DEF NextStep, GoesOn
    <3> QED
      BY <2>2, <3>2, <3>4 DEF SearchFilters
  <2>3. CASE context # None /\ ~\E a \in Asks : asks[a].stage = "narrate"
    BY <1>1, <2>3 DEF WhereTheContextIs, SamePlace, SearchFilters
  <2> QED
    BY <2>1, <2>2, <2>3
<1> HIDE DEF n, M
<1>7. Len(q) = n
  <2>1. q \in [1 .. n -> Seq(Records)]
    BY <1>1, <1>3
  <2> HIDE DEF q
  <2> QED
    BY <1>1, <2>1, SeqDef, LenProperties
<1>8. ASSUME NEW i \in 1 .. n PROVE g[i] = IF i = 1 THEN q[i] ELSE g[i - 1] \o q[i]
  <2>1. /\ q[i] = PageOf(M, shown[i].offset, shown[i].limit)
        /\ g[i] = Beginning(M, shown[i].offset + shown[i].limit)
        /\ shown[i].offset \in Nat /\ shown[i].limit \in Nat
    BY <1>1, <1>3
  <2>2. CASE i = 1
    <3>1. shown[i].offset + shown[i].limit = shown[i].limit
      BY <1>4, <2>1, <2>2
    <3>2. q[i] = PageOf(M, 0, shown[i].limit)
      BY <1>4, <2>1, <2>2
    <3> QED
      BY <1>5, <2>1, <2>2, <3>1, <3>2, PageFollows
  <2>3. CASE i # 1
    <3>1. i - 1 \in 1 .. n /\ (i - 1) + 1 = i
      BY <1>1, <2>3
    <3>2. GoesOn(shown[i - 1], shown[i]) /\ shown[i].kind = "next"
      BY <1>1, <2>3, <3>1 DEF OneWalk
    <3>3. shown[i].offset = shown[i - 1].offset + shown[i - 1].limit
      BY <3>2 DEF GoesOn, NextOffset
    <3>4. g[i - 1] = Beginning(M, shown[i].offset)
      BY <3>1, <3>3
    <3>5. Beginning(M, shown[i].offset) \o PageOf(M, shown[i].offset, shown[i].limit)
          = Beginning(M, shown[i].offset + shown[i].limit)
      BY <1>5, <2>1, PageFollows
    <3>6. g[i - 1] \o q[i] = g[i]
      <4> HIDE DEF g, q
      <4> QED
        BY <2>1, <3>4, <3>5
    <3> HIDE DEF g, q
    <3> QED
      BY <2>3, <3>6
  <2> QED
    BY <2>2, <2>3
<1>9. g = [i \in 1 .. n |-> IF i = 1 THEN q[i] ELSE g[i - 1] \o q[i]]
  <2>1. g = [i \in 1 .. n |-> g[i]]
    OBVIOUS
  <2> HIDE DEF g, q
  <2> QED
    BY <1>8, <2>1
<1>10. g[n] = Beginning(M, shown[n].offset + shown[n].limit) /\ shown[n].offset + shown[n].limit \in Nat
  <2>1. n \in 1 .. n
    BY <1>1
  <2>2. shown[n].offset \in Nat /\ shown[n].limit \in Nat
    BY <1>2, <1>3
  <2> QED
    BY <2>1, <2>2
<1> HIDE DEF g
<1>11. FlattenSeq(q) = g[n]
  <2> HIDE DEF q
  <2>1. PICK k \in Nat \ {0} : k = n
    BY <1>1
  <2>2. Len(q) = k /\ g = [i \in 1 .. k |-> IF i = 1 THEN q[i] ELSE g[i - 1] \o q[i]]
    BY <1>7, <1>9, <2>1
  <2>3. FlattenSeq(q) = g[k]
    BY <2>2, FlattenIs
  <2> QED
    BY <2>1, <2>3
<1>12. IsPrefix(g[n], M)
  <2>1. PICK e \in Nat : e = shown[n].offset + shown[n].limit
    BY <1>10
  <2> QED
    BY <1>5, <1>10, <2>1, BeginningIsPrefix
<1> QED
  BY <1>6, <1>11, <1>12 DEF M

LEMMA PreviousComesBack ==
    ASSUME PagingInvariant
    PROVE  PreviousTakesBackNext
<1> SUFFICES ASSUME ~disturbed, NEW i \in 1 .. Len(shown) - 2,
                    shown[i + 1].kind = "next", shown[i + 1].requested = 0,
                    shown[i + 2].kind = "previous", shown[i + 2].requested = 0
             PROVE  shown[i + 2].page = shown[i].page
  BY DEF PreviousTakesBackNext
<1>1. Len(shown) \in Nat /\ DOMAIN shown = 1 .. Len(shown) /\ OneWalk
  BY LenProperties DEF PagingInvariant, PagingTypes
<1>2. i \in DOMAIN shown /\ i + 1 \in DOMAIN shown /\ i + 2 \in DOMAIN shown /\ (i + 1) + 1 = i + 2
  BY <1>1
<1>3. GoesOn(shown[i], shown[i + 1]) /\ GoesOn(shown[i + 1], shown[i + 2])
  BY <1>1, <1>2 DEF OneWalk
<1>4. /\ shown[i].offset \in Nat /\ shown[i].limit \in Nat /\ shown[i].limit # 0
      /\ shown[i].page = PageOf(Matching(shown[i].filters), shown[i].offset, shown[i].limit)
      /\ shown[i + 2].page = PageOf(Matching(shown[i + 2].filters), shown[i + 2].offset, shown[i + 2].limit)
  BY <1>2, ShownIs
<1>5. /\ shown[i + 1].filters = shown[i].filters /\ shown[i + 1].limit = shown[i].limit
      /\ shown[i + 1].offset = shown[i].offset + shown[i].limit
  BY <1>3 DEF GoesOn, NextOffset
<1>6. /\ shown[i + 2].filters = shown[i].filters /\ shown[i + 2].limit = shown[i].limit
      /\ shown[i + 2].offset = IF shown[i + 1].offset > shown[i].limit
                               THEN shown[i + 1].offset - shown[i].limit ELSE 0
  BY <1>3, <1>5 DEF GoesOn, PreviousOffset
<1>7. shown[i + 2].offset = shown[i].offset
  BY <1>4, <1>5, <1>6
<1> QED
  BY <1>4, <1>6, <1>7

\* Paging (SearchPaging): while the records stay as they are and one ask follows the other, the
\* pages of a search put together are the beginning of its list, whatever sizes are asked for,
\* and "previous" takes back "next".
THEOREM PagesNeitherSkipNorRepeat == PagingSpec => []PagingSafe
<1>1. PagingInvariant => PagingTypeOK
  <2> SUFFICES ASSUME PagingInvariant PROVE PagingTypeOK
    OBVIOUS
  <2>1. context \in Contexts \cup {None}
    BY DEF PagingInvariant, PagingTypes
  <2>2. context = None \/ (/\ context.filters \in Filters /\ context.limit \in 1 .. MaxLimit
                           /\ context.offset \in Nat)
    BY <2>1 DEF Contexts
  <2> QED
    BY <2>2 DEF PagingInvariant, PagingTypes, PagingTypeOK, AskFlow
<1>2. PagingInvariant => PagingSafe
  BY <1>1, ForwardPagesFollowOn, PreviousComesBack DEF PagingSafe
<1> QED
  BY <1>2, PagingInvariantHolds, PTL

\* What a query shows was its asker's to see.
LEMMA OnlyOnesOwnAreShown ==
    ASSUME PagingInvariant, [PagingNext]_pagingVars, NEW a \in Asks, asks'[a].page # asks[a].page,
           NEW i \in DOMAIN asks'[a].page, NEW r, r = asks'[a].page[i]
    PROVE  /\ Admin \/ r \in mine
           /\ status[r] = "draft" => r \in mine
           /\ status[r] = "completed" => asks'[a].filters = "all"
<1>0. asks \in [Asks -> AskRecords]
  BY AskIs
<1>1. DOMAIN <<>> = {}
  OBVIOUS
<1>2. asks'[a] # Ended /\ \A b : asks'[a] # [NoAsk EXCEPT !.page = b] \/ b # <<>>
  BY <1>1 DEF Ended, NoAsk
<1>3. Query(a)
  <2>1. PICK b \in Asks :
          \/ \E f \in Filters, n \in Requested : Ask(b, "search", f, n)
          \/ \E kind \in Directions, n \in Requested : Ask(b, kind, "none", n)
          \/ ReadContext(b) \/ Query(b) \/ SetContext(b) \/ AnswerPage(b) \/ GiveUpAsk(b) \/ Fail(b)
    BY DEF PagingNext, pagingVars, Expire, Change
  <2>2. \E new : asks' = [asks EXCEPT ![b] = new]
    BY <1>0, <2>1 DEF Ask, ReadContext, Query, SetContext, AnswerPage, GiveUpAsk, Fail
  <2>3. b = a
    BY <1>0, <2>2
  <2>4. \A kind, f, n : ~Ask(a, kind, f, n)
    <3> SUFFICES ASSUME NEW kind, NEW f, NEW n, Ask(a, kind, f, n) PROVE FALSE
      OBVIOUS
    <3>1. PICK stage : stage = IF kind = "search" THEN "query" ELSE "read"
      OBVIOUS
    <3>2. asks'[a] = [NoAsk EXCEPT !.kind = kind, !.filters = f, !.requested = n, !.stage = stage]
      BY <1>0, <3>1 DEF Ask
    <3>3. NoAsk \in AskRecords /\ NoAsk.page = <<>>
      BY PagingAssumption, EmptySeq DEF NoAsk, AskRecords
    <3>4. asks'[a].page = NoAsk.page
      BY <3>2, <3>3 DEF AskRecords
    <3> QED
      BY <1>1, <3>3, <3>4
  <2>5. ~ReadContext(a)
    <3> SUFFICES ASSUME ReadContext(a) PROVE FALSE
      OBVIOUS
    <3>1. context # None
      BY <1>0, <1>2 DEF ReadContext
    <3>2. PICK f, l, o : asks'[a] = [asks[a] EXCEPT !.stage = "query", !.filters = f, !.limit = l, !.offset = o]
      BY <1>0, <3>1 DEF ReadContext
    <3> QED
      BY <1>0, <3>2 DEF AskRecords
  <2>6. ~SetContext(a)
    BY <1>0 DEF SetContext, AskRecords
  <2>7. ~AnswerPage(a) /\ ~GiveUpAsk(a) /\ ~Fail(a)
    BY <1>0, <1>2 DEF AnswerPage, GiveUpAsk, Fail
  <2> QED
    BY <2>1, <2>3, <2>4, <2>5, <2>6, <2>7
<1> DEFINE ask == asks[a]
           limit == IF ask.kind = "search" THEN RecordLimit(ask.requested) ELSE ask.limit
<1>4. /\ ask \in AskRecords /\ ask.requested \in Nat /\ ask.offset \in Nat /\ ask.limit \in 0 .. MaxLimit
      /\ ask.stage = "query" /\ ask.filters \in Filters
  BY <1>3, AskIs DEF Query, PagingInvariant, AskFlow
<1>5. limit \in Nat
  BY <1>4, RecordLimitIs, PagingAssumption
<1>6. asks'[a].page = PageOf(Matching(ask.filters), ask.offset, limit) /\ asks'[a].filters = ask.filters
  BY <1>0, <1>3, <1>4 DEF Query, AskRecords
<1> HIDE DEF limit
<1>7. /\ ask.offset + i \in DOMAIN Matching(ask.filters)
      /\ asks'[a].page[i] = Matching(ask.filters)[ask.offset + i]
  BY <1>4, <1>5, <1>6, MatchingIs, PageIs
<1>8. Found(r, ask.filters)
  BY <1>7, MatchingIs
<1> QED
  BY <1>4, <1>6, <1>8 DEF Found, Accessible, Present, Filters
-----------------------------------------------------------------------------
(* All of them together: MCAssistant. *)

\* The access guard stands before everything: in any search, and whatever changes meanwhile, a
\* record is listed and a chunk sent to the model only if it was the user's to see when it was
\* queried or fetched.
THEOREM OnlyAuthorizedIsAnswered == AssistantSpec => AnswersAreAuthorized
<1>1. AssistantInit => PagingInvariant /\ SearchInvariant
  BY PagingInitially, SearchInitially DEF AssistantInit
<1>2. [AssistantNext]_assistantVars => [PagingNext]_pagingVars /\ [SearchNext]_searchVars
  BY DEF AssistantNext, assistantVars
<1>3. PagingInvariant /\ SearchInvariant /\ [AssistantNext]_assistantVars
      => PagingInvariant' /\ SearchInvariant'
  BY <1>2, PagingKeeps, SearchKeeps
<1>4. PagingInvariant /\ [AssistantNext]_assistantVars =>
        [\A a \in Asks : asks'[a].page # asks[a].page =>
           \A i \in DOMAIN asks'[a].page :
             LET r == asks'[a].page[i]
             IN /\ Admin \/ r \in mine
                /\ status[r] = "draft" => r \in mine
                /\ status[r] = "completed" => asks'[a].filters = "all"]_pagingVars
  <2> SUFFICES ASSUME PagingInvariant, [AssistantNext]_assistantVars
               PROVE  \A a \in Asks : asks'[a].page # asks[a].page =>
                        \A i \in DOMAIN asks'[a].page :
                          LET r == asks'[a].page[i]
                          IN /\ Admin \/ r \in mine
                             /\ status[r] = "draft" => r \in mine
                             /\ status[r] = "completed" => asks'[a].filters = "all"
    OBVIOUS
  <2> QED
    BY <1>2, OnlyOnesOwnAreShown
<1>5. SearchInvariant /\ [AssistantNext]_assistantVars =>
        [\A c \in ToSet(sent') \ ToSet(sent) :
           c \in stored /\ RecordOf(c) \in access /\ about \in {0, RecordOf(c)}]_searchVars
  BY <1>2, OnlyAuthorizedAreSent
<1> QED
  BY <1>1, <1>3, <1>4, <1>5, PTL
     DEF AssistantSpec, AnswersAreAuthorized, ShowsOnlyOnesOwn, SentIsAuthorized

=============================================================================
