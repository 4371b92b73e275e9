---------------------------- MODULE RecordViewer ----------------------------
(***************************************************************************)
(* What the detail view does with a record's documents: the file viewer,    *)
(* which fetches each file it is given and shows it under an object URL,    *)
(* and the button that asks for a document to be read again.  Answers come  *)
(* in any order, or fail.  AuthorizedImage loads a profile image the same   *)
(* way as the viewer; it is not modelled a second time.                     *)
(***************************************************************************)
EXTENDS Naturals, FiniteSets

CONSTANTS Documents, None,
          Images, Pdfs,  \* those that are pictures, and PDF; others may be Word files
          MaxOpens,  \* files opened
          MaxRetries

ASSUME ViewerAssumption ==
    /\ None \notin Documents
    /\ Images \subseteq Documents /\ Pdfs \subseteq Documents /\ Images \cap Pdfs = {}
    /\ MaxOpens \in Nat /\ MaxRetries \in Nat

VARIABLES
    file,       \* currentDocumentUrl
    fileRequests,   \* fetches on their way: number and document
    opens,      \* fetches so far; the object URL of an answer has its fetch's number
    imageUrl, pdfUrl,  \* the URL shown, or 0
    objectUrl,  \* the one to revoke next, or 0
    created, revoked,
    crossed,    \* a fetch was sent while another was on its way
    view,       \* per document: extractionStatus and searchIndexStatus on screen
    indexing,   \* indexingDocumentId
    retries,    \* retry requests on their way: number and document
    asked,      \* retries sent so far
    both        \* two documents were being retried at a time

viewer == <<file, fileRequests, opens, imageUrl, pdfUrl, objectUrl, created, revoked, crossed>>

retry == <<view, indexing, retries, asked, both>>

viewerVars == <<viewer, retry>>

ExtractionStatus == {"PENDING", "PROCESSING", "READY", "UNSUPPORTED", "FAILED"}

SearchIndexStatus == {"NOT_INDEXED", "INDEXING", "INDEXED", "FAILED", "DISABLED"}

ViewerInit ==
    /\ file = None /\ fileRequests = {} /\ opens = 0
    /\ imageUrl = 0 /\ pdfUrl = 0 /\ objectUrl = 0
    /\ created = {} /\ revoked = {}
    /\ crossed = FALSE
    /\ view \in [Documents -> {[extraction |-> "READY", search |-> "FAILED"],
                               [extraction |-> "FAILED", search |-> "NOT_INDEXED"],
                               [extraction |-> "READY", search |-> "INDEXED"]}]
    /\ indexing = None /\ retries = {} /\ asked = 0 /\ both = FALSE

-----------------------------------------------------------------------------
(* FileViewer. *)

Cleared == imageUrl' = 0 /\ pdfUrl' = 0

RevokesLast == revoked' = IF objectUrl = 0 THEN revoked ELSE revoked \cup {objectUrl}

\* viewDocument, and displayFile up to its await; the file already open is not
\* watched again.
ViewDocument(d) ==
    /\ opens < MaxOpens
    /\ d # file
    /\ file' = d
    /\ RevokesLast
    /\ objectUrl' = 0
    /\ Cleared
    /\ opens' = opens + 1
    /\ fileRequests' = fileRequests \cup {[number |-> opens + 1, document |-> d]}
    /\ crossed' = (crossed \/ fileRequests # {})
    /\ UNCHANGED <<created, retry>>

\* The rest of displayFile: it looks at the answer, not at the file open by now.  Every
\* answer gets an object URL, whether its type can be shown or not.
FileLoaded(q) ==
    /\ q \in fileRequests
    /\ fileRequests' = fileRequests \ {q}
    /\ objectUrl' = q.number
    /\ created' = created \cup {q.number}
    /\ imageUrl' = IF q.document \in Images THEN q.number ELSE imageUrl
    /\ pdfUrl' = IF q.document \in Pdfs THEN q.number ELSE pdfUrl
    /\ UNCHANGED <<file, opens, revoked, crossed, retry>>

FileLoadFails(q) ==
    /\ q \in fileRequests
    /\ fileRequests' = fileRequests \ {q}
    /\ UNCHANGED <<file, opens, imageUrl, pdfUrl, objectUrl, created, revoked, crossed, retry>>

-----------------------------------------------------------------------------
(* retrySearchIndex. *)

CanRetrySearchIndex(d) ==
    /\ view[d].extraction \in {"READY", "FAILED"}
    /\ view[d].search \in {"NOT_INDEXED", "FAILED", "DISABLED"}

ClickableAlways(d) == TRUE  \* mutant of Clickable: a button without :loading

\* A loading button takes no click.
Clickable(d) == indexing # d

RetrySearchIndex(d) ==
    /\ asked < MaxRetries
    /\ CanRetrySearchIndex(d) /\ Clickable(d)
    /\ indexing' = d
    /\ asked' = asked + 1
    /\ retries' = retries \cup {[number |-> asked + 1, document |-> d]}
    /\ both' = (both \/ \E q \in retries : q.document # d)
    /\ UNCHANGED <<view, viewer>>

RetryQueued(q) ==
    /\ q \in retries
    /\ retries' = retries \ {q}
    /\ view' = [view EXCEPT ![q.document] = [extraction |-> "PROCESSING", search |-> "INDEXING"]]
    /\ indexing' = None
    /\ UNCHANGED <<asked, both, viewer>>

RetryFails(q) ==
    /\ q \in retries
    /\ retries' = retries \ {q}
    /\ indexing' = None
    /\ UNCHANGED <<view, asked, both, viewer>>

ViewerNext ==
    \/ \E d \in Documents : ViewDocument(d) \/ RetrySearchIndex(d)
    \/ \E q \in fileRequests : FileLoaded(q) \/ FileLoadFails(q)
    \/ \E q \in retries : RetryQueued(q) \/ RetryFails(q)

ViewerSpec == ViewerInit /\ [][ViewerNext]_viewerVars

-----------------------------------------------------------------------------
(* Properties. *)

Shown == {imageUrl, pdfUrl} \ {0}

\* Every variable has its type; nothing is shown that was not fetched, and what was
\* revoked is not shown any more.
ViewerTypeOK ==
    /\ file \in Documents \cup {None}
    /\ fileRequests \subseteq [number : 1 .. MaxOpens, document : Documents]
    /\ Shown \subseteq created /\ created \subseteq 1 .. opens
    /\ opens <= MaxOpens
    /\ objectUrl \in created \cup {0} /\ revoked \subseteq created
    /\ Shown \cap revoked = {}
    /\ view \in [Documents -> [extraction : ExtractionStatus, search : SearchIndexStatus]]
    /\ indexing \in Documents \cup {None}
    /\ retries \subseteq [number : 1 .. MaxRetries, document : Documents]
    /\ {crossed, both} \subseteq BOOLEAN

\* As long as a file is opened only after the one before it has answered, no object URL
\* but that of the open file is alive, and it is on the screen if its type can be shown:
\* nothing of the file before stays there, and nothing is left that no opening revokes.
OneUrlAlive ==
    ~crossed =>
      /\ created \ revoked = {objectUrl} \ {0}
      /\ Shown = IF file \in Images \cup Pdfs THEN {objectUrl} \ {0} ELSE {}

\* A document that is being read again is asked for a second time only after the
\* button of another document was used meanwhile, and not once it was queued.
RetriedOnce ==
    /\ ~both => Cardinality(retries) <= 1
    /\ \A q \in retries, p \in retries : q.document = p.document => q = p \/ both

\* The viewer keeps one file alive, and a document is queued again once.
ViewerSafe == ViewerTypeOK /\ OneUrlAlive /\ RetriedOnce

=============================================================================
