--------------------------- MODULE FrontendProofs ---------------------------
(***************************************************************************)
(* For any number of documents, records, requests and moves of the user:    *)
(* what the views of the frontend keep together.  Each part has the         *)
(* inductive invariant of one view, the lemma that its steps keep it, and   *)
(* the theorems that follow.                                                *)
(***************************************************************************)
EXTENDS RecordForm, DocumentRows, RecordFields, RecordList, RecordReview, RecordViewer, OrdersProofs,
        FiniteSetTheorems, SequenceTheorems, WellFoundedInduction, TLAPS

AtMostOne(S) == \A p, q \in S : p = q

\* What the state predicates write with Cardinality.
LEMMA SingleIsOne ==
    ASSUME NEW S, AtMostOne(S)
    PROVE  IsFiniteSet(S) /\ Cardinality(S) <= 1
<1>1. CASE S = {}
  BY <1>1, FS_EmptySet
<1>2. CASE S # {}
  <2>1. PICK x \in S : TRUE
    BY <1>2
  <2>2. S = {x}
    BY <2>1 DEF AtMostOne
  <2>3. IsFiniteSet({x}) /\ Cardinality({x}) = 1
    BY FS_Singleton
  <2> QED
    BY <2>2, <2>3
<1> QED
  BY <1>1, <1>2

-----------------------------------------------------------------------------
(* The viewer: RecordViewer. *)

\* A fetch has a number of its own, which no object URL has yet.
FetchesNumbered ==
    /\ opens \in Nat
    /\ \A q \in fileRequests : q.number \in 1 .. opens /\ q.number \notin created
    /\ \A p, q \in fileRequests : p.number = q.number => p = q

\* While no fetch crossed another: one fetch, of the open file, and nothing alive before its
\* answer; then what is alive is what the next opening revokes.
UncrossedOne ==
    ~crossed =>
      /\ AtMostOne(fileRequests)
      /\ \A q \in fileRequests : q.document = file
      /\ fileRequests # {} => objectUrl = 0
      /\ created \ revoked = {objectUrl} \ {0}
      /\ Shown = IF file \in Images \cup Pdfs THEN {objectUrl} \ {0} ELSE {}

\* While no two documents were retried at a time: one retry, of the loading button's.
RetriesOne ==
    /\ asked \in Nat
    /\ \A q \in retries : q.number \in 1 .. asked
    /\ ~both => AtMostOne(retries) /\ \A q \in retries : q.document = indexing

ViewerInvariant == ViewerTypeOK /\ FetchesNumbered /\ UncrossedOne /\ RetriesOne

LEMMA ViewerInitially == ViewerInit => ViewerInvariant
<1> SUFFICES ASSUME ViewerInit PROVE ViewerInvariant
  OBVIOUS
<1> USE ViewerAssumption DEF ViewerInit
<1>1. Shown = {}
  BY DEF Shown
<1>2. ViewerTypeOK
  <2>1. view \in [Documents -> [extraction : ExtractionStatus, search : SearchIndexStatus]]
    <3>1. \A d \in Documents : view[d] \in [extraction : ExtractionStatus, search : SearchIndexStatus]
      BY DEF ExtractionStatus, SearchIndexStatus
    <3> QED
      BY <3>1
  <2> QED
    <3> HIDE DEF ViewerInit
    <3>1. /\ file = None /\ fileRequests = {} /\ opens = 0 /\ objectUrl = 0 /\ created = {}
          /\ revoked = {} /\ crossed = FALSE /\ indexing = None /\ retries = {} /\ both = FALSE
      BY DEF ViewerInit
    <3>2. 0 <= MaxOpens
      BY ViewerAssumption
    <3>3. {crossed, both} \subseteq BOOLEAN
      BY <3>1
    <3>4. created \subseteq 1 .. opens /\ opens <= MaxOpens
      BY <3>1, <3>2
    <3>5. fileRequests \subseteq [number : 1 .. MaxOpens, document : Documents]
      BY <3>1
    <3> QED
      BY <1>1, <2>1, <3>1, <3>3, <3>4, <3>5 DEF ViewerTypeOK
<1>3. FetchesNumbered
  BY DEF FetchesNumbered
<1>4. UncrossedOne
  BY <1>1 DEF UncrossedOne, AtMostOne
<1>5. RetriesOne
  BY DEF RetriesOne, AtMostOne
<1> QED
  BY <1>2, <1>3, <1>4, <1>5 DEF ViewerInvariant

LEMMA ViewerKeeps == ViewerInvariant /\ [ViewerNext]_viewerVars => ViewerInvariant'
<1> SUFFICES ASSUME ViewerInvariant, [ViewerNext]_viewerVars PROVE ViewerInvariant'
  OBVIOUS
<1>t. ViewerTypeOK /\ FetchesNumbered /\ UncrossedOne /\ RetriesOne
  BY DEF ViewerInvariant
<1>n. opens \in Nat /\ asked \in Nat /\ MaxOpens \in Nat /\ MaxRetries \in Nat
  BY <1>t, ViewerAssumption DEF FetchesNumbered, RetriesOne
<1>1. ASSUME NEW d \in Documents, ViewDocument(d) PROVE ViewerInvariant'
  <2>0. /\ opens < MaxOpens /\ file' = d /\ objectUrl' = 0 /\ imageUrl' = 0 /\ pdfUrl' = 0
        /\ revoked' = IF objectUrl = 0 THEN revoked ELSE revoked \cup {objectUrl}
        /\ opens' = opens + 1
        /\ fileRequests' = fileRequests \cup {[number |-> opens + 1, document |-> d]}
        /\ crossed' = (crossed \/ fileRequests # {})
        /\ created' = created
        /\ view' = view /\ indexing' = indexing /\ retries' = retries /\ asked' = asked /\ both' = both
    BY <1>1 DEF ViewDocument, Cleared, RevokesLast, retry
  <2>1. Shown' = {}
    BY <2>0 DEF Shown
  <2>2. ViewerTypeOK'
    BY <1>t, <1>n, <2>0, <2>1 DEF ViewerTypeOK
  <2>3. FetchesNumbered'
    BY <1>t, <1>n, <2>0 DEF FetchesNumbered, ViewerTypeOK
  <2>4. UncrossedOne'
    <3> SUFFICES ASSUME ~crossed' PROVE UncrossedOne'
      BY DEF UncrossedOne
    <3>1. fileRequests = {} /\ ~crossed
      BY <2>0
    <3>2. created \ revoked \subseteq {objectUrl}
      BY <3>1, <1>t DEF UncrossedOne
    <3>3. 0 \notin created
      BY <1>t, <1>n DEF ViewerTypeOK
    <3>4. (created \ revoked)' = {}
      BY <3>2, <3>3, <2>0
    <3>5. ({objectUrl} \ {0})' = {}
      BY <2>0
    <3>6. AtMostOne(fileRequests)' /\ (\A q \in fileRequests : q.document = file)'
      BY <3>1, <2>0 DEF AtMostOne
    <3> QED
      BY <3>4, <3>5, <3>6, <2>0, <2>1 DEF UncrossedOne
  <2>5. RetriesOne'
    BY <1>t, <2>0 DEF RetriesOne, AtMostOne
  <2> QED
    BY <2>2, <2>3, <2>4, <2>5 DEF ViewerInvariant
<1>2. ASSUME NEW q \in fileRequests, FileLoaded(q) PROVE ViewerInvariant'
  <2>0. /\ fileRequests' = fileRequests \ {q} /\ objectUrl' = q.number
        /\ created' = created \cup {q.number}
        /\ imageUrl' = IF q.document \in Images THEN q.number ELSE imageUrl
        /\ pdfUrl' = IF q.document \in Pdfs THEN q.number ELSE pdfUrl
        /\ UNCHANGED <<file, opens, revoked, crossed, view, indexing, retries, asked, both>>
    BY <1>2 DEF FileLoaded, retry
  <2>1. q.number \in 1 .. opens /\ q.number \notin created
    BY <1>t DEF FetchesNumbered
  <2>2. Shown' \subseteq Shown \cup {q.number}
    BY <2>0 DEF Shown
  <2>3. q.number \notin revoked
    BY <2>1, <1>t DEF ViewerTypeOK
  <2>4. ViewerTypeOK'
    BY <1>t, <1>n, <2>0, <2>1, <2>2, <2>3 DEF ViewerTypeOK
  <2>5. FetchesNumbered'
    BY <1>t, <2>0 DEF FetchesNumbered
  <2>6. UncrossedOne'
    <3> SUFFICES ASSUME ~crossed' PROVE UncrossedOne'
      BY DEF UncrossedOne
    <3>1. fileRequests = {q} /\ q.document = file /\ Shown = {} /\ created \ revoked = {}
      BY <2>0, <1>t DEF UncrossedOne, AtMostOne
    <3>2. imageUrl = 0 /\ pdfUrl = 0 /\ q.number # 0
      BY <3>1, <2>1, <1>n DEF Shown
    <3>3. Shown' = IF q.document \in Images \cup Pdfs THEN {q.number} ELSE {}
      BY <3>2, <2>0, ViewerAssumption DEF Shown
    <3>4. (created \ revoked)' = {q.number}
      BY <3>1, <2>0, <2>3
    <3>5. ({objectUrl} \ {0})' = {q.number}
      BY <3>2, <2>0
    <3>6. fileRequests' = {}
      BY <3>1, <2>0
    <3> QED
      BY <3>1, <3>3, <3>4, <3>5, <3>6, <2>0 DEF UncrossedOne, AtMostOne
  <2>7. RetriesOne'
    BY <1>t, <2>0 DEF RetriesOne, AtMostOne
  <2> QED
    BY <2>4, <2>5, <2>6, <2>7 DEF ViewerInvariant
<1>3. ASSUME NEW q \in fileRequests, FileLoadFails(q) PROVE ViewerInvariant'
  <2>0. /\ fileRequests' = fileRequests \ {q}
        /\ UNCHANGED <<file, opens, imageUrl, pdfUrl, objectUrl, created, revoked, crossed,
                       view, indexing, retries, asked, both>>
    BY <1>3 DEF FileLoadFails, retry
  <2>1. Shown' = Shown
    BY <2>0 DEF Shown
  <2>2. ViewerTypeOK'
    BY <1>t, <2>0, <2>1 DEF ViewerTypeOK
  <2>3. FetchesNumbered'
    BY <1>t, <2>0 DEF FetchesNumbered
  <2>4. UncrossedOne'
    BY <1>t, <2>0, <2>1 DEF UncrossedOne, AtMostOne
  <2>5. RetriesOne'
    BY <1>t, <2>0 DEF RetriesOne, AtMostOne
  <2> QED
    BY <2>2, <2>3, <2>4, <2>5 DEF ViewerInvariant
<1>v. ASSUME UNCHANGED viewer, ViewerTypeOK', RetriesOne' PROVE ViewerInvariant'
  <2>1. Shown' = Shown
    BY <1>v DEF viewer, Shown
  <2>2. FetchesNumbered'
    BY <1>t, <1>v DEF viewer, FetchesNumbered
  <2>3. UncrossedOne'
    BY <1>t, <1>v, <2>1 DEF viewer, UncrossedOne, AtMostOne
  <2> QED
    BY <1>v, <2>2, <2>3 DEF ViewerInvariant
<1>4. ASSUME NEW d \in Documents, RetrySearchIndex(d) PROVE ViewerInvariant'
  <2>0. /\ asked < MaxRetries /\ indexing # d /\ indexing' = d /\ asked' = asked + 1
        /\ retries' = retries \cup {[number |-> asked + 1, document |-> d]}
        /\ both' = (both \/ \E q \in retries : q.document # d)
        /\ view' = view /\ UNCHANGED viewer
    BY <1>4 DEF RetrySearchIndex, Clickable
  <2>1. ViewerTypeOK'
    BY <1>t, <1>n, <2>0 DEF ViewerTypeOK, viewer, Shown
  <2>2. RetriesOne'
    <3>1. ~both' => retries = {}
      BY <1>t, <2>0 DEF RetriesOne, ViewerTypeOK
    <3> QED
      BY <1>t, <1>n, <2>0, <3>1 DEF RetriesOne, AtMostOne, ViewerTypeOK
  <2> QED
    BY <2>0, <2>1, <2>2, <1>v
<1>5. ASSUME NEW q \in retries, RetryQueued(q) \/ RetryFails(q) PROVE ViewerInvariant'
  <2>0. /\ retries' = retries \ {q} /\ indexing' = None
        /\ view' \in {view, [view EXCEPT ![q.document] = [extraction |-> "PROCESSING", search |-> "INDEXING"]]}
        /\ UNCHANGED <<asked, both, viewer>>
    BY <1>5 DEF RetryQueued, RetryFails
  <2>1. ViewerTypeOK'
    BY <1>t, <2>0 DEF ViewerTypeOK, viewer, Shown, ExtractionStatus, SearchIndexStatus
  <2>2. RetriesOne'
    BY <1>t, <2>0 DEF RetriesOne, AtMostOne
  <2> QED
    BY <2>0, <2>1, <2>2, <1>v
<1>6. CASE UNCHANGED viewerVars
  <2>1. ViewerTypeOK'
    BY <1>t, <1>6 DEF ViewerTypeOK, viewerVars, viewer, retry, Shown
  <2>2. RetriesOne'
    BY <1>t, <1>6 DEF RetriesOne, AtMostOne, viewerVars, retry
  <2> QED
    BY <1>6, <2>1, <2>2, <1>v DEF viewerVars
<1> QED
  BY <1>1, <1>2, <1>3, <1>4, <1>5, <1>6 DEF ViewerNext

\* Whatever order the answers of the file viewer and of the retries come in: unless two
\* fetches crossed, the open file's object URL is the only one alive, also that of a type
\* which is not shown; and a document is queued again once.
THEOREM ViewerKeepsOneUrl == ViewerSpec => []ViewerSafe
<1>1. ViewerInvariant => ViewerSafe
  <2> SUFFICES ASSUME ViewerInvariant PROVE ViewerSafe
    OBVIOUS
  <2>1. OneUrlAlive
    BY DEF ViewerInvariant, UncrossedOne, OneUrlAlive
  <2>2. RetriedOnce
    BY SingleIsOne DEF ViewerInvariant, RetriesOne, RetriedOnce, AtMostOne
  <2> QED
    BY <2>1, <2>2 DEF ViewerSafe, ViewerInvariant
<1> QED
  BY <1>1, ViewerInitially, ViewerKeeps, PTL DEF ViewerSpec

-----------------------------------------------------------------------------
(* The review step: RecordReview. *)

LEMMA RemoveAtProperties ==
    ASSUME NEW S, NEW s \in Seq(S), NEW i \in DOMAIN s
    PROVE  /\ RemoveAt(s, i) \in Seq(S) /\ Len(RemoveAt(s, i)) = Len(s) - 1
           /\ \A j \in 1 .. Len(s) - 1 : RemoveAt(s, i)[j] = IF j < i THEN s[j] ELSE s[j + 1]
<1>1. Len(s) \in Nat /\ i \in 1 .. Len(s) /\ \A j \in 1 .. Len(s) : s[j] \in S
  OBVIOUS
<1> DEFINE a == SubSeq(s, 1, i - 1)
           b == SubSeq(s, i + 1, Len(s))
<1>2. /\ a \in Seq(S) /\ Len(a) = i - 1
      /\ \A j \in 1 .. i - 1 : a[j] = s[j]
  <2>1. 1 \in Int /\ i - 1 \in Int /\ \A j \in 1 .. i - 1 : s[j] \in S
    BY <1>1
  <2> QED
    BY <1>1, <2>1, SubSeqProperties
<1>3. /\ b \in Seq(S) /\ Len(b) = Len(s) - i
      /\ \A j \in 1 .. Len(s) - i : b[j] = s[i + j]
  <2>1. i + 1 \in Int /\ Len(s) \in Int /\ \A j \in i + 1 .. Len(s) : s[j] \in S
    BY <1>1
  <2> QED
    BY <1>1, <2>1, SubSeqProperties
<1>4. RemoveAt(s, i) = a \o b
  BY DEF RemoveAt
<1> HIDE DEF a, b
<1>5. /\ a \o b \in Seq(S) /\ Len(a \o b) = Len(s) - 1
      /\ \A j \in 1 .. Len(s) - 1 : (a \o b)[j] = IF j <= i - 1 THEN a[j] ELSE b[j - (i - 1)]
  <2>1. /\ a \o b \in Seq(S) /\ Len(a \o b) = Len(a) + Len(b)
        /\ \A j \in 1 .. Len(a) + Len(b) : (a \o b)[j] = IF j <= Len(a) THEN a[j] ELSE b[j - Len(a)]
    BY <1>2, <1>3, ConcatProperties
  <2>2. Len(a) = i - 1 /\ Len(a) + Len(b) = Len(s) - 1
    BY <1>1, <1>2, <1>3
  <2> QED
    BY <2>1, <2>2
<1>6. ASSUME NEW j \in 1 .. Len(s) - 1
      PROVE  RemoveAt(s, i)[j] = IF j < i THEN s[j] ELSE s[j + 1]
  <2>1. CASE j < i
    BY <1>1, <1>2, <1>4, <1>5, <2>1
  <2>2. CASE ~(j < i)
    <3>1. b[j - (i - 1)] = s[i + (j - (i - 1))]
      BY <1>1, <1>3, <2>2
    <3> QED
      BY <1>1, <1>4, <1>5, <2>2, <3>1
  <2> QED
    BY <2>1, <2>2
<1> QED
  BY <1>4, <1>5, <1>6

\* A sequence made row by row.
LEMMA MappedRows ==
    ASSUME NEW S, NEW n \in Nat, NEW f, f = [i \in 1 .. n |-> f[i]], \A i \in 1 .. n : f[i] \in S
    PROVE  f \in Seq(S) /\ Len(f) = n
<1>1. f \in [1 .. n -> S]
  OBVIOUS
<1>2. f \in Seq(S)
  BY <1>1, SeqDef
<1>3. DOMAIN f = 1 .. Len(f) /\ Len(f) \in Nat /\ DOMAIN f = 1 .. n
  BY <1>1, <1>2, LenProperties
<1> QED
  BY <1>2, <1>3

\* What a refusal can come from: a reference that leads nowhere, or a record that is no
\* draft.
CausesKnown ==
    /\ ~DocumentsResolve => elsewhere \/ replaced
    /\ ~Editable => elsewhere \/ reviewAnswer = "accepted"

ReviewInvariant == ReviewTypeOK /\ RefusalHasACause /\ CompletedIsWhole /\ CausesKnown

LEMMA ReviewInitially == ReviewInit => ReviewInvariant
<1> SUFFICES ASSUME ReviewInit PROVE ReviewInvariant
  OBVIOUS
<1>1. Required \subseteq reviewStored /\ reviewStored \subseteq Fields /\ filled \subseteq Fields
  BY DEF ReviewInit, Fields
<1>2. MaxReviewMoves \in Nat /\ MaxDocs \in Nat \ {0} /\ MaxReviewRows \in Nat
  BY ReviewAssumption
<1>3. reviewRows \in [RowSteps -> 0 .. MaxReviewRows] /\ reviewMoves \in 0 .. MaxReviewMoves
  BY <1>2 DEF ReviewInit
<1>4. /\ storedDocs \in Seq(Document) /\ Len(storedDocs) <= MaxDocs
      /\ \A i \in DOMAIN storedDocs : storedDocs[i].file
  <2>1. CASE storedDocs = <<>>
    BY <1>2, <2>1
  <2>2. CASE storedDocs = <<[name |-> TRUE, file |-> TRUE]>>
    <3>1. [name |-> TRUE, file |-> TRUE] \in Document
      BY DEF Document
    <3>2. Len(storedDocs) = 1 /\ \A i \in DOMAIN storedDocs : storedDocs[i] = [name |-> TRUE, file |-> TRUE]
      <4> DEFINE d == [name |-> TRUE, file |-> TRUE]
      <4>1. storedDocs = <<d>>
        BY <2>2
      <4> HIDE DEF d
      <4>2. Len(storedDocs) = 1 /\ \A i \in DOMAIN storedDocs : storedDocs[i] = d
        BY <4>1
      <4> QED
        BY <4>2 DEF d
    <3> QED
      BY <1>2, <2>2, <3>1, <3>2
  <2> QED
    BY <2>1, <2>2 DEF ReviewInit
<1>5. /\ reviewDocs \in Seq(ReviewRow) /\ Len(reviewDocs) = Len(storedDocs)
      /\ \A i \in DOMAIN reviewDocs : reviewDocs[i].file # "gone"
  <2>1. reviewDocs = RowsOf(storedDocs)
    BY DEF ReviewInit
  <2>2. ASSUME NEW i \in 1 .. Len(storedDocs)
        PROVE  RowsOf(storedDocs)[i] \in ReviewRow /\ RowsOf(storedDocs)[i].file # "gone"
    <3>1. storedDocs[i] \in Document /\ DOMAIN storedDocs = 1 .. Len(storedDocs)
      BY <1>4
    <3>2. RowsOf(storedDocs)[i] =
            [name |-> storedDocs[i].name, file |-> IF storedDocs[i].file THEN "document" ELSE "none"]
      BY <3>1 DEF RowsOf
    <3>3. storedDocs[i].name \in BOOLEAN
      BY <3>1 DEF Document
    <3> QED
      BY <3>2, <3>3 DEF ReviewRow, FileState
  <2>3. DOMAIN RowsOf(storedDocs) = 1 .. Len(storedDocs) /\ Len(storedDocs) \in Nat
    BY <1>4 DEF RowsOf
  <2>4. RowsOf(storedDocs) = [i \in 1 .. Len(storedDocs) |-> RowsOf(storedDocs)[i]]
    BY <2>3 DEF RowsOf
  <2> QED
    BY <2>1, <2>2, <2>3, <2>4, MappedRows
<1>6. /\ reviewStep \in 1 .. ReviewStep /\ {hideEmpty, ready, replaced, elsewhere} \subseteq BOOLEAN
      /\ recordStatus = "DRAFT" /\ ready = FALSE /\ reviewAnswer = "none"
  <2>1. reviewStep \in 1 .. ReviewStep
    BY DEF ReviewInit, ReviewStep, DocumentStep
  <2>2. hideEmpty = TRUE /\ ready = FALSE /\ replaced = FALSE /\ elsewhere = FALSE
        /\ recordStatus = "DRAFT" /\ reviewAnswer = "none"
    BY DEF ReviewInit
  <2> QED
    BY <2>1, <2>2
<1>7. ReviewTypeOK
  BY <1>1, <1>3, <1>4, <1>5, <1>6 DEF ReviewTypeOK
<1>8. CausesKnown
  BY <1>5, <1>6 DEF CausesKnown, DocumentsResolve, Editable
<1> QED
  BY <1>6, <1>7, <1>8 DEF ReviewInvariant, RefusalHasACause, CompletedIsWhole

\* Actions that leave the answer and whatever it depends on alone.
LEMMA ReviewUndisturbed ==
    ASSUME ReviewInvariant, ReviewTypeOK', DocumentsResolve => DocumentsResolve',
           UNCHANGED <<recordStatus, ready, reviewAnswer, replaced, elsewhere, storedDocs>>
    PROVE  ReviewInvariant'
<1>1. CausesKnown'
  BY DEF ReviewInvariant, CausesKnown, Editable
<1>2. RefusalHasACause' /\ CompletedIsWhole'
  BY DEF ReviewInvariant, RefusalHasACause, CompletedIsWhole
<1> QED
  BY <1>1, <1>2 DEF ReviewInvariant

\* Whatever a save, here or elsewhere, makes of the rows.
LEMMA RowsStayRows ==
    ASSUME ReviewTypeOK, NEW kept \in BOOLEAN
    PROVE  /\ StoredRows \in Seq(Document)
           /\ AfterReplacing(reviewDocs, kept) \in Seq(ReviewRow)
           /\ Len(AfterReplacing(reviewDocs, kept)) = Len(reviewDocs)
           /\ AfterSaving(reviewDocs) \in Seq(ReviewRow) /\ Len(AfterSaving(reviewDocs)) = Len(reviewDocs)
<1>1. reviewDocs \in Seq(ReviewRow) /\ Len(reviewDocs) \in Nat /\ DOMAIN reviewDocs = 1 .. Len(reviewDocs)
  BY DEF ReviewTypeOK
<1>2. ASSUME NEW i \in 1 .. Len(reviewDocs)
      PROVE  /\ StoredRows[i] \in Document
             /\ AfterReplacing(reviewDocs, kept)[i] \in ReviewRow
             /\ AfterSaving(reviewDocs)[i] \in ReviewRow
  <2>1. reviewDocs[i] \in ReviewRow
    BY <1>1
  <2> QED
    BY <1>1, <2>1 DEF StoredRows, AfterReplacing, AfterSaving, ReviewRow, FileState, Document
<1>3. /\ StoredRows = [i \in 1 .. Len(reviewDocs) |-> StoredRows[i]]
      /\ AfterReplacing(reviewDocs, kept) = [i \in 1 .. Len(reviewDocs) |-> AfterReplacing(reviewDocs, kept)[i]]
      /\ AfterSaving(reviewDocs) = [i \in 1 .. Len(reviewDocs) |-> AfterSaving(reviewDocs)[i]]
  BY <1>1 DEF StoredRows, AfterReplacing, AfterSaving
<1>4. StoredRows \in Seq(Document)
  BY <1>1, <1>2, <1>3, MappedRows
<1>5. AfterReplacing(reviewDocs, kept) \in Seq(ReviewRow) /\ Len(AfterReplacing(reviewDocs, kept)) = Len(reviewDocs)
  BY <1>1, <1>2, <1>3, MappedRows
<1>6. AfterSaving(reviewDocs) \in Seq(ReviewRow) /\ Len(AfterSaving(reviewDocs)) = Len(reviewDocs)
  BY <1>1, <1>2, <1>3, MappedRows
<1> QED
  BY <1>4, <1>5, <1>6

LEMMA ReviewKeeps == ReviewInvariant /\ [ReviewNext]_reviewVars => ReviewInvariant'
<1> SUFFICES ASSUME ReviewInvariant, [ReviewNext]_reviewVars PROVE ReviewInvariant'
  OBVIOUS
<1>t. ReviewTypeOK /\ MaxReviewMoves \in Nat /\ MaxDocs \in Nat \ {0} /\ MaxReviewRows \in Nat
  BY ReviewAssumption DEF ReviewInvariant
<1>o. ASSUME ReviewMove PROVE reviewAnswer # "accepted" /\ reviewMoves' \in 0 .. MaxReviewMoves
  BY <1>t, <1>o DEF ReviewMove, ReviewTypeOK
<1>1. ASSUME NEW s \in 1 .. ReviewStep, GoToSection(s) \/ JumpToStep(s) PROVE ReviewInvariant'
  <2>1. /\ ReviewMove /\ reviewStep' = s
        /\ UNCHANGED <<filled, reviewRows, reviewDocs, reviewStored, storedDocs, recordStatus, ready, reviewAnswer,
                       replaced, elsewhere, hideEmpty>>
    BY <1>1 DEF GoToSection, JumpToStep, reviewState, database, submission
  <2>2. ReviewTypeOK'
    BY <1>t, <1>o, <2>1 DEF ReviewTypeOK
  <2> QED
    BY <2>1, <2>2, ReviewUndisturbed DEF DocumentsResolve
<1>2. ASSUME NEW f \in Fields, ToggleField(f) PROVE ReviewInvariant'
  <2>1. ReviewTypeOK'
    BY <1>t, <1>o, <1>2 DEF ToggleField, database, submission, ReviewTypeOK
  <2> QED
    BY <1>2, <2>1, ReviewUndisturbed DEF ToggleField, database, submission, DocumentsResolve
<1>3. ASSUME NEW s \in RowSteps, NEW n \in 0 .. MaxReviewRows, ChangeRows(s, n) PROVE ReviewInvariant'
  <2>1. ReviewTypeOK'
    BY <1>t, <1>o, <1>3 DEF ChangeRows, database, submission, ReviewTypeOK
  <2> QED
    BY <1>3, <2>1, ReviewUndisturbed DEF ChangeRows, database, submission, DocumentsResolve
<1>4. ASSUME ChangeDocuments PROVE ReviewInvariant'
  <2>0. ReviewMove /\ UNCHANGED <<filled, reviewRows, reviewStored, storedDocs, recordStatus, ready, reviewAnswer,
                                  replaced, elsewhere, reviewStep, hideEmpty>>
    BY <1>4 DEF ChangeDocuments, database, submission
  <2>1. reviewDocs \in Seq(ReviewRow) /\ Len(reviewDocs) \in Nat /\ Len(reviewDocs) <= MaxDocs
    BY <1>t DEF ReviewTypeOK
  <2>2. reviewDocs' \in Seq(ReviewRow) /\ Len(reviewDocs') <= MaxDocs /\ (DocumentsResolve => DocumentsResolve')
    <3>1. CASE Len(reviewDocs) < MaxDocs /\ reviewDocs' = Append(reviewDocs, [name |-> FALSE, file |-> "none"])
      <4>1. [name |-> FALSE, file |-> "none"] \in ReviewRow
        BY DEF ReviewRow, FileState
      <4>2. reviewDocs' \in Seq(ReviewRow) /\ Len(reviewDocs') = Len(reviewDocs) + 1
        BY <2>1, <3>1, <4>1
      <4>3. \A i \in DOMAIN reviewDocs' : reviewDocs'[i] = IF i = Len(reviewDocs) + 1 THEN [name |-> FALSE, file |-> "none"] ELSE reviewDocs[i]
        BY <2>1, <3>1, <4>1
      <4> QED
        BY <1>t, <2>1, <3>1, <4>2, <4>3 DEF DocumentsResolve
    <3>2. ASSUME NEW i \in DOMAIN reviewDocs,
                 \/ reviewDocs' = [reviewDocs EXCEPT ![i].name = ~reviewDocs[i].name]
                 \/ reviewDocs' = [reviewDocs EXCEPT ![i].file = "new"]
          PROVE  /\ reviewDocs' \in Seq(ReviewRow) /\ Len(reviewDocs') = Len(reviewDocs)
                 /\ DocumentsResolve => DocumentsResolve'
      <4>1. reviewDocs[i] \in ReviewRow
        BY <2>1
      <4>2. \E d \in ReviewRow : d.file \in {reviewDocs[i].file, "new"} /\ reviewDocs' = [reviewDocs EXCEPT ![i] = d]
        <5>1. /\ [reviewDocs[i] EXCEPT !.name = ~reviewDocs[i].name] \in ReviewRow
              /\ [reviewDocs[i] EXCEPT !.name = ~reviewDocs[i].name].file = reviewDocs[i].file
              /\ [reviewDocs[i] EXCEPT !.file = "new"] \in ReviewRow
              /\ [reviewDocs[i] EXCEPT !.file = "new"].file = "new"
          BY <4>1 DEF ReviewRow, FileState
        <5>2. reviewDocs' \in {[reviewDocs EXCEPT ![i] = [reviewDocs[i] EXCEPT !.name = ~reviewDocs[i].name]],
                               [reviewDocs EXCEPT ![i] = [reviewDocs[i] EXCEPT !.file = "new"]]}
          BY <2>1, <3>2
        <5> QED
          BY <5>1, <5>2
      <4>3. PICK d \in ReviewRow : d.file \in {reviewDocs[i].file, "new"} /\ reviewDocs' = [reviewDocs EXCEPT ![i] = d]
        BY <4>2
      <4> QED
        BY <2>1, <4>3 DEF DocumentsResolve
    <3>3. ASSUME NEW i \in DOMAIN reviewDocs, reviewDocs' = RemoveAt(reviewDocs, i)
          PROVE  /\ reviewDocs' \in Seq(ReviewRow) /\ Len(reviewDocs') < Len(reviewDocs)
                 /\ DocumentsResolve => DocumentsResolve'
      <4>1. /\ RemoveAt(reviewDocs, i) \in Seq(ReviewRow) /\ Len(RemoveAt(reviewDocs, i)) = Len(reviewDocs) - 1
            /\ \A j \in 1 .. Len(reviewDocs) - 1 :
                 RemoveAt(reviewDocs, i)[j] = IF j < i THEN reviewDocs[j] ELSE reviewDocs[j + 1]
        BY <2>1, RemoveAtProperties
      <4>2. ASSUME NEW j \in DOMAIN reviewDocs' PROVE \E k \in DOMAIN reviewDocs : reviewDocs'[j] = reviewDocs[k]
        BY <2>1, <3>3, <4>1
      <4> QED
        BY <2>1, <3>3, <4>1, <4>2 DEF DocumentsResolve
    <3> QED
      BY <1>t, <1>4, <2>1, <3>1, <3>2, <3>3 DEF ChangeDocuments
  <2>3. ReviewTypeOK'
    BY <1>t, <1>o, <2>0, <2>2 DEF ReviewTypeOK
  <2> QED
    BY <2>0, <2>2, <2>3, ReviewUndisturbed
<1>5. ASSUME SavePersonal PROVE ReviewInvariant'
  <2>1. ReviewTypeOK'
    BY <1>t, <1>o, <1>5 DEF SavePersonal, reviewState, submission, ReviewTypeOK
  <2> QED
    BY <1>5, <2>1, ReviewUndisturbed DEF SavePersonal, reviewState, submission, DocumentsResolve
<1>6. ASSUME SaveDocuments \/ SaveDraftAgain PROVE ReviewInvariant'
  <2>0. /\ ReviewMove
        /\ UNCHANGED <<filled, reviewRows, reviewStored, recordStatus, ready, reviewAnswer, elsewhere, reviewStep, hideEmpty>>
        /\ IF Editable /\ DocumentsResolve
           THEN storedDocs' = StoredRows /\ reviewDocs' = AfterSaving(reviewDocs) /\ replaced' = TRUE
           ELSE UNCHANGED <<storedDocs, reviewDocs, replaced>>
    BY <1>6 DEF SaveDocuments, SaveDraftAgain, SaveRows, submission
  <2>1. CASE Editable /\ DocumentsResolve
    <3>1. ReviewTypeOK'
      BY <1>t, <1>o, <2>0, <2>1, RowsStayRows DEF ReviewTypeOK
    <3>2. CausesKnown'
      BY <2>0, <2>1 DEF CausesKnown, Editable
    <3>3. RefusalHasACause' /\ CompletedIsWhole'
      BY <1>o, <2>0, <2>1 DEF RefusalHasACause, CompletedIsWhole
    <3> QED
      BY <3>1, <3>2, <3>3 DEF ReviewInvariant
  <2>2. CASE ~(Editable /\ DocumentsResolve)
    <3>1. ReviewTypeOK'
      BY <1>t, <1>o, <2>0, <2>2 DEF ReviewTypeOK
    <3> QED
      BY <2>0, <2>2, <3>1, ReviewUndisturbed DEF DocumentsResolve
  <2> QED
    BY <2>1, <2>2
<1>7. ASSUME ToggleHideEmpty PROVE ReviewInvariant'
  <2>1. ReviewTypeOK'
    BY <1>t, <1>o, <1>7 DEF ToggleHideEmpty, reviewState, database, submission, ReviewTypeOK
  <2> QED
    BY <1>7, <2>1, ReviewUndisturbed DEF ToggleHideEmpty, reviewState, database, submission, DocumentsResolve
<1>8. ASSUME Submit PROVE ReviewInvariant'
  <2>0. /\ ReviewMove /\ ready' = (Blockers = {})
        /\ IF Editable /\ DocumentsResolve
           THEN storedDocs' = StoredRows /\ recordStatus' = "COMPLETED" /\ reviewAnswer' = "accepted"
           ELSE UNCHANGED <<storedDocs, recordStatus>> /\ reviewAnswer' = "refused"
        /\ UNCHANGED <<filled, reviewRows, reviewDocs, reviewStored, replaced, elsewhere, reviewStep, hideEmpty>>
    BY <1>t, <1>8 DEF Submit, ValidateFinalSubmission, ReviewTypeOK, reviewState
  <2>1. ready' \in BOOLEAN /\ (ready' => MissingDocuments = {})
    <3>1. ready' \in BOOLEAN
      BY <2>0
    <3>2. ASSUME ready', NEW i \in MissingDocuments PROVE FALSE
      <4>1. <<DocumentStep, i>> \in Blockers
        BY DEF Blockers
      <4> QED
        BY <2>0, <3>2, <4>1
    <3> QED
      BY <3>1, <3>2
  <2>2. ReviewTypeOK'
    BY <1>t, <1>o, <2>0, <2>1, RowsStayRows DEF ReviewTypeOK
  <2>3. CausesKnown' /\ RefusalHasACause'
    BY <1>o, <2>0 DEF ReviewInvariant, CausesKnown, RefusalHasACause, DocumentsResolve, Editable
  <2>4. CompletedIsWhole'
    <3> SUFFICES ASSUME ready', reviewAnswer' = "accepted"
                 PROVE  recordStatus' = "COMPLETED" /\ \A i \in DOMAIN storedDocs' : storedDocs'[i].file
      BY DEF CompletedIsWhole
    <3>1. storedDocs' = StoredRows /\ recordStatus' = "COMPLETED"
      BY <2>0
    <3>2. \A i \in DOMAIN reviewDocs : reviewDocs[i].file # "none"
      BY <2>1 DEF MissingDocuments
    <3> QED
      BY <3>1, <3>2 DEF StoredRows
  <2> QED
    BY <2>2, <2>3, <2>4 DEF ReviewInvariant
<1>9. ASSUME (\E final, kept \in BOOLEAN : SavedElsewhere(final, kept)) \/ ChangedElsewhere PROVE ReviewInvariant'
  <2>0. /\ ReviewMove /\ elsewhere' = TRUE
        /\ UNCHANGED <<filled, reviewRows, reviewStored, ready, reviewAnswer, replaced, reviewStep, hideEmpty>>
        /\ recordStatus' \in {"DRAFT", "COMPLETED", "REMOVED"}
        /\ storedDocs' = storedDocs \/ storedDocs' = <<>>
        /\ reviewDocs' = reviewDocs \/ \E kept \in BOOLEAN : reviewDocs' = AfterReplacing(reviewDocs, kept)
    <3>1. ASSUME NEW final \in BOOLEAN, NEW kept \in BOOLEAN, SavedElsewhere(final, kept) PROVE <2>0!:
      BY <3>1 DEF SavedElsewhere, submission
    <3>2. ASSUME ChangedElsewhere PROVE <2>0!:
      BY <3>2 DEF ChangedElsewhere, submission
    <3> QED
      BY <1>9, <3>1, <3>2
  <2>1. ReviewTypeOK'
    <3>1. storedDocs' \in Seq(Document)
      <4>1. storedDocs \in Seq(Document) /\ <<>> \in Seq(Document)
        BY <1>t DEF ReviewTypeOK
      <4> QED
        BY <2>0, <4>1
    <3>2. reviewDocs' \in Seq(ReviewRow) /\ Len(reviewDocs') <= MaxDocs
      BY <1>t, <2>0, RowsStayRows DEF ReviewTypeOK
    <3> QED
      BY <1>t, <1>o, <2>0, <3>1, <3>2 DEF ReviewTypeOK
  <2>2. CausesKnown' /\ RefusalHasACause'
    BY <2>0 DEF CausesKnown, RefusalHasACause
  <2>3. CompletedIsWhole'
    BY <1>o, <2>0 DEF CompletedIsWhole
  <2> QED
    BY <2>1, <2>2, <2>3 DEF ReviewInvariant
<1>10. CASE UNCHANGED reviewVars
  <2>1. ReviewTypeOK'
    BY <1>t, <1>10 DEF reviewVars, reviewState, submission, ReviewTypeOK
  <2> QED
    BY <1>10, <2>1, ReviewUndisturbed DEF reviewVars, reviewState, submission, DocumentsResolve
<1> QED
  BY <1>1, <1>2, <1>3, <1>4, <1>5, <1>6, <1>7, <1>8, <1>9, <1>10 DEF ReviewNext

\* The banner, the dots of the sections and the switch that hides empty fields are
\* computed apart from each other: they agree in every state of the form.
LEMMA SectionsAgree == ReviewTypeOK => SectionsShowBlockers
<1> SUFFICES ASSUME ReviewTypeOK PROVE SectionsShowBlockers
  OBVIOUS
<1>1. Dot(1) = "red" <=> MissingPersonalFields # {}
  BY DEF Dot, DotFor, Personal, SummarizeFields, MissingPersonalFields
<1>2. \A s \in 2 .. 5 : Dot(s) # "red"
  BY DEF Dot, DotFor
<1>3. ASSUME NEW n, NEW M, NEW x PROVE x \in {n} \X M => x[1] = n /\ x[2] \in M
  OBVIOUS
<1>p. (\E b \in Blockers : b[1] = 1) <=> MissingPersonalFields # {}
  <2>1. ASSUME NEW f \in MissingPersonalFields PROVE \E b \in Blockers : b[1] = 1
    <3>1. <<1, f>> \in Blockers /\ <<1, f>>[1] = 1
      BY DEF Blockers
    <3> QED
      BY <3>1
  <2>2. ASSUME NEW b \in Blockers, b[1] = 1 PROVE b[2] \in MissingPersonalFields
    BY <1>3, <2>2 DEF Blockers, DocumentStep
  <2> QED
    BY <2>1, <2>2
<1>d. (\E b \in Blockers : b[1] = DocumentStep) <=> MissingDocuments # {}
  <2>1. ASSUME NEW i \in MissingDocuments PROVE \E b \in Blockers : b[1] = DocumentStep
    <3>1. <<DocumentStep, i>> \in Blockers /\ <<DocumentStep, i>>[1] = DocumentStep
      BY DEF Blockers
    <3> QED
      BY <3>1
  <2>2. ASSUME NEW b \in Blockers, b[1] = DocumentStep PROVE b[2] \in MissingDocuments
    BY <1>3, <2>2 DEF Blockers, DocumentStep
  <2> QED
    BY <2>1, <2>2
<1>o. ASSUME NEW s \in 2 .. 5, NEW b \in Blockers PROVE b[1] # s
  BY <1>3 DEF Blockers, DocumentStep
<1>5. MissingDocuments # {} => reviewDocs # <<>>
  BY DEF MissingDocuments
<1>6. MissingPersonalFields \subseteq Personal.shown
  BY DEF MissingPersonalFields, Personal, SummarizeFields, Fields
<1>7. \A s \in 1 .. 5 : s = 1 \/ s \in 2 .. 5
  OBVIOUS
<1>8. \A s \in 1 .. 5 : Dot(s) = "red" <=> \E b \in Blockers : b[1] = s
  BY <1>1, <1>2, <1>7, <1>p, <1>o
<1>9. DocumentsDot = "amber" <=> \E b \in Blockers : b[1] = DocumentStep
  BY <1>5, <1>d DEF DocumentsDot
<1> QED
  BY <1>6, <1>8, <1>9 DEF SectionsShowBlockers

\* Whatever was edited, saved or reviewed in between, here or elsewhere: banner and sections
\* say the same; what the banner announces as complete has every file once it is completed;
\* and a submission is refused only after the record was changed elsewhere or step six was
\* saved from this form.
THEOREM ReviewTellsTheTruth == ReviewSpec => []ReviewSafe
<1>1. ReviewInvariant => ReviewSafe
  BY SectionsAgree DEF ReviewInvariant, ReviewSafe
<1> QED
  BY <1>1, ReviewInitially, ReviewKeeps, PTL DEF ReviewSpec

-----------------------------------------------------------------------------
(* The form: RecordForm. *)

\* Saves whose answer the form on the screen will hear.
LiveSaves == {q \in formRequests : q.kind # "load" /\ ~q.gone}

LiveSaveIsOne == AtMostOne(LiveSaves) /\ (LiveSaves # {} => loading)

\* Whoever is on the list has left every form.
ListIsLeft == formPage = "list" => \A q \in formRequests : q.gone

OnItsPath == formPage = "form" /\ strayed = {}

\* A section ahead that the server does not have was never shown, so its v-form has not
\* called it valid: an answer does not walk past it.
AheadIsUnseen ==
    OnItsPath => \A s \in Sections : s > formStep /\ s \in unsaved => s \notin rendered

\* "Save & Continue" on its way is for the step on the screen, as it is there - or the
\* record was loaded in between, and nothing is left to save.
ContinuesFromTheStep ==
    OnItsPath => \A q \in LiveSaves :
      q.continue => (q.clean /\ q.section = formStep) \/ unsaved = {}

\* While the load of a form that was left is on its way, whose answer takes every
\* pending save for outdated: nothing is to be saved, or an untouched new form has not
\* got past its first step.
LeftLoadIsHarmless ==
    OnItsPath /\ (\E q \in formRequests : q.kind = "load" /\ q.gone) =>
      \/ unsaved = {}
      \/ formStep = 1 /\ 1 \in rendered /\ 1 \in broken /\ \A q \in LiveSaves : ~q.continue

FormInvariant ==
    /\ FormTypeOK /\ LiveSaveIsOne /\ ListIsLeft
    /\ SectionsOfOneRecord /\ UrlMirrorsStep
    /\ WalkedThroughIsSaved /\ AheadIsUnseen /\ ContinuesFromTheStep /\ LeftLoadIsHarmless
\* What a set of requests holds for the form on the screen.
LiveIn(rs) == {q \in rs : q.kind # "load" /\ ~q.gone}

LEMMA OutdatedRequests ==
    ASSUME NEW rs \in SUBSET RequestType
    PROVE  /\ Outdated(rs) \subseteq RequestType
           /\ \A q \in Outdated(rs) : ~q.clean /\ \E p \in rs : q = [p EXCEPT !.clean = FALSE]
           /\ AtMostOne(LiveIn(rs)) => AtMostOne(LiveIn(Outdated(rs)))
           /\ LiveIn(Outdated(rs)) # {} => LiveIn(rs) # {}
<1>1. ASSUME NEW q \in Outdated(rs)
      PROVE  \E p \in rs : /\ q = [p EXCEPT !.clean = FALSE] /\ q \in RequestType /\ ~q.clean
                           /\ q.kind = p.kind /\ q.gone = p.gone
  BY DEF Outdated, RequestType
<1>2. ASSUME AtMostOne(LiveIn(rs)), NEW q \in LiveIn(Outdated(rs)), NEW r \in LiveIn(Outdated(rs))
      PROVE  q = r
  <2>1. q \in Outdated(rs) /\ r \in Outdated(rs) /\ q.kind # "load" /\ ~q.gone /\ r.kind # "load" /\ ~r.gone
    BY DEF LiveIn
  <2>2. PICK p \in rs : q = [p EXCEPT !.clean = FALSE] /\ q.kind = p.kind /\ q.gone = p.gone
    BY <1>1, <2>1
  <2>3. PICK o \in rs : r = [o EXCEPT !.clean = FALSE] /\ r.kind = o.kind /\ r.gone = o.gone
    BY <1>1, <2>1
  <2>4. p = o
    BY <1>2, <2>1, <2>2, <2>3 DEF LiveIn, AtMostOne
  <2> QED
    BY <2>2, <2>3, <2>4
<1>3. LiveIn(Outdated(rs)) # {} => LiveIn(rs) # {}
  BY <1>1 DEF LiveIn
<1> QED
  BY <1>1, <1>2, <1>3 DEF AtMostOne

LEMMA GoneRequests ==
    ASSUME NEW rs \in SUBSET RequestType
    PROVE  Gone(rs) \subseteq RequestType /\ \A q \in Gone(rs) : q.gone
<1> SUFFICES ASSUME NEW q \in Gone(rs) PROVE q \in RequestType /\ q.gone
  OBVIOUS
<1>1. PICK p \in rs : q = [p EXCEPT !.gone = TRUE, !.clean = FALSE,
                                    !.continue = @ /\ p.section = 1 /\ route.id = NoRecord]
  BY DEF Gone
<1>2. p \in RequestType
  OBVIOUS
<1>3. (p.continue /\ p.section = 1 /\ route.id = NoRecord) \in BOOLEAN
  OBVIOUS
<1> QED
  BY <1>1, <1>2, <1>3 DEF RequestType

\* What Edit leaves of the requests.
Touched(rs, n) == {[q EXCEPT !.clean = @ /\ q.section # n] : q \in rs}

LEMMA EditedRequests ==
    ASSUME NEW rs \in SUBSET RequestType, NEW n
    PROVE  /\ Touched(rs, n) \subseteq RequestType
           /\ \A q \in Touched(rs, n) : \E p \in rs : q.kind = p.kind /\ q.gone = p.gone /\ q.continue = p.continue
           /\ AtMostOne(LiveIn(rs)) => AtMostOne(LiveIn(Touched(rs, n)))
           /\ LiveIn(Touched(rs, n)) # {} => LiveIn(rs) # {}
<1>1. ASSUME NEW q \in Touched(rs, n)
      PROVE  \E p \in rs : /\ q = [p EXCEPT !.clean = @ /\ p.section # n] /\ q \in RequestType
                           /\ q.kind = p.kind /\ q.gone = p.gone /\ q.continue = p.continue
  <2>1. PICK p \in rs : q = [p EXCEPT !.clean = @ /\ p.section # n]
    BY DEF Touched
  <2>2. p \in RequestType /\ (p.clean /\ p.section # n) \in BOOLEAN
    OBVIOUS
  <2> QED
    BY <2>1, <2>2 DEF RequestType
<1>2. ASSUME AtMostOne(LiveIn(rs)), NEW q \in LiveIn(Touched(rs, n)), NEW r \in LiveIn(Touched(rs, n))
      PROVE  q = r
  <2>1. q \in Touched(rs, n) /\ r \in Touched(rs, n) /\ q.kind # "load" /\ ~q.gone /\ r.kind # "load" /\ ~r.gone
    BY DEF LiveIn
  <2>2. PICK p \in rs : /\ q = [p EXCEPT !.clean = @ /\ p.section # n]
                        /\ q.kind = p.kind /\ q.gone = p.gone
    BY <1>1, <2>1
  <2>3. PICK o \in rs : /\ r = [o EXCEPT !.clean = @ /\ o.section # n]
                        /\ r.kind = o.kind /\ r.gone = o.gone
    BY <1>1, <2>1
  <2>4. p = o
    BY <1>2, <2>1, <2>2, <2>3 DEF LiveIn, AtMostOne
  <2> QED
    BY <2>2, <2>3, <2>4
<1>3. LiveIn(Touched(rs, n)) # {} => LiveIn(rs) # {}
  BY <1>1 DEF LiveIn
<1> QED
  BY <1>1, <1>2, <1>3 DEF AtMostOne

LEMMA FreshFormEffect ==
    ASSUME FreshForm
    PROVE  /\ formStep' = 1 /\ rendered' = {1} /\ 1 \in broken' /\ broken' \subseteq Sections
           /\ content' \in [Sections -> FormRecords \cup {NoRecord}] /\ \A s \in Sections : content'[s] = NoRecord
           /\ unsaved' = Sections /\ loading' = FALSE
  BY DEF FreshForm, BlankBroken, Sections

LEMMA ResolvedStep ==
    ASSUME FormTypeOK, NEW r \in FormRecords, NEW inUrl \in 0 .. LastStep
    PROVE  ResolveInitialStep(r, inUrl) \in 1 .. LastStep
<1>1. remembered[r] \in 0 .. 7 /\ progress[r] \in {0, 6} /\ inUrl \in 0 .. 7
  BY DEF FormTypeOK, LastStep
<1> QED
  BY <1>1 DEF ResolveInitialStep, LastStep

LEMMA SyncEffect ==
    ASSUME FormTypeOK, NEW r \in FormRecords \cup {NoRecord}, NEW t \in 1 .. LastStep, SyncStepState(r, t)
    PROVE  /\ remembered' \in [FormRecords -> 0 .. LastStep]
           /\ route' \in [id : FormRecords \cup {NoRecord}, step : 0 .. LastStep]
           /\ route'.id = r
           /\ r # NoRecord => route'.step = t /\ remembered'[r] = t
<1>1. t \in 0 .. LastStep /\ 0 \in 0 .. LastStep
  BY DEF LastStep
<1>2. remembered \in [FormRecords -> 0 .. LastStep]
  BY DEF FormTypeOK
<1> QED
  BY <1>1, <1>2 DEF SyncStepState

LEMMA WriteEffect ==
    ASSUME FormTypeOK, NEW q, NEW r \in FormRecords, Write(q, r)
    PROVE  /\ server' \in [FormRecords -> {"none", "draft", "completed"}]
           /\ progress' \in [FormRecords -> {0, 6}]
  BY DEF FormTypeOK, Write

LEMMA TargetIsARecord ==
    ASSUME NEW q \in RequestType PROVE Target(q) \subseteq FormRecords
  BY DEF Target, RequestType

\* An answer advances by a step, past step one perhaps by two.
LEMMA StepAfterBounds ==
    ASSUME FormTypeOK, NEW q \in RequestType
    PROVE  /\ StepAfter(q) \in 1 .. LastStep
           /\ ~q.continue => StepAfter(q) = formStep
           /\ q.section = formStep => \/ StepAfter(q) \in {formStep, formStep + 1}
                                      \/ formStep = 1 /\ StepAfter(q) = 3 /\ Valid(2)
<1>1. formStep \in 1 .. 7 /\ Valid(7) = FALSE
  BY DEF FormTypeOK, Valid, LastStep
<1>2. ASSUME NEW s \in 1 .. 7
      PROVE  Next1(s) \in 1 .. 7 /\ (Next1(s) = s \/ (Next1(s) = s + 1 /\ Valid(s)))
  BY <1>1 DEF Next1
<1>3. CASE ~q.continue
  <2>1. StepAfter(q) = formStep
    BY <1>3 DEF StepAfter
  <2> QED
    BY <1>1, <2>1 DEF LastStep
<1>4. CASE q.continue /\ q.section # 1
  <2>1. StepAfter(q) = IF formStep # 1 THEN Next1(formStep) ELSE formStep
    BY <1>4 DEF StepAfter
  <2>2. StepAfter(q) \in 1 .. 7 /\ (StepAfter(q) = formStep \/ StepAfter(q) = formStep + 1)
    BY <1>1, <1>2, <2>1
  <2> QED
    BY <1>4, <2>2 DEF LastStep
<1>5. CASE q.continue /\ q.section = 1
  <2>1. StepAfter(q) = IF Next1(formStep) # 1 THEN Next1(Next1(formStep)) ELSE Next1(formStep)
    BY <1>5 DEF StepAfter
  <2>2. Next1(formStep) \in 1 .. 7 /\ (Next1(formStep) = formStep \/ Next1(formStep) = formStep + 1)
    BY <1>1, <1>2
  <2>3. Next1(Next1(formStep)) \in 1 .. 7
    BY <1>2, <2>2
  <2>4. Next1(2) \in {2, 3} /\ (Next1(2) = 3 => Valid(2))
    BY <1>2
  <2>5. ASSUME formStep = 1 PROVE StepAfter(q) \in {1, 2} \/ (StepAfter(q) = 3 /\ Valid(2))
    BY <2>1, <2>2, <2>4, <2>5
  <2>6. StepAfter(q) \in 1 .. 7
    BY <1>1, <2>1, <2>2, <2>3
  <2> QED
    BY <1>5, <2>5, <2>6 DEF LastStep
<1> QED
  BY <1>3, <1>4, <1>5
LEMMA FormInitially == FormInit => FormInvariant
<1> SUFFICES ASSUME FormInit PROVE FormInvariant
  OBVIOUS
<1>0. /\ formPage = "list" /\ formRequests = {} /\ route = [id |-> NoRecord, step |-> 0]
      /\ formStep = 1 /\ rendered = {1} /\ broken = {1, 6} /\ loading = FALSE
      /\ content = [s \in Sections |-> NoRecord] /\ unsaved = Sections /\ strayed = {}
      /\ remembered = [r \in FormRecords |-> 0] /\ progress = [r \in FormRecords |-> 0]
      /\ server \in [FormRecords -> {"none", "draft"}] /\ formMoves = 0
  BY DEF FormInit, BlankBroken
<1>1. FormTypeOK
  <2>1. /\ route \in [id : FormRecords \cup {NoRecord}, step : 0 .. LastStep]
        /\ content \in [Sections -> FormRecords \cup {NoRecord}]
        /\ remembered \in [FormRecords -> 0 .. LastStep] /\ progress \in [FormRecords -> {0, 6}]
        /\ server \in [FormRecords -> {"none", "draft", "completed"}]
    BY <1>0 DEF LastStep
  <2>2. formStep \in 1 .. LastStep /\ rendered \subseteq 1 .. LastStep /\ broken \subseteq Sections
    BY <1>0 DEF LastStep, Sections
  <2>3. formMoves \in 0 .. MaxFormMoves
    BY <1>0, FormAssumption
  <2> QED
    BY <1>0, <2>1, <2>2, <2>3 DEF FormTypeOK
<1>2. LiveSaves = {} /\ 1 \in Sections /\ 2 \in Sections
  BY <1>0 DEF LiveSaves, Sections
<1> QED
  BY <1>0, <1>1, <1>2 DEF FormInvariant, LiveSaveIsOne, AtMostOne, ListIsLeft, SectionsOfOneRecord, Sections,
     UrlMirrorsStep, WalkedThroughIsSaved, AheadIsUnseen, ContinuesFromTheStep,
     LeftLoadIsHarmless, OnItsPath

\* Back on the list, with every form left.
LEMMA ToTheList ==
    ASSUME FormTypeOK', formPage' = "list", FreshForm, \A q \in formRequests' : q.gone
    PROVE  FormInvariant'
<1>1. LiveSaves' = {}
  BY DEF LiveSaves
<1>2. \A s \in Sections : content'[s] = NoRecord
  BY FreshFormEffect
<1>3. 1 \in Sections /\ 2 \in Sections
  BY DEF Sections
<1> QED
  BY <1>1, <1>2, <1>3 DEF FormInvariant, LiveSaveIsOne, AtMostOne, ListIsLeft, SectionsOfOneRecord,
     UrlMirrorsStep, WalkedThroughIsSaved, AheadIsUnseen, ContinuesFromTheStep, LeftLoadIsHarmless, OnItsPath

\* An answer that changes nothing on the screen.
LEMMA OneAnswerLess ==
    ASSUME FormInvariant, FormTypeOK', formRequests' \subseteq formRequests,
           UNCHANGED <<formPage, route, formStep, rendered, broken, content, unsaved, remembered, strayed>>,
           LiveSaves' # {} => loading'
    PROVE  FormInvariant'
<1>1. LiveSaves' \subseteq LiveSaves
  BY DEF LiveSaves
<1>2. LiveSaveIsOne' /\ ListIsLeft'
  BY <1>1 DEF FormInvariant, LiveSaveIsOne, AtMostOne, ListIsLeft
<1>3. SectionsOfOneRecord' /\ UrlMirrorsStep' /\ WalkedThroughIsSaved'
  BY DEF FormInvariant, SectionsOfOneRecord, UrlMirrorsStep, WalkedThroughIsSaved
<1>4. AheadIsUnseen' /\ ContinuesFromTheStep'
  BY <1>1 DEF FormInvariant, AheadIsUnseen, ContinuesFromTheStep, OnItsPath
<1>5. LeftLoadIsHarmless'
  BY <1>1 DEF FormInvariant, LeftLoadIsHarmless, OnItsPath
<1> QED
  BY <1>2, <1>3, <1>4, <1>5 DEF FormInvariant

LEMMA OpenCreateKeeps == FormInvariant /\ OpenCreate => FormInvariant'
<1> SUFFICES ASSUME FormInvariant, OpenCreate PROVE FormInvariant'
  OBVIOUS
<1>0. /\ formPage' = "form" /\ route' = [id |-> NoRecord, step |-> 0] /\ formMoves' = formMoves + 1
      /\ formMoves < MaxFormMoves
      /\ \/ /\ formPage = "list" /\ FreshForm /\ formRequests' = formRequests /\ strayed' = {}
         \/ /\ formPage = "form" /\ ResetForm /\ formRequests' = Outdated(formRequests) /\ strayed' = {"reused"}
      /\ UNCHANGED <<remembered, server, progress>>
  BY DEF OpenCreate, FormMove, FormInvariant, FormTypeOK
<1>t. FormTypeOK /\ formRequests \in SUBSET RequestType /\ MaxFormMoves \in Nat
  BY FormAssumption DEF FormInvariant, FormTypeOK
<1>r. route' \in [id : FormRecords \cup {NoRecord}, step : 0 .. LastStep] /\ route'.id = NoRecord
  BY <1>0 DEF LastStep
<1>e. 1 \in Sections /\ 2 \in Sections
  BY DEF Sections
<1>1. CASE formPage = "list" /\ FreshForm /\ formRequests' = formRequests /\ strayed' = {}
  <2>1. /\ formStep' = 1 /\ rendered' = {1} /\ 1 \in broken' /\ broken' \subseteq Sections
        /\ content' \in [Sections -> FormRecords \cup {NoRecord}] /\ \A s \in Sections : content'[s] = NoRecord
        /\ unsaved' = Sections /\ loading' = FALSE
    BY <1>1, FreshFormEffect
  <2>2. LiveSaves' = {}
    BY <1>1 DEF LiveSaves, FormInvariant, ListIsLeft
  <2>3. FormTypeOK'
    <3>1. formStep' \in 1 .. LastStep /\ rendered' \subseteq 1 .. LastStep
      BY <2>1 DEF LastStep
    <3>2. formMoves' \in 0 .. MaxFormMoves
      BY <1>0, <1>t DEF FormTypeOK
    <3> QED
      BY <1>0, <1>1, <1>t, <1>r, <2>1, <3>1, <3>2 DEF FormTypeOK
  <2>4. /\ LiveSaveIsOne' /\ ListIsLeft' /\ SectionsOfOneRecord' /\ UrlMirrorsStep'
        /\ ContinuesFromTheStep' /\ LeftLoadIsHarmless'
    BY <1>0, <1>1, <1>r, <2>1, <2>2, <1>e DEF LiveSaveIsOne, AtMostOne, ListIsLeft, SectionsOfOneRecord,
       UrlMirrorsStep, ContinuesFromTheStep, LeftLoadIsHarmless
  <2>5. WalkedThroughIsSaved' /\ AheadIsUnseen'
    BY <2>1 DEF WalkedThroughIsSaved, AheadIsUnseen, Sections
  <2> QED
    BY <2>3, <2>4, <2>5 DEF FormInvariant
<1>2. CASE formPage = "form" /\ ResetForm /\ formRequests' = Outdated(formRequests) /\ strayed' = {"reused"}
  <2>1. /\ formStep' = 1 /\ rendered' = rendered \cup {1} /\ broken' = broken \cup {1}
        /\ content' = [content EXCEPT ![1] = NoRecord] /\ unsaved' = Sections /\ loading' = loading
    BY <1>2 DEF ResetForm
  <2>2. /\ content' \in [Sections -> FormRecords \cup {NoRecord}] /\ content'[1] = NoRecord
        /\ \A s \in Sections \ {1} : content'[s] = content'[2]
    BY <1>t, <2>1 DEF FormTypeOK, Sections, FormInvariant, SectionsOfOneRecord
  <2>3. formRequests' \subseteq RequestType
    BY <1>2, <1>t, OutdatedRequests
  <2>4. LiveSaveIsOne'
    BY <1>2, <1>t, <2>1, OutdatedRequests DEF LiveSaveIsOne, LiveSaves, LiveIn, FormInvariant
  <2>5. FormTypeOK'
    <3>1. formStep' \in 1 .. LastStep /\ rendered' \subseteq 1 .. LastStep /\ broken' \subseteq Sections
      BY <1>t, <2>1 DEF FormTypeOK, LastStep, Sections
    <3>2. formMoves' \in 0 .. MaxFormMoves
      BY <1>0, <1>t DEF FormTypeOK
    <3> QED
      BY <1>0, <1>2, <1>t, <1>r, <2>1, <2>2, <2>3, <3>1, <3>2 DEF FormTypeOK
  <2> QED
    BY <1>0, <1>2, <1>r, <2>2, <2>4, <2>5 DEF FormInvariant, ListIsLeft, SectionsOfOneRecord,
       UrlMirrorsStep, WalkedThroughIsSaved, AheadIsUnseen, ContinuesFromTheStep, LeftLoadIsHarmless, OnItsPath
<1> QED
  BY <1>0, <1>1, <1>2

LEMMA OpenEditKeeps ==
    ASSUME FormInvariant, NEW r \in FormRecords, OpenEdit(r) PROVE FormInvariant'
<1>0. /\ formPage = "list" /\ formPage' = "form" /\ route' = [id |-> r, step |-> 0] /\ FreshForm
      /\ formRequests' = formRequests \cup {LoadOf(r)} /\ strayed' = {}
      /\ formMoves' = formMoves + 1 /\ formMoves < MaxFormMoves /\ UNCHANGED <<remembered, server, progress>>
  BY DEF OpenEdit, FormMove
<1>t. FormTypeOK /\ MaxFormMoves \in Nat
  BY FormAssumption DEF FormInvariant
<1>1. /\ formStep' = 1 /\ rendered' = {1} /\ 1 \in broken' /\ broken' \subseteq Sections
      /\ content' \in [Sections -> FormRecords \cup {NoRecord}] /\ \A s \in Sections : content'[s] = NoRecord
      /\ unsaved' = Sections /\ loading' = FALSE
  BY <1>0, FreshFormEffect
<1>2. LoadOf(r) \in RequestType /\ LoadOf(r).kind = "load" /\ LoadOf(r).gone = FALSE
  BY DEF LoadOf, RequestType, Sections
<1>3. LiveSaves' = {}
  BY <1>0, <1>2 DEF LiveSaves, FormInvariant, ListIsLeft
<1>4. FormTypeOK'
  <2>1. formMoves' \in 0 .. MaxFormMoves
    BY <1>0, <1>t DEF FormTypeOK
  <2>2. formStep' \in 1 .. LastStep /\ rendered' \subseteq 1 .. LastStep
    BY <1>1 DEF LastStep
  <2>3. route' \in [id : FormRecords \cup {NoRecord}, step : 0 .. LastStep]
    BY <1>0 DEF LastStep
  <2> QED
    BY <1>0, <1>1, <1>2, <1>t, <2>1, <2>2, <2>3 DEF FormTypeOK
<1>5. WalkedThroughIsSaved' /\ AheadIsUnseen'
  BY <1>1 DEF WalkedThroughIsSaved, AheadIsUnseen, Sections
<1>6. route'.id = r /\ r # NoRecord
  BY <1>0, FormAssumption
<1>7. SectionsOfOneRecord' /\ UrlMirrorsStep'
  BY <1>1, <1>6 DEF SectionsOfOneRecord, UrlMirrorsStep, Sections
<1> QED
  BY <1>0, <1>1, <1>3, <1>4, <1>5, <1>7 DEF FormInvariant, LiveSaveIsOne, AtMostOne, ListIsLeft,
     ContinuesFromTheStep, LeftLoadIsHarmless, OnItsPath

LEMMA OpenLinkKeeps ==
    ASSUME FormInvariant, NEW r \in FormRecords, NEW n \in 0 .. LastStep, OpenLink(r, n)
    PROVE  FormInvariant'
<1>0. /\ formPage' = "form" /\ route' = [id |-> r, step |-> n] /\ FreshForm
      /\ remembered' = [q \in FormRecords |-> 0] /\ formRequests' = {LoadOf(r)} /\ strayed' = {}
      /\ formMoves' = formMoves + 1 /\ formMoves < MaxFormMoves /\ UNCHANGED <<server, progress>>
  BY DEF OpenLink, FormMove
<1>t. FormTypeOK /\ MaxFormMoves \in Nat
  BY FormAssumption DEF FormInvariant
<1>1. /\ formStep' = 1 /\ rendered' = {1} /\ broken' \subseteq Sections
      /\ content' \in [Sections -> FormRecords \cup {NoRecord}] /\ \A s \in Sections : content'[s] = NoRecord
      /\ unsaved' = Sections /\ loading' = FALSE
  BY <1>0, FreshFormEffect
<1>2. LoadOf(r) \in RequestType /\ LoadOf(r).kind = "load" /\ LoadOf(r).gone = FALSE
  BY DEF LoadOf, RequestType, Sections
<1>3. LiveSaves' = {}
  BY <1>0, <1>2 DEF LiveSaves
<1>4. FormTypeOK'
  <2>1. formMoves' \in 0 .. MaxFormMoves
    BY <1>0, <1>t DEF FormTypeOK
  <2>2. formStep' \in 1 .. LastStep /\ rendered' \subseteq 1 .. LastStep
    BY <1>1 DEF LastStep
  <2>3. /\ route' \in [id : FormRecords \cup {NoRecord}, step : 0 .. LastStep]
        /\ remembered' \in [FormRecords -> 0 .. LastStep]
    BY <1>0 DEF LastStep
  <2> QED
    BY <1>0, <1>1, <1>2, <1>t, <2>1, <2>2, <2>3 DEF FormTypeOK
<1>5. WalkedThroughIsSaved' /\ AheadIsUnseen'
  BY <1>1 DEF WalkedThroughIsSaved, AheadIsUnseen, Sections
<1>6. route'.id = r /\ r # NoRecord
  BY <1>0, FormAssumption
<1>7. SectionsOfOneRecord' /\ UrlMirrorsStep'
  BY <1>1, <1>6 DEF SectionsOfOneRecord, UrlMirrorsStep, Sections
<1> QED
  BY <1>0, <1>1, <1>2, <1>3, <1>4, <1>5, <1>7 DEF FormInvariant, LiveSaveIsOne, AtMostOne, ListIsLeft,
     ContinuesFromTheStep, LeftLoadIsHarmless, OnItsPath

LEMMA LeaveKeeps == FormInvariant /\ Leave => FormInvariant'
<1> SUFFICES ASSUME FormInvariant, Leave PROVE FormInvariant'
  OBVIOUS
<1>0. /\ formPage' = "list" /\ route' = [id |-> NoRecord, step |-> 0] /\ FreshForm
      /\ formRequests' = Gone(formRequests)
      /\ formMoves' = formMoves + 1 /\ formMoves < MaxFormMoves
      /\ UNCHANGED <<remembered, server, progress, strayed>>
  BY DEF Leave, FormMove
<1>t. FormTypeOK /\ MaxFormMoves \in Nat /\ formRequests \in SUBSET RequestType
  BY FormAssumption DEF FormInvariant, FormTypeOK
<1>1. formRequests' \subseteq RequestType /\ \A q \in formRequests' : q.gone
  BY <1>0, <1>t, GoneRequests
<1>2. FormTypeOK'
  <2>1. formMoves' \in 0 .. MaxFormMoves
    BY <1>0, <1>t DEF FormTypeOK
  <2>2. formStep' \in 1 .. LastStep /\ rendered' \subseteq 1 .. LastStep
    BY <1>0, FreshFormEffect DEF LastStep
  <2>3. route' \in [id : FormRecords \cup {NoRecord}, step : 0 .. LastStep]
    BY <1>0 DEF LastStep
  <2> QED
    BY <1>0, <1>1, <1>t, <2>1, <2>2, <2>3, FreshFormEffect DEF FormTypeOK
<1> QED
  BY <1>0, <1>1, <1>2, ToTheList
LEMMA EditKeeps == FormInvariant /\ Edit => FormInvariant'
<1> SUFFICES ASSUME FormInvariant, Edit PROVE FormInvariant'
  OBVIOUS
<1>0. /\ formPage = "form" /\ formStep \in Sections
      /\ broken' \in {broken \cup {formStep}, broken \ {formStep}} /\ unsaved' = unsaved \cup {formStep}
      /\ formRequests' = {[q EXCEPT !.clean = @ /\ q.section # formStep] : q \in formRequests}
      /\ strayed' = IF formRequests # {} THEN strayed \cup {"moved"} ELSE strayed
      /\ formMoves' = formMoves + 1 /\ formMoves < MaxFormMoves
      /\ UNCHANGED <<formPage, route, formStep, rendered, content, loading, remembered, server, progress>>
  BY DEF Edit, FormMove
<1>t. FormTypeOK /\ MaxFormMoves \in Nat /\ formRequests \in SUBSET RequestType
  BY FormAssumption DEF FormInvariant, FormTypeOK
<1>1. /\ formRequests' \subseteq RequestType
      /\ AtMostOne(LiveIn(formRequests)) => AtMostOne(LiveIn(formRequests'))
      /\ LiveIn(formRequests') # {} => LiveIn(formRequests) # {}
  <2>1. formRequests' = Touched(formRequests, formStep)
    BY <1>0 DEF Touched
  <2> QED
    BY <1>t, <2>1, EditedRequests
<1>2. FormTypeOK'
  <2>1. formMoves' \in 0 .. MaxFormMoves
    BY <1>0, <1>t DEF FormTypeOK
  <2> QED
    BY <1>0, <1>1, <1>t, <2>1 DEF FormTypeOK
<1>3. LiveSaveIsOne'
  BY <1>0, <1>1 DEF LiveSaveIsOne, LiveSaves, LiveIn, FormInvariant
<1>4. ListIsLeft' /\ SectionsOfOneRecord' /\ UrlMirrorsStep'
  BY <1>0 DEF FormInvariant, ListIsLeft, SectionsOfOneRecord, UrlMirrorsStep
<1>5. ASSUME OnItsPath' PROVE OnItsPath /\ formRequests' = {}
  BY <1>0, <1>5 DEF OnItsPath
<1>6. WalkedThroughIsSaved' /\ AheadIsUnseen'
  <2>1. formStep \in 1 .. 7
    BY <1>t DEF FormTypeOK, LastStep
  <2>2. OnItsPath => (1 .. formStep - 1) \cap unsaved = {}
    BY DEF FormInvariant, WalkedThroughIsSaved, OnItsPath
  <2>3. OnItsPath' => ((1 .. formStep - 1) \cap unsaved = {})'
    BY <1>0, <1>5, <2>1, <2>2
  <2> QED
    BY <1>0, <1>5, <2>1, <2>3 DEF FormInvariant, WalkedThroughIsSaved, AheadIsUnseen, OnItsPath, Sections
<1>7. ContinuesFromTheStep' /\ LeftLoadIsHarmless'
  BY <1>5 DEF ContinuesFromTheStep, LeftLoadIsHarmless, LiveSaves
<1> QED
  BY <1>2, <1>3, <1>4, <1>6, <1>7 DEF FormInvariant

LEMMA GoToStepKeeps ==
    ASSUME FormInvariant, NEW t \in 1 .. LastStep, GoToStep(t) PROVE FormInvariant'
<1>0. /\ formPage = "form" /\ formStep' = t /\ rendered' = rendered \cup {t}
      /\ strayed' = strayed \cup {"moved"}
      /\ IF route.id = NoRecord THEN UNCHANGED <<route, remembered>> ELSE SyncStepState(route.id, t)
      /\ formMoves' = formMoves + 1 /\ formMoves < MaxFormMoves
      /\ UNCHANGED <<formPage, broken, content, unsaved, loading, server, progress, formRequests>>
  BY DEF GoToStep, FormMove
<1>t. FormTypeOK /\ MaxFormMoves \in Nat /\ route.id \in FormRecords \cup {NoRecord}
  BY FormAssumption DEF FormInvariant, FormTypeOK
<1>1. /\ remembered' \in [FormRecords -> 0 .. LastStep]
      /\ route' \in [id : FormRecords \cup {NoRecord}, step : 0 .. LastStep]
      /\ route'.id = route.id
      /\ route.id # NoRecord => route'.step = t /\ remembered'[route.id] = t
  <2>1. CASE route.id = NoRecord
    BY <1>0, <1>t, <2>1 DEF FormTypeOK
  <2>2. CASE route.id # NoRecord
    BY <1>0, <1>t, <2>2, SyncEffect
  <2> QED
    BY <2>1, <2>2
<1>2. FormTypeOK'
  <2>1. formMoves' \in 0 .. MaxFormMoves
    BY <1>0, <1>t DEF FormTypeOK
  <2> QED
    BY <1>0, <1>1, <1>t, <2>1 DEF FormTypeOK
<1>3. LiveSaveIsOne' /\ ListIsLeft' /\ SectionsOfOneRecord'
  BY <1>0, <1>1 DEF LiveSaveIsOne, LiveSaves, FormInvariant, ListIsLeft, SectionsOfOneRecord
<1>4. UrlMirrorsStep'
  BY <1>0, <1>1 DEF FormInvariant, UrlMirrorsStep
<1>5. ~OnItsPath'
  BY <1>0 DEF OnItsPath
<1> QED
  BY <1>2, <1>3, <1>4, <1>5 DEF FormInvariant, OnItsPath, WalkedThroughIsSaved, AheadIsUnseen,
     ContinuesFromTheStep, LeftLoadIsHarmless

LEMMA SendKeeps ==
    ASSUME FormInvariant, NEW q \in RequestType, q.kind # "load", q.clean, ~q.gone,
           q.continue => q.section = formStep /\ Valid(formStep), Send(q)
    PROVE  FormInvariant'
<1>0. /\ formPage = "form" /\ ~loading /\ loading' = TRUE /\ formRequests' = formRequests \cup {q}
      /\ formMoves' = formMoves + 1 /\ formMoves < MaxFormMoves
      /\ UNCHANGED <<formPage, route, formStep, rendered, broken, content, unsaved, remembered,
                     server, progress, strayed>>
  BY DEF Send, FormMove
<1>t. FormTypeOK /\ MaxFormMoves \in Nat
  BY FormAssumption DEF FormInvariant
<1>1. LiveSaves = {}
  BY <1>0 DEF FormInvariant, LiveSaveIsOne
<1>2. LiveSaves' = {q}
  BY <1>0, <1>1 DEF LiveSaves
<1>3. FormTypeOK'
  <2>1. formMoves' \in 0 .. MaxFormMoves
    BY <1>0, <1>t DEF FormTypeOK
  <2> QED
    BY <1>0, <1>t, <2>1 DEF FormTypeOK
<1>4. LiveSaveIsOne' /\ ListIsLeft'
  BY <1>0, <1>2 DEF LiveSaveIsOne, AtMostOne, ListIsLeft
<1>5. SectionsOfOneRecord' /\ UrlMirrorsStep' /\ WalkedThroughIsSaved' /\ AheadIsUnseen'
  BY <1>0 DEF FormInvariant, SectionsOfOneRecord, UrlMirrorsStep, WalkedThroughIsSaved,
     AheadIsUnseen, OnItsPath
<1>6. ContinuesFromTheStep'
  BY <1>0, <1>2 DEF ContinuesFromTheStep
<1>7. LeftLoadIsHarmless'
  <2> SUFFICES ASSUME OnItsPath, NEW p \in formRequests, p.kind = "load", p.gone, unsaved # {}
               PROVE  formStep = 1 /\ 1 \in rendered /\ 1 \in broken /\ ~q.continue
    BY <1>0, <1>2 DEF LeftLoadIsHarmless, OnItsPath
  <2>1. formStep = 1 /\ 1 \in rendered /\ 1 \in broken
    BY DEF FormInvariant, LeftLoadIsHarmless
  <2>2. Valid(1) = FALSE
    BY <2>1 DEF Valid, LastStep
  <2> QED
    BY <2>1, <2>2
<1> QED
  BY <1>3, <1>4, <1>5, <1>6, <1>7 DEF FormInvariant

LEMMA SavesKeep == FormInvariant /\ (SaveAndContinue \/ SaveDraftClicked \/ FinishAndSubmit) => FormInvariant'
<1> SUFFICES ASSUME FormInvariant, SaveAndContinue \/ SaveDraftClicked \/ FinishAndSubmit PROVE FormInvariant'
  OBVIOUS
<1>t. formStep \in 1 .. 7 /\ route.id \in FormRecords \cup {NoRecord}
      /\ content \in [Sections -> FormRecords \cup {NoRecord}]
  BY DEF FormInvariant, FormTypeOK, LastStep
<1>1. ASSUME NEW kind \in {"step", "final"}, NEW s \in Sections, NEW c \in BOOLEAN
      PROVE  LET q == Request(kind, route.id, s, c) IN
               q \in RequestType /\ q.kind # "load" /\ q.clean /\ ~q.gone /\ q.continue = c /\ q.section = s
  BY <1>t DEF Request, RequestType
<1>2. CASE SaveAndContinue
  BY <1>1, <1>2, SendKeeps DEF SaveAndContinue
<1>3. CASE SaveDraftClicked
  <2>1. (IF formStep = LastStep THEN 6 ELSE formStep) \in Sections
    BY <1>t DEF LastStep, Sections
  <2> QED
    BY <1>1, <1>3, <2>1, SendKeeps DEF SaveDraftClicked
<1>4. CASE FinishAndSubmit
  <2>1. 6 \in Sections
    BY DEF Sections
  <2> QED
    BY <1>1, <1>4, <2>1, SendKeeps DEF FinishAndSubmit
<1> QED
  BY <1>2, <1>3, <1>4
\* The step after "Save & Continue" of a clean step: what lies before it is saved.
LEMMA AdvanceIsSaved ==
    ASSUME FormInvariant, OnItsPath, NEW q \in LiveSaves,
           unsaved' = unsaved \ SavedBy(q), formStep' = StepAfter(q), rendered' = rendered \cup {formStep'}
    PROVE  /\ (1 .. formStep' - 1) \cap unsaved' = {}
           /\ \A s \in Sections : s > formStep' /\ s \in unsaved' => s \notin rendered'
<1>t. /\ FormTypeOK /\ q \in RequestType /\ ~q.gone /\ formStep \in 1 .. 7 /\ unsaved \subseteq Sections
  BY DEF FormInvariant, FormTypeOK, LiveSaves, LastStep
<1>1. formStep' \in 1 .. 7 /\ (~q.continue => formStep' = formStep)
  BY <1>t, StepAfterBounds DEF LastStep
<1>2. /\ (1 .. formStep - 1) \cap unsaved = {}
      /\ \A s \in Sections : s > formStep /\ s \in unsaved => s \notin rendered
      /\ q.continue => (q.clean /\ q.section = formStep) \/ unsaved = {}
  BY DEF FormInvariant, WalkedThroughIsSaved, AheadIsUnseen, ContinuesFromTheStep, OnItsPath
<1>3. CASE unsaved = {}
  BY <1>3
<1>4. CASE ~q.continue
  BY <1>1, <1>2, <1>4 DEF Sections
<1>5. CASE q.continue /\ q.clean /\ q.section = formStep
  <2>1. unsaved' = unsaved \ {formStep}
    BY <1>5, <1>t DEF SavedBy
  <2>2. CASE formStep' \in {formStep, formStep + 1}
    <3>1. ASSUME NEW s \in unsaved', s \in 1 .. formStep' - 1 PROVE FALSE
      BY <1>t, <1>1, <1>2, <2>1, <2>2, <3>1
    <3>2. ASSUME NEW s \in Sections, s > formStep', s \in unsaved' PROVE s \notin rendered'
      BY <1>t, <1>1, <1>2, <2>1, <2>2, <3>2 DEF Sections
    <3> QED
      BY <3>1, <3>2
  <2>3. CASE formStep = 1 /\ formStep' = 3 /\ Valid(2)
    <3>1. 2 \in rendered
      BY <2>3 DEF Valid, LastStep, InitiallyValid
    <3>2. 2 \notin unsaved
      BY <1>2, <2>3, <3>1 DEF Sections
    <3>3. ASSUME NEW s \in unsaved', s \in 1 .. formStep' - 1 PROVE FALSE
      BY <1>t, <2>1, <2>3, <3>2, <3>3
    <3>4. ASSUME NEW s \in Sections, s > formStep', s \in unsaved' PROVE s \notin rendered'
      BY <1>t, <1>2, <2>1, <2>3, <3>4 DEF Sections
    <3> QED
      BY <3>3, <3>4
  <2> QED
    BY <1>5, <1>t, <2>2, <2>3, StepAfterBounds
<1> QED
  BY <1>2, <1>3, <1>4, <1>5

LEMMA StepSavedKeeps ==
    ASSUME FormInvariant, NEW q \in formRequests, StepSaved(q) PROVE FormInvariant'
<1>0. /\ q.kind = "step" /\ ~q.gone /\ formRequests' = formRequests \ {q} /\ loading' = FALSE
      /\ unsaved' = unsaved \ SavedBy(q) /\ formStep' = StepAfter(q) /\ rendered' = rendered \cup {formStep'}
      /\ IF formStep' # formStep /\ route.id # NoRecord THEN SyncStepState(route.id, formStep')
         ELSE UNCHANGED <<route, remembered>>
      /\ \E r \in Target(q) : Write(q, r)
      /\ UNCHANGED <<formPage, broken, content, strayed, formMoves>>
  BY DEF StepSaved, Answered
<1>t. FormTypeOK /\ q \in RequestType /\ route.id \in FormRecords \cup {NoRecord}
  BY DEF FormInvariant, FormTypeOK
<1>l. LiveSaves = {q} /\ q \in LiveSaves /\ formPage = "form"
  BY <1>0 DEF FormInvariant, FormTypeOK, LiveSaveIsOne, AtMostOne, LiveSaves, ListIsLeft
<1>1. formStep' \in 1 .. LastStep
  BY <1>0, <1>t, StepAfterBounds
<1>2. /\ remembered' \in [FormRecords -> 0 .. LastStep]
      /\ route' \in [id : FormRecords \cup {NoRecord}, step : 0 .. LastStep]
      /\ route'.id = route.id
      /\ route.id # NoRecord /\ formStep' # formStep => route'.step = formStep' /\ remembered'[route.id] = formStep'
  <2>1. CASE formStep' # formStep /\ route.id # NoRecord
    BY <1>0, <1>1, <1>t, <2>1, SyncEffect
  <2>2. CASE ~(formStep' # formStep /\ route.id # NoRecord)
    BY <1>0, <1>t, <2>2 DEF FormTypeOK
  <2> QED
    BY <2>1, <2>2
<1>3. LiveSaves' = {}
  BY <1>0, <1>l DEF LiveSaves
<1>4. FormTypeOK'
  <2>1. server' \in [FormRecords -> {"none", "draft", "completed"}] /\ progress' \in [FormRecords -> {0, 6}]
    BY <1>0, <1>t, TargetIsARecord, WriteEffect
  <2> QED
    BY <1>0, <1>1, <1>2, <1>t, <2>1 DEF FormTypeOK
<1>5. LiveSaveIsOne' /\ ListIsLeft' /\ SectionsOfOneRecord' /\ ContinuesFromTheStep'
  BY <1>0, <1>2, <1>3, <1>l DEF LiveSaveIsOne, AtMostOne, ListIsLeft, FormInvariant, SectionsOfOneRecord,
     ContinuesFromTheStep
<1>6. UrlMirrorsStep'
  BY <1>0, <1>2 DEF FormInvariant, UrlMirrorsStep
<1>7. WalkedThroughIsSaved' /\ AheadIsUnseen'
  BY <1>0, <1>l, AdvanceIsSaved DEF WalkedThroughIsSaved, AheadIsUnseen, OnItsPath
<1>8. LeftLoadIsHarmless'
  <2> SUFFICES ASSUME OnItsPath, NEW p \in formRequests, p.kind = "load", p.gone, unsaved # {}
               PROVE  formStep' = 1 /\ 1 \in rendered' /\ 1 \in broken' /\ LiveSaves' = {}
    BY <1>0 DEF LeftLoadIsHarmless, OnItsPath
  <2>1. formStep = 1 /\ 1 \in broken /\ ~q.continue
    BY <1>l DEF FormInvariant, LeftLoadIsHarmless
  <2>2. formStep' = 1
    BY <1>0, <1>t, <2>1, StepAfterBounds
  <2> QED
    BY <1>0, <1>3, <2>1, <2>2
<1> QED
  BY <1>4, <1>5, <1>6, <1>7, <1>8 DEF FormInvariant
LEMMA RecordCreatedKeeps ==
    ASSUME FormInvariant, NEW q \in formRequests, RecordCreated(q) PROVE FormInvariant'
<1>0. /\ q.kind = "step" /\ ~q.gone /\ q.section = 1 /\ q.continue /\ route.id = NoRecord /\ loading' = FALSE
      /\ unsaved' = unsaved \ SavedBy(q) /\ formStep' = StepAfter(q) /\ rendered' = rendered \cup {formStep'}
      /\ UNCHANGED <<formPage, broken, content, remembered, strayed, formMoves>>
  BY DEF RecordCreated, Answered
<1>t. FormTypeOK /\ q \in RequestType
  BY DEF FormInvariant, FormTypeOK
<1>l. LiveSaves = {q} /\ q \in LiveSaves /\ formPage = "form"
  BY <1>0 DEF FormInvariant, FormTypeOK, LiveSaveIsOne, AtMostOne, LiveSaves, ListIsLeft
<1>r. PICK r \in Target(q) : /\ Write(q, r) /\ route' = [id |-> r, step |-> 2]
                             /\ formRequests' = (formRequests \ {q}) \cup {LoadOf(r)}
  BY DEF RecordCreated
<1>n. r \in FormRecords /\ r # NoRecord /\ 2 \in 0 .. LastStep
  BY <1>t, TargetIsARecord, FormAssumption DEF LastStep
<1>w. server' \in [FormRecords -> {"none", "draft", "completed"}] /\ progress' \in [FormRecords -> {0, 6}]
  BY <1>r, <1>n, <1>t, WriteEffect
<1>u. route' \in [id : FormRecords \cup {NoRecord}, step : 0 .. LastStep] /\ route'.id = r
  BY <1>r, <1>n
<1>s. StepAfter(q) \in 1 .. LastStep
  BY <1>t, StepAfterBounds
<1>1. LoadOf(r) \in RequestType /\ LoadOf(r).kind = "load" /\ LoadOf(r).gone = FALSE
  BY <1>n DEF LoadOf, RequestType, Sections
<1>2. LiveSaves' = {}
  BY <1>l, <1>r, <1>1 DEF LiveSaves
<1>3. FormTypeOK'
  BY <1>0, <1>t, <1>w, <1>u, <1>s, <1>r, <1>1 DEF FormTypeOK
<1>4. "pulled" \notin strayed => content'[1] = NoRecord
  BY <1>0, <1>l DEF FormInvariant, SectionsOfOneRecord
<1>5. LiveSaveIsOne' /\ ListIsLeft' /\ SectionsOfOneRecord' /\ ContinuesFromTheStep' /\ UrlMirrorsStep'
  BY <1>0, <1>l, <1>n, <1>u, <1>2, <1>4 DEF LiveSaveIsOne, AtMostOne, ListIsLeft, FormInvariant,
     SectionsOfOneRecord, ContinuesFromTheStep, UrlMirrorsStep
<1>6. WalkedThroughIsSaved' /\ AheadIsUnseen'
  BY <1>0, <1>l, AdvanceIsSaved DEF WalkedThroughIsSaved, AheadIsUnseen, OnItsPath
<1>7. LeftLoadIsHarmless'
  <2> SUFFICES ASSUME OnItsPath, NEW p \in formRequests', p.kind = "load", p.gone PROVE unsaved' = {}
    BY <1>0 DEF LeftLoadIsHarmless, OnItsPath
  <2>1. p \in formRequests
    BY <1>r, <1>1
  <2>2. unsaved = {}
    BY <1>0, <1>l, <2>1 DEF FormInvariant, LeftLoadIsHarmless
  <2> QED
    BY <1>0, <2>2
<1> QED
  BY <1>3, <1>5, <1>6, <1>7 DEF FormInvariant

LEMMA FinalSavedKeeps ==
    ASSUME FormInvariant, NEW q \in formRequests, FinalSaved(q) PROVE FormInvariant'
<1>0. /\ formPage' = "list" /\ route' = [id |-> NoRecord, step |-> 0] /\ FreshForm
      /\ formRequests' = Gone(formRequests \ {q}) /\ \E r \in Target(q) : Write(q, r)
      /\ UNCHANGED <<remembered, strayed, formMoves>>
  BY DEF FinalSaved, Answered
<1>t. FormTypeOK /\ q \in RequestType /\ formRequests \ {q} \in SUBSET RequestType
  BY DEF FormInvariant, FormTypeOK
<1>1. formRequests' \subseteq RequestType /\ \A p \in formRequests' : p.gone
  BY <1>0, <1>t, GoneRequests
<1>2. FormTypeOK'
  <2>1. server' \in [FormRecords -> {"none", "draft", "completed"}] /\ progress' \in [FormRecords -> {0, 6}]
    BY <1>0, <1>t, TargetIsARecord, WriteEffect
  <2>2. formStep' \in 1 .. LastStep /\ rendered' \subseteq 1 .. LastStep
    BY <1>0, FreshFormEffect DEF LastStep
  <2>3. route' \in [id : FormRecords \cup {NoRecord}, step : 0 .. LastStep]
    BY <1>0 DEF LastStep
  <2> QED
    BY <1>0, <1>1, <1>t, <2>1, <2>2, <2>3, FreshFormEffect DEF FormTypeOK
<1> QED
  BY <1>0, <1>1, <1>2, ToTheList

LEMMA SavedForGoneFormKeeps ==
    ASSUME FormInvariant, NEW q \in formRequests, SavedForGoneForm(q) PROVE FormInvariant'
<1>0. q.kind = "step" /\ q.gone /\ UNCHANGED <<formMoves>>
  BY DEF SavedForGoneForm, Answered
<1>t. FormTypeOK /\ q \in RequestType
  BY DEF FormInvariant, FormTypeOK
<1>r. PICK r \in Target(q) :
        /\ Write(q, r)
        /\ IF q.continue
           THEN Arrive(r, formRequests \ {q}) /\ strayed' = strayed \cup {"pulled"}
           ELSE /\ formRequests' = formRequests \ {q}
                /\ UNCHANGED <<formPage, route, formState, remembered, strayed>>
  BY DEF SavedForGoneForm
<1>n. r \in FormRecords /\ r # NoRecord /\ 2 \in 0 .. LastStep
  BY <1>t, TargetIsARecord, FormAssumption DEF LastStep
<1>w. server' \in [FormRecords -> {"none", "draft", "completed"}] /\ progress' \in [FormRecords -> {0, 6}]
  BY <1>r, <1>n, <1>t, WriteEffect
<1>1. CASE ~q.continue
  <2>1. /\ formRequests' = formRequests \ {q}
        /\ UNCHANGED <<formPage, route, formStep, rendered, broken, content, unsaved, loading, remembered, strayed>>
    BY <1>r, <1>1 DEF formState
  <2>2. FormTypeOK'
    BY <1>0, <1>t, <1>w, <2>1 DEF FormTypeOK
  <2>3. LiveSaves' # {} => loading'
    BY <2>1 DEF LiveSaves, FormInvariant, LiveSaveIsOne
  <2> QED
    BY <2>1, <2>2, <2>3, OneAnswerLess
<1>2. CASE q.continue
  <2>0. Arrive(r, formRequests \ {q}) /\ strayed' = strayed \cup {"pulled"} /\ formPage' = "form"
    BY <1>r, <1>2 DEF Arrive
  <2>1. LoadOf(r) \in RequestType /\ LoadOf(r).kind = "load"
    BY <1>n DEF LoadOf, RequestType, Sections
  <2>2. /\ formRequests' \subseteq RequestType /\ LiveSaves' \subseteq LiveSaves
    <3>1. formRequests' \in {formRequests \ {q}, (formRequests \ {q}) \cup {LoadOf(r)}}
      BY <2>0 DEF Arrive
    <3>2. formRequests \subseteq RequestType
      BY <1>t DEF FormTypeOK
    <3> QED
      BY <2>1, <3>1, <3>2 DEF LiveSaves
  <2>3. formPage = "list" => LiveSaves = {}
    BY DEF LiveSaves, FormInvariant, ListIsLeft
  <2>f. ASSUME UNCHANGED formState
        PROVE  UNCHANGED <<formStep, rendered, broken, content, unsaved, loading>>
    BY <2>f DEF formState
  <2>4. /\ formStep' \in 1 .. LastStep /\ rendered' \subseteq 1 .. LastStep /\ broken' \subseteq Sections
        /\ content' \in [Sections -> FormRecords \cup {NoRecord}] /\ unsaved' \subseteq Sections
        /\ loading' \in BOOLEAN /\ remembered' \in [FormRecords -> 0 .. LastStep]
        /\ route' \in [id : FormRecords \cup {NoRecord}, step : 0 .. LastStep]
        /\ loading' = loading \/ formPage = "list"
        /\ content'[1] \in {NoRecord, content'[2]}
        /\ \A s \in Sections \ {1} : content'[s] = content'[2]
    <3>1. /\ route' = [id |-> r, step |-> 2] /\ remembered' = remembered
          /\ IF formPage = "form" THEN UNCHANGED formState ELSE FreshForm
      BY <2>0 DEF Arrive
    <3>2. CASE formPage = "form"
      BY <1>n, <1>t, <2>f, <3>1, <3>2 DEF FormTypeOK, FormInvariant, SectionsOfOneRecord
    <3>3. CASE formPage = "list"
      <4>1. formStep' \in 1 .. LastStep /\ rendered' \subseteq 1 .. LastStep
        BY <3>1, <3>3, FreshFormEffect DEF LastStep
      <4>2. 1 \in Sections /\ 2 \in Sections
        BY DEF Sections
      <4> QED
        BY <1>n, <1>t, <3>1, <3>3, <4>1, <4>2, FreshFormEffect DEF FormTypeOK
    <3> QED
      BY <1>t, <3>2, <3>3 DEF FormTypeOK
  <2>5. FormTypeOK'
    BY <1>0, <1>t, <1>w, <2>0, <2>2, <2>4 DEF FormTypeOK
  <2>6. LiveSaveIsOne'
    BY <2>2, <2>3, <2>4 DEF FormInvariant, LiveSaveIsOne, AtMostOne
  <2> QED
    BY <2>0, <2>4, <2>5, <2>6 DEF FormInvariant, ListIsLeft, SectionsOfOneRecord, UrlMirrorsStep,
       WalkedThroughIsSaved, AheadIsUnseen, ContinuesFromTheStep, LeftLoadIsHarmless, OnItsPath
<1> QED
  BY <1>1, <1>2, <1>t DEF RequestType
LEMMA SaveFailsKeeps ==
    ASSUME FormInvariant, NEW q \in formRequests, SaveFails(q) \/ FormLoadFails(q) PROVE FormInvariant'
<1>0. /\ formRequests' = formRequests \ {q}
      /\ loading' = loading \/ (loading' = FALSE /\ q.kind # "load" /\ ~q.gone)
      /\ UNCHANGED <<formPage, route, formStep, rendered, broken, content, unsaved, remembered, server,
                     progress, formMoves, strayed>>
  BY DEF SaveFails, FormLoadFails, Answered, LoadingAfterRefusal, formState, FormInvariant, FormTypeOK, RequestType
<1>1. FormTypeOK'
  BY <1>0 DEF FormInvariant, FormTypeOK
<1>2. LiveSaves' # {} => loading'
  BY <1>0 DEF FormInvariant, LiveSaveIsOne, AtMostOne, LiveSaves
<1> QED
  BY <1>0, <1>1, <1>2, OneAnswerLess

\* A load is of a record.
LoadsNameRecords == \A q \in formRequests : q.kind = "load" => q.id \in FormRecords

LEMMA LoadsKeep == FormTypeOK /\ LoadsNameRecords /\ [FormNext]_formVars => LoadsNameRecords'
<1> SUFFICES ASSUME FormTypeOK, LoadsNameRecords, [FormNext]_formVars, NEW q \in formRequests', q.kind = "load"
             PROVE  q.id \in FormRecords
  BY DEF LoadsNameRecords
<1> DEFINE Old(s) == \E p \in formRequests : p.kind = s.kind /\ p.id = s.id
<1>t. formRequests \subseteq RequestType
  BY DEF FormTypeOK
<1>o. /\ \A rs \in SUBSET formRequests : \A s \in Outdated(rs) : Old(s)
      /\ \A rs \in SUBSET formRequests : \A s \in Gone(rs) : Old(s)
      /\ \A s \in {[p EXCEPT !.clean = @ /\ p.section # formStep] : p \in formRequests} : Old(s)
      /\ \A s \in formRequests : Old(s)
  <2>1. ASSUME NEW p \in formRequests, NEW c, NEW g, NEW k
        PROVE  LET s == [p EXCEPT !.clean = c]
                   u == [p EXCEPT !.gone = g, !.clean = c, !.continue = k]
               IN p.kind = s.kind /\ p.id = s.id /\ p.kind = u.kind /\ p.id = u.id
    BY <1>t DEF RequestType
  <2>2. \A rs \in SUBSET formRequests : \A s \in Outdated(rs) : Old(s)
    <3> SUFFICES ASSUME NEW rs \in SUBSET formRequests, NEW s \in Outdated(rs) PROVE Old(s)
      OBVIOUS
    <3>1. PICK p \in rs : s = [p EXCEPT !.clean = FALSE]
      BY DEF Outdated
    <3> QED
      BY <2>1, <3>1
  <2>3. \A rs \in SUBSET formRequests : \A s \in Gone(rs) : Old(s)
    <3> SUFFICES ASSUME NEW rs \in SUBSET formRequests, NEW s \in Gone(rs) PROVE Old(s)
      OBVIOUS
    <3>1. PICK p \in rs : s = [p EXCEPT !.gone = TRUE, !.clean = FALSE,
                                       !.continue = @ /\ p.section = 1 /\ route.id = NoRecord]
      BY DEF Gone
    <3> QED
      BY <2>1, <3>1
  <2>4. \A s \in {[p EXCEPT !.clean = @ /\ p.section # formStep] : p \in formRequests} : Old(s)
    <3> SUFFICES ASSUME NEW p \in formRequests PROVE Old([p EXCEPT !.clean = @ /\ p.section # formStep])
      OBVIOUS
    <3> QED
      BY <2>1
  <2> QED
    BY <2>2, <2>3, <2>4
<1>k. ASSUME Old(q) PROVE q.id \in FormRecords
  BY <1>k DEF LoadsNameRecords
<1>l. \A r : LoadOf(r).id = r
  BY DEF LoadOf
<1> HIDE DEF Old
<1>1. ASSUME NEW r \in FormRecords, q = LoadOf(r) PROVE q.id \in FormRecords
  BY <1>1, <1>l
<1>2. ASSUME NEW p, p.kind # "load", q = p PROVE FALSE
  BY <1>2
<1>3. CASE FormUser
  <2>1. CASE OpenCreate \/ Leave \/ Edit \/ (\E t \in 1 .. LastStep : GoToStep(t))
    BY <1>o, <1>k, <2>1 DEF OpenCreate, Leave, Edit, GoToStep
  <2>2. CASE \/ \E r \in FormRecords : OpenEdit(r)
             \/ \E r \in FormRecords, t \in 0 .. LastStep : OpenLink(r, t)
    BY <1>o, <1>k, <1>1, <2>2 DEF OpenEdit, OpenLink
  <2>3. CASE SaveAndContinue \/ SaveDraftClicked \/ FinishAndSubmit
    <3>1. \E p : p.kind # "load" /\ formRequests' = formRequests \cup {p}
      BY <2>3 DEF SaveAndContinue, SaveDraftClicked, FinishAndSubmit, Send, Request
    <3> QED
      BY <1>o, <1>k, <3>1
  <2> QED
    BY <1>3, <2>1, <2>2, <2>3 DEF FormUser
<1>4. ASSUME NEW p \in formRequests,
             \/ StepSaved(p) \/ RecordCreated(p) \/ FinalSaved(p) \/ SavedForGoneForm(p)
             \/ SaveFails(p) \/ FormLoaded(p) \/ FormLoadFails(p)
      PROVE  q.id \in FormRecords
  <2>0. formRequests \ {p} \in SUBSET formRequests /\ p \in RequestType
    BY <1>t
  <2>1. CASE StepSaved(p) \/ SaveFails(p) \/ FormLoadFails(p)
    BY <1>o, <1>k, <2>1 DEF StepSaved, SaveFails, FormLoadFails
  <2>2. CASE RecordCreated(p) \/ SavedForGoneForm(p)
    <3>1. \E r \in Target(p) : formRequests' \in {formRequests \ {p}, (formRequests \ {p}) \cup {LoadOf(r)}}
      BY <2>2 DEF RecordCreated, SavedForGoneForm, Arrive
    <3> QED
      BY <1>o, <1>k, <1>1, <2>0, <3>1, TargetIsARecord
  <2>3. CASE FinalSaved(p)
    BY <1>o, <1>k, <2>0, <2>3 DEF FinalSaved
  <2>4. CASE FormLoaded(p)
    BY <1>o, <1>k, <2>0, <2>4 DEF FormLoaded
  <2> QED
    BY <1>4, <2>1, <2>2, <2>3, <2>4
<1>5. CASE UNCHANGED formVars
  BY <1>o, <1>k, <1>5 DEF formVars
<1> QED
  BY <1>3, <1>4, <1>5 DEF FormNext, FormAnswer

\* The form is filled from the answer, whatever its route names by now.
LEMMA FilledKeeps ==
    ASSUME FormInvariant, LoadsNameRecords, NEW q \in formRequests, FormLoaded(q), ~q.gone
    PROVE  FormInvariant'
<1>0. /\ formRequests' = Outdated(formRequests \ {q})
      /\ content' = [s \in Sections |-> q.id]
      /\ broken' = {} /\ unsaved' = {}
      /\ formStep' = ResolveInitialStep(q.id, route.step)
      /\ rendered' = rendered \cup {formStep'}
      /\ IF route.id = NoRecord THEN UNCHANGED <<route, remembered>> ELSE SyncStepState(route.id, formStep')
      /\ strayed' = IF q.id = route.id THEN {} ELSE strayed \cup {"pulled"}
      /\ q.kind = "load" /\ UNCHANGED <<loading, formPage, server, progress, formMoves>>
  BY DEF FormLoaded, SetFormFields, LoadedSections
<1>t. /\ FormTypeOK /\ q \in RequestType /\ route.id \in FormRecords \cup {NoRecord}
      /\ formRequests \in SUBSET RequestType /\ formRequests \ {q} \in SUBSET RequestType
      /\ route.step \in 0 .. LastStep /\ q.id \in FormRecords \cup {NoRecord}
  BY DEF FormInvariant, FormTypeOK, RequestType
<1>a. formPage = "form"
  BY <1>t DEF FormInvariant, ListIsLeft, FormTypeOK
<1>q. q.id \in FormRecords
  BY <1>0 DEF LoadsNameRecords
<1>s. formStep' \in 1 .. LastStep
  BY <1>0, <1>t, <1>q, ResolvedStep
<1>1. /\ remembered' \in [FormRecords -> 0 .. LastStep]
      /\ route' \in [id : FormRecords \cup {NoRecord}, step : 0 .. LastStep]
      /\ route'.id = route.id
      /\ route.id # NoRecord => route'.step = formStep' /\ remembered'[route.id] = formStep'
  <2>1. CASE route.id = NoRecord
    BY <1>0, <1>t, <2>1 DEF FormTypeOK
  <2>2. CASE route.id # NoRecord
    BY <1>0, <1>s, <1>t, <2>2, SyncEffect
  <2> QED
    BY <2>1, <2>2
<1>2. /\ formRequests' \subseteq RequestType
      /\ AtMostOne(LiveIn(formRequests \ {q})) => AtMostOne(LiveSaves')
      /\ LiveSaves' # {} => LiveIn(formRequests \ {q}) # {}
  BY <1>0, <1>t, OutdatedRequests DEF LiveSaves, LiveIn
<1>3. LiveIn(formRequests \ {q}) \subseteq LiveSaves
  BY DEF LiveIn, LiveSaves
<1>4. LiveSaveIsOne'
  BY <1>0, <1>2, <1>3 DEF FormInvariant, LiveSaveIsOne, AtMostOne
<1>5. content' \in [Sections -> FormRecords \cup {NoRecord}] /\ content'[1] = q.id
      /\ content'[2] = q.id /\ \A s \in Sections : content'[s] = content'[2]
  BY <1>0, <1>t DEF Sections
<1>6. FormTypeOK'
  BY <1>0, <1>t, <1>s, <1>1, <1>2, <1>5 DEF FormTypeOK
<1>7. ListIsLeft' /\ SectionsOfOneRecord' /\ UrlMirrorsStep'
  BY <1>0, <1>a, <1>1, <1>5 DEF ListIsLeft, SectionsOfOneRecord, UrlMirrorsStep
<1>8. WalkedThroughIsSaved' /\ AheadIsUnseen' /\ ContinuesFromTheStep' /\ LeftLoadIsHarmless'
  BY <1>0 DEF WalkedThroughIsSaved, AheadIsUnseen, ContinuesFromTheStep, LeftLoadIsHarmless
<1> QED
  BY <1>4, <1>6, <1>7, <1>8 DEF FormInvariant

\* The load of a form that was left: it writes the step of the route again.
LEMMA LeftFormLoadedKeeps ==
    ASSUME FormInvariant, LoadsNameRecords, NEW q \in formRequests, FormLoaded(q), q.gone
    PROVE  FormInvariant'
<1> DEFINE t == ResolveInitialStep(q.id, route.step)
<1>0. /\ formRequests' = Outdated(formRequests \ {q}) /\ q.kind = "load"
      /\ IF route.id = NoRecord THEN UNCHANGED <<route, remembered>> ELSE SyncStepState(route.id, t)
      /\ UNCHANGED <<formStep, rendered, broken, content, unsaved, loading, formPage, server, progress,
                     formMoves, strayed>>
  BY DEF FormLoaded, formState
<1>t. /\ FormTypeOK /\ q \in RequestType /\ route.id \in FormRecords \cup {NoRecord}
      /\ formRequests \in SUBSET RequestType /\ formRequests \ {q} \in SUBSET RequestType
      /\ route.step \in 0 .. LastStep
  BY DEF FormInvariant, FormTypeOK
<1>s. t \in 1 .. LastStep /\ (route.step # 0 => t = route.step)
  BY <1>0, <1>t, ResolvedStep DEF LoadsNameRecords, ResolveInitialStep
<1> HIDE DEF t
<1>1. /\ remembered' \in [FormRecords -> 0 .. LastStep]
      /\ route' \in [id : FormRecords \cup {NoRecord}, step : 0 .. LastStep]
      /\ route'.id = route.id
      /\ route.id # NoRecord => route'.step = t /\ remembered'[route.id] = t
  <2>1. CASE route.id = NoRecord
    BY <1>0, <1>t, <2>1 DEF FormTypeOK
  <2>2. CASE route.id # NoRecord
    BY <1>0, <1>s, <1>t, <2>2, SyncEffect
  <2> QED
    BY <2>1, <2>2
<1>2. /\ formRequests' \subseteq RequestType
      /\ \A p \in formRequests' : \E o \in formRequests \ {q} : p = [o EXCEPT !.clean = FALSE]
      /\ AtMostOne(LiveIn(formRequests \ {q})) => AtMostOne(LiveSaves')
      /\ LiveSaves' # {} => LiveIn(formRequests \ {q}) # {}
  BY <1>0, <1>t, OutdatedRequests DEF LiveSaves, LiveIn
<1>3. LiveIn(formRequests \ {q}) \subseteq LiveSaves
  BY DEF LiveIn, LiveSaves
<1>4. LiveSaveIsOne'
  BY <1>0, <1>2, <1>3 DEF FormInvariant, LiveSaveIsOne, AtMostOne
<1>5. FormTypeOK'
  BY <1>0, <1>t, <1>1, <1>2 DEF FormTypeOK
<1>6. ListIsLeft'
  <2>1. \A o \in formRequests : [o EXCEPT !.clean = FALSE].gone = o.gone
    BY <1>t DEF RequestType
  <2> QED
    BY <1>0, <1>2, <2>1 DEF FormInvariant, ListIsLeft
<1>7. SectionsOfOneRecord' /\ WalkedThroughIsSaved' /\ AheadIsUnseen'
  BY <1>0, <1>1 DEF FormInvariant, SectionsOfOneRecord, WalkedThroughIsSaved, AheadIsUnseen, OnItsPath
<1>8. UrlMirrorsStep'
  <2>1. formStep # 0
    BY <1>t DEF FormTypeOK, LastStep
  <2> QED
    BY <1>0, <1>1, <1>s, <2>1 DEF FormInvariant, UrlMirrorsStep
<1>9. OnItsPath => unsaved = {} \/ (formStep = 1 /\ 1 \in rendered /\ 1 \in broken /\ \A p \in LiveSaves : ~p.continue)
  BY <1>0 DEF FormInvariant, LeftLoadIsHarmless
<1>c. \A p \in LiveSaves' : \E o \in LiveSaves : p.continue = o.continue
  <2>1. \A o \in formRequests : LET p == [o EXCEPT !.clean = FALSE] IN
                                p.gone = o.gone /\ p.kind = o.kind /\ p.continue = o.continue
    BY <1>t DEF RequestType
  <2> SUFFICES ASSUME NEW p \in LiveSaves' PROVE \E o \in LiveSaves : p.continue = o.continue
    OBVIOUS
  <2>2. p \in formRequests' /\ p.kind # "load" /\ ~p.gone
    BY DEF LiveSaves
  <2>3. PICK o \in formRequests : p = [o EXCEPT !.clean = FALSE]
    BY <1>2, <2>2
  <2>4. p.gone = o.gone /\ p.kind = o.kind /\ p.continue = o.continue
    BY <2>1, <2>3
  <2>5. o \in LiveSaves
    BY <2>2, <2>4 DEF LiveSaves
  <2> QED
    BY <2>4, <2>5
<1>d. ContinuesFromTheStep' /\ LeftLoadIsHarmless'
  BY <1>0, <1>9, <1>c DEF ContinuesFromTheStep, LeftLoadIsHarmless, OnItsPath
<1> QED
  BY <1>4, <1>5, <1>6, <1>7, <1>8, <1>d DEF FormInvariant

LEMMA FormKeeps == FormInvariant /\ LoadsNameRecords /\ [FormNext]_formVars => FormInvariant'
<1> SUFFICES ASSUME FormInvariant, LoadsNameRecords, [FormNext]_formVars PROVE FormInvariant'
  OBVIOUS
<1>1. CASE FormUser
  BY <1>1, OpenCreateKeeps, OpenEditKeeps, OpenLinkKeeps, LeaveKeeps, EditKeeps, GoToStepKeeps, SavesKeep DEF FormUser
<1>2. CASE FormAnswer
  BY <1>2, StepSavedKeeps, RecordCreatedKeeps, FinalSavedKeeps, SavedForGoneFormKeeps, SaveFailsKeeps,
     FilledKeeps, LeftFormLoadedKeeps DEF FormAnswer
<1>3. CASE UNCHANGED formVars
  <2>1. FormTypeOK'
    BY <1>3 DEF FormInvariant, FormTypeOK, formVars, formState
  <2>2. LiveSaves' # {} => loading'
    BY <1>3 DEF FormInvariant, LiveSaveIsOne, LiveSaves, formVars, formState
  <2> QED
    BY <1>3, <2>1, <2>2, OneAnswerLess DEF formVars, formState
<1> QED
  BY <1>1, <1>2, <1>3 DEF FormNext

LEMMA FormInvariantHolds == FormSpec => [](FormInvariant /\ LoadsNameRecords)
<1>1. FormInit => LoadsNameRecords
  BY DEF FormInit, LoadsNameRecords
<1>2. FormInvariant => FormTypeOK
  BY DEF FormInvariant
<1> QED
  BY <1>1, <1>2, FormInitially, FormKeeps, LoadsKeep, PTL DEF FormSpec

\* Whatever saves, loads and routes cross each other: one save at a time, one record at
\* most in the form, and the route's own in step one, and a URL that names the step on the
\* screen, unless an answer meant for an earlier route has filled or moved the form; and
\* nothing of another record in steps two to six, unless "Create" reused an open form.
THEOREM FormStaysTogether == FormSpec => []FormSafe
<1>1. FormInvariant => FormSafe
  <2> SUFFICES ASSUME FormInvariant PROVE FormSafe
    OBVIOUS
  <2>1. OneSaveAtATime
    BY SingleIsOne DEF FormInvariant, LiveSaveIsOne, LiveSaves, OneSaveAtATime
  <2> QED
    BY <2>1 DEF FormInvariant, FormSafe
<1> QED
  BY <1>1, FormInvariantHolds, PTL

\* "Save & Continue" walks past nothing the server does not have, though its handler
\* advances twice after step one and loads of other forms come in between.
THEOREM NothingWalkedPastUnsaved == FormSpec => []WalkedThroughIsSaved
<1>1. FormInvariant => WalkedThroughIsSaved
  BY DEF FormInvariant
<1> QED
  BY <1>1, FormInvariantHolds, PTL

-----------------------------------------------------------------------------
(* Step six: DocumentRows. *)

FileOf(n) == {NoFile} \cup {Upload(f) : f \in Files} \cup {Doc(id) : id \in 1 .. n}

Meant == Files \cup {Kept, "nothing"}

RowOfIds(n) == [file : FileOf(n), wanted : Meant]

\* The records of the service, and what the requests on their way carry.
RecordsTyped ==
    /\ docs \in Seq([id : 1 .. lastId, file : Meant])
    /\ saves \subseteq [rows : Seq(RowOfIds(lastId)), final : BOOLEAN, mine : BOOLEAN]
    /\ uploads \subseteq [file : Files, index : Nat \ {0}, rest : Seq(Files)]

\* The files of a bulk choice that have had no turn yet are chosen ones.
RestIsChosen == \A u \in uploads : \A k \in DOMAIN u.rest : u.rest[k] \in given

\* An upload finds the row that was made for it, until a row is removed or used twice.
UploadKnowsItsRow ==
    ~disturbed => \A u \in uploads : u.index \in DOMAIN docRows /\ docRows[u.index].wanted = u.file

AllResolve(rows) == \A i \in DOMAIN rows : Resolves(rows[i].file)

\* What the load will show are documents, that are there until they are replaced; what
\* forms that were left still upload are chosen files.
FetchInvariant ==
    /\ fetch \in [state : {"none", "asked", "read"}, rows : Seq(RowOfIds(lastId)), stale : BOOLEAN]
    /\ \A i \in DOMAIN fetch.rows : fetch.rows[i].file.kind # "upload"
    /\ ~fetch.stale => \A i \in DOMAIN fetch.rows : Resolves(fetch.rows[i].file)
    /\ leftUploads \subseteq [file : Files, rest : Seq(Files)]
    /\ \A u \in leftUploads : \A k \in DOMAIN u.rest : u.rest[k] \in given

\* Until the documents are replaced, every url of the form, and of its save, leads somewhere.
FreshRowsResolve ==
    ~stale => AllResolve(docRows) /\ \A s \in saves : s.mine => AllResolve(s.rows)

RowsInvariant ==
    /\ RowsTypeOK /\ RecordsTyped /\ RestIsChosen
    /\ EveryDocumentStored
    /\ UploadKnowsItsRow /\ RowGetsItsFile
    /\ FreshRowsResolve /\ FetchInvariant /\ DocumentRefusalHasACause

\* A set of naturals has a least member.
LEMMA LeastNumber ==
    ASSUME NEW T \in SUBSET Nat, T # {}
    PROVE  \E k \in T : \A j \in T : k <= j
<1> DEFINE Less == {ss \in Nat \X Nat : ss[1] < ss[2]}
<1>1. IsWellFoundedOn(Less, Nat)
  BY NatLessThanWellFounded DEF OpToRel
<1>2. PICK x \in T : \A y \in T : ~ (<<y, x>> \in Less)
  <2> HIDE DEF Less
  <2> QED
    BY <1>1, WFMin
<1>3. \A y \in T : <<y, x>> \in Nat \X Nat /\ <<y, x>>[1] = y /\ <<y, x>>[2] = x
  OBVIOUS
<1>4. \A y \in T : ~(y < x)
  BY <1>2, <1>3
<1> QED
  BY <1>4

\* The loop over a bulk choice takes at least one file, and no more than there are.
LEMMA TurnTakesSome ==
    ASSUME NEW fs \in Seq(Files), fs # <<>>
    PROVE  Turn(fs) \in 1 .. Len(fs)
<1>1. Len(fs) \in Nat \ {0} /\ DOMAIN fs = 1 .. Len(fs)
  BY EmptySeq, LenProperties
<1>2. CASE \E k \in DOMAIN fs : fs[k] \notin TooLarge
  <2> DEFINE Small == {k \in DOMAIN fs : fs[k] \notin TooLarge}
  <2>1. Small \in SUBSET Nat /\ Small # {}
    BY <1>1, <1>2
  <2>2. PICK m \in Small : \A j \in Small : m <= j
    <3> HIDE DEF Small
    <3> QED
      BY <2>1, LeastNumber
  <2>3. \A j \in 1 .. m - 1 : fs[j] \in TooLarge
    BY <1>1, <2>2
  <2>4. \E k \in DOMAIN fs : fs[k] \notin TooLarge /\ \A j \in 1 .. k - 1 : fs[j] \in TooLarge
    BY <2>2, <2>3
  <2> QED
    BY <1>1, <1>2, <2>4 DEF Turn
<1>3. CASE ~\E k \in DOMAIN fs : fs[k] \notin TooLarge
  BY <1>1, <1>3 DEF Turn
<1> QED
  BY <1>2, <1>3

\* The three kinds of files differ by their kind.
LEMMA FileKinds ==
    ASSUME NEW n \in Nat, NEW f \in FileOf(n)
    PROVE  \/ f = NoFile /\ f.kind = "none"
           \/ f.kind = "upload" /\ f.of \in Files /\ f = Upload(f.of)
           \/ f.kind = "doc" /\ f.id \in 1 .. n /\ f = Doc(f.id)
BY DEF FileOf, NoFile, Upload, Doc

\* What a row's file leads to is what the row is saved with.
LEMMA ResolvedIsThere ==
    ASSUME NEW n \in Nat, NEW f \in FileOf(n), Resolves(f), RecordsTyped, EveryDocumentStored
    PROVE  Resolved(f) \in Meant /\ Resolved(f) \in objects \cup {"nothing"}
<1>1. CASE f.kind = "none"
  BY <1>1 DEF Resolved, Meant
<1>2. CASE f.kind = "upload"
  <2>1. Resolved(f) = f.of /\ f.of \in objects
    BY <1>2 DEF Resolved, Resolves
  <2>2. f.of \in Files
    BY <1>2, FileKinds DEF NoFile
  <2> QED
    BY <2>1, <2>2 DEF Meant
<1>3. CASE f.kind = "doc"
  <2>1. \E d \in Range(docs) : d.id = f.id
    BY <1>3 DEF Resolves
  <2>2. PICK d \in Range(docs) : Resolved(f) = d.file
    BY <1>3, <2>1 DEF Resolved
  <2>3. d.file \in Meant
    <3>1. PICK i \in DOMAIN docs : d = docs[i]
      BY DEF Range
    <3>2. docs[i] \in [id : 1 .. lastId, file : Meant]
      BY LenProperties, ElementOfSeq DEF RecordsTyped
    <3> QED
      BY <3>1, <3>2
  <2> QED
    BY <2>2, <2>3 DEF EveryDocumentStored
<1> QED
  BY <1>1, <1>2, <1>3, FileKinds

\* Files that lead somewhere do so still, when there are as many documents and objects.
LEMMA ResolvesStill ==
    ASSUME NEW rows, AllResolve(rows), objects \subseteq objects', UNCHANGED docs,
           \A i \in DOMAIN rows : rows[i].file \in FileOf(lastId), lastId \in Nat
    PROVE  AllResolve(rows)'
<1> SUFFICES ASSUME NEW i \in DOMAIN rows PROVE Resolves(rows[i].file)'
  BY DEF AllResolve
<1>1. Resolves(rows[i].file)
  BY DEF AllResolve
<1>2. rows[i].file.kind \in {"none", "upload", "doc"}
  BY FileKinds
<1> QED
  BY <1>1, <1>2 DEF Resolves

\* Rows on the screen and the uploads meant for them.
FitRows(rs, us, untouched) ==
    /\ us \subseteq [file : Files, index : Nat \ {0}, rest : Seq(Files)]
    /\ untouched =>
         /\ \A u \in us : u.index \in DOMAIN rs /\ rs[u.index].wanted = u.file
         /\ \A i \in DOMAIN rs : rs[i].file.kind = "upload" => rs[i].file.of = rs[i].wanted

\* What a row of a step shows is what a row showed before, nothing, or an upload that is stored.
ShowsNoMore(rs, os) ==
    \A i \in DOMAIN rs :
       \/ rs[i].file = NoFile
       \/ rs[i].file.kind = "upload" /\ rs[i].file.of \in os
       \/ \E j \in DOMAIN docRows : rs[i].file = docRows[j].file

\* What the loop leaves for later are files of the choice.
LEMMA RestOfChosen ==
    ASSUME NEW fs \in Seq(Files), NEW m \in 1 .. Len(fs), NEW G, \A k \in 1 .. Len(fs) : fs[k] \in G
    PROVE  LET r == SubSeq(fs, m + 1, Len(fs)) IN r \in Seq(Files) /\ \A k \in DOMAIN r : r[k] \in G
<1> DEFINE r == SubSeq(fs, m + 1, Len(fs))
<1>0. Len(fs) \in Nat /\ m + 1 \in Int /\ Len(fs) \in Int /\ DOMAIN fs = 1 .. Len(fs)
  BY LenProperties
<1>1. \A i \in m + 1 .. Len(fs) : fs[i] \in Files
  BY <1>0, ElementOfSeq
<1>2. /\ r \in Seq(Files)
      /\ Len(r) = IF m + 1 <= Len(fs) THEN Len(fs) - (m + 1) + 1 ELSE 0
      /\ \A k \in 1 .. Len(fs) - (m + 1) + 1 : r[k] = fs[m + 1 + k - 1]
  BY <1>0, <1>1, SubSeqProperties
<1>3. DOMAIN r = 1 .. Len(r)
  BY <1>2, LenProperties
<1> HIDE DEF r
<1>4. ASSUME NEW k \in DOMAIN r PROVE r[k] \in G
  <2>0. m + 1 <= Len(fs) \/ ~(m + 1 <= Len(fs))
    OBVIOUS
  <2>1. (m + 1 <= Len(fs) /\ Len(r) = Len(fs) - (m + 1) + 1) \/ Len(r) = 0
    BY <1>2, <2>0
  <2>2. k \in 1 .. Len(fs) - (m + 1) + 1
    <3>1. CASE m + 1 <= Len(fs) /\ Len(r) = Len(fs) - (m + 1) + 1
      BY <1>3, <3>1
    <3>2. CASE Len(r) = 0
      <4>1. k \in 1 .. 0
        BY <1>3, <3>2
      <4> QED
        BY <4>1
    <3> QED
      BY <2>1, <3>1, <3>2
  <2>3. m + 1 + k - 1 \in 1 .. Len(fs)
    BY <1>0, <2>2
  <2> QED
    BY <1>2, <2>2, <2>3
<1> QED
  BY <1>2, <1>4 DEF r

\* New rows come after the others, for files of the choice, and show nothing yet.
LEMMA RowsAdded ==
    ASSUME NEW n \in Nat, NEW rs \in Seq(RowOfIds(n)), NEW us, NEW untouched \in BOOLEAN,
           NEW fs \in Seq(Files), fs # <<>>,
           FitRows(rs, us, untouched),
           AddAndUploadDocuments(rs, us, fs)
    PROVE  /\ docRows' \in Seq(RowOfIds(n))
           /\ FitRows(docRows', uploads', untouched)
           /\ \A i \in DOMAIN docRows' :
                docRows'[i].file = NoFile \/ (i \in DOMAIN rs /\ docRows'[i] = rs[i])
           /\ tried' \subseteq tried \cup Range(fs)
           /\ tried \subseteq tried'
           /\ \A u \in uploads' : u \in us \/ \A k \in DOMAIN u.rest : u.rest[k] \in Range(fs)
<1> DEFINE m == Turn(fs)
           new == [k \in 1 .. m |-> RowOf(fs[k])]
           up == [file |-> fs[m], index |-> Len(rs) + m, rest |-> SubSeq(fs, m + 1, Len(fs))]
<1>1. m \in 1 .. Len(fs) /\ DOMAIN fs = 1 .. Len(fs) /\ Len(fs) \in Nat
  BY TurnTakesSome, LenProperties
<1>2. \A k \in 1 .. m : fs[k] \in Files /\ fs[k] \in Range(fs)
  BY <1>1, ElementOfSeq DEF Range
<1>3. docRows' = rs \o new /\ tried' = tried \cup {fs[k] : k \in 1 .. m}
      /\ uploads' \subseteq us \cup {up}
  BY DEF AddAndUploadDocuments, IndexOf
<1> HIDE DEF m
<1>4. \A k \in 1 .. m : new[k].file = NoFile /\ new[k].wanted = fs[k] /\ new[k] \in RowOfIds(n)
  BY <1>2 DEF RowOf, BlankRow, RowOfIds, FileOf, Meant
<1>5. new \in Seq(RowOfIds(n)) /\ Len(new) = m
  <2>1. m \in Nat
    BY <1>1
  <2>2. \A k \in 1 .. m : RowOf(fs[k]) \in RowOfIds(n)
    BY <1>4
  <2>3. new \in [1 .. m -> RowOfIds(n)]
    BY <2>2
  <2> HIDE DEF new
  <2> QED
    BY <2>1, <2>3
<1> HIDE DEF new
<1>6. /\ docRows' \in Seq(RowOfIds(n))
      /\ Len(docRows') = Len(rs) + m
      /\ DOMAIN docRows' = 1 .. Len(rs) + m
      /\ \A i \in 1 .. Len(rs) + m : docRows'[i] = IF i <= Len(rs) THEN rs[i] ELSE new[i - Len(rs)]
  <2> DEFINE all == rs \o new
  <2>1. /\ all \in Seq(RowOfIds(n))
        /\ Len(all) = Len(rs) + m
        /\ \A i \in 1 .. Len(rs) + m : all[i] = IF i <= Len(rs) THEN rs[i] ELSE new[i - Len(rs)]
    BY <1>5, ConcatProperties
  <2>2. DOMAIN all = 1 .. Len(all)
    BY <2>1, LenProperties
  <2> QED
    BY <1>3, <2>1, <2>2
<1>7. Len(rs) \in Nat /\ DOMAIN rs = 1 .. Len(rs)
  BY LenProperties
<1>8. \A i \in DOMAIN rs : i \in DOMAIN docRows' /\ docRows'[i] = rs[i]
  BY <1>1, <1>6, <1>7
<1>9. \A i \in DOMAIN docRows' : i \in DOMAIN rs \/ (i - Len(rs) \in 1 .. m /\ docRows'[i] = new[i - Len(rs)])
  BY <1>1, <1>6, <1>7
<1>10. Len(rs) + m \in DOMAIN docRows' /\ docRows'[Len(rs) + m] = new[m]
  BY <1>1, <1>6, <1>7
<1>12. up.rest \in Seq(Files) /\ \A k \in DOMAIN up.rest : up.rest[k] \in Range(fs)
  <2>1. \A k \in 1 .. Len(fs) : fs[k] \in Range(fs)
    BY <1>1 DEF Range
  <2>2. up.rest = SubSeq(fs, m + 1, Len(fs))
    OBVIOUS
  <2> QED
    BY <1>1, <2>1, <2>2, RestOfChosen
<1>13. up \in [file : Files, index : Nat \ {0}, rest : Seq(Files)]
  BY <1>1, <1>2, <1>7, <1>12
<1>14. FitRows(docRows', uploads', untouched)
  <2>1. uploads' \subseteq [file : Files, index : Nat \ {0}, rest : Seq(Files)]
    BY <1>3, <1>13 DEF FitRows
  <2>2. ASSUME untouched, NEW u \in uploads'
        PROVE  u.index \in DOMAIN docRows' /\ docRows'[u.index].wanted = u.file
    <3>1. CASE u \in us
      BY <2>2, <3>1, <1>8 DEF FitRows
    <3>2. CASE u = up
      <4>1. u.index = Len(rs) + m /\ u.file = fs[m]
        BY <3>2
      <4>2. new[m].wanted = fs[m]
        BY <1>1, <1>4
      <4> QED
        BY <4>1, <4>2, <1>10
    <3> QED
      BY <3>1, <3>2, <1>3
  <2>3. ASSUME untouched, NEW i \in DOMAIN docRows', docRows'[i].file.kind = "upload"
        PROVE  docRows'[i].file.of = docRows'[i].wanted
    <3>1. CASE i \in DOMAIN rs
      BY <2>3, <3>1, <1>8 DEF FitRows
    <3>2. CASE i - Len(rs) \in 1 .. m /\ docRows'[i] = new[i - Len(rs)]
      <4>1. docRows'[i].file = NoFile
        BY <3>2, <1>4
      <4> QED
        BY <2>3, <4>1 DEF NoFile
    <3> QED
      BY <3>1, <3>2, <1>9
  <2> QED
    BY <2>1, <2>2, <2>3 DEF FitRows
<1>15. \A i \in DOMAIN docRows' : docRows'[i].file = NoFile \/ (i \in DOMAIN rs /\ docRows'[i] = rs[i])
  BY <1>4, <1>8, <1>9
<1>16. \A u \in uploads' : u \in us \/ \A k \in DOMAIN u.rest : u.rest[k] \in Range(fs)
  BY <1>3, <1>12
<1> QED
  BY <1>2, <1>3, <1>6, <1>14, <1>15, <1>16
LEMMA RowsHaveFiles ==
    ASSUME NEW n \in Nat, NEW rs \in Seq(RowOfIds(n))
    PROVE  /\ DOMAIN rs = 1 .. Len(rs) /\ Len(rs) \in Nat
           /\ \A i \in DOMAIN rs : /\ rs[i] \in RowOfIds(n)
                                 /\ rs[i].file \in FileOf(n) /\ rs[i].wanted \in Meant
<1>1. DOMAIN rs = 1 .. Len(rs) /\ Len(rs) \in Nat
  BY LenProperties
<1>2. \A i \in DOMAIN rs : rs[i] \in RowOfIds(n)
  BY <1>1, ElementOfSeq
<1>3. \A row \in RowOfIds(n) : row.file \in FileOf(n) /\ row.wanted \in Meant
  BY DEF RowOfIds
<1> QED
  BY <1>1, <1>2, <1>3

\* What the load will show is still there, when there are as many documents and objects.
LEMMA FetchResolvesStill ==
    ASSUME RowsInvariant, objects \subseteq objects', UNCHANGED <<fetch, docs, lastId>>
    PROVE  ~fetch.stale => \A i \in DOMAIN fetch.rows : Resolves(fetch.rows[i].file)'
<1> SUFFICES ASSUME ~fetch.stale, NEW i \in DOMAIN fetch.rows PROVE Resolves(fetch.rows[i].file)'
  OBVIOUS
<1>1. Resolves(fetch.rows[i].file)
  BY DEF RowsInvariant, FetchInvariant
<1>2. fetch.rows \in Seq(RowOfIds(lastId)) /\ lastId \in Nat
  BY DEF RowsInvariant, FetchInvariant, RowsTypeOK
<1>3. fetch.rows[i].file \in FileOf(lastId)
  BY <1>2, RowsHaveFiles
<1>4. fetch.rows[i].file.kind \in {"none", "upload", "doc"}
  BY <1>2, <1>3, FileKinds
<1> QED
  BY <1>1, <1>4 DEF Resolves

LEMMA FetchIsKept ==
    ASSUME RowsInvariant, objects \subseteq objects', given \subseteq given',
           UNCHANGED <<leftUploads, fetch, docs, lastId>>
    PROVE  FetchInvariant'
BY FetchResolvesStill DEF RowsInvariant, FetchInvariant

\* What keeps the invariant: rows that fit their uploads and show no more than before, or
\* what an upload has stored, and a service that only gained objects.
LEMMA RowsStepKeeps ==
    ASSUME RowsInvariant,
           docRows' \in Seq(RowOfIds(lastId)),
           FitRows(docRows', uploads', ~disturbed'),
           ShowsNoMore(docRows', objects'),
           \A u \in uploads' : \A k \in DOMAIN u.rest : u.rest[k] \in given',
           tried' \subseteq given', given \subseteq given', given' \subseteq Files,
           disturbed' \in BOOLEAN,
           objects \subseteq objects', objects' \subseteq Files \cup {Kept},
           UNCHANGED <<leftUploads, fetch, saves, docs, lastId, completed, docOutcome, stale>>
    PROVE  RowsInvariant'
<1>0. lastId \in Nat
  BY DEF RowsInvariant, RowsTypeOK
<1>1. RecordsTyped'
  BY DEF RowsInvariant, RecordsTyped, FitRows
<1>2. RowsTypeOK'
  <2>1. docRows' \in Seq(RowType)'
    BY DEF RowType, RowOfIds, FileOf, Meant
  <2>2. \A u \in uploads' : u.file \in Files /\ u.index \in Nat \ {0} /\ u.rest \in Seq(Files)
    BY DEF FitRows
  <2>3. (\A s \in saves : s.rows \in Seq(RowType))'
    BY DEF RowsInvariant, RowsTypeOK, RowType
  <2>4. {completed, disturbed, stale}' \subseteq BOOLEAN
    BY DEF RowsInvariant, RowsTypeOK
  <2>5. fetch.state \in {"none", "asked", "read"} /\ (fetch.rows \in Seq(RowType))' /\ fetch.stale \in BOOLEAN
    BY DEF RowsInvariant, RowsTypeOK, RowType
  <2>6. \A u \in leftUploads : u.file \in Files /\ u.rest \in Seq(Files)
    BY DEF RowsInvariant, RowsTypeOK
  <2> QED
    BY <2>1, <2>2, <2>3, <2>4, <2>5, <2>6 DEF RowsInvariant, RowsTypeOK
<1>3. RestIsChosen'
  BY DEF RestIsChosen
<1>4. EveryDocumentStored'
  BY DEF RowsInvariant, EveryDocumentStored
<1>5. UploadKnowsItsRow' /\ RowGetsItsFile'
  BY DEF FitRows, UploadKnowsItsRow, RowGetsItsFile
<1>6. FreshRowsResolve'
  <2> SUFFICES ASSUME ~stale PROVE AllResolve(docRows)' /\ \A s \in saves : s.mine => AllResolve(s.rows)'
    BY DEF FreshRowsResolve
  <2>1. AllResolve(docRows) /\ \A s \in saves : s.mine => AllResolve(s.rows)
    BY DEF RowsInvariant, FreshRowsResolve
  <2>2. \A i \in DOMAIN docRows : docRows[i].file \in FileOf(lastId)
    <3>1. docRows \in Seq(RowOfIds(lastId))
      BY DEF RowsInvariant, RowsTypeOK, RowType, RowOfIds, FileOf, Meant
    <3> QED
      BY <1>0, <3>1, RowsHaveFiles
  <2>3. AllResolve(docRows)'
    <3> SUFFICES ASSUME NEW i \in DOMAIN docRows' PROVE Resolves(docRows[i].file)'
      BY DEF AllResolve
    <3>1. CASE docRows'[i].file = NoFile
      BY <3>1 DEF Resolves, NoFile
    <3>2. CASE docRows'[i].file.kind = "upload" /\ docRows'[i].file.of \in objects'
      BY <3>2 DEF Resolves
    <3>3. CASE \E j \in DOMAIN docRows : docRows'[i].file = docRows[j].file
      <4>1. PICK j \in DOMAIN docRows : docRows'[i].file = docRows[j].file
        BY <3>3
      <4>2. Resolves(docRows[j].file) /\ docRows[j].file \in FileOf(lastId)
        BY <2>1, <2>2 DEF AllResolve
      <4>3. docRows[j].file.kind \in {"none", "upload", "doc"}
        BY <1>0, <4>2, FileKinds
      <4> QED
        BY <4>1, <4>2, <4>3 DEF Resolves
    <3> QED
      BY <3>1, <3>2, <3>3 DEF ShowsNoMore
  <2>4. ASSUME NEW s \in saves', s.mine PROVE AllResolve(s.rows)'
    <3>1. s \in saves /\ s.rows \in Seq(RowOfIds(lastId))
      BY DEF RowsInvariant, RecordsTyped
    <3>2. \A i \in DOMAIN s.rows : s.rows[i].file \in FileOf(lastId)
      BY <1>0, <3>1, RowsHaveFiles
    <3> QED
      BY <1>0, <2>1, <2>4, <3>1, <3>2, ResolvesStill
  <2> QED
    BY <2>3, <2>4
<1>7. DocumentRefusalHasACause'
  BY DEF RowsInvariant, DocumentRefusalHasACause
<1>8. FetchInvariant'
  BY FetchIsKept
<1> QED
  BY <1>1, <1>2, <1>3, <1>4, <1>5, <1>6, <1>7, <1>8 DEF RowsInvariant

\* The rows on the screen fit the uploads.
LEMMA RowsFit ==
    ASSUME RowsInvariant
    PROVE  /\ docRows \in Seq(RowOfIds(lastId)) /\ lastId \in Nat
           /\ FitRows(docRows, uploads, ~disturbed)
           /\ \A u \in uploads : \A k \in DOMAIN u.rest : u.rest[k] \in given
           /\ tried \subseteq given /\ given \subseteq Files /\ objects \subseteq Files \cup {Kept}
           /\ disturbed \in BOOLEAN
<1>1. docRows \in Seq(RowOfIds(lastId))
  BY DEF RowsInvariant, RowsTypeOK, RowType, RowOfIds, FileOf, Meant
<1>2. FitRows(docRows, uploads, ~disturbed)
  BY DEF RowsInvariant, RecordsTyped, UploadKnowsItsRow, RowGetsItsFile, FitRows
<1> QED
  BY <1>1, <1>2 DEF RowsInvariant, RowsTypeOK, RestIsChosen

\* A new row leaves the indexes of the others.
LEMMA AddBlankKeeps == RowsInvariant /\ AddBlankDocument => RowsInvariant'
<1> SUFFICES ASSUME RowsInvariant, AddBlankDocument PROVE RowsInvariant'
  OBVIOUS
<1> USE RowsFit
<1>1. docRows' = Append(docRows, BlankRow)
      /\ UNCHANGED <<uploads, leftUploads, fetch, saves, objects, docs, lastId, completed, docOutcome, calls, stale,
                     given, tried, disturbed>>
  BY DEF AddBlankDocument, rowsServer
<1>2. BlankRow \in RowOfIds(lastId) /\ BlankRow.file = NoFile
  BY DEF BlankRow, RowOfIds, FileOf, Meant
<1>3. /\ docRows' \in Seq(RowOfIds(lastId))
      /\ DOMAIN docRows = 1 .. Len(docRows) /\ Len(docRows) \in Nat
      /\ DOMAIN docRows' = 1 .. Len(docRows) + 1
      /\ \A i \in 1 .. Len(docRows) : docRows'[i] = docRows[i]
      /\ docRows'[Len(docRows) + 1] = BlankRow
  BY <1>1, <1>2, AppendProperties, LenProperties
<1>4. \A i \in DOMAIN docRows' : (i \in DOMAIN docRows /\ docRows'[i] = docRows[i]) \/ docRows'[i] = BlankRow
  BY <1>3
<1>5. \A i \in DOMAIN docRows : i \in DOMAIN docRows' /\ docRows'[i] = docRows[i]
  BY <1>3
<1>6. FitRows(docRows', uploads', ~disturbed')
  <2> SUFFICES ASSUME ~disturbed
               PROVE  /\ \A u \in uploads : u.index \in DOMAIN docRows' /\ docRows'[u.index].wanted = u.file
                      /\ \A i \in DOMAIN docRows' : docRows'[i].file.kind = "upload" =>
                                                      docRows'[i].file.of = docRows'[i].wanted
    BY <1>1 DEF FitRows
  <2>1. \A u \in uploads : u.index \in DOMAIN docRows' /\ docRows'[u.index].wanted = u.file
    BY <1>5 DEF FitRows
  <2>2. BlankRow.file.kind # "upload"
    BY DEF BlankRow, NoFile
  <2> QED
    BY <1>4, <2>1, <2>2 DEF FitRows
<1>7. ShowsNoMore(docRows', objects')
  BY <1>2, <1>4 DEF ShowsNoMore
<1> QED
  BY <1>1, <1>3, <1>6, <1>7, RowsStepKeeps

\* After a removal every index after it means another row: only while no upload is on its
\* way does each one still know its row.
LEMMA RemoveKeeps ==
    ASSUME RowsInvariant, NEW i \in DOMAIN docRows, RemoveDocument(i)
    PROVE  RowsInvariant'
<1> USE RowsFit
<1>1. docRows' = RemoveAt(docRows, i) /\ disturbed' = (disturbed \/ uploads # {})
      /\ UNCHANGED <<uploads, leftUploads, fetch, saves, objects, docs, lastId, completed, docOutcome, calls, stale,
                     given, tried>>
  BY DEF RemoveDocument, rowsServer
<1>2. DOMAIN docRows = 1 .. Len(docRows) /\ Len(docRows) \in Nat
  BY LenProperties
<1>3. docRows' \in Seq(RowOfIds(lastId)) /\
      \A k \in DOMAIN docRows' : \E j \in DOMAIN docRows : docRows'[k] = docRows[j]
  <2>1. /\ docRows' \in Seq(RowOfIds(lastId)) /\ Len(docRows') = Len(docRows) - 1
        /\ \A j \in 1 .. Len(docRows) - 1 :
             docRows'[j] = IF j < i THEN docRows[j] ELSE docRows[j + 1]
    BY <1>1, RemoveAtProperties
  <2>2. DOMAIN docRows' = 1 .. Len(docRows) - 1
    BY <2>1, LenProperties
  <2>3. \A k \in 1 .. Len(docRows) - 1 : k \in DOMAIN docRows /\ k + 1 \in DOMAIN docRows
    BY <1>2
  <2> QED
    BY <2>1, <2>2, <2>3
<1>4. FitRows(docRows', uploads', ~disturbed')
  <2> SUFFICES ASSUME ~disturbed, uploads = {}
               PROVE  \A k \in DOMAIN docRows' : docRows'[k].file.kind = "upload" =>
                                                      docRows'[k].file.of = docRows'[k].wanted
    BY <1>1 DEF FitRows
  <2> QED
    BY <1>3 DEF FitRows
<1>5. ShowsNoMore(docRows', objects')
  BY <1>3 DEF ShowsNoMore
<1> QED
  BY <1>1, <1>3, <1>4, <1>5, RowsStepKeeps
\* Files are chosen in bulk: the rows come at the end, one upload is sent.
LEMMA ChooseFilesKeeps ==
    ASSUME RowsInvariant, NEW fs \in Selections, ChooseFiles(fs)
    PROVE  RowsInvariant'
<1> USE RowsFit
<1>1. fs \in Seq(Files) /\ fs # <<>>
  <2>1. PICK n \in 1 .. 2 : fs \in [1 .. n -> Files]
    BY DEF Selections
  <2>2. fs \in Seq(Files) /\ Len(fs) = n
    BY <2>1
  <2>3. Len(fs) # 0
    BY <2>2
  <2> QED
    BY <2>2, <2>3, EmptySeq
<1>2. Range(fs) \subseteq Files
  BY <1>1, ElementOfSeq, LenProperties DEF Range
<1>3. given' = given \cup Range(fs) /\ AddAndUploadDocuments(docRows, uploads, fs)
      /\ UNCHANGED <<leftUploads, fetch, saves, objects, docs, lastId, completed, docOutcome, calls, stale, disturbed>>
  BY DEF ChooseFiles, rowsServer
<1>4. /\ docRows' \in Seq(RowOfIds(lastId))
      /\ FitRows(docRows', uploads', ~disturbed)
      /\ \A i \in DOMAIN docRows' :
           docRows'[i].file = NoFile \/ (i \in DOMAIN docRows /\ docRows'[i] = docRows[i])
      /\ tried' \subseteq tried \cup Range(fs)
      /\ \A u \in uploads' : u \in uploads \/ \A k \in DOMAIN u.rest : u.rest[k] \in Range(fs)
  <2>1. (~disturbed) \in BOOLEAN
    OBVIOUS
  <2> QED
    BY <1>1, <1>3, <2>1, RowsAdded
<1>5. \A u \in uploads' : \A k \in DOMAIN u.rest : u.rest[k] \in given'
  BY <1>3, <1>4
<1>6. ShowsNoMore(docRows', objects')
  BY <1>4 DEF ShowsNoMore
<1>7. tried' \subseteq given' /\ given' \subseteq Files
  BY <1>2, <1>3, <1>4
<1> QED
  BY <1>3, <1>4, <1>5, <1>6, <1>7, RowsStepKeeps

\* One file for a row that has none: the row is meant for this file from now on.
LEMMA UploadForRowKeeps ==
    ASSUME RowsInvariant, NEW i \in DOMAIN docRows, NEW f \in Files, UploadForRow(i, f)
    PROVE  RowsInvariant'
<1> USE RowsFit
<1>1. /\ docRows[i].file = NoFile
      /\ given' = given \cup {f} /\ tried' = tried \cup {f}
      /\ disturbed' = (disturbed \/ \E u \in uploads : u.index = i)
      /\ UNCHANGED <<leftUploads, fetch, saves, objects, docs, lastId, completed, docOutcome, calls, stale>>
  BY DEF UploadForRow, rowsServer
<1>2. disturbed' \in BOOLEAN /\ tried' \subseteq given' /\ given' \subseteq Files
  BY <1>1
<1>3. CASE UNCHANGED <<docRows, uploads>>
  <2>1. FitRows(docRows', uploads', ~disturbed')
    BY <1>1, <1>3 DEF FitRows
  <2>2. ShowsNoMore(docRows', objects')
    BY <1>3 DEF ShowsNoMore
  <2>3. \A u \in uploads' : \A k \in DOMAIN u.rest : u.rest[k] \in given'
    BY <1>1, <1>3
  <2> QED
    BY <1>1, <1>2, <1>3, <2>1, <2>2, <2>3, RowsStepKeeps
<1>4. CASE /\ docRows' = [docRows EXCEPT ![i].wanted = f]
           /\ uploads' = uploads \cup {[file |-> f, index |-> i, rest |-> <<>>]}
  <2> DEFINE row == [docRows[i] EXCEPT !.wanted = f]
             new == [file |-> f, index |-> i, rest |-> <<>>]
  <2>0. DOMAIN docRows = 1 .. Len(docRows) /\ Len(docRows) \in Nat /\ docRows[i] \in RowOfIds(lastId)
    BY RowsHaveFiles
  <2>1. row \in RowOfIds(lastId) /\ row.wanted = f /\ row.file = NoFile
    BY <1>1, <2>0 DEF RowOfIds, Meant
  <2>2. docRows' = [docRows EXCEPT ![i] = row]
    BY <1>4
  <2> HIDE DEF row
  <2>3. /\ docRows' \in Seq(RowOfIds(lastId))
        /\ DOMAIN docRows' = DOMAIN docRows
        /\ \A j \in DOMAIN docRows : docRows'[j] = IF j = i THEN row ELSE docRows[j]
    <3>1. /\ docRows' \in Seq(RowOfIds(lastId)) /\ Len(docRows') = Len(docRows)
          /\ \A j \in 1 .. Len(docRows) : docRows'[j] = IF j = i THEN row ELSE docRows[j]
      BY <2>0, <2>1, <2>2, ExceptSeq
    <3>2. DOMAIN docRows' = 1 .. Len(docRows)
      BY <3>1, LenProperties
    <3> QED
      BY <2>0, <3>1, <3>2
  <2>4. new \in [file : Files, index : Nat \ {0}, rest : Seq(Files)] /\ DOMAIN new.rest = {}
        /\ new.index = i /\ new.file = f
    <3>1. <<>> \in Seq(Files) /\ DOMAIN <<>> = {}
      OBVIOUS
    <3> QED
      BY <2>0, <3>1
  <2>5. uploads' = uploads \cup {new}
    BY <1>4
  <2> HIDE DEF new
  <2>6. FitRows(docRows', uploads', ~disturbed')
    <3> SUFFICES ASSUME ~disturbed, \A u \in uploads : u.index # i
                 PROVE  /\ \A u \in uploads' : u.index \in DOMAIN docRows' /\ docRows'[u.index].wanted = u.file
                        /\ \A j \in DOMAIN docRows' : docRows'[j].file.kind = "upload" =>
                                                        docRows'[j].file.of = docRows'[j].wanted
      BY <1>1, <2>4, <2>5 DEF FitRows
    <3>1. \A u \in uploads : u.index \in DOMAIN docRows /\ docRows[u.index].wanted = u.file
      BY DEF FitRows
    <3>2. \A u \in uploads' : u.index \in DOMAIN docRows' /\ docRows'[u.index].wanted = u.file
      BY <3>1, <2>1, <2>3, <2>4, <2>5
    <3>3. row.file.kind # "upload"
      BY <2>1 DEF NoFile
    <3> QED
      BY <2>3, <3>2, <3>3 DEF FitRows
  <2>7. ShowsNoMore(docRows', objects')
    BY <2>1, <2>3 DEF ShowsNoMore
  <2>8. \A u \in uploads' : \A k \in DOMAIN u.rest : u.rest[k] \in given'
    BY <1>1, <2>4, <2>5
  <2> QED
    BY <1>1, <1>2, <2>3, <2>6, <2>7, <2>8, RowsStepKeeps
<1> QED
  BY <1>3, <1>4 DEF UploadForRow

\* The loop of a bulk choice goes on from rows rs, that fit.
LEMMA ContinueFits ==
    ASSUME RowsInvariant, NEW u \in uploads, NEW rs \in Seq(RowOfIds(lastId)),
           FitRows(rs, uploads, ~disturbed), Continue(u, rs)
    PROVE  /\ docRows' \in Seq(RowOfIds(lastId))
           /\ FitRows(docRows', uploads', ~disturbed)
           /\ \A i \in DOMAIN docRows' : docRows'[i].file = NoFile \/ (i \in DOMAIN rs /\ docRows'[i] = rs[i])
           /\ tried' \subseteq given
           /\ \A q \in uploads' : \A k \in DOMAIN q.rest : q.rest[k] \in given
<1> USE RowsFit
<1>1. CASE u.rest = <<>>
  <2>1. docRows' = rs /\ uploads' = uploads \ {u} /\ tried' = tried
    BY <1>1 DEF Continue
  <2>2. FitRows(docRows', uploads', ~disturbed)
    BY <2>1 DEF FitRows
  <2> QED
    BY <2>1, <2>2
<1>2. CASE u.rest # <<>>
  <2>1. AddAndUploadDocuments(rs, uploads \ {u}, u.rest)
    BY <1>2 DEF Continue
  <2>2. FitRows(rs, uploads \ {u}, ~disturbed) /\ (~disturbed) \in BOOLEAN
    BY DEF FitRows
  <2>3. u.rest \in Seq(Files) /\ Range(u.rest) \subseteq given
    BY DEF FitRows, Range
  <2>4. /\ docRows' \in Seq(RowOfIds(lastId))
        /\ FitRows(docRows', uploads', ~disturbed)
        /\ \A i \in DOMAIN docRows' : docRows'[i].file = NoFile \/ (i \in DOMAIN rs /\ docRows'[i] = rs[i])
        /\ tried' \subseteq tried \cup Range(u.rest)
        /\ \A q \in uploads' : q \in uploads \ {u} \/ \A k \in DOMAIN q.rest : q.rest[k] \in Range(u.rest)
    BY <1>2, <2>1, <2>2, <2>3, RowsAdded
  <2> QED
    BY <2>3, <2>4
<1> QED
  BY <1>1, <1>2

LEMMA UploadFailsKeeps ==
    ASSUME RowsInvariant, NEW u \in uploads, UploadFails(u)
    PROVE  RowsInvariant'
<1> USE RowsFit
<1>1. Continue(u, docRows)
      /\ UNCHANGED <<leftUploads, fetch, saves, objects, docs, lastId, completed, docOutcome, calls, stale, given, disturbed>>
  BY DEF UploadFails, AfterFailure, rowsServer
<1>2. /\ docRows' \in Seq(RowOfIds(lastId))
      /\ FitRows(docRows', uploads', ~disturbed)
      /\ \A i \in DOMAIN docRows' :
           docRows'[i].file = NoFile \/ (i \in DOMAIN docRows /\ docRows'[i] = docRows[i])
      /\ tried' \subseteq given
      /\ \A q \in uploads' : \A k \in DOMAIN q.rest : q.rest[k] \in given
  BY <1>1, ContinueFits
<1>3. ShowsNoMore(docRows', objects')
  BY <1>2 DEF ShowsNoMore
<1> QED
  BY <1>1, <1>2, <1>3, RowsStepKeeps

\* The answer goes to the row that has the index; what it shows is stored.
LEMMA UploadSucceedsKeeps ==
    ASSUME RowsInvariant, NEW u \in uploads, UploadSucceeds(u)
    PROVE  RowsInvariant'
<1> USE RowsFit
<1> DEFINE rs == IF u.index \in DOMAIN docRows
                 THEN [docRows EXCEPT ![u.index].file = Upload(u.file)] ELSE docRows
<1>1. /\ Continue(u, rs) /\ objects' = objects \cup {u.file}
      /\ UNCHANGED <<leftUploads, fetch, saves, docs, lastId, completed, docOutcome, given, calls, disturbed,
                     stale>>
  BY DEF UploadSucceeds
<1>2. u.file \in Files /\ u.index \in Nat
  BY DEF FitRows
<1>3. /\ rs \in Seq(RowOfIds(lastId)) /\ DOMAIN rs = DOMAIN docRows
      /\ \A j \in DOMAIN docRows : rs[j].wanted = docRows[j].wanted
      /\ \A j \in DOMAIN docRows : j # u.index => rs[j] = docRows[j]
      /\ u.index \in DOMAIN docRows => rs[u.index].file = Upload(u.file)
  <2>1. CASE u.index \notin DOMAIN docRows
    BY <2>1
  <2>2. CASE u.index \in DOMAIN docRows
    <3> DEFINE row == [docRows[u.index] EXCEPT !.file = Upload(u.file)]
    <3>0. DOMAIN docRows = 1 .. Len(docRows) /\ Len(docRows) \in Nat
          /\ docRows[u.index] \in RowOfIds(lastId)
      BY <2>2, RowsHaveFiles
    <3>1. row \in RowOfIds(lastId) /\ row.wanted = docRows[u.index].wanted /\ row.file = Upload(u.file)
      <4>1. Upload(u.file) \in FileOf(lastId)
        BY <1>2 DEF FileOf
      <4> QED
        BY <4>1, <3>0 DEF RowOfIds
    <3>2. rs = [docRows EXCEPT ![u.index] = row]
      BY <2>2
    <3> HIDE DEF row, rs
    <3>3. /\ rs \in Seq(RowOfIds(lastId)) /\ Len(rs) = Len(docRows)
          /\ \A j \in 1 .. Len(docRows) : rs[j] = IF j = u.index THEN row ELSE docRows[j]
      BY <2>2, <3>0, <3>1, <3>2, ExceptSeq
    <3>4. DOMAIN rs = 1 .. Len(docRows)
      BY <3>3, LenProperties
    <3> QED
      BY <2>2, <3>0, <3>1, <3>3, <3>4
  <2> QED
    BY <2>1, <2>2
<1> HIDE DEF rs
<1>4. FitRows(rs, uploads, ~disturbed)
  <2> SUFFICES ASSUME ~disturbed
               PROVE  /\ \A q \in uploads : q.index \in DOMAIN rs /\ rs[q.index].wanted = q.file
                      /\ \A j \in DOMAIN rs : rs[j].file.kind = "upload" => rs[j].file.of = rs[j].wanted
    BY DEF FitRows
  <2>1. \A q \in uploads : q.index \in DOMAIN docRows /\ docRows[q.index].wanted = q.file
    BY DEF FitRows
  <2>2. \A q \in uploads : q.index \in DOMAIN rs /\ rs[q.index].wanted = q.file
    BY <1>3, <2>1
  <2>3. Upload(u.file).of = u.file
    BY DEF Upload
  <2>4. ASSUME NEW j \in DOMAIN rs, rs[j].file.kind = "upload" PROVE rs[j].file.of = rs[j].wanted
    <3>1. CASE j = u.index
      BY <3>1, <1>3, <2>2, <2>3, <2>4
    <3>2. CASE j # u.index
      BY <3>2, <1>3, <2>4 DEF FitRows
    <3> QED
      BY <3>1, <3>2
  <2> QED
    BY <2>2, <2>4
<1>5. /\ docRows' \in Seq(RowOfIds(lastId))
      /\ FitRows(docRows', uploads', ~disturbed)
      /\ \A i \in DOMAIN docRows' : docRows'[i].file = NoFile \/ (i \in DOMAIN rs /\ docRows'[i] = rs[i])
      /\ tried' \subseteq given
      /\ \A q \in uploads' : \A k \in DOMAIN q.rest : q.rest[k] \in given
  BY <1>1, <1>3, <1>4, ContinueFits
<1>6. ShowsNoMore(docRows', objects')
  <2> SUFFICES ASSUME NEW i \in DOMAIN docRows', docRows'[i].file # NoFile
               PROVE  \/ docRows'[i].file.kind = "upload" /\ docRows'[i].file.of \in objects'
                      \/ \E j \in DOMAIN docRows : docRows'[i].file = docRows[j].file
    BY DEF ShowsNoMore
  <2>1. i \in DOMAIN docRows /\ docRows'[i] = rs[i]
    BY <1>3, <1>5
  <2>2. CASE i = u.index
    BY <1>1, <1>3, <2>1, <2>2 DEF Upload
  <2>3. CASE i # u.index
    BY <1>3, <2>1, <2>3
  <2> QED
    BY <2>2, <2>3
<1>7. objects \subseteq objects' /\ objects' \subseteq Files \cup {Kept}
  BY <1>1, <1>2
<1> QED
  BY <1>1, <1>5, <1>6, <1>7, RowsStepKeeps
\* A save carries the rows of the screen, with all they lead to.
LEMMA SaveDocumentsKeeps ==
    ASSUME RowsInvariant, NEW final \in BOOLEAN, Save(final)
    PROVE  RowsInvariant'
<1> USE RowsFit
<1> DEFINE new == [rows |-> docRows, final |-> final, mine |-> TRUE]
<1>1. saves' = saves \cup {new}
      /\ UNCHANGED <<docRows, uploads, leftUploads, fetch, objects, docs, lastId, completed, docOutcome, given,
                     tried, disturbed, stale>>
  BY DEF Save
<1>2. new \in [rows : Seq(RowOfIds(lastId)), final : BOOLEAN, mine : BOOLEAN] /\ new.rows = docRows
  OBVIOUS
<1> HIDE DEF new
<1>3. RecordsTyped'
  BY <1>1, <1>2 DEF RowsInvariant, RecordsTyped
<1>4. RowsTypeOK'
  <2>0. RowType = RowOfIds(lastId)
    BY DEF RowType, RowOfIds, FileOf, Meant
  <2>1. docRows \in Seq(RowType)
    BY DEF RowsInvariant, RowsTypeOK
  <2>2. \A s \in saves' : s.rows \in Seq(RowType)
    BY <1>1, <1>2, <2>0, <2>1 DEF RowsInvariant, RowsTypeOK
  <2> QED
    BY <1>1, <2>1, <2>2 DEF RowsInvariant, RowsTypeOK, RowType
<1>5. FreshRowsResolve'
  <2> SUFFICES ASSUME ~stale PROVE AllResolve(docRows)' /\ \A s \in saves' : s.mine => AllResolve(s.rows)'
    BY <1>1 DEF FreshRowsResolve
  <2>1. \A rows : AllResolve(rows)' <=> AllResolve(rows)
    BY <1>1 DEF AllResolve, Resolves
  <2>2. AllResolve(docRows) /\ \A s \in saves : s.mine => AllResolve(s.rows)
    BY DEF RowsInvariant, FreshRowsResolve
  <2>3. AllResolve(docRows)'
    BY <1>1, <2>2 DEF AllResolve, Resolves
  <2> QED
    BY <1>1, <1>2, <2>1, <2>2, <2>3
<1>6. RestIsChosen' /\ EveryDocumentStored' /\ UploadKnowsItsRow' /\ RowGetsItsFile' /\ DocumentRefusalHasACause'
  BY <1>1 DEF RowsInvariant, RestIsChosen, EveryDocumentStored, UploadKnowsItsRow, RowGetsItsFile,
              DocumentRefusalHasACause
<1>7. FetchInvariant'
  BY <1>1, FetchIsKept
<1> QED
  BY <1>3, <1>4, <1>5, <1>6, <1>7 DEF RowsInvariant

\* The rows of a load name the documents of the record.
LEMMA PublicRowsResolve ==
    ASSUME NEW n \in Nat, docs \in Seq([id : 1 .. n, file : Meant])
    PROVE  /\ PublicRows(docs) \in Seq(RowOfIds(n))
           /\ AllResolve(PublicRows(docs))
           /\ \A i \in DOMAIN PublicRows(docs) : PublicRows(docs)[i].file.kind # "upload"
<1>1. DOMAIN docs = 1 .. Len(docs) /\ Len(docs) \in Nat
      /\ \A i \in DOMAIN docs : docs[i].id \in 1 .. n /\ docs[i].file \in Meant
  <2>1. DOMAIN docs = 1 .. Len(docs) /\ Len(docs) \in Nat
    BY LenProperties
  <2>2. \A i \in DOMAIN docs : docs[i] \in [id : 1 .. n, file : Meant]
    BY <2>1, ElementOfSeq
  <2> QED
    BY <2>1, <2>2
<1> DEFINE f(i) == IF docs[i].file = "nothing" THEN NoFile ELSE Doc(docs[i].id)
           row(i) == [file |-> f(i), wanted |-> docs[i].file]
<1>2. \A i \in DOMAIN docs : f(i) \in FileOf(n) /\ Resolves(f(i)) /\ f(i).kind # "upload"
  <2> SUFFICES ASSUME NEW i \in DOMAIN docs PROVE f(i) \in FileOf(n) /\ Resolves(f(i)) /\ f(i).kind # "upload"
    OBVIOUS
  <2>1. CASE docs[i].file = "nothing"
    BY <2>1 DEF FileOf, Resolves, NoFile
  <2>2. CASE docs[i].file # "nothing"
    <3>1. f(i) = Doc(docs[i].id) /\ Doc(docs[i].id).kind = "doc" /\ Doc(docs[i].id).id = docs[i].id
      BY <2>2 DEF Doc
    <3>2. docs[i] \in Range(docs)
      BY DEF Range
    <3> QED
      BY <1>1, <3>1, <3>2 DEF FileOf, Resolves
  <2> QED
    BY <2>1, <2>2
<1> HIDE DEF f
<1>3. \A i \in DOMAIN docs : row(i) \in RowOfIds(n)
  BY <1>1, <1>2 DEF RowOfIds
<1>4. PublicRows(docs) = [i \in DOMAIN docs |-> row(i)]
  BY DEF PublicRows, f
<1>5. PublicRows(docs) \in [DOMAIN docs -> RowOfIds(n)]
  BY <1>3, <1>4
<1>6. PublicRows(docs) \in Seq(RowOfIds(n))
  BY <1>1, <1>5
<1>7. \A i \in DOMAIN docs : PublicRows(docs)[i].file = f(i)
  BY <1>4
<1> QED
  BY <1>2, <1>5, <1>6, <1>7 DEF AllResolve

LEMMA OneBlankRow ==
    ASSUME NEW n \in Nat
    PROVE  /\ <<BlankRow>> \in Seq(RowOfIds(n)) /\ DOMAIN <<BlankRow>> = {1}
           /\ \A i \in DOMAIN <<BlankRow>> : <<BlankRow>>[i].file = NoFile
<1>1. BlankRow \in RowOfIds(n) /\ BlankRow.file = NoFile
  BY DEF BlankRow, RowOfIds, FileOf, Meant
<1> HIDE DEF BlankRow
<1> QED
  BY <1>1

\* The form is left and opened again: what was sent before is not of this form.
LEMMA LoadDocumentsKeeps == RowsInvariant /\ LoadDocuments => RowsInvariant'
<1> SUFFICES ASSUME RowsInvariant, LoadDocuments PROVE RowsInvariant'
  OBVIOUS
<1> USE RowsFit
<1>1. /\ docRows' = <<BlankRow>> /\ uploads' = {} /\ fetch' = AskedFor
      /\ leftUploads' = leftUploads \cup {[file |-> u.file, rest |-> u.rest] : u \in uploads}
      /\ saves' = {[s EXCEPT !.mine = FALSE] : s \in saves}
      /\ stale' = FALSE /\ disturbed' = FALSE /\ docOutcome' = "none"
      /\ UNCHANGED <<objects, docs, lastId, completed, given, tried>>
  BY DEF LoadDocuments
<1>2. docs \in Seq([id : 1 .. lastId, file : Meant])
  BY DEF RowsInvariant, RecordsTyped
<1>3. /\ docRows' \in Seq(RowOfIds(lastId)) /\ DOMAIN docRows' = {1}
      /\ \A i \in DOMAIN docRows' : docRows'[i].file = NoFile
  BY <1>1, OneBlankRow
<1>4. \A s \in saves' : ~s.mine /\ s \in [rows : Seq(RowOfIds(lastId)), final : BOOLEAN, mine : BOOLEAN]
  <2> SUFFICES ASSUME NEW s \in saves'
               PROVE  ~s.mine /\ s \in [rows : Seq(RowOfIds(lastId)), final : BOOLEAN, mine : BOOLEAN]
    OBVIOUS
  <2>1. PICK q \in saves : s = [q EXCEPT !.mine = FALSE]
    BY <1>1
  <2>2. q \in [rows : Seq(RowOfIds(lastId)), final : BOOLEAN, mine : BOOLEAN]
    BY DEF RowsInvariant, RecordsTyped
  <2> QED
    BY <2>1, <2>2
<1>5. RecordsTyped'
  BY <1>1, <1>2, <1>4 DEF RecordsTyped
<1>l. \A u \in leftUploads' : /\ u \in [file : Files, rest : Seq(Files)]
                              /\ \A k \in DOMAIN u.rest : u.rest[k] \in given
  <2>1. ASSUME NEW p \in uploads
        PROVE  /\ [file |-> p.file, rest |-> p.rest] \in [file : Files, rest : Seq(Files)]
               /\ \A k \in DOMAIN p.rest : p.rest[k] \in given
    BY DEF RowsInvariant, RecordsTyped
  <2>2. \A u \in leftUploads : /\ u \in [file : Files, rest : Seq(Files)]
                               /\ \A k \in DOMAIN u.rest : u.rest[k] \in given
    BY DEF RowsInvariant, FetchInvariant
  <2> QED
    BY <1>1, <2>1, <2>2
<1>a. fetch'.state = "asked" /\ fetch'.rows = <<>> /\ fetch'.stale = FALSE
      /\ fetch' \in [state : {"asked"}, rows : {<<>>}, stale : {FALSE}]
  BY <1>1 DEF AskedFor, NoFetch
<1>e. <<>> \in Seq(RowOfIds(lastId)) /\ lastId' = lastId /\ DOMAIN <<>> = {}
  BY <1>1
<1>6. RowsTypeOK'
  <2>1. RowType' = RowOfIds(lastId)
    BY <1>1 DEF RowType, RowOfIds, FileOf, Meant
  <2>2. \A s \in saves' : s.rows \in Seq(RowType')
    BY <1>4, <2>1
  <2>3. docRows' \in Seq(RowType')
    BY <1>3, <2>1
  <2>4. \A u \in leftUploads' : u.file \in Files /\ u.rest \in Seq(Files)
    BY <1>l
  <2>5. fetch'.state \in {"none", "asked", "read"} /\ fetch'.rows \in Seq(RowType') /\ fetch'.stale \in BOOLEAN
    BY <1>a, <1>e, <2>1
  <2> QED
    BY <1>1, <2>2, <2>3, <2>4, <2>5 DEF RowsInvariant, RowsTypeOK
<1>7. FreshRowsResolve'
  <2>0. NoFile.kind = "none"
    BY DEF NoFile
  <2>1. ASSUME NEW i \in DOMAIN docRows' PROVE Resolves(docRows[i].file)'
    BY <1>3, <2>0 DEF Resolves
  <2> QED
    BY <1>4, <2>1 DEF FreshRowsResolve, AllResolve
<1>8. RowGetsItsFile'
  BY <1>3 DEF RowGetsItsFile, NoFile
<1>9. RestIsChosen' /\ EveryDocumentStored' /\ UploadKnowsItsRow' /\ DocumentRefusalHasACause'
  BY <1>1 DEF RowsInvariant, RestIsChosen, EveryDocumentStored, UploadKnowsItsRow, DocumentRefusalHasACause
<1>b. FetchInvariant'
  BY <1>1, <1>a, <1>e, <1>l DEF FetchInvariant
<1> QED
  BY <1>5, <1>6, <1>7, <1>8, <1>9, <1>b DEF RowsInvariant

\* A step of the load, or of a form that was left: the rows and saves of this one stay.
LEMMA BesideTheFormKeeps ==
    ASSUME RowsInvariant, FetchInvariant', tried' \subseteq given,
           objects \subseteq objects', objects' \subseteq Files \cup {Kept},
           UNCHANGED <<docRows, uploads, saves, docs, lastId, completed, docOutcome, given, disturbed, stale>>
    PROVE  RowsInvariant'
<1> USE RowsFit
<1>1. RowsTypeOK'
  <2>1. RowType' = RowOfIds(lastId)
    BY DEF RowType, RowOfIds, FileOf, Meant
  <2>2. fetch'.state \in {"none", "asked", "read"} /\ fetch'.rows \in Seq(RowType') /\ fetch'.stale \in BOOLEAN
    BY <2>1 DEF FetchInvariant
  <2>3. \A u \in leftUploads' : u.file \in Files /\ u.rest \in Seq(Files)
    BY DEF FetchInvariant
  <2>4. docRows' \in Seq(RowType') /\ \A s \in saves' : s.rows \in Seq(RowType')
    BY <2>1 DEF RowsInvariant, RecordsTyped
  <2> QED
    BY <2>2, <2>3, <2>4 DEF RowsInvariant, RowsTypeOK
<1>2. RecordsTyped' /\ RestIsChosen' /\ EveryDocumentStored'
  BY DEF RowsInvariant, RecordsTyped, RestIsChosen, EveryDocumentStored
<1>3. UploadKnowsItsRow' /\ RowGetsItsFile' /\ DocumentRefusalHasACause'
  BY DEF RowsInvariant, UploadKnowsItsRow, RowGetsItsFile, DocumentRefusalHasACause
<1>4. FreshRowsResolve'
  <2> SUFFICES ASSUME ~stale PROVE AllResolve(docRows)' /\ \A s \in saves : s.mine => AllResolve(s.rows)'
    BY DEF FreshRowsResolve
  <2>1. AllResolve(docRows) /\ \A s \in saves : s.mine => AllResolve(s.rows)
    BY DEF RowsInvariant, FreshRowsResolve
  <2>2. \A i \in DOMAIN docRows : docRows[i].file \in FileOf(lastId)
    BY RowsHaveFiles
  <2>3. AllResolve(docRows)'
    BY <2>1, <2>2, ResolvesStill
  <2>4. ASSUME NEW s \in saves, s.mine PROVE AllResolve(s.rows)'
    <3>1. s.rows \in Seq(RowOfIds(lastId))
      BY DEF RowsInvariant, RecordsTyped
    <3>2. \A i \in DOMAIN s.rows : s.rows[i].file \in FileOf(lastId)
      BY <3>1, RowsHaveFiles
    <3> QED
      BY <2>1, <2>4, <3>2, ResolvesStill
  <2> QED
    BY <2>3, <2>4
<1> QED
  BY <1>1, <1>2, <1>3, <1>4 DEF RowsInvariant

\* The loop of a form that was left goes on with chosen files.
LEMMA LeftUploadKeeps ==
    ASSUME RowsInvariant, NEW u \in leftUploads, LeftUploadAnswered(u)
    PROVE  RowsInvariant'
<1> USE RowsFit
<1>1. /\ objects' \in {objects, objects \cup {u.file}}
      /\ IF u.rest = <<>> THEN leftUploads' = leftUploads \ {u} /\ UNCHANGED tried
         ELSE /\ leftUploads' = (leftUploads \ {u}) \cup NextUpload(u.rest)
              /\ tried' = tried \cup {u.rest[k] : k \in 1 .. Turn(u.rest)}
      /\ UNCHANGED <<docRows, uploads, fetch, saves, docs, lastId, completed, docOutcome, given, disturbed, stale>>
  BY DEF LeftUploadAnswered
<1>2. u.file \in Files /\ u.rest \in Seq(Files) /\ \A k \in DOMAIN u.rest : u.rest[k] \in given
  BY DEF RowsInvariant, FetchInvariant
<1>3. objects \subseteq objects' /\ objects' \subseteq Files \cup {Kept}
  BY <1>1, <1>2
<1>4. CASE u.rest = <<>>
  <2>1. leftUploads' \subseteq leftUploads /\ tried' = tried
    BY <1>1, <1>4
  <2>2. FetchInvariant'
    <3>1. ~fetch.stale => \A i \in DOMAIN fetch.rows : Resolves(fetch.rows[i].file)'
      BY <1>1, <1>3, FetchResolvesStill
    <3> QED
      BY <1>1, <2>1, <3>1 DEF RowsInvariant, FetchInvariant
  <2> QED
    BY <1>1, <1>3, <2>1, <2>2, BesideTheFormKeeps
<1>5. CASE u.rest # <<>>
  <2> DEFINE m == Turn(u.rest)
             next == [file |-> u.rest[m], rest |-> SubSeq(u.rest, m + 1, Len(u.rest))]
  <2>1. m \in 1 .. Len(u.rest) /\ DOMAIN u.rest = 1 .. Len(u.rest) /\ Len(u.rest) \in Nat
    BY <1>2, <1>5, TurnTakesSome, LenProperties
  <2>2. leftUploads' \subseteq leftUploads \cup {next}
        /\ tried' = tried \cup {u.rest[k] : k \in 1 .. m}
    BY <1>1, <1>5 DEF NextUpload
  <2> HIDE DEF m
  <2>3. \A k \in 1 .. Len(u.rest) : u.rest[k] \in Files /\ u.rest[k] \in given
    BY <1>2, <2>1, ElementOfSeq
  <2>4. next.rest \in Seq(Files) /\ \A k \in DOMAIN next.rest : next.rest[k] \in given
    BY <1>2, <2>1, <2>3, RestOfChosen
  <2>5. next \in [file : Files, rest : Seq(Files)]
    BY <2>1, <2>3, <2>4
  <2>6. tried' \subseteq given
    BY <2>1, <2>2, <2>3
  <2> HIDE DEF next
  <2>7. FetchInvariant'
    <3>1. ~fetch.stale => \A i \in DOMAIN fetch.rows : Resolves(fetch.rows[i].file)'
      BY <1>1, <1>3, FetchResolvesStill
    <3> QED
      BY <1>1, <2>2, <2>4, <2>5, <3>1 DEF RowsInvariant, FetchInvariant
  <2> QED
    BY <1>1, <1>3, <2>6, <2>7, BesideTheFormKeeps
<1> QED
  BY <1>4, <1>5

\* The record is read, or the load fails.
LEMMA DocumentsReadKeeps == RowsInvariant /\ (DocumentsRead \/ DocumentsNotLoaded) => RowsInvariant'
<1> SUFFICES ASSUME RowsInvariant, DocumentsRead \/ DocumentsNotLoaded PROVE RowsInvariant'
  OBVIOUS
<1> USE RowsFit
<1>1. /\ \/ fetch' = [state |-> "read", rows |-> PublicRows(docs), stale |-> FALSE]
         \/ fetch' = [state |-> "none", rows |-> <<>>, stale |-> FALSE]
      /\ UNCHANGED <<docRows, uploads, leftUploads, saves, objects, docs, lastId, completed, docOutcome,
                     given, tried, disturbed, stale>>
  BY DEF DocumentsRead, DocumentsNotLoaded, NoFetch
<1>2. docs \in Seq([id : 1 .. lastId, file : Meant])
  BY DEF RowsInvariant, RecordsTyped
<1>3. /\ PublicRows(docs) \in Seq(RowOfIds(lastId))
      /\ AllResolve(PublicRows(docs))
      /\ \A i \in DOMAIN PublicRows(docs) : PublicRows(docs)[i].file.kind # "upload"
  BY <1>2, PublicRowsResolve
<1>4. <<>> \in Seq(RowOfIds(lastId)) /\ DOMAIN <<>> = {}
  OBVIOUS
<1>5. \A rows : AllResolve(rows) <=> \A i \in DOMAIN rows : Resolves(rows[i].file)'
  BY <1>1 DEF AllResolve, Resolves
<1>6. FetchInvariant'
  <2>1. CASE fetch' = [state |-> "read", rows |-> PublicRows(docs), stale |-> FALSE]
    <3>1. \A i \in DOMAIN fetch'.rows : Resolves(fetch.rows[i].file)'
      BY <1>3, <1>5, <2>1
    <3> QED
      BY <1>1, <1>3, <2>1, <3>1 DEF RowsInvariant, FetchInvariant
  <2>2. CASE fetch' = [state |-> "none", rows |-> <<>>, stale |-> FALSE]
    BY <1>1, <1>4, <2>2 DEF RowsInvariant, FetchInvariant
  <2> QED
    BY <1>1, <2>1, <2>2
<1> QED
  BY <1>1, <1>6, BesideTheFormKeeps

\* The answer takes the place of the rows: uploads that are on their way lose theirs.
LEMMA DocumentsLoadedKeeps == RowsInvariant /\ DocumentsLoaded => RowsInvariant'
<1> SUFFICES ASSUME RowsInvariant, DocumentsLoaded PROVE RowsInvariant'
  OBVIOUS
<1> USE RowsFit
<1>1. /\ docRows' = fetch.rows /\ fetch' = [state |-> "none", rows |-> <<>>, stale |-> FALSE]
      /\ disturbed' = (disturbed \/ uploads # {})
      /\ stale' = (fetch.stale \/ (stale /\ \E s \in saves : s.mine))
      /\ docOutcome' = "loaded"
      /\ UNCHANGED <<uploads, leftUploads, saves, objects, docs, lastId, completed, given, tried>>
  BY DEF DocumentsLoaded, NoFetch
<1>2. /\ fetch.rows \in Seq(RowOfIds(lastId)) /\ fetch.stale \in BOOLEAN
      /\ \A i \in DOMAIN fetch.rows : fetch.rows[i].file.kind # "upload"
      /\ ~fetch.stale => AllResolve(fetch.rows)
  BY DEF RowsInvariant, FetchInvariant, AllResolve
<1>3. <<>> \in Seq(RowOfIds(lastId)) /\ DOMAIN <<>> = {}
  OBVIOUS
<1>4. FetchInvariant'
  BY <1>1, <1>3 DEF RowsInvariant, FetchInvariant
<1>5. RowsTypeOK'
  <2>1. RowType' = RowOfIds(lastId)
    BY <1>1 DEF RowType, RowOfIds, FileOf, Meant
  <2>2. docRows' \in Seq(RowType') /\ \A s \in saves' : s.rows \in Seq(RowType')
    BY <1>1, <1>2, <2>1 DEF RowsInvariant, RecordsTyped
  <2>3. fetch'.state \in {"none", "asked", "read"} /\ fetch'.rows \in Seq(RowType') /\ fetch'.stale \in BOOLEAN
    BY <1>1, <1>3, <2>1
  <2>4. {completed, disturbed, stale}' \subseteq BOOLEAN
    BY <1>1, <1>2 DEF RowsInvariant, RowsTypeOK
  <2> QED
    BY <1>1, <2>2, <2>3, <2>4 DEF RowsInvariant, RowsTypeOK
<1>6. RecordsTyped' /\ RestIsChosen' /\ EveryDocumentStored' /\ DocumentRefusalHasACause'
  BY <1>1 DEF RowsInvariant, RecordsTyped, RestIsChosen, EveryDocumentStored, DocumentRefusalHasACause
<1>7. UploadKnowsItsRow' /\ RowGetsItsFile'
  BY <1>1, <1>2 DEF UploadKnowsItsRow, RowGetsItsFile
<1>8. FreshRowsResolve'
  <2> SUFFICES ASSUME ~stale'
               PROVE  AllResolve(fetch.rows) /\ \A s \in saves : s.mine => AllResolve(s.rows)
    BY <1>1 DEF FreshRowsResolve, AllResolve, Resolves
  <2>1. ~fetch.stale /\ (~stale \/ \A s \in saves : ~s.mine)
    BY <1>1
  <2> QED
    BY <1>2, <2>1 DEF RowsInvariant, FreshRowsResolve
<1> QED
  BY <1>4, <1>5, <1>6, <1>7, <1>8 DEF RowsInvariant

\* All documents are replaced: what the new ones refer to is kept, though the old ones are gone.
LEMMA DocumentsAcceptedKeeps ==
    ASSUME RowsInvariant, NEW s \in saves, DocumentsAccepted(s)
    PROVE  RowsInvariant'
<1> USE RowsFit
<1>1. /\ \A i \in DOMAIN s.rows : Resolves(s.rows[i].file)
      /\ docs' = [i \in DOMAIN s.rows |-> [id |-> lastId + i, file |-> Resolved(s.rows[i].file)]]
      /\ lastId' = lastId + Len(s.rows)
      /\ objects' = objects \ ({d.file : d \in Range(docs)} \ Retained(s))
      /\ completed' = s.final /\ saves' = saves \ {s} /\ stale' = TRUE /\ docOutcome' = "accepted"
      /\ fetch' = [fetch EXCEPT !.stale = TRUE]
      /\ UNCHANGED <<docRows, uploads, leftUploads, given, tried, calls, disturbed>>
  BY DEF DocumentsAccepted
<1>2. s.rows \in Seq(RowOfIds(lastId)) /\ s.final \in BOOLEAN
  BY DEF RowsInvariant, RecordsTyped
<1>3. /\ DOMAIN s.rows = 1 .. Len(s.rows) /\ Len(s.rows) \in Nat
      /\ \A i \in DOMAIN s.rows : s.rows[i].file \in FileOf(lastId)
  BY <1>2, RowsHaveFiles
<1>4. \A i \in DOMAIN s.rows : /\ Resolved(s.rows[i].file) \in Meant
                               /\ Resolved(s.rows[i].file) \in objects \cup {"nothing"}
                               /\ Resolved(s.rows[i].file) \in Retained(s)
  BY <1>1, <1>3, ResolvedIsThere DEF RowsInvariant, Retained
<1>5. lastId' \in Nat /\ 1 .. lastId \subseteq 1 .. lastId'
  BY <1>1, <1>3
<1>6. RowOfIds(lastId) \subseteq RowOfIds(lastId')
  <2>1. FileOf(lastId) \subseteq FileOf(lastId')
    BY <1>5 DEF FileOf
  <2> QED
    BY <2>1 DEF RowOfIds
<1>7. docs' \in Seq([id : 1 .. lastId', file : Meant])
      /\ \A i \in DOMAIN docs' : docs'[i].file = Resolved(s.rows[i].file) /\ i \in DOMAIN s.rows
  <2> DEFINE doc(i) == [id |-> lastId + i, file |-> Resolved(s.rows[i].file)]
  <2>1. \A i \in DOMAIN s.rows : lastId + i \in 1 .. lastId'
    BY <1>1, <1>3
  <2>2. \A i \in DOMAIN s.rows : doc(i) \in [id : 1 .. lastId', file : Meant]
    BY <1>4, <2>1
  <2>3. docs' = [i \in DOMAIN s.rows |-> doc(i)]
    BY <1>1
  <2>4. docs' \in [1 .. Len(s.rows) -> [id : 1 .. lastId', file : Meant]]
    BY <1>3, <2>2, <2>3
  <2>5. docs' \in Seq([id : 1 .. lastId', file : Meant])
    <3>1. \A S : \A n \in Nat : \A g \in [1 .. n -> S] : g \in Seq(S)
      BY SeqDef
    <3> HIDE DEF doc
    <3> QED
      BY <1>3, <2>4, <3>1
  <2>6. \A i \in DOMAIN docs' : docs'[i].file = Resolved(s.rows[i].file) /\ i \in DOMAIN s.rows
    BY <2>3
  <2> QED
    BY <2>5, <2>6
<1>8. \A rows \in Seq(RowOfIds(lastId)) : rows \in Seq(RowOfIds(lastId'))
  BY <1>6, SeqMonotonic
<1>9. saves' \subseteq [rows : Seq(RowOfIds(lastId')), final : BOOLEAN, mine : BOOLEAN]
  <2> SUFFICES ASSUME NEW q \in saves
               PROVE  q \in [rows : Seq(RowOfIds(lastId')), final : BOOLEAN, mine : BOOLEAN]
    BY <1>1
  <2>1. q \in [rows : Seq(RowOfIds(lastId)), final : BOOLEAN, mine : BOOLEAN]
    BY DEF RowsInvariant, RecordsTyped
  <2>2. q.rows \in Seq(RowOfIds(lastId'))
    BY <1>8, <2>1
  <2> QED
    BY <2>1, <2>2
<1>f. /\ fetch' \in [state : {"none", "asked", "read"}, rows : Seq(RowOfIds(lastId')), stale : BOOLEAN]
      /\ fetch'.stale = TRUE /\ fetch'.rows = fetch.rows
  <2>1. fetch \in [state : {"none", "asked", "read"}, rows : Seq(RowOfIds(lastId)), stale : BOOLEAN]
    BY DEF RowsInvariant, FetchInvariant
  <2>2. fetch.rows \in Seq(RowOfIds(lastId'))
    BY <1>8, <2>1
  <2> QED
    BY <1>1, <2>1, <2>2
<1>10. RecordsTyped'
  BY <1>1, <1>7, <1>9 DEF RowsInvariant, RecordsTyped
<1>11. RowsTypeOK'
  <2>1. RowType' = RowOfIds(lastId')
    BY DEF RowType, RowOfIds, FileOf, Meant
  <2>2. docRows' \in Seq(RowType')
    BY <1>1, <1>8, <2>1
  <2>3. \A q \in saves' : q.rows \in Seq(RowType')
    BY <1>9, <2>1
  <2>4. objects' \subseteq Files \cup {Kept}
    BY <1>1
  <2>5. \A u \in uploads' : u.file \in Files /\ u.index \in Nat \ {0} /\ u.rest \in Seq(Files)
    BY <1>1 DEF RowsInvariant, RowsTypeOK
  <2>6. {completed, disturbed, stale}' \subseteq BOOLEAN
    BY <1>1, <1>2
  <2>7. \A u \in leftUploads' : u.file \in Files /\ u.rest \in Seq(Files)
    BY <1>1 DEF RowsInvariant, RowsTypeOK
  <2>8. fetch'.state \in {"none", "asked", "read"} /\ fetch'.rows \in Seq(RowType') /\ fetch'.stale \in BOOLEAN
    BY <1>f, <2>1
  <2> QED
    BY <1>1, <1>5, <2>2, <2>3, <2>4, <2>5, <2>6, <2>7, <2>8 DEF RowsTypeOK
<1>12. EveryDocumentStored'
  <2> SUFFICES ASSUME NEW d \in Range(docs') PROVE d.file \in objects' \cup {"nothing"}
    BY DEF EveryDocumentStored, Range
  <2>1. PICK i \in DOMAIN docs' : d = docs'[i]
    BY DEF Range
  <2>2. d.file \in objects \cup {"nothing"} /\ d.file \in Retained(s)
    BY <1>4, <1>7, <2>1
  <2> QED
    BY <1>1, <2>2
<1>13. RestIsChosen' /\ UploadKnowsItsRow' /\ RowGetsItsFile'
  BY <1>1 DEF RowsInvariant, RestIsChosen, UploadKnowsItsRow, RowGetsItsFile
<1>14. FreshRowsResolve' /\ DocumentRefusalHasACause'
  BY <1>1 DEF FreshRowsResolve, DocumentRefusalHasACause
<1>15. FetchInvariant'
  BY <1>1, <1>f DEF RowsInvariant, FetchInvariant
<1> QED
  BY <1>10, <1>11, <1>12, <1>13, <1>14, <1>15 DEF RowsInvariant

\* A refusal that the user is told of has its cause: the rows of this form would all resolve.
LEMMA DocumentsRefusedKeeps ==
    ASSUME RowsInvariant, NEW s \in saves, DocumentsRefused(s)
    PROVE  RowsInvariant'
<1> USE RowsFit
<1>1. /\ completed \/ \E i \in DOMAIN s.rows : ~Resolves(s.rows[i].file)
      /\ saves' = saves \ {s} /\ docOutcome' = IF s.mine THEN "refused" ELSE "ignored"
      /\ UNCHANGED <<docRows, uploads, leftUploads, fetch, objects, docs, lastId, completed, given, tried, calls,
                     disturbed, stale>>
  BY DEF DocumentsRefused
<1>2. RecordsTyped'
  BY <1>1 DEF RowsInvariant, RecordsTyped
<1>3. RowsTypeOK'
  <2>1. docOutcome' \in {"refused", "ignored"}
    BY <1>1
  <2> QED
    BY <1>1, <2>1 DEF RowsInvariant, RowsTypeOK, RowType
<1>4. FreshRowsResolve'
  <2> SUFFICES ASSUME ~stale PROVE AllResolve(docRows)' /\ \A q \in saves' : q.mine => AllResolve(q.rows)'
    BY <1>1 DEF FreshRowsResolve
  <2>1. \A rows : AllResolve(rows)' <=> AllResolve(rows)
    BY <1>1 DEF AllResolve, Resolves
  <2>2. AllResolve(docRows) /\ \A q \in saves : q.mine => AllResolve(q.rows)
    BY DEF RowsInvariant, FreshRowsResolve
  <2>3. AllResolve(docRows)'
    BY <1>1, <2>2 DEF AllResolve, Resolves
  <2> QED
    BY <1>1, <2>1, <2>2, <2>3
<1>5. DocumentRefusalHasACause'
  <2> SUFFICES ASSUME docOutcome' = "refused", ~completed, ~stale PROVE FALSE
    BY <1>1 DEF DocumentRefusalHasACause
  <2>1. s.mine
    BY <1>1
  <2>2. AllResolve(s.rows)
    BY <2>1 DEF RowsInvariant, FreshRowsResolve
  <2> QED
    BY <1>1, <2>2 DEF AllResolve
<1>6. RestIsChosen' /\ EveryDocumentStored' /\ UploadKnowsItsRow' /\ RowGetsItsFile'
  BY <1>1 DEF RowsInvariant, RestIsChosen, EveryDocumentStored, UploadKnowsItsRow, RowGetsItsFile
<1>7. FetchInvariant'
  BY <1>1, FetchIsKept
<1> QED
  BY <1>2, <1>3, <1>4, <1>5, <1>6, <1>7 DEF RowsInvariant

LEMMA RowsInitially == RowsInit => RowsInvariant
<1> SUFFICES ASSUME RowsInit PROVE RowsInvariant
  OBVIOUS
<1>1. /\ docs \in {<<>>, <<[id |-> 1, file |-> Kept]>>}
      /\ objects = {d.file : d \in Range(docs)} /\ lastId = Len(docs) /\ docRows = <<BlankRow>>
      /\ fetch = [state |-> "asked", rows |-> <<>>, stale |-> FALSE] /\ leftUploads = {} /\ uploads = {} /\ saves = {} /\ completed = FALSE /\ docOutcome = "none"
      /\ given = {} /\ tried = {} /\ disturbed = FALSE /\ stale = FALSE
  BY DEF RowsInit, AskedFor, NoFetch
<1>2. /\ docs \in Seq([id : 1 .. lastId, file : Meant]) /\ lastId \in Nat
      /\ objects \subseteq {Kept}
  <2>1. CASE docs = <<>>
    <3>1. Len(docs) = 0 /\ DOMAIN docs = {}
      BY <2>1
    <3>2. docs \in Seq([id : 1 .. lastId, file : Meant])
      BY <2>1, EmptySeq
    <3> QED
      BY <1>1, <3>1, <3>2 DEF Range
  <2>2. CASE docs = <<[id |-> 1, file |-> Kept]>>
    <3> DEFINE d == [id |-> 1, file |-> Kept]
    <3>1. Len(docs) = 1 /\ DOMAIN docs = {1} /\ docs[1] = d
      BY <2>2
    <3>2. d \in [id : 1 .. lastId, file : Meant] /\ d.file = Kept
      BY <1>1, <3>1 DEF Meant
    <3> HIDE DEF d
    <3>3. docs = <<d>>
      BY <2>2 DEF d
    <3>4. docs \in Seq([id : 1 .. lastId, file : Meant])
      BY <3>2, <3>3
    <3> QED
      BY <1>1, <3>1, <3>2, <3>4 DEF Range
  <2> QED
    BY <1>1, <2>1, <2>2
<1>3. /\ docRows \in Seq(RowOfIds(lastId))
      /\ \A i \in DOMAIN docRows : docRows[i].file = NoFile
  BY <1>1, <1>2, OneBlankRow
<1>r. AllResolve(docRows) /\ \A i \in DOMAIN docRows : docRows[i].file.kind # "upload"
  <2>1. NoFile.kind = "none"
    BY DEF NoFile
  <2>2. ASSUME NEW i \in DOMAIN docRows PROVE Resolves(docRows[i].file)
    BY <1>3, <2>1 DEF Resolves
  <2> QED
    BY <1>3, <2>1, <2>2 DEF AllResolve
<1>f. FetchInvariant
  <2>1. <<>> \in Seq(RowOfIds(lastId)) /\ DOMAIN <<>> = {}
    OBVIOUS
  <2> QED
    BY <1>1, <2>1 DEF FetchInvariant
<1>4. RecordsTyped
  BY <1>1, <1>2 DEF RecordsTyped
<1>5. RowsTypeOK
  <2>1. RowType = RowOfIds(lastId)
    BY DEF RowType, RowOfIds, FileOf, Meant
  <2>2. fetch.rows \in Seq(RowType)
    BY <1>f, <2>1 DEF FetchInvariant
  <2> QED
    BY <1>1, <1>2, <1>3, <2>1, <2>2 DEF RowsTypeOK
<1>6. RestIsChosen /\ UploadKnowsItsRow /\ DocumentRefusalHasACause
  BY <1>1 DEF RestIsChosen, UploadKnowsItsRow, DocumentRefusalHasACause
<1>7. EveryDocumentStored /\ RowGetsItsFile /\ FreshRowsResolve
  BY <1>1, <1>r DEF EveryDocumentStored, RowGetsItsFile, FreshRowsResolve
<1> QED
  BY <1>4, <1>5, <1>6, <1>7, <1>f DEF RowsInvariant

LEMMA RowsKeep == RowsInvariant /\ [RowsNext]_rowsVars => RowsInvariant'
<1> SUFFICES ASSUME RowsInvariant, [RowsNext]_rowsVars PROVE RowsInvariant'
  OBVIOUS
<1>1. CASE RowsUser
  <2>1. TRUE \in BOOLEAN /\ FALSE \in BOOLEAN
    OBVIOUS
  <2> QED
    BY <1>1, <2>1, AddBlankKeeps, RemoveKeeps, ChooseFilesKeeps, UploadForRowKeeps, SaveDocumentsKeeps,
       LoadDocumentsKeeps DEF RowsUser
<1>2. CASE UploadAnswer
  BY <1>2, UploadSucceedsKeeps, UploadFailsKeeps, LeftUploadKeeps DEF UploadAnswer
<1>l. CASE LoadAnswer
  BY <1>l, DocumentsReadKeeps, DocumentsLoadedKeeps DEF LoadAnswer
<1>3. CASE SaveAnswer
  BY <1>3, DocumentsAcceptedKeeps, DocumentsRefusedKeeps DEF SaveAnswer
<1>4. CASE UNCHANGED rowsVars
  <2>1. UNCHANGED <<leftUploads, fetch, saves, docs, lastId, completed, docOutcome, stale, docRows, uploads,
                    given, tried, disturbed, objects>>
    BY <1>4 DEF rowsVars
  <2>2. ShowsNoMore(docRows', objects') /\ FitRows(docRows', uploads', ~disturbed')
    <3>1. FitRows(docRows, uploads, ~disturbed)
      BY RowsFit
    <3> QED
      BY <2>1, <3>1 DEF ShowsNoMore, FitRows
  <2> QED
    BY <2>1, <2>2, RowsFit, RowsStepKeeps
<1> QED
  BY <1>1, <1>2, <1>3, <1>4, <1>l DEF RowsNext

\* However bulk choices, uploads of single rows, saves and loads overlap, and in whatever order
\* the answers come: every document of the record keeps its object, a row gets the file that
\* was chosen for it unless during an upload rows were removed, reused or replaced by the
\* load's answer, and a refused save says something that is so.
THEOREM RowsKeepTheirFiles == RowsSpec => []RowsSafe
<1>1. RowsInvariant => RowsSafe
  BY DEF RowsInvariant, RowsSafe
<1> QED
  BY <1>1, RowsInitially, RowsKeep, PTL DEF RowsSpec
-----------------------------------------------------------------------------
(* The list of records: RecordList. *)

PageAnswers == [data : Seq(Row), total : 0 .. MaxRecord]

FetchRecords ==
    [page : Nat \ {0}, append : BOOLEAN, filter : Filters, served : BOOLEAN, answer : PageAnswers,
     clean : BOOLEAN]

Reopenings == [id : ListedRecords, asked : Nat, attached : BOOLEAN]

ListTypes ==
    /\ live \subseteq ListedRecords /\ status \in [ListedRecords -> {"DRAFT", "COMPLETED"}]
    /\ listRows \in Seq(Row) /\ total \in 0 .. MaxRecord /\ listPage \in Nat \ {0}
    /\ {filter, shown} \subseteq Filters /\ {debounce, loadingMore, mixed} \subseteq BOOLEAN
    /\ taken \in Nat /\ gap \in Nat /\ gap <= taken
    /\ store \in PageAnswers /\ fetches \subseteq FetchRecords
    /\ edited.index \in Nat /\ dialog \in BOOLEAN
    /\ reopening \in {0} \cup ListedRecords /\ reopens \subseteq Reopenings
    /\ listMoves \in 0 .. MaxListMoves

\* What the server lists and answers in this state.
AllListed == [f \in Filters |-> Listed(f)]

AllPages == [f \in Filters |-> [p \in Nat \ {0} |-> PageOf(f, p)]]

\* A page that nothing crossed is the only one on its way and, once read, what the server
\* would still answer; one that is to be appended is then the next.
FetchesAreClean ==
    \A f \in fetches :
      /\ ~f.append => f.page = 1
      /\ f.clean => fetches = {f}
      /\ f.clean /\ f.served => f.answer = AllPages[f.filter][f.page]
      /\ f.clean /\ f.append /\ ~mixed => f.page = listPage + 1

\* The row object of a record that is still to be reopened is in the list.
ReopensHaveRows ==
    \A q \in reopens : ~mixed /\ q.attached /\ q.id \in live /\ status[q.id] = "COMPLETED" =>
      \E i \in DOMAIN listRows : listRows[i].id = q.id

\* A row is of one of the first so many records of a list, at most so many places further on.
PlacedRow(rows, i, all, skipped, last) ==
    \E j \in DOMAIN all : i <= j /\ j <= i + skipped /\ j <= last /\ rows[i].id = all[j]

\* Rows in the order of a list, with the status the records have, and its size.
TrueRows(rows, all, size, st, skipped, last) ==
    /\ size = Len(all)
    /\ \A i \in DOMAIN rows : PlacedRow(rows, i, all, skipped, last) /\ rows[i].status = st[rows[i].id]
    /\ \A i, k \in DOMAIN rows : i < k => rows[i].id > rows[k].id

\* While nothing is mixed the rows are such rows, and together with those taken out they fill
\* the pages that have another behind them.
RowsAreTrue ==
    ~mixed =>
      /\ TrueRows(listRows, AllListed[shown], total, status, gap, listPage * Limit)
      /\ listPage * Limit < total => listPage * Limit <= Len(listRows) + taken

ListInvariant == ListTypes /\ FetchesAreClean /\ ReopensHaveRows /\ RowsAreTrue

\* What matches; it is listed newest first.
Matches(f) == {r \in ListedRecords : Visible(r) /\ f \in {"ALL", status[r]}}

LEMMA NewestFirst ==
    ASSUME NEW S \in SUBSET ListedRecords
    PROVE  /\ S \in SUBSET Nat /\ IsFiniteSet(S)
           /\ Cardinality(S) \in Nat /\ Cardinality(S) <= MaxRecord
           /\ Descending(S) \in [1 .. Cardinality(S) -> S]
           /\ Descending(S) \in Seq(S) /\ Len(Descending(S)) = Cardinality(S)
           /\ \A i, j \in 1 .. Cardinality(S) : i < j => Descending(S)[i] > Descending(S)[j]
<1>1. MaxRecord \in Nat /\ IsFiniteSet(1 .. MaxRecord) /\ Cardinality(1 .. MaxRecord) = MaxRecord
  BY ListAssumption, IntervalSize
<1>2. S \in SUBSET (1 .. MaxRecord) /\ S \in SUBSET Nat
  BY <1>1 DEF ListedRecords
<1>3. IsFiniteSet(S) /\ Cardinality(S) <= MaxRecord
  <2>1. IsFiniteSet(S) /\ Cardinality(S) <= Cardinality(1 .. MaxRecord)
    BY <1>1, <1>2, FS_Subset
  <2> QED
    BY <1>1, <2>1
<1> QED
  BY <1>2, <1>3, DescendingOrder

LEMMA ListedIs ==
    ASSUME NEW f
    PROVE  /\ Matches(f) \in SUBSET ListedRecords /\ Listed(f) = Descending(Matches(f))
           /\ Listed(f) \in Seq(ListedRecords) /\ Len(Listed(f)) \in 0 .. MaxRecord
           /\ \A i \in DOMAIN Listed(f) : Listed(f)[i] \in Matches(f)
<1>1. Matches(f) \in SUBSET ListedRecords /\ Listed(f) = Descending(Matches(f))
  BY DEF Matches, Listed
<1>2. PICK S \in SUBSET ListedRecords : S = Matches(f)
  BY <1>1
<1>3. PICK q : q = Listed(f)
  OBVIOUS
<1>4. q = Descending(S)
  BY <1>1, <1>2, <1>3
<1>5. q \in Seq(S) /\ Len(q) = Cardinality(S) /\ Cardinality(S) \in Nat /\ Cardinality(S) <= MaxRecord
  BY <1>4, NewestFirst
<1>6. q \in Seq(ListedRecords)
  BY <1>5, SeqMonotonic
<1>7. \A i \in DOMAIN q : q[i] \in S
  BY <1>5, LenProperties, ElementOfSeq
<1>8. Len(q) \in 0 .. MaxRecord
  BY <1>5, ListAssumption
<1> QED
  BY <1>1, <1>2, <1>3, <1>6, <1>7, <1>8

IsDescending(all) == \A i, j \in DOMAIN all : i < j => all[i] > all[j]

LEMMA ListedInOrder ==
    ASSUME NEW f
    PROVE  /\ DOMAIN Listed(f) = 1 .. Len(Listed(f)) /\ IsDescending(Listed(f))
           /\ \A i \in DOMAIN Listed(f) : Listed(f)[i] \in Nat
<1>1. PICK S \in SUBSET ListedRecords : S = Matches(f) /\ Listed(f) = Descending(S)
  BY ListedIs
<1>2. PICK q : q = Listed(f)
  OBVIOUS
<1>3. /\ S \in SUBSET Nat /\ q \in [1 .. Cardinality(S) -> S] /\ q \in Seq(S) /\ Len(q) = Cardinality(S)
      /\ \A i, j \in 1 .. Cardinality(S) : i < j => q[i] > q[j]
  BY <1>1, <1>2, NewestFirst
<1> QED
  BY <1>2, <1>3 DEF IsDescending

\* r is q without its i-th element.
OneOut(q, r, i) ==
    /\ Len(r) = Len(q) - 1
    /\ \A k \in 1 .. Len(q) - 1 : r[k] = IF k < i THEN q[k] ELSE q[k + 1]

\* What is left of the list when one record leaves it.
LEMMA ListedWithout ==
    ASSUME NEW S \in SUBSET ListedRecords, NEW i \in 1 .. Len(Descending(S))
    PROVE  OneOut(Descending(S), Descending(S \ {Descending(S)[i]}), i)
<1>a. PICK q : q = Descending(S)
  OBVIOUS
<1>b. PICK T : T = S \ {q[i]}
  OBVIOUS
<1>c. PICK r : r = Descending(T)
  OBVIOUS
<1>d. i \in 1 .. Len(q)
  BY <1>a
<1>1. PICK n \in Nat : n = Cardinality(S)
  BY NewestFirst
<1>2. /\ IsFiniteSet(S) /\ S \in SUBSET Nat /\ q \in Seq(S) /\ Len(q) = n /\ q \in [1 .. n -> S]
      /\ \A j, k \in 1 .. n : j < k => q[j] > q[k]
  BY <1>1, <1>a, NewestFirst
<1>3. q[i] \in S /\ i \in 1 .. n
  BY <1>2, <1>d
<1>4. IsFiniteSet(T) /\ Cardinality(T) = n - 1 /\ T \in SUBSET Nat
  <2>1. PICK x \in S : x = q[i]
    BY <1>3
  <2>2. IsFiniteSet(S \ {x}) /\ Cardinality(S \ {x}) = IF x \in S THEN Cardinality(S) - 1 ELSE Cardinality(S)
    BY <1>2, FS_RemoveElement
  <2> QED
    BY <1>1, <1>2, <1>b, <2>1, <2>2
<1>5. PICK m \in Nat : m = n - 1
  BY <1>3
<1> DEFINE w == RemoveAt(q, i)
<1>6. w \in Seq(S) /\ Len(w) = m /\ \A k \in 1 .. m : w[k] = IF k < i THEN q[k] ELSE q[k + 1]
  <2>0. q \in Seq(S) /\ i \in DOMAIN q
    BY <1>2, <1>d, LenProperties
  <2>1. /\ RemoveAt(q, i) \in Seq(S) /\ Len(RemoveAt(q, i)) = Len(q) - 1
        /\ \A k \in 1 .. Len(q) - 1 : RemoveAt(q, i)[k] = IF k < i THEN q[k] ELSE q[k + 1]
    BY <2>0, RemoveAtProperties
  <2>2. Len(q) - 1 = m
    BY <1>2, <1>5
  <2> HIDE DEF w
  <2>3. w = RemoveAt(q, i)
    BY DEF w
  <2> QED
    BY <2>1, <2>2, <2>3
<1> HIDE DEF w
<1>7. \A k \in 1 .. m : w[k] \in T
  <2> SUFFICES ASSUME NEW k \in 1 .. m PROVE w[k] \in T
    OBVIOUS
  <2>1. PICK j \in 1 .. n : w[k] = q[j] /\ j # i
    <3>1. k \in 1 .. n /\ k + 1 \in 1 .. n /\ (k < i => k # i) /\ (~(k < i) => k + 1 # i)
      BY <1>3, <1>5
    <3> QED
      BY <1>6, <3>1
  <2>2. q[j] # q[i]
    <3>1. j < i \/ i < j
      BY <1>3, <2>1
    <3>2. q[j] \in Nat /\ q[i] \in Nat /\ (q[j] > q[i] \/ q[i] > q[j])
      BY <1>2, <1>3, <2>1, <3>1
    <3> QED
      BY <3>2
  <2> QED
    BY <1>2, <1>b, <2>1, <2>2
<1>8. w \in [1 .. m -> T]
  <2>1. w \in [1 .. m -> S]
    BY <1>6, LenProperties
  <2> QED
    BY <1>7, <2>1
<1>9. \A j, k \in 1 .. m : j < k => w[j] > w[k]
  <2> SUFFICES ASSUME NEW j \in 1 .. m, NEW k \in 1 .. m, j < k PROVE w[j] > w[k]
    OBVIOUS
  <2>1. j \in 1 .. n /\ j + 1 \in 1 .. n /\ k \in 1 .. n /\ k + 1 \in 1 .. n
    BY <1>5
  <2>2. j < k + 1 /\ j + 1 < k + 1
    OBVIOUS
  <2>3. k < i => j < i
    BY <1>3
  <2> QED
    BY <1>2, <1>6, <2>1, <2>2, <2>3
<1>10. Cardinality(T) = m
  BY <1>4, <1>5
<1>11. w = r
  BY <1>4, <1>8, <1>9, <1>10, <1>c, DescendingIsTheOne
<1> QED
  <2>1. OneOut(q, r, i)
    BY <1>2, <1>5, <1>6, <1>11 DEF OneOut
  <2> QED
    BY <2>1, <1>a, <1>b, <1>c

LEMMA SkipIs ==
    ASSUME NEW p \in Nat \ {0}
    PROVE  Skip(p) \in Nat /\ Skip(p) + Limit = p * Limit /\ Skip(1) = 0 /\ Skip(p + 1) = p * Limit
<1>1. Limit \in Nat
  BY ListAssumption
<1>2. p - 1 \in Nat /\ (p - 1) * Limit \in Nat
  BY <1>1
<1>3. (p - 1) * Limit + Limit = p * Limit
  BY <1>1
<1>4. (1 - 1) * Limit = 0 /\ (p + 1) - 1 = p
  BY <1>1
<1> QED
  BY <1>2, <1>3, <1>4 DEF Skip

\* The page the server answers with: its rows are those listed from there on.
LEMMA PageAnswerIs ==
    ASSUME NEW f \in Filters, NEW p \in Nat \ {0}, status \in [ListedRecords -> {"DRAFT", "COMPLETED"}],
           NEW all, all = Listed(f), NEW skip, skip = Skip(p), NEW answer, answer = PageOf(f, p)
    PROVE  /\ answer \in PageAnswers /\ answer.total = Len(all) /\ Len(all) \in Nat
           /\ Len(answer.data) = IF skip + Limit < Len(all) THEN Limit
                                 ELSE IF skip < Len(all) THEN Len(all) - skip ELSE 0
           /\ \A i \in DOMAIN answer.data : /\ skip + i \in DOMAIN all
                                            /\ answer.data[i].id = all[skip + i]
                                            /\ answer.data[i].status = status[answer.data[i].id]
<1> DEFINE m == IF skip + Limit < Len(all) THEN skip + Limit ELSE Len(all)
           slice == SubSeq(all, skip + 1, m)
           data == [i \in DOMAIN slice |-> [id |-> slice[i], status |-> status[slice[i]]]]
<1>1. skip \in Nat /\ Limit \in Nat \ {0} /\ MaxRecord \in Nat
  BY SkipIs, ListAssumption
<1>2. all \in Seq(ListedRecords) /\ Len(all) \in Nat /\ Len(all) <= MaxRecord /\ DOMAIN all = 1 .. Len(all)
  <2>1. all \in Seq(ListedRecords) /\ Len(all) \in 0 .. MaxRecord
    BY ListedIs
  <2> QED
    BY <2>1, ListAssumption, LenProperties
<1>3. m \in Nat /\ m <= Len(all) /\ skip + 1 \in Nat \ {0}
  BY <1>1, <1>2
<1>4. answer = [data |-> data, total |-> Len(all)]
  BY DEF PageOf
<1>5. PICK first \in Nat \ {0} : first = skip + 1
  BY <1>3
<1> HIDE DEF m
<1>6. /\ SubSeq(all, first, m) \in Seq(ListedRecords)
      /\ Len(SubSeq(all, first, m)) = IF first <= m THEN m - first + 1 ELSE 0
      /\ \A i \in 1 .. m - first + 1 : SubSeq(all, first, m)[i] = all[first + i - 1]
  BY <1>2, <1>3, PartFrom
<1>7. slice = SubSeq(all, first, m)
  BY <1>5
<1> HIDE DEF slice
<1>8. slice \in Seq(ListedRecords) /\ Len(slice) \in Nat /\ DOMAIN slice = 1 .. Len(slice)
      /\ Len(slice) = IF skip < m THEN m - skip ELSE 0
  BY <1>1, <1>3, <1>5, <1>6, <1>7, LenProperties
<1>9. \A i \in 1 .. Len(slice) : slice[i] = all[skip + i] /\ slice[i] \in ListedRecords /\ skip + i \in DOMAIN all
  <2> SUFFICES ASSUME NEW i \in 1 .. Len(slice)
               PROVE  slice[i] = all[skip + i] /\ slice[i] \in ListedRecords /\ skip + i \in DOMAIN all
    OBVIOUS
  <2>1. i \in Nat /\ i > 0 /\ i <= m - skip /\ skip < m
    BY <1>1, <1>3, <1>8
  <2>2. i \in 1 .. m - first + 1 /\ first + i - 1 = skip + i
    BY <1>1, <1>3, <1>5, <2>1
  <2>3. skip + i \in 1 .. Len(all)
    BY <1>1, <1>2, <1>3, <2>1
  <2>4. slice[i] = all[first + i - 1]
    BY <1>6, <1>7, <2>2
  <2> QED
    BY <1>2, <2>2, <2>3, <2>4, ElementOfSeq
<1>10. data \in [1 .. Len(slice) -> Row]
  <2>1. \A i \in DOMAIN slice : [id |-> slice[i], status |-> status[slice[i]]] \in Row
    BY <1>8, <1>9 DEF Row
  <2> QED
    BY <1>8, <2>1
<1>11. \A i \in DOMAIN slice : data[i].id = slice[i] /\ data[i].status = status[slice[i]]
  OBVIOUS
<1> HIDE DEF data
<1>12. data \in Seq(Row) /\ Len(data) = Len(slice) /\ DOMAIN data = 1 .. Len(slice)
  BY <1>8, <1>10, SeqDef
<1>13. Len(data) = IF skip + Limit < Len(all) THEN Limit
                   ELSE IF skip < Len(all) THEN Len(all) - skip ELSE 0
  BY <1>1, <1>2, <1>8, <1>12 DEF m
<1>14. answer.data = data /\ answer.total = Len(all) /\ answer \in PageAnswers
  BY <1>2, <1>4, <1>12 DEF PageAnswers
<1> QED
  BY <1>2, <1>8, <1>9, <1>11, <1>12, <1>13, <1>14

LEMMA AnswersAre ==
    ASSUME NEW f \in Filters, NEW p \in Nat \ {0}
    PROVE  AllListed[f] = Listed(f) /\ AllPages[f][p] = PageOf(f, p)
BY DEF AllListed, AllPages

LEMMA SameAnswers == UNCHANGED <<live, status>> => AllListed' = AllListed /\ AllPages' = AllPages
BY DEF AllListed, AllPages, PageOf, Listed, Visible

\* A step that leaves the records and the rows alone.
LEMMA RowsStay ==
    ASSUME ListInvariant, UNCHANGED <<live, status, listRows, total, listPage, shown, taken, gap, mixed>>
    PROVE  /\ RowsAreTrue' /\ (fetches' = fetches => FetchesAreClean')
           /\ (reopens' \subseteq reopens => ReopensHaveRows')
<1>1. AllListed' = AllListed /\ AllPages' = AllPages
  BY SameAnswers
<1>2. RowsAreTrue'
  BY <1>1 DEF ListInvariant, RowsAreTrue
<1>3. fetches' = fetches => FetchesAreClean'
  BY <1>1 DEF ListInvariant, FetchesAreClean
<1>4. reopens' \subseteq reopens => ReopensHaveRows'
  BY DEF ListInvariant, ReopensHaveRows
<1> QED
  BY <1>2, <1>3, <1>4

LEMMA CrossedIs ==
    ASSUME NEW fs \in SUBSET FetchRecords, \A f \in fs : ~f.append => f.page = 1
    PROVE  /\ Crossed(fs) \subseteq FetchRecords
           /\ \A g \in Crossed(fs) : ~g.clean /\ (~g.append => g.page = 1)
<1> SUFFICES ASSUME NEW g \in Crossed(fs)
             PROVE  g \in FetchRecords /\ ~g.clean /\ (~g.append => g.page = 1)
  OBVIOUS
<1>1. PICK f \in fs : g = [f EXCEPT !.clean = FALSE]
  BY DEF Crossed
<1>2. f \in FetchRecords
  OBVIOUS
<1>3. g \in FetchRecords /\ g.clean = FALSE /\ g.append = f.append /\ g.page = f.page
  BY <1>1, <1>2 DEF FetchRecords
<1> QED
  BY <1>3

IsAsked(g, p, append) ==
    /\ g \in FetchRecords /\ g.page = p /\ g.append = append /\ g.served = FALSE
    /\ g.clean = (fetches = {})

LEMMA AskedIs ==
    ASSUME filter \in Filters, NEW p \in Nat \ {0}, NEW append \in BOOLEAN
    PROVE  IsAsked(Asked(p, append), p, append)
<1> DEFINE g == Asked(p, append)
<1>1. <<>> \in Seq(Row) /\ 0 \in 0 .. MaxRecord
  BY EmptySeq, ListAssumption
<1>2. [data |-> <<>>, total |-> 0] \in PageAnswers
  BY <1>1 DEF PageAnswers
<1>3. PICK a \in PageAnswers : a = [data |-> <<>>, total |-> 0]
  BY <1>2
<1>4. PICK c \in BOOLEAN : c = (fetches = {})
  OBVIOUS
<1>5. g = [page |-> p, append |-> append, filter |-> filter, served |-> FALSE, answer |-> a, clean |-> c]
  BY <1>3, <1>4 DEF Asked
<1>6. g \in FetchRecords /\ g.page = p /\ g.append = append /\ g.served = FALSE /\ g.clean = c
  BY <1>5 DEF FetchRecords
<1> QED
  BY <1>4, <1>6 DEF IsAsked

\* Moves and refusals that touch neither the rows nor what is asked for.
LEMMA QuietMovesKeep ==
    ASSUME ListInvariant,
           \/ \E f \in Filters : ChooseFilter(f)
           \/ \E i \in DOMAIN listRows : DeleteItem(i)
           \/ CloseDelete \/ DeleteItemConfirm
           \/ \E d \in deletes : DeleteFails(d)
           \/ \E q \in reopens : ReopenFails(q)
           \/ UNCHANGED listVars
    PROVE  ListInvariant'
<1>0. DOMAIN listRows = 1 .. Len(listRows) /\ Len(listRows) \in Nat
  BY LenProperties DEF ListInvariant, ListTypes
<1> DEFINE Quiet == /\ UNCHANGED <<live, status, listRows, total, listPage, store, loadingMore, shown>>
                    /\ UNCHANGED <<taken, gap, mixed, fetches>>
                    /\ reopens' \subseteq reopens /\ filter' \in Filters /\ debounce' \in BOOLEAN
                    /\ edited'.index \in Nat /\ dialog' \in BOOLEAN /\ listMoves' \in 0 .. MaxListMoves
                    /\ reopening' \in {0, reopening}
<1>1. Quiet
  <2>1. /\ filter \in Filters /\ debounce \in BOOLEAN /\ edited.index \in Nat /\ dialog \in BOOLEAN
        /\ listMoves \in 0 .. MaxListMoves /\ MaxListMoves \in Nat
    BY ListAssumption DEF ListInvariant, ListTypes
  <2>2. ASSUME NEW f \in Filters, ChooseFilter(f) PROVE Quiet
    BY <2>1, <2>2 DEF ChooseFilter, ListMove, Watched, list, reopened
  <2>3. ASSUME NEW i \in DOMAIN listRows, DeleteItem(i) PROVE Quiet
    <3>1. edited'.index = i /\ i \in Nat
      BY <1>0, <2>3 DEF DeleteItem
    <3>2. dialog' \in BOOLEAN
      BY <2>3 DEF DeleteItem
    <3>3. UNCHANGED <<live, status, list, fetches, reopened, filter, debounce>> /\ listMoves' \in 0 .. MaxListMoves
      BY <2>1, <2>3 DEF DeleteItem, ListMove
    <3> QED
      BY <2>1, <3>1, <3>2, <3>3 DEF list, reopened
  <2>4. CASE CloseDelete
    <3>1. dialog' \in BOOLEAN
      BY <2>4 DEF CloseDelete
    <3>2. UNCHANGED <<live, status, list, fetches, reopened, filter, debounce, edited>> /\ listMoves' \in 0 .. MaxListMoves
      BY <2>1, <2>4 DEF CloseDelete, ListMove
    <3> QED
      BY <2>1, <3>1, <3>2 DEF list, reopened
  <2>5. CASE DeleteItemConfirm
    BY <2>1, <2>5 DEF DeleteItemConfirm, ListMove, list, reopened
  <2>6. ASSUME NEW d \in deletes, DeleteFails(d) PROVE Quiet
    BY <2>1, <2>6 DEF DeleteFails, list, reopened
  <2>7. ASSUME NEW q \in reopens, ReopenFails(q) PROVE Quiet
    BY <2>1, <2>7 DEF ReopenFails, list
  <2>8. CASE UNCHANGED listVars
    BY <2>1, <2>8 DEF listVars, list, reopened
  <2> QED
    BY <2>2, <2>3, <2>4, <2>5, <2>6, <2>7, <2>8
<1>2. ListTypes'
  BY <1>1 DEF ListInvariant, ListTypes
<1>3. RowsAreTrue' /\ FetchesAreClean' /\ ReopensHaveRows'
  BY <1>1, RowsStay
<1> QED
  BY <1>2, <1>3 DEF ListInvariant

LEMMA ReopenItemKeeps ==
    ASSUME ListInvariant, NEW i \in DOMAIN listRows, ReopenItem(i)
    PROVE  ListInvariant'
<1> DEFINE q == [id |-> listRows[i].id, asked |-> listMoves, attached |-> TRUE]
<1>1. /\ UNCHANGED <<live, status, listRows, total, listPage, store, loadingMore, shown, taken, gap, mixed>>
      /\ UNCHANGED <<filter, debounce, fetches, dialog, edited>>
      /\ reopens' = reopens \cup {q} /\ reopening' = listRows[i].id
  BY DEF ReopenItem, ListMove, list
<1>2. listMoves' \in 0 .. MaxListMoves
  <2>1. listMoves \in 0 .. MaxListMoves /\ MaxListMoves \in Nat
    BY ListAssumption DEF ListInvariant, ListTypes
  <2> QED
    BY <2>1 DEF ReopenItem, ListMove
<1>3. listRows[i] \in Row
  BY ElementOfSeq, LenProperties DEF ListInvariant, ListTypes
<1>4. q \in Reopenings /\ q.id = listRows[i].id /\ listRows[i].id \in ListedRecords
  <2>1. listMoves \in Nat
    BY DEF ListInvariant, ListTypes
  <2> QED
    BY <1>3, <2>1 DEF Row, Reopenings
<1> HIDE DEF q
<1>5. ListTypes'
  BY <1>1, <1>2, <1>4 DEF ListInvariant, ListTypes
<1>6. RowsAreTrue' /\ FetchesAreClean'
  BY <1>1, RowsStay
<1>7. ReopensHaveRows'
  <2>1. ReopensHaveRows
    BY DEF ListInvariant
  <2>2. \A p \in reopens' : p = q \/ p \in reopens
    BY <1>1
  <2>3. \E j \in DOMAIN listRows : listRows[j].id = q.id
    BY <1>4
  <2> QED
    BY <1>1, <2>1, <2>2, <2>3 DEF ReopensHaveRows
<1> QED
  BY <1>5, <1>6, <1>7 DEF ListInvariant

\* A page that is asked for: the ones on their way are crossed by it.
LEMMA AskingKeeps ==
    ASSUME ListInvariant, NEW g \in FetchRecords, g.clean = (fetches = {}), g.served = FALSE,
           ~g.append => g.page = 1,
           g.append => g.page = listPage + 1,
           fetches' = Crossed(fetches) \cup {g},
           UNCHANGED <<live, status, listRows, total, listPage, shown, taken, gap, mixed>>
    PROVE  fetches' \subseteq FetchRecords /\ FetchesAreClean'
<1>1. fetches \subseteq FetchRecords /\ \A f \in fetches : ~f.append => f.page = 1
  BY DEF ListInvariant, ListTypes, FetchesAreClean
<1>2. /\ Crossed(fetches) \subseteq FetchRecords
      /\ \A f \in Crossed(fetches) : ~f.clean /\ (~f.append => f.page = 1)
  BY <1>1, CrossedIs
<1>3. g.clean => fetches' = {g}
  BY DEF Crossed
<1>5. \A f \in fetches' : f = g \/ f \in Crossed(fetches)
  OBVIOUS
<1>6. FetchesAreClean'
  BY <1>2, <1>3, <1>5 DEF FetchesAreClean
<1> QED
  BY <1>2, <1>6

LEMMA ResetAndLoadKeeps == ListInvariant /\ ResetAndLoad => ListInvariant'
<1> SUFFICES ASSUME ListInvariant, ResetAndLoad PROVE ListInvariant'
  OBVIOUS
<1> DEFINE g == Asked(1, FALSE)
<1>1. /\ UNCHANGED <<live, status, listRows, total, listPage, store, loadingMore, shown, taken, gap, mixed>>
      /\ UNCHANGED <<filter, dialog, edited, reopening, reopens, listMoves>>
      /\ debounce' = FALSE /\ fetches' = Crossed(fetches) \cup {g}
  BY DEF ResetAndLoad, list, reopened
<1>2. filter \in Filters
  BY DEF ListInvariant, ListTypes
<1>3. g \in FetchRecords /\ g.page = 1 /\ g.append = FALSE /\ g.served = FALSE /\ g.clean = (fetches = {})
  <2>1. 1 \in Nat \ {0} /\ FALSE \in BOOLEAN
    OBVIOUS
  <2>2. IsAsked(Asked(1, FALSE), 1, FALSE)
    BY <1>2, <2>1, AskedIs, Zenon
  <2> QED
    BY <2>2, Zenon DEF IsAsked
<1> HIDE DEF g
<1>4. fetches' \subseteq FetchRecords /\ FetchesAreClean'
  BY <1>1, <1>3, AskingKeeps
<1>5. RowsAreTrue' /\ ReopensHaveRows'
  BY <1>1, RowsStay
<1>6. ListTypes'
  BY <1>1, <1>4 DEF ListInvariant, ListTypes
<1> QED
  BY <1>4, <1>5, <1>6 DEF ListInvariant

LEMMA LoadMoreKeeps == ListInvariant /\ LoadMore => ListInvariant'
<1> SUFFICES ASSUME ListInvariant, LoadMore PROVE ListInvariant'
  OBVIOUS
<1> DEFINE g == Asked(listPage + 1, TRUE)
<1>1. /\ UNCHANGED <<live, status, listRows, total, listPage, store, shown, taken, gap, mixed>>
      /\ UNCHANGED <<filter, debounce, dialog, edited, reopening, reopens>>
      /\ loadingMore' = TRUE /\ fetches' = Crossed(fetches) \cup {g}
  BY DEF LoadMore, ListMove, reopened
<1>2. listMoves' \in 0 .. MaxListMoves
  <2>1. listMoves \in 0 .. MaxListMoves /\ MaxListMoves \in Nat
    BY ListAssumption DEF ListInvariant, ListTypes
  <2> QED
    BY <2>1 DEF LoadMore, ListMove
<1>3. PICK p \in Nat \ {0} : p = listPage + 1
  BY DEF ListInvariant, ListTypes
<1>4. g \in FetchRecords /\ g.page = p /\ g.append = TRUE /\ g.served = FALSE /\ g.clean = (fetches = {})
  <2>1. filter \in Filters /\ TRUE \in BOOLEAN
    BY DEF ListInvariant, ListTypes
  <2>2. IsAsked(Asked(p, TRUE), p, TRUE)
    BY <2>1, AskedIs, Zenon
  <2> QED
    BY <1>3, <2>2, Zenon DEF IsAsked
<1> HIDE DEF g
<1>5. fetches' \subseteq FetchRecords /\ FetchesAreClean'
  BY <1>1, <1>3, <1>4, AskingKeeps
<1>6. RowsAreTrue' /\ ReopensHaveRows'
  BY <1>1, RowsStay
<1>7. ListTypes'
  BY <1>1, <1>2, <1>5 DEF ListInvariant, ListTypes
<1> QED
  BY <1>5, <1>6, <1>7 DEF ListInvariant

LEMMA ServeKeeps ==
    ASSUME ListInvariant, NEW f \in fetches, Serve(f)
    PROVE  ListInvariant'
<1> DEFINE g == [f EXCEPT !.served = TRUE, !.answer = PageOf(f.filter, f.page)]
<1>1. /\ UNCHANGED <<live, status, listRows, total, listPage, store, loadingMore, shown, taken, gap, mixed>>
      /\ UNCHANGED <<filter, debounce, dialog, edited, reopening, reopens, listMoves>>
      /\ fetches' = (fetches \ {f}) \cup {g}
  BY DEF Serve, list, reopened
<1>2. f \in FetchRecords /\ f.filter \in Filters /\ f.page \in Nat \ {0}
  BY DEF ListInvariant, ListTypes, FetchRecords
<1>3. PageOf(f.filter, f.page) \in PageAnswers
  <2>1. status \in [ListedRecords -> {"DRAFT", "COMPLETED"}]
    BY DEF ListInvariant, ListTypes
  <2>2. PICK h \in Filters : h = f.filter
    BY <1>2
  <2>3. PICK n \in Nat \ {0} : n = f.page
    BY <1>2
  <2>4. PageOf(h, n) \in PageAnswers
    BY <2>1, PageAnswerIs
  <2> QED
    BY <2>2, <2>3, <2>4
<1>4. AllPages[f.filter][f.page] = PageOf(f.filter, f.page)
  BY <1>2, AnswersAre
<1>5. PICK a \in PageAnswers : a = PageOf(f.filter, f.page)
  BY <1>3
<1>6. g = [f EXCEPT !.served = TRUE, !.answer = a]
  BY <1>5
<1> HIDE DEF g
<1>7. /\ g \in FetchRecords /\ g.page = f.page /\ g.append = f.append /\ g.filter = f.filter
      /\ g.clean = f.clean /\ g.answer = a
  BY <1>2, <1>6 DEF FetchRecords
<1>8. FetchesAreClean'
  <2>1. AllListed' = AllListed /\ AllPages' = AllPages
    BY <1>1, SameAnswers
  <2>2. FetchesAreClean
    BY DEF ListInvariant
  <2>3. ASSUME NEW h \in fetches \ {f} PROVE ~h.clean /\ (~h.append => h.page = 1)
    BY <2>2, <2>3 DEF FetchesAreClean
  <2>4. g.clean => fetches' = {g}
    <3>1. f.clean => fetches = {f}
      BY <2>2 DEF FetchesAreClean
    <3> QED
      BY <1>1, <1>7, <3>1
  <2>5. g.answer = AllPages[g.filter][g.page]
    BY <1>4, <1>5, <1>7
  <2>6. /\ ~g.append => g.page = 1
        /\ g.clean /\ g.append /\ ~mixed => g.page = listPage + 1
    BY <1>7, <2>2 DEF FetchesAreClean
  <2>7. \A h \in fetches' : h = g \/ h \in fetches \ {f}
    BY <1>1
  <2> QED
    BY <1>1, <2>1, <2>3, <2>4, <2>5, <2>6, <2>7 DEF FetchesAreClean
<1>9. RowsAreTrue' /\ ReopensHaveRows'
  BY <1>1, RowsStay
<1>10. ListTypes'
  <2>1. fetches' \subseteq FetchRecords
    BY <1>1, <1>7 DEF ListInvariant, ListTypes
  <2> QED
    BY <1>1, <2>1 DEF ListInvariant, ListTypes
<1> QED
  BY <1>8, <1>9, <1>10 DEF ListInvariant

\* Whatever answer is shown, types are kept and the fetches that are left were crossed.
LEMMA ShowKeeps ==
    ASSUME ListInvariant, NEW f \in fetches, NEW answer \in PageAnswers, NEW trouble \in BOOLEAN,
           Show(f, answer, trouble), store' \in PageAnswers,
           UNCHANGED <<live, status, filter, debounce, dialog, edited, listMoves>>
    PROVE  /\ ListTypes' /\ FetchesAreClean'
           /\ f.append => reopens' = reopens
           /\ ~f.append /\ ~trouble => \A q \in reopens' : ~q.attached
<1>1. /\ f \in FetchRecords /\ f.page \in Nat \ {0} /\ f.append \in BOOLEAN /\ f.filter \in Filters
      /\ f.clean \in BOOLEAN
  BY DEF ListInvariant, ListTypes, FetchRecords
<1>2. answer.data \in Seq(Row) /\ answer.total \in 0 .. MaxRecord
  BY DEF PageAnswers
<1>3. listRows' \in Seq(Row)
  <2>1. listRows \in Seq(Row)
    BY DEF ListInvariant, ListTypes
  <2>2. listRows \o answer.data \in Seq(Row)
    BY <1>2, <2>1, ConcatProperties
  <2> QED
    BY <1>2, <2>2 DEF Show
<1>4. /\ reopens' \subseteq Reopenings /\ reopening' = reopening
      /\ f.append => reopens' = reopens
      /\ ~f.append /\ ~trouble => \A q \in reopens' : ~q.attached
  <2>1. reopens \subseteq Reopenings
    BY DEF ListInvariant, ListTypes
  <2>2. f.append => reopens' = reopens
    BY DEF Show
  <2>3. ASSUME ~f.append, NEW p \in reopens'
        PROVE  p \in Reopenings /\ (~trouble => p.attached = FALSE)
    <3>1. PICK q \in reopens : p = [q EXCEPT !.attached = @ /\ trouble /\ q.id \in StoredIds]
      BY <2>3 DEF Show
    <3>2. PICK b \in BOOLEAN : b = (q.attached /\ trouble /\ q.id \in StoredIds)
      OBVIOUS
    <3>3. b => trouble
      BY <3>2
    <3>4. p = [q EXCEPT !.attached = b]
      BY <3>1, <3>2
    <3>5. p \in Reopenings /\ p.attached = b
      BY <2>1, <3>4 DEF Reopenings
    <3> QED
      BY <3>3, <3>5
  <2>4. reopening' = reopening
    BY DEF Show
  <2> QED
    BY <1>1, <2>1, <2>2, <2>3, <2>4
<1>5. /\ listPage' = f.page /\ total' = answer.total /\ loadingMore' = FALSE
      /\ shown' \in Filters /\ fetches' = fetches \ {f}
  BY <1>1 DEF Show, ListInvariant, ListTypes
<1>6. taken' \in Nat /\ gap' \in Nat /\ gap' <= taken' /\ mixed' \in BOOLEAN
  <2>1. taken \in Nat
    BY DEF ListInvariant, ListTypes
  <2> QED
    BY <2>1 DEF Show
<1>7. ListTypes'
  BY <1>1, <1>2, <1>3, <1>4, <1>5, <1>6 DEF ListInvariant, ListTypes
<1>8. FetchesAreClean'
  <2>1. \A g \in fetches' : ~g.clean /\ (~g.append => g.page = 1)
    BY <1>5 DEF ListInvariant, FetchesAreClean
  <2> QED
    BY <2>1 DEF FetchesAreClean
<1> QED
  BY <1>4, <1>7, <1>8

LEMMA FailedKeeps ==
    ASSUME ListInvariant, NEW f \in fetches, Failed(f)
    PROVE  ListInvariant'
<1>1. /\ Show(f, store, TRUE) /\ store' = store /\ store \in PageAnswers
      /\ UNCHANGED <<live, status, filter, debounce, dialog, edited, listMoves>>
  BY DEF Failed, ListInvariant, ListTypes
<1>2. TRUE \in BOOLEAN
  OBVIOUS
<1>3. ListTypes' /\ FetchesAreClean'
  BY <1>1, <1>2, ShowKeeps
<1>4. mixed'
  BY <1>1 DEF Show
<1> QED
  BY <1>3, <1>4 DEF ListInvariant, ReopensHaveRows, RowsAreTrue

\* What is on a page that begins after so many of all.
PageSize(all, skip) == IF skip + Limit < all THEN Limit ELSE IF skip < all THEN all - skip ELSE 0

\* Rows that continue a list from some place on.
ContinueRows(rows, all, skip, st) ==
    \A i \in DOMAIN rows : rows[i].id = all[skip + i] /\ rows[i].status = st[rows[i].id]

\* The first page makes the list; a page that follows the rows makes it longer.
LEMMA FirstPage ==
    ASSUME NEW all, Len(all) \in Nat, DOMAIN all = 1 .. Len(all), IsDescending(all),
           NEW rows \in Seq(Row), NEW st, Len(rows) = PageSize(Len(all), 0), ContinueRows(rows, all, 0, st)
    PROVE  /\ TrueRows(rows, all, Len(all), st, 0, Limit)
           /\ Limit < Len(all) => Limit <= Len(rows)
<1>1. PICK n \in Nat : n = Len(all)
  OBVIOUS
<1>2. PICK l \in Nat : l = Len(rows) /\ DOMAIN rows = 1 .. l
  BY LenProperties
<1>3. Limit \in Nat
  BY ListAssumption
<1>4. l <= n /\ l <= Limit /\ (Limit < n => Limit <= l)
  <2>1. l = IF 0 + Limit < n THEN Limit ELSE IF 0 < n THEN n - 0 ELSE 0
    BY <1>1, <1>2 DEF PageSize
  <2>2. CASE Limit < n
    <3>1. l = Limit
      BY <1>3, <2>1, <2>2
    <3> QED
      BY <1>3, <2>2, <3>1
  <2>3. CASE ~(Limit < n)
    <3>1. l = n
      BY <1>3, <2>1, <2>3
    <3> QED
      BY <1>3, <2>3, <3>1
  <2> QED
    BY <2>2, <2>3
<1>5. \A i \in DOMAIN rows : i \in DOMAIN all /\ i <= Limit /\ i <= i + 0 /\ i <= i
  BY <1>1, <1>2, <1>3, <1>4
<1>6. \A i \in DOMAIN rows : rows[i].id = all[i] /\ rows[i].status = st[rows[i].id]
  <2>1. \A i \in DOMAIN rows : 0 + i = i
    BY <1>2
  <2> QED
    BY <2>1 DEF ContinueRows
<1>7. \A i \in DOMAIN rows : PlacedRow(rows, i, all, 0, Limit)
  BY <1>5, <1>6 DEF PlacedRow
<1>8. \A i, k \in DOMAIN rows : i < k => rows[i].id > rows[k].id
  BY <1>5, <1>6 DEF IsDescending
<1> QED
  BY <1>1, <1>2, <1>4, <1>6, <1>7, <1>8 DEF TrueRows

LEMMA NextPage ==
    ASSUME NEW all, Len(all) \in Nat, DOMAIN all = 1 .. Len(all), IsDescending(all),
           \A i \in DOMAIN all : all[i] \in Nat,
           NEW rows \in Seq(Row), NEW data \in Seq(Row), NEW st,
           NEW skip \in Nat, NEW out \in Nat, NEW skipped \in Nat, skipped <= out,
           Len(data) = PageSize(Len(all), skip), ContinueRows(data, all, skip, st),
           TrueRows(rows, all, Len(all), st, skipped, skip),
           skip < Len(all) => skip <= Len(rows) + out
    PROVE  /\ TrueRows(rows \o data, all, Len(all), st, out, skip + Limit)
           /\ skip + Limit < Len(all) => skip + Limit <= Len(rows \o data) + out
<1>1. PICK n \in Nat : n = Len(all)
  OBVIOUS
<1>2. PICK l \in Nat : l = Len(rows) /\ DOMAIN rows = 1 .. l
  BY LenProperties
<1>3. PICK d \in Nat : d = Len(data) /\ DOMAIN data = 1 .. d
  BY LenProperties
<1>4. PICK w \in Seq(Row) : w = rows \o data
  BY ConcatProperties
<1>5. /\ Len(w) = l + d /\ DOMAIN w = 1 .. l + d
      /\ \A i \in 1 .. l + d : w[i] = IF i <= l THEN rows[i] ELSE data[i - l]
  BY <1>2, <1>3, <1>4, ConcatProperties, LenProperties
<1>6. Limit \in Nat
  BY ListAssumption
<1>7. /\ d = IF skip + Limit < n THEN Limit ELSE IF skip < n THEN n - skip ELSE 0
      /\ skip < n => skip <= l + out
  BY <1>1, <1>2, <1>3 DEF PageSize
\* The rows before it are no more than the records before it.
<1>8. ASSUME NEW i \in 1 .. l
      PROVE  \E j \in 1 .. n : i <= j /\ j <= i + skipped /\ j <= skip /\ rows[i].id = all[j]
  BY <1>1, <1>2 DEF TrueRows, PlacedRow
<1>9. l <= skip
  <2>1. CASE l = 0
    BY <2>1
  <2>2. CASE l # 0
    <3>1. l \in 1 .. l
      BY <2>2
    <3>2. \E j \in 1 .. n : l <= j /\ j <= skip
      BY <1>8, <3>1
    <3> QED
      BY <3>2
  <2> QED
    BY <2>1, <2>2
<1>10. ASSUME NEW k \in 1 .. d
       PROVE  /\ skip + k \in 1 .. n /\ l + k <= skip + k /\ skip + k <= (l + k) + out
              /\ skip + k <= skip + Limit /\ data[k].id = all[skip + k]
              /\ data[k].status = st[data[k].id]
  <2>1. skip < n /\ skip + k <= n /\ k <= Limit
    BY <1>6, <1>7
  <2>2. data[k].id = all[skip + k] /\ data[k].status = st[data[k].id]
    BY <1>3 DEF ContinueRows
  <2> QED
    BY <1>6, <1>7, <1>9, <2>1, <2>2
<1>11. ASSUME NEW i \in DOMAIN w
       PROVE  /\ PlacedRow(w, i, all, out, skip + Limit) /\ w[i].status = st[w[i].id]
              /\ \E j \in 1 .. n : w[i].id = all[j] /\ (i <= l <=> j <= skip)
                                   /\ (i > l => j = skip + (i - l))
  <2>1. CASE i \in 1 .. l
    <3>1. w[i] = rows[i] /\ rows[i].status = st[rows[i].id]
      BY <1>2, <1>5, <2>1 DEF TrueRows
    <3>2. PICK j \in 1 .. n : i <= j /\ j <= i + skipped /\ j <= skip /\ rows[i].id = all[j]
      BY <1>8, <2>1
    <3>3. j <= i + out /\ j <= skip + Limit
      BY <1>6, <2>1, <3>2
    <3>4. PlacedRow(w, i, all, out, skip + Limit)
      BY <1>1, <3>1, <3>2, <3>3 DEF PlacedRow
    <3>5. i <= l /\ ~(i > l)
      BY <2>1
    <3> QED
      BY <3>1, <3>2, <3>4, <3>5
  <2>2. CASE ~(i \in 1 .. l)
    <3>1. PICK k \in 1 .. d : k = i - l /\ l + k = i
      <4>1. i - l \in 1 .. d /\ l + (i - l) = i
        BY <1>5, <2>2
      <4> QED
        BY <4>1
    <3>2. w[i] = data[k]
      BY <1>5, <2>2, <3>1
    <3>3. PICK j \in 1 .. n : j = skip + k
      BY <1>10
    <3>4. i <= j /\ j <= i + out /\ j <= skip + Limit /\ w[i].id = all[j] /\ w[i].status = st[w[i].id]
      BY <1>10, <3>1, <3>2, <3>3
    <3>5. PlacedRow(w, i, all, out, skip + Limit)
      BY <1>1, <3>4 DEF PlacedRow
    <3>6. ~(i <= l) /\ ~(j <= skip) /\ j = skip + (i - l)
      <4>1. j = skip + k /\ i = l + k /\ k = i - l
        BY <3>1, <3>3
      <4>2. k \in Nat /\ k >= 1
        OBVIOUS
      <4>3. i \in Nat /\ j \in Nat
        BY <1>2, <4>1, <4>2
      <4> QED
        BY <1>2, <4>1, <4>2, <4>3
    <3> QED
      BY <3>4, <3>5, <3>6
  <2> QED
    BY <2>1, <2>2
<1>12. ASSUME NEW i \in DOMAIN w, NEW k \in DOMAIN w, i < k
       PROVE  w[i].id > w[k].id
  <2>0. i \in Nat /\ k \in Nat /\ i <= l + d /\ k <= l + d /\ i >= 1 /\ k >= 1
    BY <1>5
  <2>1. CASE k <= l
    <3>1. i \in DOMAIN rows /\ k \in DOMAIN rows /\ w[i] = rows[i] /\ w[k] = rows[k]
      BY <1>2, <1>5, <1>12, <2>0, <2>1
    <3> QED
      BY <1>12, <3>1 DEF TrueRows
  <2>2. CASE ~(k <= l)
    <3>0. k > l
      BY <2>0, <2>2
    <3>1. PICK j \in 1 .. n : w[k].id = all[j] /\ j = skip + (k - l)
      BY <1>11, <3>0
    <3>2. PICK h \in 1 .. n : w[i].id = all[h] /\ (i <= l <=> h <= skip) /\ (i > l => h = skip + (i - l))
      BY <1>11
    <3>3. h < j
      <4>1. CASE i <= l
        BY <1>2, <2>0, <3>0, <3>1, <3>2, <4>1
      <4>2. CASE ~(i <= l)
        <5>1. i > l
          BY <2>0, <4>2
        <5>2. h = skip + (i - l) /\ i - l < k - l
          BY <1>12, <2>0, <3>2, <5>1
        <5>3. i - l \in Int /\ k - l \in Int
          BY <1>2, <2>0
        <5> QED
          BY <3>1, <5>2, <5>3
      <4> QED
        BY <4>1, <4>2
    <3> QED
      BY <1>1, <3>1, <3>2, <3>3 DEF IsDescending
  <2> QED
    BY <2>1, <2>2
<1>13. skip + Limit < n => skip + Limit <= (l + d) + out
  BY <1>6, <1>7
<1> QED
  BY <1>1, <1>2, <1>4, <1>5, <1>11, <1>12, <1>13 DEF TrueRows

LEMMA ReceivedKeeps ==
    ASSUME ListInvariant, NEW f \in fetches, Received(f)
    PROVE  ListInvariant'
<1>1. /\ Show(f, f.answer, FALSE) /\ store' = f.answer
      /\ UNCHANGED <<live, status, filter, debounce, dialog, edited, listMoves>> /\ f.served
  BY DEF Received
<1>2. /\ f \in FetchRecords /\ f.page \in Nat \ {0} /\ f.append \in BOOLEAN /\ f.filter \in Filters
      /\ f.answer \in PageAnswers
  BY DEF ListInvariant, ListTypes, FetchRecords
<1>3. FALSE \in BOOLEAN
  OBVIOUS
<1>4. PICK a \in PageAnswers : a = f.answer
  BY <1>2
<1>5. /\ ListTypes' /\ FetchesAreClean'
      /\ f.append => reopens' = reopens
      /\ ~f.append => \A q \in reopens' : ~q.attached
  BY <1>1, <1>2, <1>3, <1>4, ShowKeeps, Zenon
<1>6. /\ listPage' = f.page /\ total' = a.total
      /\ ~f.append => listRows' = a.data /\ shown' = f.filter /\ taken' = 0 /\ gap' = 0
      /\ f.append => listRows' = listRows \o a.data /\ shown' = shown /\ taken' = taken /\ gap' = taken
      /\ ~mixed' => f.clean /\ (f.append => ~mixed /\ f.filter = shown)
  <2>1. /\ listPage' = f.page /\ total' = a.total
        /\ ~f.append => listRows' = a.data /\ shown' = f.filter /\ taken' = 0 /\ gap' = 0
        /\ f.append => listRows' = listRows \o a.data /\ shown' = shown /\ taken' = taken /\ gap' = taken
    BY <1>1, <1>4 DEF Show
  <2>2. mixed' = (FALSE \/ ~f.clean \/ (f.append /\ (mixed \/ f.filter # shown)))
    BY <1>1 DEF Show
  <2>3. ~mixed' => f.clean /\ (f.append => ~mixed /\ f.filter = shown)
    BY <2>2
  <2> QED
    BY <2>1, <2>3
<1>7. AllListed' = AllListed /\ status' = status /\ live' = live
  BY <1>1, SameAnswers
<1>8. listRows \in Seq(Row) /\ a.data \in Seq(Row) /\ Limit \in Nat /\ total \in Nat /\ listPage \in Nat
  <2>1. MaxRecord \in Nat /\ Limit \in Nat
    BY ListAssumption
  <2> QED
    BY <2>1 DEF ListInvariant, ListTypes, PageAnswers
<1>9. RowsAreTrue'
  <2> SUFFICES ASSUME ~mixed'
               PROVE  /\ TrueRows(listRows', AllListed[shown'], total', status, gap', listPage' * Limit)
                      /\ listPage' * Limit < total' => listPage' * Limit <= Len(listRows') + taken'
    BY <1>7 DEF RowsAreTrue
  <2>1. f.clean /\ (f.append => ~mixed /\ f.filter = shown)
    BY <1>6
  <2>2. PICK h \in Filters : h = f.filter
    BY <1>2
  <2>3. PICK p \in Nat \ {0} : p = f.page
    BY <1>2
  <2>4. a = PageOf(h, p)
    <3>1. f.answer = AllPages[f.filter][f.page]
      BY <1>1, <2>1 DEF ListInvariant, FetchesAreClean
    <3> QED
      BY <1>4, <2>2, <2>3, <3>1, AnswersAre
  <2>5. PICK all : all = Listed(h)
    OBVIOUS
  <2>6. PICK skip \in Nat : skip = Skip(p) /\ skip + Limit = p * Limit
    BY SkipIs
  <2>7. /\ a.total = Len(all) /\ Len(all) \in Nat
        /\ Len(a.data) = PageSize(Len(all), skip) /\ ContinueRows(a.data, all, skip, status)
    <3>1. status \in [ListedRecords -> {"DRAFT", "COMPLETED"}] /\ skip = Skip(p)
      BY <2>6 DEF ListInvariant, ListTypes
    <3>2. /\ a \in PageAnswers /\ a.total = Len(all) /\ Len(all) \in Nat
          /\ Len(a.data) = IF skip + Limit < Len(all) THEN Limit
                           ELSE IF skip < Len(all) THEN Len(all) - skip ELSE 0
          /\ \A i \in DOMAIN a.data : /\ skip + i \in DOMAIN all
                                      /\ a.data[i].id = all[skip + i]
                                      /\ a.data[i].status = status[a.data[i].id]
      BY <2>4, <2>5, <3>1, PageAnswerIs
    <3> QED
      BY <3>2 DEF PageSize, ContinueRows
  <2>8. AllListed[h] = all
    BY <2>5, AnswersAre
  <2>9. DOMAIN all = 1 .. Len(all) /\ IsDescending(all) /\ \A i \in DOMAIN all : all[i] \in Nat
    BY <2>5, ListedInOrder
  <2>10. CASE ~f.append
    <3>1. p = 1 /\ skip = 0 /\ p * Limit = Limit
      <4>1. p = 1
        BY <2>3, <2>10 DEF ListInvariant, FetchesAreClean
      <4>2. skip = 0
        BY <2>6, <4>1, SkipIs
      <4> QED
        BY <1>8, <2>6, <4>1, <4>2
    <3>2. PICK data \in Seq(Row) : data = a.data
      BY <1>8
    <3>3. Len(data) = PageSize(Len(all), 0) /\ ContinueRows(data, all, 0, status)
      BY <2>7, <3>1, <3>2
    <3>4. /\ TrueRows(data, all, Len(all), status, 0, Limit)
          /\ Limit < Len(all) => Limit <= Len(data)
      BY <2>7, <2>9, <3>3, FirstPage
    <3>5. listRows' = data /\ shown' = h /\ total' = Len(all) /\ listPage' = p /\ taken' = 0 /\ gap' = 0
      BY <1>6, <2>2, <2>3, <2>7, <2>10, <3>2
    <3>6. Len(data) + 0 = Len(data)
      BY <3>2, LenProperties
    <3> QED
      BY <2>8, <3>1, <3>4, <3>5, <3>6
  <2>11. CASE f.append
    <3>1. p = listPage + 1
      BY <2>1, <2>3, <2>11 DEF ListInvariant, FetchesAreClean
    <3>2. skip = listPage * Limit
      <4>1. PICK n \in Nat \ {0} : n = listPage
        BY DEF ListInvariant, ListTypes
      <4>2. Skip(n + 1) = n * Limit
        BY SkipIs
      <4> QED
        BY <2>6, <3>1, <4>1, <4>2
    <3>3. /\ TrueRows(listRows, all, Len(all), status, gap, skip) /\ total = Len(all)
          /\ skip < Len(all) => skip <= Len(listRows) + taken
      <4>1. /\ TrueRows(listRows, AllListed[shown], total, status, gap, listPage * Limit)
            /\ listPage * Limit < total => listPage * Limit <= Len(listRows) + taken
        BY <2>1, <2>11 DEF ListInvariant, RowsAreTrue
      <4>2. AllListed[shown] = all
        BY <2>1, <2>2, <2>8, <2>11
      <4>3. total = Len(all)
        BY <4>1, <4>2 DEF TrueRows
      <4> QED
        BY <3>2, <4>1, <4>2, <4>3
    <3>4. PICK data \in Seq(Row) : data = a.data
      BY <1>8
    <3>5. PICK rows \in Seq(Row) : rows = listRows
      BY <1>8
    <3>6. PICK out \in Nat : out = taken
      BY DEF ListInvariant, ListTypes
    <3>7. PICK skipped \in Nat : skipped = gap /\ skipped <= out
      BY <3>6 DEF ListInvariant, ListTypes
    <3>8. /\ Len(data) = PageSize(Len(all), skip) /\ ContinueRows(data, all, skip, status)
          /\ TrueRows(rows, all, Len(all), status, skipped, skip)
          /\ skip < Len(all) => skip <= Len(rows) + out
      BY <2>7, <3>3, <3>4, <3>5, <3>6, <3>7
    <3>9. /\ TrueRows(rows \o data, all, Len(all), status, out, skip + Limit)
          /\ skip + Limit < Len(all) => skip + Limit <= Len(rows \o data) + out
      BY <2>7, <2>9, <3>7, <3>8, NextPage
    <3>10. /\ listRows' = rows \o data /\ shown' = h /\ total' = Len(all) /\ listPage' = p
           /\ taken' = out /\ gap' = out
      BY <1>6, <2>1, <2>2, <2>3, <2>7, <2>11, <3>4, <3>5, <3>6
    <3> QED
      BY <2>6, <2>8, <3>9, <3>10
  <2> QED
    BY <1>2, <2>10, <2>11
<1>10. ReopensHaveRows'
  <2> SUFFICES ASSUME ~mixed', NEW q \in reopens', q.attached, q.id \in live, status[q.id] = "COMPLETED"
               PROVE  \E i \in DOMAIN listRows' : listRows'[i].id = q.id
    BY <1>7 DEF ReopensHaveRows
  <2>1. f.append /\ q \in reopens /\ ~mixed
    BY <1>5, <1>6
  <2>2. PICK i \in DOMAIN listRows : listRows[i].id = q.id
    BY <2>1 DEF ListInvariant, ReopensHaveRows
  <2>3. i \in DOMAIN (listRows \o a.data) /\ (listRows \o a.data)[i] = listRows[i]
    <3>1. PICK rows \in Seq(Row) : rows = listRows
      BY <1>8
    <3>2. PICK data \in Seq(Row) : data = a.data
      BY <1>8
    <3>3. i \in DOMAIN (rows \o data) /\ (rows \o data)[i] = rows[i]
      BY <3>1, <2>2, ConcatProperties, LenProperties
    <3> QED
      BY <3>1, <3>2, <3>3
  <2> QED
    BY <1>6, <2>1, <2>2, <2>3
<1> QED
  BY <1>5, <1>9, <1>10 DEF ListInvariant

\* No record has two rows, and every row is of a record that is listed.
LEMMA RowsDiffer ==
    ASSUME NEW S \in SUBSET ListedRecords, NEW rows \in Seq(Row), NEW n, NEW st,
           NEW skipped, NEW last, TrueRows(rows, Descending(S), n, st, skipped, last)
    PROVE  /\ n = Cardinality(S) /\ n \in 0 .. MaxRecord
           /\ \A i \in DOMAIN rows : rows[i].id \in S /\ rows[i].id \in Nat
           /\ \A i, j \in DOMAIN rows : i # j => rows[i].id # rows[j].id
<1>1. PICK m \in Nat : m = Cardinality(S)
  BY NewestFirst
<1>2. PICK all : all = Descending(S)
  OBVIOUS
<1>3. all \in [1 .. m -> S] /\ Len(all) = m /\ m <= MaxRecord /\ S \in SUBSET Nat
  BY <1>1, <1>2, NewestFirst
<1>4. n = m /\ \A i \in DOMAIN rows : \E j \in DOMAIN all : rows[i].id = all[j]
  BY <1>2, <1>3 DEF TrueRows, PlacedRow
<1>5. \A i \in DOMAIN rows : rows[i].id \in S /\ rows[i].id \in Nat
  BY <1>3, <1>4
<1>6. DOMAIN rows = 1 .. Len(rows) /\ Len(rows) \in Nat
  BY LenProperties
<1>7. ASSUME NEW i \in DOMAIN rows, NEW j \in DOMAIN rows, i # j PROVE rows[i].id # rows[j].id
  <2>1. i < j \/ j < i
    BY <1>6, <1>7
  <2>2. rows[i].id > rows[j].id \/ rows[j].id > rows[i].id
    BY <2>1 DEF TrueRows
  <2> QED
    BY <1>5, <2>2
<1>8. m \in 0 .. MaxRecord
  BY <1>3, ListAssumption
<1> QED
  BY <1>1, <1>4, <1>5, <1>7, <1>8

\* The rows but one have the same status in both.
AgreeBut(rows, e, st, new) == \A i \in DOMAIN rows : i # e => new[rows[i].id] = st[rows[i].id]

\* The i-th row has a place in the list that is left, and there is where it has to be.
StaysAt(rows, i, e, r, j, skipped, last) ==
    /\ r[j] = rows[i].id /\ j <= last
    /\ i < e => i <= j /\ j <= i + skipped
    /\ e < i => i - 1 <= j /\ j <= (i - 1) + skipped

\* The other rows are left, and are the rows of what is left of the list.
OneRowLess(S, rows, n, new, skipped, last, e) ==
    /\ n \in Nat \ {0} /\ RemoveAt(rows, e) \in Seq(Row) /\ Len(RemoveAt(rows, e)) = Len(rows) - 1
    /\ \A k \in DOMAIN RemoveAt(rows, e) :
         \E i \in DOMAIN rows : i # e /\ RemoveAt(rows, e)[k] = rows[i]
    /\ \A i \in DOMAIN rows : i # e =>
         \E k \in DOMAIN RemoveAt(rows, e) : RemoveAt(rows, e)[k] = rows[i]
    /\ TrueRows(RemoveAt(rows, e), Descending(S \ {rows[e].id}), n - 1, new, skipped, last)

\* A record that leaves the list takes its row along; the others stay as they are listed.
LEMMA RowLeaves ==
    ASSUME NEW S \in SUBSET ListedRecords, NEW rows \in Seq(Row), NEW n, NEW st, NEW new,
           NEW skipped \in Nat, NEW last \in Nat,
           TrueRows(rows, Descending(S), n, st, skipped, last), NEW e \in DOMAIN rows,
           AgreeBut(rows, e, st, new)
    PROVE  OneRowLess(S, rows, n, new, skipped, last, e)
<1>1. /\ n = Cardinality(S) /\ n \in Nat
      /\ \A i \in DOMAIN rows : rows[i].id \in S /\ rows[i].id \in Nat
  BY RowsDiffer, ListAssumption
<1>2. PICK all : all = Descending(S)
  OBVIOUS
<1>3. PICK w : w = RemoveAt(rows, e)
  OBVIOUS
<1>4. /\ w \in Seq(Row) /\ Len(w) = Len(rows) - 1
      /\ \A k \in 1 .. Len(rows) - 1 : w[k] = IF k < e THEN rows[k] ELSE rows[k + 1]
  BY <1>3, RemoveAtProperties
<1>5. PICK l \in Nat : l = Len(rows)
  BY LenProperties
<1>6. DOMAIN rows = 1 .. l /\ DOMAIN w = 1 .. l - 1 /\ e \in 1 .. l
  BY <1>4, <1>5, LenProperties
<1>7. /\ all \in [1 .. n -> S] /\ Len(all) = n /\ S \in SUBSET Nat
      /\ \A i, j \in 1 .. n : i < j => all[i] > all[j]
  BY <1>1, <1>2, NewestFirst
<1>8. ASSUME NEW i \in DOMAIN rows
      PROVE  \E j \in 1 .. n : i <= j /\ j <= i + skipped /\ j <= last /\ rows[i].id = all[j]
  BY <1>2, <1>7 DEF TrueRows, PlacedRow
<1>9. PICK at \in 1 .. n : rows[e].id = all[at]
  BY <1>8
<1>10. PICK r : r = Descending(S \ {all[at]})
  OBVIOUS
<1>11. Len(r) = n - 1 /\ \A k \in 1 .. n - 1 : r[k] = IF k < at THEN all[k] ELSE all[k + 1]
  <2>1. at \in 1 .. Len(all)
    BY <1>7, <1>9
  <2>2. OneOut(all, r, at)
    BY <1>2, <1>10, <2>1, ListedWithout
  <2> QED
    BY <1>7, <2>2 DEF OneOut
<1>12. DOMAIN r = 1 .. n - 1
  <2>1. PICK T \in SUBSET ListedRecords : T = S \ {all[at]}
    OBVIOUS
  <2>2. r \in [1 .. Cardinality(T) -> T] /\ Len(r) = Cardinality(T)
    BY <1>10, <2>1, NewestFirst
  <2> QED
    BY <1>11, <2>2
\* Where a row that stays is in the list that is left.
<1>13. ASSUME NEW i \in DOMAIN rows, i # e
       PROVE  \E j \in 1 .. n - 1 : StaysAt(rows, i, e, r, j, skipped, last)
  <2>1. PICK h \in 1 .. n : i <= h /\ h <= i + skipped /\ h <= last /\ rows[i].id = all[h]
    BY <1>8
  <2>2. CASE i < e
    <3>1. rows[i].id > rows[e].id
      BY <2>2 DEF TrueRows
    <3>2. all[h] > all[at] /\ all[h] \in Nat /\ all[at] \in Nat
      BY <1>7, <1>9, <2>1, <3>1
    <3>3. h < at
      <4>1. SUFFICES ASSUME ~(h < at) PROVE FALSE
        OBVIOUS
      <4>2. CASE h = at
        BY <3>2, <4>2
      <4>3. CASE at < h
        <5>1. all[at] > all[h]
          BY <1>7, <4>3
        <5> QED
          BY <3>2, <5>1
      <4> QED
        BY <4>1, <4>2, <4>3
    <3>4. h \in 1 .. n - 1 /\ r[h] = rows[i].id
      BY <1>1, <1>11, <2>1, <3>3
    <3> QED
      BY <1>6, <2>1, <2>2, <3>4 DEF StaysAt
  <2>3. CASE e < i
    <3>1. rows[e].id > rows[i].id
      BY <2>3 DEF TrueRows
    <3>2. all[at] > all[h] /\ all[h] \in Nat /\ all[at] \in Nat
      BY <1>7, <1>9, <2>1, <3>1
    <3>3. at < h
      <4>1. SUFFICES ASSUME ~(at < h) PROVE FALSE
        OBVIOUS
      <4>2. CASE h = at
        BY <3>2, <4>2
      <4>3. CASE h < at
        <5>1. all[h] > all[at]
          BY <1>7, <4>3
        <5> QED
          BY <3>2, <5>1
      <4> QED
        BY <4>1, <4>2, <4>3
    <3>4. PICK j \in 1 .. n - 1 : j = h - 1 /\ j + 1 = h /\ ~(j < at)
      <4>1. h - 1 \in 1 .. n - 1 /\ (h - 1) + 1 = h /\ ~(h - 1 < at)
        BY <1>1, <3>3
      <4> QED
        BY <4>1
    <3>5. r[j] = rows[i].id
      BY <1>11, <2>1, <3>4
    <3>6. i - 1 <= j /\ j <= (i - 1) + skipped /\ j <= last
      BY <1>6, <2>1, <3>4
    <3>7. ~(i < e)
      BY <1>6, <2>3
    <3> QED
      BY <3>5, <3>6, <3>7 DEF StaysAt
  <2> QED
    BY <1>6, <1>13, <2>2, <2>3
\* The row that each row is.
<1>14. ASSUME NEW k \in DOMAIN w
       PROVE  LET i == IF k < e THEN k ELSE k + 1
              IN i \in DOMAIN rows /\ i # e /\ w[k] = rows[i] /\ (i < e => k = i) /\ (e < i => k = i - 1)
  <2>1. k \in 1 .. l - 1
    BY <1>6
  <2>2. CASE k < e
    BY <1>4, <1>5, <1>6, <2>1, <2>2
  <2>3. CASE ~(k < e)
    <3>1. k + 1 \in 1 .. l /\ k + 1 # e /\ ~(k + 1 < e) /\ k = (k + 1) - 1
      BY <1>6, <2>1, <2>3
    <3> QED
      BY <1>4, <1>5, <1>6, <2>1, <2>3, <3>1
  <2> QED
    BY <2>2, <2>3
<1>15. \A k \in DOMAIN w : \E i \in DOMAIN rows : i # e /\ w[k] = rows[i]
  BY <1>14
<1>16. ASSUME NEW i \in DOMAIN rows, i # e
       PROVE  \E k \in DOMAIN w : w[k] = rows[i]
  <2>1. CASE i < e
    <3>1. i \in DOMAIN w
      BY <1>6, <2>1
    <3> QED
      BY <1>4, <1>5, <1>6, <2>1, <3>1
  <2>2. CASE e < i
    <3>1. PICK k \in 1 .. l - 1 : k + 1 = i /\ ~(k < e)
      <4>1. i - 1 \in 1 .. l - 1 /\ (i - 1) + 1 = i /\ ~(i - 1 < e)
        BY <1>6, <2>2
      <4> QED
        BY <4>1
    <3> QED
      BY <1>4, <1>5, <1>6, <3>1
  <2> QED
    BY <1>6, <1>16, <2>1, <2>2
<1>17. ASSUME NEW k \in DOMAIN w
       PROVE  PlacedRow(w, k, r, skipped, last) /\ w[k].status = new[w[k].id]
  <2>1. PICK i \in DOMAIN rows : i # e /\ w[k] = rows[i] /\ (i < e => k = i) /\ (e < i => k = i - 1)
    BY <1>14
  <2>2. i < e \/ e < i
    BY <1>6, <2>1
  <2>3. PICK j \in 1 .. n - 1 : StaysAt(rows, i, e, r, j, skipped, last)
    BY <1>13, <2>1
  <2>4. k <= j /\ j <= k + skipped
    BY <2>1, <2>2, <2>3 DEF StaysAt
  <2>5. PlacedRow(w, k, r, skipped, last)
    BY <1>12, <2>1, <2>3, <2>4 DEF PlacedRow, StaysAt
  <2>6. rows[i].status = st[rows[i].id]
    BY DEF TrueRows
  <2> QED
    BY <2>1, <2>5, <2>6 DEF AgreeBut
<1>18. ASSUME NEW i \in DOMAIN w, NEW k \in DOMAIN w, i < k
       PROVE  w[i].id > w[k].id
  <2>1. PICK a \in DOMAIN rows : a = (IF i < e THEN i ELSE i + 1) /\ w[i] = rows[a]
    BY <1>14
  <2>2. PICK b \in DOMAIN rows : b = (IF k < e THEN k ELSE k + 1) /\ w[k] = rows[b]
    BY <1>14
  <2>3. a < b
    BY <1>6, <1>18, <2>1, <2>2
  <2> QED
    BY <2>1, <2>2, <2>3 DEF TrueRows
<1>19. TrueRows(w, r, n - 1, new, skipped, last)
  BY <1>11, <1>17, <1>18 DEF TrueRows
<1>20. n \in Nat \ {0}
  BY <1>1, <1>9
<1> QED
  BY <1>3, <1>4, <1>9, <1>10, <1>15, <1>16, <1>19, <1>20 DEF OneRowLess

LEMMA NextListed ==
    AllListed' = [f \in Filters |->
                    Descending({r \in ListedRecords : /\ r \in live' /\ (status'[r] # "DRAFT" \/ r \in Mine)
                                                      /\ f \in {"ALL", status'[r]}})]
BY DEF AllListed, Listed, Visible

\* Whatever rows become of the store's array.
LEMMA StoreKeeps ==
    ASSUME store \in PageAnswers, NEW rows \in Seq(Row), NEW same \in BOOLEAN, NEW others \in Seq(Row)
    PROVE  /\ [store EXCEPT !.data = IF same THEN rows ELSE @] \in PageAnswers
           /\ [store EXCEPT !.data = IF same THEN rows ELSE others] \in PageAnswers
BY DEF PageAnswers

LEMMA DeletedKeeps ==
    ASSUME ListInvariant, NEW d \in deletes, Deleted(d)
    PROVE  ListInvariant'
<1> DEFINE e == edited.index
<1>1. /\ UNCHANGED <<status, listPage, loadingMore, shown, gap, filter, debounce, edited, reopening, reopens, listMoves>>
      /\ live' = live \ {d.id} /\ listRows' = TakenOut(e) /\ total' = Lowered /\ dialog' = FALSE
      /\ fetches' = Crossed(fetches) /\ taken' = taken + 1
      /\ store' = [store EXCEPT !.data = IF StoreIsList THEN listRows' ELSE @]
  BY DEF Deleted, reopened
<1>2. ~mixed' => ~mixed /\ e \in DOMAIN listRows /\ listRows[e].id = d.id
  <2>1. mixed' = (mixed \/ ~(e \in DOMAIN listRows /\ listRows[e].id = d.id))
    BY DEF Deleted
  <2> QED
    BY <2>1
<1>3. mixed' \in BOOLEAN
  BY DEF Deleted
<1>4. listRows \in Seq(Row) /\ total \in 0 .. MaxRecord /\ MaxRecord \in Nat /\ shown \in Filters
  BY ListAssumption DEF ListInvariant, ListTypes
<1>5. listRows' \in Seq(Row) /\ total' \in 0 .. MaxRecord
  <2>1. total' \in 0 .. MaxRecord
    BY <1>1, <1>4 DEF Lowered
  <2> QED
    BY <1>1, <1>4, <2>1, RemoveAtProperties DEF TakenOut
<1>6. /\ fetches' \subseteq FetchRecords
      /\ \A g \in fetches' : ~g.clean /\ (~g.append => g.page = 1)
  <2>1. fetches \in SUBSET FetchRecords /\ \A f \in fetches : ~f.append => f.page = 1
    BY DEF ListInvariant, ListTypes, FetchesAreClean
  <2> QED
    BY <1>1, <2>1, CrossedIs
<1>7. ListTypes'
  <2>1. store' \in PageAnswers
    BY <1>1, <1>5, StoreKeeps DEF ListInvariant, ListTypes
  <2>2. taken' \in Nat /\ gap' \in Nat /\ gap' <= taken'
    <3>1. taken \in Nat /\ gap \in Nat /\ gap <= taken
      BY DEF ListInvariant, ListTypes
    <3> QED
      BY <1>1, <3>1
  <2> QED
    BY <1>1, <1>3, <1>5, <1>6, <2>1, <2>2 DEF ListInvariant, ListTypes
<1>8. FetchesAreClean'
  BY <1>6 DEF FetchesAreClean
<1>9. ASSUME ~mixed'
      PROVE  /\ TrueRows(listRows', AllListed'[shown], total', status, gap, listPage * Limit)
             /\ listPage * Limit < total' => listPage * Limit <= Len(listRows') + taken'
             /\ \A i \in DOMAIN listRows : i # e => \E k \in DOMAIN listRows' : listRows'[k] = listRows[i]
  <2>1. ~mixed /\ e \in DOMAIN listRows /\ listRows[e].id = d.id
    BY <1>2, <1>9
  <2>2. PICK S \in SUBSET ListedRecords : S = Matches(shown)
    BY ListedIs
  <2>3. /\ TrueRows(listRows, Descending(S), total, status, gap, listPage * Limit)
        /\ listPage * Limit < total => listPage * Limit <= Len(listRows) + taken
    <3>1. AllListed[shown] = Descending(S)
      BY <1>4, <2>2, ListedIs DEF AllListed
    <3> QED
      BY <2>1, <3>1 DEF ListInvariant, RowsAreTrue
  <2>a. PICK skipped \in Nat : skipped = gap
    BY DEF ListInvariant, ListTypes
  <2>b. PICK last \in Nat : last = listPage * Limit
    <3>1. listPage \in Nat /\ Limit \in Nat
      BY ListAssumption DEF ListInvariant, ListTypes
    <3> QED
      BY <3>1
  <2>4. PICK rows \in Seq(Row) : rows = listRows
    BY <1>4
  <2>5. PICK at \in DOMAIN rows : at = e
    BY <2>1, <2>4
  <2> HIDE DEF e
  <2>6. /\ total \in Nat \ {0}
        /\ \A i \in DOMAIN rows : i # at =>
             \E k \in DOMAIN RemoveAt(rows, at) : RemoveAt(rows, at)[k] = rows[i]
        /\ Len(RemoveAt(rows, at)) = Len(rows) - 1
        /\ TrueRows(RemoveAt(rows, at), Descending(S \ {rows[at].id}), total - 1, status, skipped, last)
    <3>a. PICK new : new = status
      OBVIOUS
    <3>0. AgreeBut(rows, at, status, new)
      BY <3>a DEF AgreeBut
    <3>1. TrueRows(rows, Descending(S), total, status, skipped, last)
      BY <2>3, <2>4, <2>a, <2>b
    <3>2. OneRowLess(S, rows, total, new, skipped, last, at)
      BY <2>2, <2>4, <2>5, <2>a, <2>b, <3>0, <3>1, RowLeaves, Zenon
    <3> QED
      BY <3>2, <3>a DEF OneRowLess
  <2>7. listRows' = RemoveAt(rows, at) /\ total' = total - 1
    BY <1>1, <2>1, <2>4, <2>5, <2>6 DEF TakenOut, Lowered
  <2>8. AllListed'[shown] = Descending(S \ {d.id})
    <3>1. {r \in ListedRecords : /\ r \in live' /\ (status'[r] # "DRAFT" \/ r \in Mine)
                                 /\ shown \in {"ALL", status'[r]}} = S \ {d.id}
      BY <1>1, <2>2 DEF Matches, Visible
    <3> QED
      BY <1>4, <3>1, NextListed
  <2>9. rows[at].id = d.id
    BY <2>1, <2>4, <2>5
  <2>10. last < total - 1 => last <= Len(listRows') + taken'
    <3>1. Len(rows) \in Nat /\ taken \in Nat /\ total \in Nat
      BY <1>4, LenProperties DEF ListInvariant, ListTypes
    <3>2. last < total => last <= Len(rows) + taken
      BY <2>3, <2>4, <2>b
    <3>3. Len(listRows') = Len(rows) - 1 /\ taken' = taken + 1
      BY <1>1, <2>6, <2>7
    <3> QED
      BY <3>1, <3>2, <3>3
  <2> QED
    BY <2>4, <2>5, <2>6, <2>7, <2>8, <2>9, <2>10, <2>a, <2>b
<1>10. RowsAreTrue'
  BY <1>1, <1>9 DEF RowsAreTrue
<1>11. ReopensHaveRows'
  <2> SUFFICES ASSUME ~mixed', NEW q \in reopens', q.attached, q.id \in live', status[q.id] = "COMPLETED"
               PROVE  \E k \in DOMAIN listRows' : listRows'[k].id = q.id
    BY <1>1 DEF ListInvariant, ReopensHaveRows
  <2>1. ~mixed /\ q \in reopens /\ q.id \in live /\ q.id # d.id /\ listRows[e].id = d.id
    BY <1>1, <1>2
  <2>2. PICK i \in DOMAIN listRows : listRows[i].id = q.id
    BY <2>1 DEF ListInvariant, ReopensHaveRows
  <2>3. i # e
    BY <2>1, <2>2
  <2>4. PICK k \in DOMAIN listRows' : listRows'[k] = listRows[i]
    BY <1>9, <2>3
  <2> QED
    BY <2>2, <2>4
<1> QED
  BY <1>7, <1>8, <1>10, <1>11 DEF ListInvariant

\* Under the filter COMPLETED a row of the record leaves the list, if there is one.
LEMMA WithoutReopenedIs ==
    ASSUME NEW rows \in Seq(Row), rows = listRows, NEW r, NEW left, left = WithoutReopened(r)
    PROVE  /\ left \in Seq(Row)
           /\ \/ left = rows /\ (filter = "COMPLETED" => \A i \in DOMAIN rows : rows[i].id # r)
              \/ /\ filter = "COMPLETED"
                 /\ \E i \in DOMAIN rows : rows[i].id = r /\ left = RemoveAt(rows, i)
<1> DEFINE I == {i \in 1 .. Len(rows) : rows[i].id = r}
           first == SelectInSeq(rows, LAMBDA row : row.id = r)
<1>1. DOMAIN rows = 1 .. Len(rows) /\ I \in SUBSET Nat /\ 0 \notin I
  BY LenProperties
<1>2. first = IF I # {} THEN Min(I) ELSE 0
  BY DEF SelectInSeq
<1>3. left = IF filter = "COMPLETED" /\ first # 0 THEN RemoveAt(rows, first) ELSE rows
  BY DEF WithoutReopened
<1>4. I # {} => Min(I) \in I
  <2> HIDE DEF I
  <2> SUFFICES ASSUME I # {} PROVE Min(I) \in I
    OBVIOUS
  <2>1. \E k \in I : \A j \in I : k <= j
    BY <1>1, LeastNumber
  <2> QED
    BY <2>1 DEF Min
<1>5. \A i \in DOMAIN rows : rows[i].id = r <=> i \in I
  BY <1>1
<1> HIDE DEF I, first
<1>6. I \subseteq DOMAIN rows
  BY <1>1 DEF I
<1>7. CASE I = {}
  <2>1. left = rows
    BY <1>2, <1>3, <1>7
  <2> QED
    BY <1>5, <1>7, <2>1
<1>8. CASE I # {}
  <2>1. first \in I /\ first # 0
    BY <1>1, <1>2, <1>4, <1>8
  <2>2. first \in DOMAIN rows /\ rows[first].id = r
    BY <1>5, <1>6, <2>1
  <2>3. RemoveAt(rows, first) \in Seq(Row)
    BY <2>2, RemoveAtProperties
  <2> QED
    BY <1>3, <2>1, <2>2, <2>3
<1> QED
  BY <1>7, <1>8

LEMMA AssignedIs ==
    ASSUME NEW rows \in Seq(Row), NEW q
    PROVE  Assigned(rows, q) \in Seq(Row)
<1>1. PICK l \in Nat : l = Len(rows) /\ DOMAIN rows = 1 .. l
  BY LenProperties
<1>2. ASSUME NEW i \in 1 .. l
      PROVE  (IF rows[i].id = q.id /\ q.attached THEN [rows[i] EXCEPT !.status = "DRAFT"] ELSE rows[i]) \in Row
  <2>1. PICK row \in Row : row = rows[i]
    BY <1>1, ElementOfSeq
  <2>2. [row EXCEPT !.status = "DRAFT"] \in Row
    BY DEF Row
  <2> QED
    BY <2>1, <2>2
<1>3. Assigned(rows, q) \in [1 .. l -> Row]
  BY <1>1, <1>2 DEF Assigned
<1> QED
  BY <1>3, SeqDef

LEMMA ReopenedKeeps ==
    ASSUME ListInvariant, NEW q \in reopens, Reopened(q)
    PROVE  ListInvariant'
<1>1. /\ UNCHANGED <<live, listPage, loadingMore, shown, gap, filter, debounce, dialog, edited, listMoves>>
      /\ q.id \in live /\ status' = [status EXCEPT ![q.id] = "DRAFT"]
      /\ reopens' = reopens \ {q} /\ reopening' = 0 /\ fetches' = Crossed(fetches)
  BY DEF Reopened
<1>2. /\ q.id \in ListedRecords /\ q.attached \in BOOLEAN /\ status \in [ListedRecords -> {"DRAFT", "COMPLETED"}]
      /\ listRows \in Seq(Row) /\ total \in 0 .. MaxRecord /\ MaxRecord \in Nat /\ shown \in Filters
  BY ListAssumption DEF ListInvariant, ListTypes, Reopenings
<1>3. ~mixed' => ~mixed /\ filter = shown /\ shown # "DRAFT" /\ q.id \in Mine /\ q.attached
  <2>1. mixed' = (mixed \/ filter # shown \/ shown = "DRAFT" \/ q.id \notin Mine \/ ~q.attached)
    BY DEF Reopened
  <2> QED
    BY <2>1
<1>4. mixed' \in BOOLEAN
  BY DEF Reopened
<1>5. PICK rows \in Seq(Row) : rows = listRows
  BY <1>2
<1>6. PICK left : left = WithoutReopened(q.id)
  OBVIOUS
<1>7. /\ left \in Seq(Row)
      /\ \/ left = rows /\ (filter = "COMPLETED" => \A i \in DOMAIN rows : rows[i].id # q.id)
         \/ /\ filter = "COMPLETED"
            /\ \E i \in DOMAIN rows : rows[i].id = q.id /\ left = RemoveAt(rows, i)
  BY <1>5, <1>6, WithoutReopenedIs
<1>8. PICK m \in Nat : m = Len(left) /\ DOMAIN left = 1 .. m
  BY <1>7, LenProperties
<1>9. listRows' = [i \in DOMAIN left |->
                     IF left[i].id = q.id /\ q.attached THEN [left[i] EXCEPT !.status = "DRAFT"] ELSE left[i]]
  BY <1>6 DEF Reopened, Assigned
<1>10. \A i \in DOMAIN left :
         /\ left[i] \in Row /\ listRows'[i] \in Row /\ listRows'[i].id = left[i].id
         /\ left[i].id # q.id => listRows'[i] = left[i]
         /\ left[i].id = q.id /\ q.attached => listRows'[i].status = "DRAFT"
  <2> SUFFICES ASSUME NEW i \in DOMAIN left
               PROVE  /\ left[i] \in Row /\ listRows'[i] \in Row /\ listRows'[i].id = left[i].id
                      /\ left[i].id # q.id => listRows'[i] = left[i]
                      /\ left[i].id = q.id /\ q.attached => listRows'[i].status = "DRAFT"
    OBVIOUS
  <2>1. PICK row \in Row : row = left[i]
    BY <1>7, LenProperties, ElementOfSeq
  <2>2. listRows'[i] = IF row.id = q.id /\ q.attached THEN [row EXCEPT !.status = "DRAFT"] ELSE row
    BY <1>9, <2>1
  <2>3. /\ [row EXCEPT !.status = "DRAFT"] \in Row /\ [row EXCEPT !.status = "DRAFT"].id = row.id
        /\ [row EXCEPT !.status = "DRAFT"].status = "DRAFT"
    BY DEF Row
  <2> QED
    BY <2>1, <2>2, <2>3
<1>11. DOMAIN listRows' = DOMAIN left /\ listRows' \in Seq(Row) /\ Len(listRows') = m
  <2>1. DOMAIN listRows' = 1 .. m
    BY <1>8, <1>9
  <2>2. listRows' \in [1 .. m -> Row]
    BY <1>8, <1>9, <1>10
  <2>3. listRows' \in Seq(Row)
    BY <2>2, SeqDef
  <2> QED
    BY <1>8, <2>1, <2>3, LenProperties
<1>12. total' = (IF m < Len(rows) THEN Lowered ELSE total) /\ taken' = IF m < Len(rows) THEN taken + 1 ELSE taken
  BY <1>5, <1>11 DEF Reopened
<1>13. total' \in 0 .. MaxRecord
  BY <1>2, <1>12 DEF Lowered
<1>14. /\ fetches' \subseteq FetchRecords
       /\ \A g \in fetches' : ~g.clean /\ (~g.append => g.page = 1)
  <2>1. fetches \in SUBSET FetchRecords /\ \A f \in fetches : ~f.append => f.page = 1
    BY DEF ListInvariant, ListTypes, FetchesAreClean
  <2> QED
    BY <1>1, <2>1, CrossedIs
<1>15. status' \in [ListedRecords -> {"DRAFT", "COMPLETED"}]
  BY <1>1, <1>2
<1>16. ListTypes'
  <2>1. store' \in PageAnswers
    <3>1. store.data \in Seq(Row) /\ store \in PageAnswers
      BY DEF ListInvariant, ListTypes, PageAnswers
    <3>2. Assigned(store.data, q) \in Seq(Row)
      BY <3>1, AssignedIs
    <3>3. store' = [store EXCEPT !.data = IF StoreIsList THEN listRows' ELSE Assigned(store.data, q)]
      BY DEF Reopened
    <3>4. StoreIsList \in BOOLEAN
      BY DEF StoreIsList
    <3> QED
      BY <1>11, <3>1, <3>2, <3>3, <3>4, StoreKeeps
  <2>2. taken' \in Nat /\ gap' \in Nat /\ gap' <= taken'
    <3>1. taken \in Nat /\ gap \in Nat /\ gap <= taken
      BY DEF ListInvariant, ListTypes
    <3> QED
      BY <1>1, <1>12, <3>1
  <2>3. reopens' \subseteq Reopenings /\ reopening' \in {0} \cup ListedRecords
    BY <1>1 DEF ListInvariant, ListTypes
  <2> QED
    BY <1>1, <1>4, <1>11, <1>13, <1>14, <1>15, <2>1, <2>2, <2>3 DEF ListInvariant, ListTypes
<1>17. FetchesAreClean'
  BY <1>14 DEF FetchesAreClean
<1>18. PICK S \in SUBSET ListedRecords : S = Matches(shown)
  BY ListedIs
<1>a. PICK skipped \in Nat : skipped = gap
  BY DEF ListInvariant, ListTypes
<1>b. PICK last \in Nat : last = listPage * Limit
  <2>1. listPage \in Nat /\ Limit \in Nat
    BY ListAssumption DEF ListInvariant, ListTypes
  <2> QED
    BY <2>1
<1>19. ~mixed => TrueRows(rows, Descending(S), total, status, skipped, last)
  <2>1. AllListed[shown] = Descending(S)
    BY <1>2, <1>18, ListedIs DEF AllListed
  <2> QED
    BY <1>5, <1>a, <1>b, <2>1 DEF ListInvariant, RowsAreTrue
<1>20. ASSUME ~mixed, NEW i \in DOMAIN rows, rows[i].id = q.id
       PROVE  AgreeBut(rows, i, status, status')
  <2> SUFFICES ASSUME NEW j \in DOMAIN rows, j # i PROVE status'[rows[j].id] = status[rows[j].id]
    BY DEF AgreeBut
  <2>1. TrueRows(rows, Descending(S), total, status, skipped, last)
    BY <1>19, <1>20
  <2>2. rows[j].id # rows[i].id
    BY <2>1, RowsDiffer
  <2> QED
    BY <1>1, <1>2, <1>20, <2>2
<1>21. ASSUME ~mixed'
       PROVE  /\ TrueRows(listRows', AllListed'[shown], total', status', skipped, last)
              /\ \/ total' = total /\ taken' = taken /\ Len(listRows') = Len(rows)
                 \/ total' = total - 1 /\ taken' = taken + 1 /\ Len(listRows') = Len(rows) - 1
              /\ \A i \in DOMAIN rows : rows[i].id # q.id =>
                   \E k \in DOMAIN listRows' : listRows'[k].id = rows[i].id
  <2>1. ~mixed /\ filter = shown /\ shown # "DRAFT" /\ q.id \in Mine /\ q.attached
    BY <1>3, <1>21
  <2>2. TrueRows(rows, Descending(S), total, status, skipped, last)
    BY <1>19, <2>1
  <2>3. CASE shown = "COMPLETED" /\ status[q.id] = "DRAFT"
    <3>1. \A i \in DOMAIN rows : rows[i].id # q.id
      <4>1. q.id \notin S
        BY <1>18, <2>3 DEF Matches
      <4> QED
        BY <2>2, <4>1, RowsDiffer
    <3>2. left = rows
      BY <1>7, <3>1
    <3>3. status' = status
      BY <1>1, <1>2, <2>3
    <3>4. listRows' = rows /\ Len(rows) = m
      <4>1. \A i \in DOMAIN rows : listRows'[i] = rows[i]
        BY <1>10, <3>1, <3>2
      <4>2. listRows' \in [1 .. m -> Row] /\ rows \in [1 .. m -> Row]
        BY <1>8, <1>11, <3>2, LenProperties
      <4> QED
        BY <1>8, <3>2, <4>1, <4>2
    <3>5. total' = total /\ taken' = taken
      BY <1>12, <3>4
    <3>6. AllListed'[shown] = Descending(S)
      <4>1. AllListed' = AllListed
        BY <1>1, <3>3, SameAnswers
      <4> QED
        BY <1>2, <1>18, <4>1, ListedIs DEF AllListed
    <3> QED
      BY <2>2, <3>3, <3>4, <3>5, <3>6
  <2>4. CASE shown = "COMPLETED" /\ status[q.id] = "COMPLETED"
    <3>0. PICK i0 \in DOMAIN rows : rows[i0].id = q.id
      BY <1>1, <1>5, <2>1, <2>4 DEF ListInvariant, ReopensHaveRows
    <3>1. PICK e \in DOMAIN rows : rows[e].id = q.id /\ left = RemoveAt(rows, e)
      BY <1>7, <2>1, <2>4, <3>0
    <3>2. AgreeBut(rows, e, status, status')
      BY <1>20, <2>1, <3>1
    <3>3. PICK new : new = status'
      OBVIOUS
    <3>4. AgreeBut(rows, e, status, new)
      BY <3>2, <3>3
    <3>5. /\ total \in Nat \ {0} /\ Len(left) = Len(rows) - 1
          /\ \A k \in DOMAIN left : \E i \in DOMAIN rows : i # e /\ left[k] = rows[i]
          /\ \A i \in DOMAIN rows : i # e => \E k \in DOMAIN left : left[k] = rows[i]
          /\ TrueRows(left, Descending(S \ {q.id}), total - 1, new, skipped, last)
      <4>1. OneRowLess(S, rows, total, new, skipped, last, e)
        BY <2>2, <3>4, RowLeaves, Zenon
      <4> QED
        BY <3>1, <4>1 DEF OneRowLess
    <3>6. \A k \in DOMAIN left : left[k].id # q.id /\ listRows'[k] = left[k]
      <4>1. \A i, j \in DOMAIN rows : i # j => rows[i].id # rows[j].id
        BY <2>2, RowsDiffer
      <4> QED
        BY <1>10, <3>1, <3>5, <4>1
    <3>7. total' = total - 1 /\ taken' = taken + 1 /\ Len(listRows') = Len(rows) - 1
      <4>1. m < Len(rows) /\ m = Len(rows) - 1
        BY <1>8, <3>5, LenProperties
      <4> QED
        BY <1>11, <1>12, <3>5, <4>1 DEF Lowered
    <3>8. AllListed'[shown] = Descending(S \ {q.id})
      <4>1. {r \in ListedRecords : /\ r \in live' /\ (status'[r] # "DRAFT" \/ r \in Mine)
                                   /\ shown \in {"ALL", status'[r]}} = S \ {q.id}
        BY <1>1, <1>2, <1>18, <2>4 DEF Matches, Visible
      <4> QED
        BY <1>2, <4>1, NextListed
    <3>9. TrueRows(listRows', AllListed'[shown], total', status', skipped, last)
      <4>1. listRows' = left
        <5>1. listRows' \in [1 .. m -> Row] /\ left \in [1 .. m -> Row]
          BY <1>7, <1>8, <1>11, LenProperties
        <5> QED
          BY <1>8, <3>6, <5>1
      <4> QED
        BY <3>3, <3>5, <3>7, <3>8, <4>1
    <3>11. ASSUME NEW i \in DOMAIN rows, rows[i].id # q.id
           PROVE  \E k \in DOMAIN listRows' : listRows'[k].id = rows[i].id
      <4>1. PICK k \in DOMAIN left : left[k] = rows[i]
        BY <3>1, <3>5, <3>11
      <4> QED
        BY <1>10, <1>11, <4>1
    <3> QED
      BY <3>7, <3>9, <3>11
  <2>5. CASE shown = "ALL"
    <3>1. left = rows
      BY <1>7, <2>1, <2>5
    <3>2. Len(rows) = m /\ total' = total /\ taken' = taken
      BY <1>8, <1>12, <3>1
    <3>3. AllListed'[shown] = Descending(S)
      <4>1. {r \in ListedRecords : /\ r \in live' /\ (status'[r] # "DRAFT" \/ r \in Mine)
                                   /\ shown \in {"ALL", status'[r]}} = S
        BY <1>1, <1>2, <1>18, <2>1, <2>5 DEF Matches, Visible
      <4> QED
        BY <1>2, <4>1, NextListed
    <3>4. TrueRows(listRows', Descending(S), total, status', skipped, last)
      <4>1. ASSUME NEW i \in DOMAIN listRows'
            PROVE  /\ PlacedRow(listRows', i, Descending(S), skipped, last)
                   /\ listRows'[i].status = status'[listRows'[i].id]
        <5>1. i \in DOMAIN rows /\ rows[i] \in Row /\ listRows'[i].id = rows[i].id
          BY <1>10, <1>11, <3>1
        <5>2. PlacedRow(rows, i, Descending(S), skipped, last) /\ rows[i].status = status[rows[i].id]
          BY <2>2, <5>1 DEF TrueRows
        <5>3. rows[i].id \in ListedRecords
          BY <5>1 DEF Row
        <5>4. PlacedRow(listRows', i, Descending(S), skipped, last)
          BY <5>1, <5>2 DEF PlacedRow
        <5>5. CASE rows[i].id = q.id
          BY <1>1, <1>2, <1>10, <2>1, <3>1, <5>1, <5>3, <5>4, <5>5
        <5>6. CASE rows[i].id # q.id
          BY <1>1, <1>2, <1>10, <3>1, <5>1, <5>2, <5>3, <5>4, <5>6
        <5> QED
          BY <5>5, <5>6
      <4>2. \A i, k \in DOMAIN listRows' : i < k => listRows'[i].id > listRows'[k].id
        BY <1>10, <1>11, <2>2, <3>1 DEF TrueRows
      <4>3. total = Len(Descending(S))
        BY <2>2 DEF TrueRows
      <4> QED
        BY <4>1, <4>2, <4>3 DEF TrueRows
    <3>6. \A i \in DOMAIN rows : \E k \in DOMAIN listRows' : listRows'[k].id = rows[i].id
      BY <1>10, <1>11, <3>1
    <3> QED
      BY <1>11, <3>2, <3>3, <3>4, <3>6
  <2> QED
    BY <1>2, <2>1, <2>3, <2>4, <2>5 DEF Filters
<1>22. RowsAreTrue'
  <2> SUFFICES ASSUME ~mixed'
               PROVE  /\ TrueRows(listRows', AllListed'[shown], total', status', skipped, last)
                      /\ last < total' => last <= Len(listRows') + taken'
    BY <1>1, <1>a, <1>b DEF RowsAreTrue
  <2>1. last < total => last <= Len(rows) + taken
    BY <1>3, <1>5, <1>b DEF ListInvariant, RowsAreTrue
  <2>2. Len(rows) \in Nat /\ taken \in Nat /\ total \in Nat
    BY <1>2, <1>5, LenProperties DEF ListInvariant, ListTypes
  <2>3. \/ total' = total /\ taken' = taken /\ Len(listRows') = Len(rows)
        \/ total' = total - 1 /\ taken' = taken + 1 /\ Len(listRows') = Len(rows) - 1
    BY <1>21
  <2>4. last < total' => last <= Len(listRows') + taken'
    BY <2>1, <2>2, <2>3
  <2> QED
    BY <1>21, <2>4
<1>23. ReopensHaveRows'
  <2> SUFFICES ASSUME ~mixed', NEW p \in reopens', p.attached, p.id \in live, status'[p.id] = "COMPLETED"
               PROVE  \E k \in DOMAIN listRows' : listRows'[k].id = p.id
    BY <1>1 DEF ReopensHaveRows
  <2>1. ~mixed /\ p \in reopens /\ p.id \in ListedRecords
    BY <1>1, <1>3 DEF ListInvariant, ListTypes, Reopenings
  <2>2. p.id # q.id /\ status[p.id] = "COMPLETED"
    BY <1>1, <1>2, <2>1
  <2>3. PICK i \in DOMAIN rows : rows[i].id = p.id
    BY <1>5, <2>1, <2>2 DEF ListInvariant, ReopensHaveRows
  <2> QED
    BY <1>21, <2>2, <2>3
<1> QED
  BY <1>16, <1>17, <1>22, <1>23 DEF ListInvariant

LEMMA ListInitially == ListInit => ListInvariant
<1> SUFFICES ASSUME ListInit PROVE ListInvariant
  OBVIOUS
<1> DEFINE none == [data |-> <<>>, total |-> 0]
           f == [page |-> 1, append |-> FALSE, filter |-> "ALL", served |-> FALSE, answer |-> none, clean |-> TRUE]
<1>1. /\ live = ListedRecords /\ status \in [ListedRecords -> {"DRAFT", "COMPLETED"}]
      /\ listRows = <<>> /\ total = 0 /\ listPage = 1 /\ filter = "ALL" /\ shown = "ALL"
      /\ debounce = FALSE /\ store = none /\ fetches = {f} /\ loadingMore = FALSE /\ dialog = FALSE
      /\ edited = [index |-> 0, id |-> 0] /\ reopening = 0 /\ reopens = {}
      /\ taken = 0 /\ gap = 0 /\ mixed = TRUE /\ listMoves = 0
  BY DEF ListInit
<1>2. none \in PageAnswers
  <2>1. <<>> \in Seq(Row) /\ 0 \in 0 .. MaxRecord
    BY EmptySeq, ListAssumption
  <2> QED
    BY <2>1 DEF PageAnswers
<1> HIDE DEF none
<1>3. f \in FetchRecords /\ f.append = FALSE /\ f.page = 1 /\ f.served = FALSE
  BY <1>2 DEF FetchRecords, Filters
<1> HIDE DEF f
<1>4. ListTypes
  <2>1. listMoves \in 0 .. MaxListMoves /\ total \in 0 .. MaxRecord /\ edited.index \in Nat
    BY <1>1, ListAssumption
  <2>2. listRows \in Seq(Row)
    BY <1>1, EmptySeq
  <2>3. {filter, shown} \subseteq Filters
    BY <1>1 DEF Filters
  <2>4. debounce \in BOOLEAN /\ loadingMore \in BOOLEAN /\ dialog \in BOOLEAN
    BY <1>1
  <2>5. taken \in Nat /\ gap \in Nat /\ gap <= taken /\ mixed \in BOOLEAN
    BY <1>1
  <2>6. live \subseteq ListedRecords /\ listPage \in Nat \ {0} /\ fetches \subseteq FetchRecords
    BY <1>1, <1>3
  <2>7. status \in [ListedRecords -> {"DRAFT", "COMPLETED"}] /\ store \in PageAnswers
    BY <1>1, <1>2
  <2>8. reopening \in {0} \cup ListedRecords /\ reopens \subseteq Reopenings
    BY <1>1
  <2> QED
    BY <2>1, <2>2, <2>3, <2>4, <2>5, <2>6, <2>7, <2>8 DEF ListTypes
<1>5. FetchesAreClean
  BY <1>1, <1>3 DEF FetchesAreClean
<1> QED
  BY <1>1, <1>4, <1>5 DEF ListInvariant, ReopensHaveRows, RowsAreTrue

LEMMA ListKeeps == ListInvariant /\ [ListNext]_listVars => ListInvariant'
<1> SUFFICES ASSUME ListInvariant, [ListNext]_listVars PROVE ListInvariant'
  OBVIOUS
<1>1. CASE ListUser
  BY <1>1, QuietMovesKeep, ReopenItemKeeps, LoadMoreKeeps DEF ListUser
<1>2. CASE ListAnswer
  BY <1>2, QuietMovesKeep, ServeKeeps, ReceivedKeeps, FailedKeeps, DeletedKeeps, ReopenedKeeps DEF ListAnswer
<1>3. CASE ResetAndLoad
  BY <1>3, ResetAndLoadKeeps
<1>4. CASE UNCHANGED listVars
  BY <1>4, QuietMovesKeep
<1> QED
  BY <1>1, <1>2, <1>3, <1>4 DEF ListNext

LEMMA ListInvariantEnough == ListInvariant => ListSafe
<1> SUFFICES ASSUME ListInvariant PROVE ListSafe
  OBVIOUS
<1>1. ListTypeOK
  <2>1. \A f \in fetches : f.answer.data \in Seq(Row) /\ f.filter \in Filters
    BY DEF ListInvariant, ListTypes, FetchRecords, PageAnswers
  <2> QED
    BY <2>1 DEF ListInvariant, ListTypes, PageAnswers, ListTypeOK
<1>2. listRows \in Seq(Row) /\ shown \in Filters
  BY DEF ListInvariant, ListTypes
<1>3. PICK S \in SUBSET ListedRecords : S = Matches(shown) /\ Listed(shown) = Descending(S)
  BY ListedIs
<1>a. PICK skipped \in Nat : skipped = gap
  BY DEF ListInvariant, ListTypes
<1>b. PICK last \in Nat : last = listPage * Limit
  <2>1. listPage \in Nat /\ Limit \in Nat
    BY ListAssumption DEF ListInvariant, ListTypes
  <2> QED
    BY <2>1
<1>4. ~mixed => TrueRows(listRows, Descending(S), total, status, skipped, last)
  <2>1. AllListed[shown] = Descending(S)
    BY <1>2, <1>3 DEF AllListed
  <2> QED
    BY <1>a, <1>b, <2>1 DEF ListInvariant, RowsAreTrue
<1>5. PICK rows \in Seq(Row) : rows = listRows
  BY <1>2
<1>c. PICK all \in Seq(ListedRecords) : all = Listed(shown)
  BY ListedIs
<1>d. PICK n \in Nat : n = Len(rows) /\ DOMAIN rows = 1 .. n
  BY LenProperties
<1>e. PICK ids : ids = Ids
  OBVIOUS
<1>f. ids = [i \in 1 .. n |-> rows[i].id]
  BY <1>5, <1>d, <1>e DEF Ids
<1>g. PICK t \in Nat : t = Len(all) /\ DOMAIN all = 1 .. t
  BY LenProperties
<1>h. ASSUME ~mixed
      PROVE  /\ total = t
             /\ \A i \in 1 .. n : \E j \in 1 .. t : i <= j /\ j <= i + skipped /\ ids[i] = all[j]
             /\ \A i, k \in 1 .. n : i < k => ids[i] > ids[k]
  <2>1. TrueRows(rows, all, total, status, skipped, last)
    BY <1>3, <1>4, <1>5, <1>c, <1>h
  <2> QED
    BY <1>d, <1>f, <1>g, <2>1 DEF TrueRows, PlacedRow
<1>i. SkipsOnlyWhatMovedUp
  <2> SUFFICES ASSUME ~mixed
               PROVE  /\ total = Len(all)
                      /\ \A i, k \in 1 .. n : i < k => ids[i] > ids[k]
                      /\ \A i \in 1 .. n : \E j \in i .. i + skipped : j \in DOMAIN all /\ ids[i] = all[j]
    BY <1>5, <1>a, <1>c, <1>d, <1>e DEF SkipsOnlyWhatMovedUp
  <2>1. ASSUME NEW i \in 1 .. n
        PROVE  \E j \in i .. i + skipped : j \in DOMAIN all /\ ids[i] = all[j]
    <3>1. PICK j \in 1 .. t : i <= j /\ j <= i + skipped /\ ids[i] = all[j]
      BY <1>h
    <3>2. j \in i .. i + skipped /\ j \in DOMAIN all
      BY <1>g, <3>1
    <3> QED
      BY <3>1, <3>2
  <2> QED
    BY <1>g, <1>h, <2>1
<1>6. RowsAreAPrefix
  <2> SUFFICES ASSUME ~mixed, skipped = 0
               PROVE  Len(rows) <= Len(all) /\ ids = SubSeq(all, 1, Len(rows))
    BY <1>5, <1>a, <1>c, <1>e DEF RowsAreAPrefix
  <2>2. \A i \in 1 .. n : i \in 1 .. t /\ ids[i] = all[i]
    <3> SUFFICES ASSUME NEW i \in 1 .. n PROVE i \in 1 .. t /\ ids[i] = all[i]
      OBVIOUS
    <3>1. PICK j \in 1 .. t : i <= j /\ j <= i + skipped /\ ids[i] = all[j]
      BY <1>h
    <3>2. i = j
      BY <3>1
    <3> QED
      BY <3>1, <3>2
  <2>4. n <= t /\ 1 \in Nat \ {0}
    <3>1. CASE n = 0
      BY <3>1
    <3>2. CASE n # 0
      <4>1. n \in 1 .. n
        BY <3>2
      <4> QED
        BY <2>2, <4>1
    <3> QED
      BY <3>1, <3>2
  <2>5. PICK part : part = SubSeq(all, 1, n)
    OBVIOUS
  <2>6. /\ part \in Seq(ListedRecords) /\ Len(part) = IF 1 <= n THEN n - 1 + 1 ELSE 0
        /\ \A i \in 1 .. n - 1 + 1 : part[i] = all[1 + i - 1]
    BY <1>g, <2>4, <2>5, PartFrom
  <2>7. Len(part) = n /\ 1 .. n - 1 + 1 = 1 .. n /\ \A i \in 1 .. n : 1 + i - 1 = i
    BY <2>6
  <2>8. part \in [1 .. n -> ListedRecords] /\ \A i \in 1 .. n : part[i] = all[i]
    BY <2>6, <2>7, LenProperties
  <2>11. \A i \in 1 .. n : ids[i] = part[i]
    BY <2>2, <2>8
  <2>12. ids = part
    BY <1>f, <2>8, <2>11
  <2> QED
    BY <1>d, <1>g, <2>4, <2>5, <2>12
<1>7. NoDraftAmongCompleted
  <2> SUFFICES ASSUME ~mixed, shown = "COMPLETED", NEW i \in DOMAIN listRows
               PROVE  listRows[i].status = "COMPLETED"
    BY DEF NoDraftAmongCompleted
  <2>1. TrueRows(rows, Descending(S), total, status, skipped, last)
    BY <1>4, <1>5
  <2>2. rows[i].id \in S /\ rows[i].status = status[rows[i].id]
    <3>1. i \in DOMAIN rows
      BY <1>5
    <3>2. rows[i].id \in S
      BY <2>1, <3>1, RowsDiffer
    <3>3. rows[i].status = status[rows[i].id]
      BY <2>1, <3>1 DEF TrueRows
    <3> QED
      BY <3>2, <3>3
  <2> QED
    BY <1>3, <1>5, <2>2 DEF Matches
<1> QED
  BY <1>1, <1>6, <1>7, <1>i DEF ListSafe

\* However pages, deletions and reopenings overlap: in a list that is not mixed every record once
\* and in the server's order, the counter is the server's, no draft stands among the completed,
\* and a page asked for by its number after rows were taken out passes over as many records at
\* most; none, if no page was appended since, and the list is then a beginning of the server's.
THEOREM ListFollowsTheServer == ListSpec => []ListSafe
<1> QED
  BY ListInitially, ListKeeps, ListInvariantEnough, PTL DEF ListSpec

-----------------------------------------------------------------------------
(* The fields of the steps: RecordFields. *)

FormRow == [cells : [RowInputs[fieldStep] -> Values], loaded : BOOLEAN]

StoredRow == [RowColumns[fieldStep] -> Values \cup {Cipher}]

FieldsTypes ==
    /\ fieldStep \in Steps /\ {routed, touched} \subseteq BOOLEAN
    /\ made \in Nat /\ edits \in 0 .. MaxEdits
    /\ stored \in [RecordColumns[fieldStep] -> Values]
    /\ form \in [FormFields(fieldStep) -> Values]
    /\ storedRows \in Seq(StoredRow) /\ Len(storedRows) <= MaxFieldRows
    /\ formRows \in Seq(FormRow) /\ Len(formRows) <= MaxFieldRows
    /\ fieldOutcome \in {"none", "loaded", "accepted", "refused"}
    /\ fieldStep = 1 => storedRows = <<>> /\ formRows = <<>>

\* What a stored row can hold: only numbers are encrypted, and all of them, and a child's
\* gender has its default.
StoredAsWritten(row) ==
    \A f \in DOMAIN row :
      /\ IF f \in Sensitive THEN row[f] \in {"", Cipher} ELSE row[f] \in Values
      /\ f = "gender" => row[f] # ""

\* No other record is asked for a number.
TypedNumbers(row) == \A f \in DOMAIN row.cells \cap Sensitive : row.cells[f] # "used"

\* Each record that the create page makes takes another address, which was typed.
MadeByEdits ==
    IF fieldStep = 1
    THEN /\ made <= edits
         /\ ~routed /\ form["email"] \notin {"", stored["email"]} => made < edits
         /\ ~routed /\ made = 0 => stored["email"] = ""
    ELSE made = 1 /\ routed

\* A form that was loaded shows the columns and the rows, and nothing else.
LoadedIsShown == fieldOutcome = "loaded" => routed /\ form = stored /\ formRows = ShownRows

FieldsInvariant ==
    /\ FieldsTypes /\ MadeByEdits /\ LoadedIsShown
    /\ \A i \in DOMAIN storedRows : StoredAsWritten(storedRows[i])
    /\ \A i \in DOMAIN formRows : TypedNumbers(formRows[i])
    /\ FilledInIsStored /\ FieldRefusalHasACause

\* The hand-written lists of fields agree.
LEMMA ListsAgree ==
    ASSUME NEW s \in Steps
    PROVE  /\ RecordColumns[s] = FormFields(s) /\ LoadedFields[s] = FormFields(s)
           /\ <<PayloadOne, {}, PayloadThree, PayloadFour, {}>>[s] = FormFields(s)
           /\ RowColumns[s] = RowInputs[s] /\ Inputs[s] \subseteq FormFields(s)
           /\ s = 1 => FormFields(s) = StepOneInputs /\ RowInputs[s] = {}
<1> USE DEF RecordColumns, FormFields, LoadedFields, RowColumns, RowInputs, Inputs,
            StepOneInputs, StepTwoInputs, StepThreeInputs, StepThreeRowInputs, StepFourInputs,
            StepFourRowInputs, StepFiveInputs, AddressInputs, IdentityColumns, AddressColumns,
            ChildColumns, AccountColumns
<1>1. CASE s = 1
  BY <1>1 DEF PayloadOne
<1>2. CASE s = 2
  BY <1>2
<1>3. CASE s = 3
  BY <1>3 DEF PayloadThree
<1>4. CASE s = 4
  BY <1>4 DEF PayloadFour
<1>5. CASE s = 5
  BY <1>5
<1> QED
  BY <1>1, <1>2, <1>3, <1>4, <1>5 DEF Steps

\* The payload has a property for every field of the form.
LEMMA PayloadIs ==
    ASSUME FieldsTypes
    PROVE  /\ DOMAIN Payload = FormFields(fieldStep)
           /\ \A f \in FormFields(fieldStep) : Payload[f] = Sent(f, form[f])
BY ListsAgree DEF FieldsTypes, Payload

\* The same for the rows, with the id of a loaded one.
LEMMA PayloadRowIs ==
    ASSUME FieldsTypes, NEW row \in FormRow
    PROVE  /\ "id" \notin RowInputs[fieldStep]
           /\ DOMAIN PayloadRow(row) \subseteq RowInputs[fieldStep]
                \cup (IF row.loaded /\ fieldStep \in {3, 4} THEN {"id"} ELSE {})
           /\ \A f \in RowInputs[fieldStep] :
                f \in DOMAIN PayloadRow(row) /\ PayloadRow(row)[f] = Sent(f, row.cells[f])
<1> DEFINE fields == <<{}, PayloadRowTwo, PayloadRowThree, PayloadRowFour, PayloadRowFive>>[fieldStep]
<1>1. /\ "id" \notin RowInputs[fieldStep] /\ RowInputs[fieldStep] \subseteq fields
      /\ fields \subseteq RowInputs[fieldStep] \cup (IF fieldStep \in {3, 4} THEN {"id"} ELSE {})
  <2> USE DEF RowInputs, PayloadRowTwo, PayloadRowThree, PayloadRowFour, PayloadRowFive,
              StepTwoInputs, StepThreeRowInputs, StepFourRowInputs, StepFiveInputs, AddressInputs
  <2>1. CASE fieldStep = 1
    BY <2>1
  <2>2. CASE fieldStep = 2
    BY <2>2
  <2>3. CASE fieldStep = 3
    BY <2>3
  <2>4. CASE fieldStep = 4
    BY <2>4
  <2>5. CASE fieldStep = 5
    BY <2>5
  <2> QED
    BY <2>1, <2>2, <2>3, <2>4, <2>5 DEF FieldsTypes, Steps
<1>2. PayloadRow(row) = [f \in {g \in fields : g # "id" \/ row.loaded} |->
                           IF f = "id" THEN "id" ELSE Sent(f, row.cells[f])]
  BY DEF PayloadRow
<1> HIDE DEF fields
<1> QED
  BY <1>1, <1>2

\* What a row becomes in its table.
StoredCell(f, v) == IF f \in Sensitive THEN EncryptIfNeeded(Sent(f, v))
               ELSE IF f = "gender" /\ v = "" THEN "text" ELSE v

LEMMA WrittenRowIs ==
    ASSUME FieldsTypes, fieldStep # 1, NEW row \in FormRow
    PROVE  WrittenRow(PayloadRow(row)) = [f \in RowInputs[fieldStep] |-> StoredCell(f, row.cells[f])]
<1> DEFINE w == WrittenRow(PayloadRow(row))
<1>1. \A f \in RowInputs[fieldStep] : Get(PayloadRow(row), f) = Sent(f, row.cells[f])
  BY PayloadRowIs DEF Get
<1>2. \A f \in RowInputs[fieldStep] : row.cells[f] \in Values
  BY DEF FormRow
<1>3. \A f \in RowInputs[fieldStep] : Null(Get(PayloadRow(row), f)) = row.cells[f]
  BY <1>1, <1>2 DEF Null, Sent, Values, Absent
<1>4. RowColumns[fieldStep] = RowInputs[fieldStep]
  BY ListsAgree DEF FieldsTypes
<1>5. Plain(PayloadRow(row), RowColumns[fieldStep]) = [f \in RowInputs[fieldStep] |-> row.cells[f]]
  BY <1>3, <1>4 DEF Plain
<1>6. CASE fieldStep \in {2, 5}
  <2>1. w = [Plain(PayloadRow(row), RowColumns[fieldStep])
               EXCEPT !["number"] = EncryptIfNeeded(Get(PayloadRow(row), "number"))]
    BY <1>6 DEF WrittenRow, StepTwoRow, StepFiveRow, RowColumns
  <2>2. "number" \in RowInputs[fieldStep] /\ "gender" \notin RowInputs[fieldStep]
    BY <1>6 DEF RowInputs, StepTwoInputs, StepFiveInputs
  <2> QED
    BY <1>1, <1>5, <2>1, <2>2 DEF StoredCell, Sensitive
<1>7. CASE fieldStep = 3
  <2>1. w = Plain(PayloadRow(row), RowColumns[fieldStep])
    BY <1>7 DEF WrittenRow, StepThreeRow, RowColumns
  <2>2. "number" \notin RowInputs[fieldStep] /\ "gender" \notin RowInputs[fieldStep]
    BY <1>7 DEF RowInputs, StepThreeRowInputs, AddressInputs
  <2> QED
    BY <1>5, <2>1, <2>2 DEF StoredCell, Sensitive
<1>8. CASE fieldStep = 4
  <2>1. w = [Plain(PayloadRow(row), RowColumns[fieldStep]) EXCEPT
               !["gender"] = IF Get(PayloadRow(row), "gender") = Absent THEN "text" ELSE @]
    BY <1>8 DEF WrittenRow, StepFourRow, RowColumns
  <2>2. "number" \notin RowInputs[fieldStep] /\ "gender" \in RowInputs[fieldStep]
    BY <1>8 DEF RowInputs, StepFourRowInputs
  <2>3. Get(PayloadRow(row), "gender") = Absent <=> row.cells["gender"] = ""
    BY <1>1, <1>2, <2>2 DEF Sent, SentAsIs, Values, Absent
  <2>4. PICK p : p = Plain(PayloadRow(row), RowColumns[fieldStep])
    OBVIOUS
  <2>5. p = [f \in RowInputs[fieldStep] |-> row.cells[f]] /\ p["gender"] = row.cells["gender"]
    BY <1>5, <2>2, <2>4
  <2>6. w = [p EXCEPT !["gender"] = IF row.cells["gender"] = "" THEN "text" ELSE row.cells["gender"]]
    BY <2>1, <2>3, <2>4, <2>5, Zenon
  <2> HIDE DEF w
  <2>7. w = [f \in RowInputs[fieldStep] |-> StoredCell(f, row.cells[f])]
    BY <2>2, <2>5, <2>6 DEF StoredCell, Sensitive
  <2> QED
    BY <2>7 DEF w
<1> QED
  BY <1>6, <1>7, <1>8 DEF FieldsTypes, Steps

LEMMA FieldsInitially == FieldsInit => FieldsInvariant
<1> SUFFICES ASSUME FieldsInit PROVE FieldsInvariant
  OBVIOUS
<1>1. /\ fieldStep \in Steps /\ routed = (fieldStep # 1)
      /\ made = (IF fieldStep = 1 THEN 0 ELSE 1)
      /\ stored = IF fieldStep = 1 THEN InsertedColumns ELSE Blank(RecordColumns[fieldStep])
      /\ storedRows = <<>> /\ form = Blank(FormFields(fieldStep))
      /\ formRows = (IF fieldStep = 1 THEN <<>> ELSE <<NewFormRow(fieldStep)>>)
      /\ touched = FALSE /\ edits = 0 /\ fieldOutcome = "none"
  BY DEF FieldsInit
<1>2. NewFormRow(fieldStep) \in FormRow /\ TypedNumbers(NewFormRow(fieldStep))
  BY DEF NewFormRow, FormRow, Blank, Values, TypedNumbers
<1>3. stored \in [RecordColumns[fieldStep] -> Values] /\ (fieldStep = 1 => stored["email"] = "")
  <2>1. CASE fieldStep = 1
    BY <1>1, <2>1 DEF InsertedColumns, Values, RecordColumns, StepOneInputs
  <2>2. CASE fieldStep # 1
    BY <1>1, <2>2 DEF Blank, Values
  <2> QED
    BY <2>1, <2>2
<1>4. form \in [FormFields(fieldStep) -> Values] /\ (fieldStep = 1 => form["email"] = "")
  <2>1. fieldStep = 1 => "email" \in FormFields(fieldStep)
    BY DEF FormFields, Inputs, StepOneInputs
  <2> QED
    BY <1>1, <2>1 DEF Blank, Values
<1>5. formRows \in Seq(FormRow) /\ Len(formRows) <= MaxFieldRows
  <2>1. <<NewFormRow(fieldStep)>> \in Seq(FormRow) /\ Len(<<NewFormRow(fieldStep)>>) = 1
    BY <1>2
  <2>2. <<>> \in Seq(FormRow) /\ Len(<<>>) = 0
    OBVIOUS
  <2> QED
    BY <1>1, <2>1, <2>2, BoundsAssumption
<1>6. storedRows \in Seq(StoredRow) /\ Len(storedRows) = 0 /\ DOMAIN storedRows = {}
  BY <1>1
<1>10. routed \in BOOLEAN /\ (fieldStep # 1 => routed)
  BY <1>1, Zenon
<1>12. edits = 0 /\ touched \in BOOLEAN /\ (fieldStep = 1 => made = 0) /\ (fieldStep # 1 => made = 1)
  BY <1>1, Zenon
<1>11. made \in Nat /\ edits \in 0 .. MaxEdits /\ touched \in BOOLEAN /\ made <= edits + 1
       /\ (fieldStep = 1 => made <= edits) /\ (fieldStep # 1 => made = 1)
  BY <1>12, BoundsAssumption
<1>7. FieldsTypes
  <2>1. {routed, touched} \subseteq BOOLEAN
    BY <1>10, <1>11, Zenon
  <2>2. fieldStep = 1 => storedRows = <<>> /\ formRows = <<>>
    BY <1>1
  <2>3. Len(storedRows) <= MaxFieldRows
    BY <1>6, BoundsAssumption
  <2> QED
    BY <1>1, <1>3, <1>4, <1>5, <1>6, <1>11, <2>1, <2>2, <2>3 DEF FieldsTypes
<1>8. MadeByEdits
  BY <1>3, <1>4, <1>10, <1>11 DEF MadeByEdits
<1>9. \A i \in DOMAIN formRows : TypedNumbers(formRows[i])
  BY <1>1, <1>2
<1> QED
  BY <1>1, <1>6, <1>7, <1>8, <1>9
     DEF FieldsInvariant, LoadedIsShown, FilledInIsStored, FieldRefusalHasACause

\* Whatever the user changes, the fields keep their kinds.
LEMMA FieldEditKeeps ==
    ASSUME FieldsInvariant, Edited, form' \in [FormFields(fieldStep) -> Values],
           formRows' \in Seq(FormRow), Len(formRows') <= MaxFieldRows,
           \A i \in DOMAIN formRows' : TypedNumbers(formRows'[i]),
           fieldStep = 1 => formRows' = <<>>
    PROVE  FieldsInvariant'
<1>1. /\ UNCHANGED <<fieldStep, routed, made, stored, storedRows>>
      /\ edits < MaxEdits /\ edits' = edits + 1 /\ touched' = TRUE /\ fieldOutcome' = "none"
  BY DEF Edited
<1>2. FieldsTypes /\ MadeByEdits /\ MaxEdits \in Nat
  BY BoundsAssumption DEF FieldsInvariant
<1>3. FieldsTypes'
  <2>1. FormRow' = FormRow /\ StoredRow' = StoredRow
    BY <1>1 DEF FormRow, StoredRow
  <2>2. edits' \in 0 .. MaxEdits
    BY <1>1, <1>2 DEF FieldsTypes
  <2>3. {routed', touched'} \subseteq BOOLEAN /\ fieldOutcome' \in {"none", "loaded", "accepted", "refused"}
    BY <1>1, <1>2, Zenon DEF FieldsTypes
  <2>4. FormFields(fieldStep)' = FormFields(fieldStep)
    BY <1>1 DEF FormFields
  <2> QED
    BY <1>1, <1>2, <2>1, <2>2, <2>3, <2>4 DEF FieldsTypes
<1>4. MadeByEdits'
  <2>1. made \in Nat /\ edits \in Nat
    BY <1>2, BoundsAssumption DEF FieldsTypes
  <2>2. fieldStep = 1 => made <= edits /\ (~routed /\ made = 0 => stored["email"] = "")
    BY <1>2, Zenon DEF MadeByEdits
  <2>3. fieldStep # 1 => made = 1 /\ routed
    BY <1>2, Zenon DEF MadeByEdits
  <2>4. made <= edits => made' <= edits' /\ made' < edits'
    BY <1>1, <2>1
  <2> QED
    BY <1>1, <2>2, <2>3, <2>4, Zenon DEF MadeByEdits
<1>5. \A i \in DOMAIN storedRows' : StoredAsWritten(storedRows'[i])
  BY <1>1 DEF FieldsInvariant
<1>6. LoadedIsShown' /\ FilledInIsStored' /\ FieldRefusalHasACause'
  BY <1>1 DEF LoadedIsShown, FilledInIsStored, FieldRefusalHasACause
<1>7. (\A i \in DOMAIN formRows : TypedNumbers(formRows[i]))'
  OBVIOUS
<1> QED
  BY <1>3, <1>4, <1>5, <1>6, <1>7 DEF FieldsInvariant

LEMMA OfferedValues ==
    ASSUME NEW f
    PROVE  Offered(f) \subseteq Values /\ (f \in Sensitive => "used" \notin Offered(f))
BY DEF Offered, Values, Picked, Sensitive

LEMMA TypeFieldKeeps ==
    ASSUME FieldsInvariant, TypeField
    PROVE  FieldsInvariant'
<1>0. PICK f \in Inputs[fieldStep] : \E v \in Offered(f) \ {form[f]} : form' = [form EXCEPT ![f] = v]
  BY DEF TypeField
<1>1. PICK v \in Offered(f) : form' = [form EXCEPT ![f] = v]
  BY <1>0
<1>2. Edited /\ formRows' = formRows
  BY DEF TypeField
<1>3. FieldsTypes /\ form \in [FormFields(fieldStep) -> Values] /\ v \in Values
  BY OfferedValues DEF FieldsInvariant, FieldsTypes
<1>4. form' \in [FormFields(fieldStep) -> Values]
  BY <1>1, <1>3
<1> QED
  BY <1>2, <1>3, <1>4, FieldEditKeeps DEF FieldsInvariant, FieldsTypes

LEMMA TypeCellKeeps ==
    ASSUME FieldsInvariant, TypeCell
    PROVE  FieldsInvariant'
<1>1. PICK i \in DOMAIN formRows, f \in RowInputs[fieldStep] :
        \E v \in Offered(f) \ {formRows[i].cells[f]} : formRows' = [formRows EXCEPT ![i].cells[f] = v]
  BY DEF TypeCell
<1>2. PICK v \in Offered(f) : formRows' = [formRows EXCEPT ![i].cells[f] = v]
  BY <1>1
<1>3. Edited /\ form' = form
  BY DEF TypeCell
<1>4. FieldsTypes /\ formRows \in Seq(FormRow) /\ v \in Values /\ (f \in Sensitive => v # "used")
  BY OfferedValues DEF FieldsInvariant, FieldsTypes
<1>5. DOMAIN formRows = 1 .. Len(formRows) /\ Len(formRows) \in Nat /\ formRows[i] \in FormRow
  BY <1>4, LenProperties, ElementOfSeq
<1>6. PICK row \in FormRow : row = formRows[i]
  BY <1>5
<1>7. PICK new : new = [row EXCEPT !.cells = [row.cells EXCEPT ![f] = v]]
  OBVIOUS
<1>8. new \in FormRow /\ new.cells = [row.cells EXCEPT ![f] = v]
  BY <1>4, <1>7 DEF FormRow
<1>9. formRows' = [formRows EXCEPT ![i] = new]
  BY <1>2, <1>6, <1>7
<1>10. formRows' \in Seq(FormRow) /\ Len(formRows') = Len(formRows) /\ DOMAIN formRows' = DOMAIN formRows
  BY <1>4, <1>5, <1>8, <1>9, ExceptSeq
<1>11. TypedNumbers(row)
  BY <1>6 DEF FieldsInvariant
<1>12. TypedNumbers(new)
  BY <1>4, <1>8, <1>11 DEF TypedNumbers, FormRow
<1>13. \A j \in DOMAIN formRows' : TypedNumbers(formRows'[j])
  BY <1>5, <1>9, <1>10, <1>12 DEF FieldsInvariant
<1>14. fieldStep # 1 /\ Len(formRows) <= MaxFieldRows /\ form \in [FormFields(fieldStep) -> Values]
  BY <1>4, <1>5 DEF FieldsTypes
<1> QED
  BY <1>3, <1>10, <1>13, <1>14, FieldEditKeeps

LEMMA NewRowIs ==
    ASSUME FieldsTypes
    PROVE  NewFormRow(fieldStep) \in FormRow /\ TypedNumbers(NewFormRow(fieldStep))
BY DEF NewFormRow, FormRow, Blank, Values, TypedNumbers

LEMMA AddRowKeeps ==
    ASSUME FieldsInvariant, AddRow
    PROVE  FieldsInvariant'
<1>1. PICK new : new = NewFormRow(fieldStep)
  OBVIOUS
<1>2. /\ fieldStep # 1 /\ Len(formRows) < MaxFieldRows /\ formRows' = Append(formRows, new)
      /\ form' = form /\ Edited
  BY <1>1 DEF AddRow
<1>3. FieldsTypes /\ formRows \in Seq(FormRow) /\ form \in [FormFields(fieldStep) -> Values]
  BY DEF FieldsInvariant, FieldsTypes
<1>4. new \in FormRow /\ TypedNumbers(new)
  BY <1>1, <1>3, NewRowIs
<1>5. /\ formRows' \in Seq(FormRow) /\ Len(formRows') = Len(formRows) + 1 /\ Len(formRows) \in Nat
      /\ \A i \in 1 .. Len(formRows) : formRows'[i] = formRows[i]
      /\ formRows'[Len(formRows) + 1] = new
  BY <1>2, <1>3, <1>4, AppendProperties, LenProperties
<1>6. DOMAIN formRows = 1 .. Len(formRows) /\ DOMAIN formRows' = 1 .. Len(formRows) + 1
  BY <1>3, <1>5, LenProperties
<1>7. \A i \in DOMAIN formRows' : TypedNumbers(formRows'[i])
  <2> TAKE i \in DOMAIN formRows'
  <2>1. CASE i \in 1 .. Len(formRows)
    BY <1>5, <1>6, <2>1 DEF FieldsInvariant
  <2>2. CASE i \notin 1 .. Len(formRows)
    <3>1. i = Len(formRows) + 1
      BY <1>5, <1>6, <2>2
    <3> QED
      BY <1>4, <1>5, <3>1
  <2> QED
    BY <2>1, <2>2
<1>8. Len(formRows') <= MaxFieldRows
  BY <1>2, <1>5, BoundsAssumption
<1> QED
  BY <1>2, <1>3, <1>5, <1>7, <1>8, FieldEditKeeps

LEMMA RemoveRowKeeps ==
    ASSUME FieldsInvariant, RemoveRow
    PROVE  FieldsInvariant'
<1>1. PICK new : new = NewFormRow(fieldStep)
  OBVIOUS
<1>2. /\ \E i \in DOMAIN formRows :
           formRows' = IF fieldStep \in {2, 5} /\ Len(formRows) = 1 THEN <<new>> ELSE RemoveAt(formRows, i)
      /\ form' = form /\ Edited
  BY <1>1 DEF RemoveRow
<1>3. /\ FieldsTypes /\ formRows \in Seq(FormRow) /\ form \in [FormFields(fieldStep) -> Values]
      /\ Len(formRows) <= MaxFieldRows
  BY DEF FieldsInvariant, FieldsTypes
<1>4. new \in FormRow /\ TypedNumbers(new)
  BY <1>1, <1>3, NewRowIs
<1>5. DOMAIN formRows = 1 .. Len(formRows) /\ Len(formRows) \in Nat /\ MaxFieldRows \in Nat \ {0}
  BY <1>3, LenProperties, BoundsAssumption
<1>6. fieldStep # 1
  BY <1>2, <1>3, <1>5 DEF FieldsTypes
<1>7. CASE formRows' = <<new>>
  <2>1. <<new>> \in Seq(FormRow) /\ Len(<<new>>) = 1 /\ DOMAIN <<new>> = {1} /\ <<new>>[1] = new
    BY <1>4
  <2>2. formRows' \in Seq(FormRow) /\ Len(formRows') <= MaxFieldRows
    BY <1>5, <1>7, <2>1
  <2>3. \A j \in DOMAIN formRows' : TypedNumbers(formRows'[j])
    BY <1>4, <1>7, <2>1
  <2> QED
    BY <1>2, <1>3, <1>6, <2>2, <2>3, FieldEditKeeps
<1>8. ASSUME NEW i \in DOMAIN formRows, formRows' = RemoveAt(formRows, i)
      PROVE  FieldsInvariant'
  <2>1. PICK n \in Nat : n = Len(formRows)
    BY <1>5
  <2>2. i \in 1 .. n
    BY <1>5, <2>1
  <2>3. PICK a, b : a = SubSeq(formRows, 1, i - 1) /\ b = SubSeq(formRows, i + 1, n)
    OBVIOUS
  <2>4. /\ a \in Seq(FormRow) /\ Len(a) = i - 1
        /\ \A j \in 1 .. i - 1 : a[j] = formRows[j]
    <3>1. i - 1 \in Nat /\ i - 1 <= Len(formRows) /\ 1 \in Nat \ {0}
      BY <2>1, <2>2
    <3> QED
      BY <1>3, <2>2, <2>3, <3>1, PartFrom
  <2>5. /\ b \in Seq(FormRow) /\ Len(b) = n - i
        /\ \A j \in 1 .. n - i : b[j] = formRows[i + j]
    <3>1. i + 1 \in Nat \ {0} /\ n <= Len(formRows) /\ n - (i + 1) + 1 = n - i
      BY <2>1, <2>2
    <3>2. \A j \in 1 .. n - i : (i + 1) + j - 1 = i + j
      BY <2>1, <2>2
    <3>3. /\ b \in Seq(FormRow) /\ Len(b) = IF i + 1 <= n THEN n - (i + 1) + 1 ELSE 0
          /\ \A j \in 1 .. n - (i + 1) + 1 : b[j] = formRows[(i + 1) + j - 1]
      BY <1>3, <2>1, <2>3, <3>1, PartFrom
    <3> QED
      BY <2>2, <3>1, <3>2, <3>3
  <2>6. formRows' = a \o b
    BY <1>8, <2>1, <2>3 DEF RemoveAt
  <2>7. /\ formRows' \in Seq(FormRow) /\ Len(formRows') = n - 1
        /\ \A j \in 1 .. n - 1 : formRows'[j] = IF j <= i - 1 THEN a[j] ELSE b[j - (i - 1)]
    BY <2>2, <2>4, <2>5, <2>6, ConcatProperties
  <2>8. \A j \in DOMAIN formRows' : \E k \in DOMAIN formRows : formRows'[j] = formRows[k]
    <3> TAKE j \in DOMAIN formRows'
    <3>1. j \in 1 .. n - 1
      BY <2>7, LenProperties
    <3>2. CASE j <= i - 1
      BY <1>5, <2>1, <2>2, <2>4, <2>7, <3>1, <3>2
    <3>3. CASE ~(j <= i - 1)
      <4>1. j - (i - 1) \in 1 .. n - i /\ i + (j - (i - 1)) = j + 1 /\ j + 1 \in 1 .. n
        BY <2>2, <3>1, <3>3
      <4>2. formRows'[j] = b[j - (i - 1)]
        BY <2>7, <3>1, <3>3
      <4>3. b[j - (i - 1)] = formRows[j + 1]
        BY <2>5, <4>1
      <4> QED
        BY <1>5, <2>1, <4>1, <4>2, <4>3
    <3> QED
      BY <3>2, <3>3
  <2>9. \A j \in DOMAIN formRows' : TypedNumbers(formRows'[j])
    BY <2>8 DEF FieldsInvariant
  <2>10. Len(formRows') <= MaxFieldRows
    BY <1>3, <1>5, <2>1, <2>7
  <2> QED
    BY <1>2, <1>3, <1>6, <2>7, <2>9, <2>10, FieldEditKeeps
<1> QED
  BY <1>2, <1>7, <1>8

\* A row of the table, as the form shows it.
LEMMA SerialisedIs ==
    ASSUME FieldsTypes, NEW row \in StoredRow, StoredAsWritten(row)
    PROVE  /\ Serialised(row) \in [RowInputs[fieldStep] -> Values]
           /\ \A f \in RowInputs[fieldStep] :
                Serialised(row)[f] = IF f \in Sensitive THEN IF row[f] = "" THEN "" ELSE "text"
                                     ELSE row[f]
<1>1. RowColumns[fieldStep] = RowInputs[fieldStep]
  BY ListsAgree DEF FieldsTypes
<1>2. DOMAIN row = RowInputs[fieldStep]
  BY <1>1 DEF StoredRow
<1>3. \A v \in {"", Cipher} : Decrypt(v) = IF v = "" THEN "" ELSE "text"
  BY DEF Decrypt, IsEncrypted, Cipher
<1>4. \A f \in RowInputs[fieldStep] :
        /\ f \in Sensitive => Decrypt(row[f]) = IF row[f] = "" THEN "" ELSE "text"
        /\ f \notin Sensitive => row[f] \in Values
  BY <1>2, <1>3 DEF StoredAsWritten
<1>5. Serialised(row) = [f \in RowInputs[fieldStep] |-> IF f \in Sensitive THEN Decrypt(row[f]) ELSE row[f]]
  BY <1>2 DEF Serialised
<1> QED
  BY <1>4, <1>5 DEF Values

LEMMA ShownRowsAre ==
    ASSUME FieldsInvariant
    PROVE  /\ ShownRows \in Seq(FormRow) /\ Len(ShownRows) <= MaxFieldRows
           /\ \A i \in DOMAIN ShownRows : TypedNumbers(ShownRows[i])
           /\ fieldStep = 1 => ShownRows = <<>>
           /\ \A i \in DOMAIN storedRows :
                i \in DOMAIN ShownRows /\ ShownRows[i].cells = Serialised(storedRows[i])
           /\ (storedRows # <<>> \/ fieldStep \notin {2, 5}) =>
                DOMAIN ShownRows = DOMAIN storedRows
<1>1. FieldsTypes /\ storedRows \in Seq(StoredRow) /\ Len(storedRows) <= MaxFieldRows
  BY DEF FieldsInvariant, FieldsTypes
<1>2. DOMAIN storedRows = 1 .. Len(storedRows) /\ Len(storedRows) \in Nat
  BY <1>1, LenProperties
<1>3. CASE fieldStep \in {2, 5} /\ storedRows = <<>>
  <2>1. PICK new : new = NewFormRow(fieldStep)
    OBVIOUS
  <2>2. new \in FormRow /\ TypedNumbers(new)
    BY <1>1, <2>1, NewRowIs
  <2>3. ShownRows = <<new>>
    BY <1>3, <2>1 DEF ShownRows
  <2>4. <<new>> \in Seq(FormRow) /\ Len(<<new>>) = 1 /\ DOMAIN <<new>> = {1} /\ <<new>>[1] = new
    BY <2>2
  <2> QED
    BY <1>3, <2>2, <2>3, <2>4, BoundsAssumption
<1>4. CASE ~(fieldStep \in {2, 5} /\ storedRows = <<>>)
  <2>1. ShownRows = [i \in DOMAIN storedRows |-> [cells |-> Serialised(storedRows[i]), loaded |-> TRUE]]
    BY <1>4 DEF ShownRows
  <2>2. ASSUME NEW i \in DOMAIN storedRows
        PROVE  ShownRows[i] \in FormRow /\ TypedNumbers(ShownRows[i])
               /\ ShownRows[i].cells = Serialised(storedRows[i])
    <3>1. storedRows[i] \in StoredRow /\ StoredAsWritten(storedRows[i])
      BY <1>1, <1>2, ElementOfSeq DEF FieldsInvariant
    <3>2. PICK cells : cells = Serialised(storedRows[i])
      OBVIOUS
    <3>3. cells \in [RowInputs[fieldStep] -> Values]
          /\ \A f \in RowInputs[fieldStep] : f \in Sensitive => cells[f] \in {"", "text"}
      BY <1>1, <3>1, <3>2, SerialisedIs
    <3>4. ShownRows[i] = [cells |-> cells, loaded |-> TRUE]
      BY <2>1, <3>2
    <3>5. PICK shownRow : shownRow = ShownRows[i]
      OBVIOUS
    <3>6. shownRow = [cells |-> cells, loaded |-> TRUE] /\ shownRow.cells = cells
      BY <3>4, <3>5
    <3>7. shownRow \in FormRow
      BY <3>3, <3>6 DEF FormRow
    <3>8. TypedNumbers(shownRow)
      BY <3>3, <3>6 DEF TypedNumbers
    <3> QED
      BY <3>2, <3>5, <3>6, <3>7, <3>8
  <2>3. DOMAIN ShownRows = 1 .. Len(storedRows)
    BY <1>2, <2>1
  <2>4. ShownRows \in Seq(FormRow)
    BY <1>2, <2>1, <2>2, SeqDef
  <2>5. Len(ShownRows) = Len(storedRows)
    BY <1>2, <2>3, <2>4, LenProperties
  <2>6. fieldStep = 1 => ShownRows = <<>>
    <3>1. fieldStep = 1 => Len(storedRows) = 0
      BY <1>1 DEF FieldsTypes
    <3> QED
      BY <2>4, <2>5, <3>1, EmptySeq
  <2> QED
    BY <1>1, <1>2, <2>2, <2>3, <2>4, <2>5, <2>6
<1> QED
  BY <1>3, <1>4

LEMMA LoadKeeps ==
    ASSUME FieldsInvariant, LoadFields
    PROVE  FieldsInvariant'
<1>1. /\ routed' = TRUE /\ form' = ShownFields /\ formRows' = ShownRows
      /\ touched' = FALSE /\ fieldOutcome' = "loaded"
      /\ UNCHANGED <<fieldStep, made, stored, storedRows, edits>>
  BY DEF LoadFields
<1>2. FieldsTypes /\ MadeByEdits /\ stored \in [FormFields(fieldStep) -> Values]
  BY ListsAgree DEF FieldsInvariant, FieldsTypes
<1>3. form' = stored
  <2>1. LoadedFields[fieldStep] = FormFields(fieldStep)
    BY <1>2, ListsAgree DEF FieldsTypes
  <2>2. ShownFields = [f \in FormFields(fieldStep) |-> stored[f]]
    BY <2>1 DEF ShownFields
  <2> QED
    BY <1>1, <1>2, <2>2
<1>4. ShownRows' = ShownRows
  BY <1>1 DEF ShownRows
<1>5. FieldsTypes'
  <2>1. FormRow' = FormRow /\ StoredRow' = StoredRow /\ FormFields(fieldStep)' = FormFields(fieldStep)
    BY <1>1 DEF FormRow, StoredRow, FormFields
  <2>2. {routed', touched'} \subseteq BOOLEAN /\ fieldOutcome' \in {"none", "loaded", "accepted", "refused"}
    BY <1>1, Zenon
  <2>3. formRows' \in Seq(FormRow) /\ Len(formRows') <= MaxFieldRows /\ (fieldStep = 1 => formRows' = <<>>)
    BY <1>1, ShownRowsAre
  <2> QED
    BY <1>1, <1>2, <1>3, <2>1, <2>2, <2>3 DEF FieldsTypes
<1>6. MadeByEdits'
  <2>1. (fieldStep = 1 => made <= edits) /\ (fieldStep # 1 => made = 1)
    BY <1>2, Zenon DEF MadeByEdits
  <2> QED
    BY <1>1, <2>1, Zenon DEF MadeByEdits
<1>7. \A i \in DOMAIN storedRows' : StoredAsWritten(storedRows'[i])
  BY <1>1 DEF FieldsInvariant
<1>8. (\A i \in DOMAIN formRows : TypedNumbers(formRows[i]))'
  BY <1>1, ShownRowsAre
<1>9. LoadedIsShown' /\ FilledInIsStored' /\ FieldRefusalHasACause'
  BY <1>1, <1>3, <1>4 DEF LoadedIsShown, FilledInIsStored, FieldRefusalHasACause
<1> QED
  BY <1>5, <1>6, <1>7, <1>8, <1>9 DEF FieldsInvariant

\* The values of a row the DTO objects to are those the form shows.
LEMMA RowRefusals ==
    ASSUME FieldsTypes, NEW row \in FormRow, NEW dto, Breaks(PayloadRow(row), dto),
           RowInputs[fieldStep] \subseteq dto.known, fieldStep = 3 => "id" \in dto.known
    PROVE  \/ \E f \in RowInputs[fieldStep] : row.cells[f] = "odd"
           \/ fieldStep = 4 /\ row.loaded
<1>1. CASE ~(DOMAIN PayloadRow(row) \subseteq dto.known)
  BY <1>1, PayloadRowIs
<1>2. CASE \E f \in dto.formatted \cap DOMAIN PayloadRow(row) : PayloadRow(row)[f] = "odd"
  <2>1. PICK f \in DOMAIN PayloadRow(row) : PayloadRow(row)[f] = "odd"
    BY <1>2
  <2>2. CASE f = "id"
    <3>1. PayloadRow(row)[f] = "id"
      BY <2>1, <2>2 DEF PayloadRow
    <3> QED
      BY <2>1, <3>1
  <2>3. CASE f \in RowInputs[fieldStep]
    <3>1. Sent(f, row.cells[f]) = "odd"
      BY <2>1, <2>3, PayloadRowIs
    <3> QED
      BY <2>3, <3>1 DEF Sent, Absent
  <2> QED
    BY <2>1, <2>2, <2>3, PayloadRowIs
<1> QED
  BY <1>1, <1>2 DEF Breaks

LEMMA RefusalsHaveCauses ==
    ASSUME FieldsTypes, Refused
    PROVE  \/ Malformed
           \/ fieldStep = 4 /\ \E i \in DOMAIN formRows : formRows[i].loaded
           \/ fieldStep = 1 /\ made > 0 /\ ~routed
<1>1. \A i \in DOMAIN formRows : formRows[i] \in FormRow
  BY ElementOfSeq, LenProperties DEF FieldsTypes
<1>2. \A f \in FormFields(fieldStep) : Payload[f] = Sent(f, form[f]) /\ form[f] \in Values
  BY PayloadIs DEF FieldsTypes
<1>3. ASSUME NEW f \in Inputs[fieldStep], Payload[f] \in {"odd", "used"}
      PROVE  Malformed
  <2>1. Sent(f, form[f]) \in {"odd", "used"}
    BY <1>2, <1>3, ListsAgree DEF FieldsTypes
  <2>2. form[f] \in {"odd", "used"}
    BY <2>1 DEF Sent, Absent
  <2> QED
    BY <2>2 DEF Malformed
<1>4. ASSUME NEW i \in DOMAIN formRows, NEW dto, Breaks(PayloadRow(formRows[i]), dto),
             RowInputs[fieldStep] \subseteq dto.known, fieldStep = 3 => "id" \in dto.known
      PROVE  Malformed \/ (fieldStep = 4 /\ formRows[i].loaded)
  <2>1. \/ \E f \in RowInputs[fieldStep] : formRows[i].cells[f] = "odd"
        \/ fieldStep = 4 /\ formRows[i].loaded
    BY <1>1, <1>4, RowRefusals
  <2> QED
    BY <2>1 DEF Malformed
<1>5. CASE fieldStep = 1
  <2>1. /\ DOMAIN Payload = StepOneInputs /\ Inputs[fieldStep] = StepOneInputs
        /\ FormFields(fieldStep) = StepOneInputs
    BY <1>5, PayloadIs DEF FormFields, Inputs
  <2>2. StepOneRefused(Payload)
    BY <1>5 DEF Refused
  <2>3. {"firstName", "email", "mobileNumber"} \subseteq StepOneInputs
    BY DEF StepOneInputs
  <2>4. CASE Payload["firstName"] = Absent \/ Payload["email"] = Absent
    <3>1. form["firstName"] = "" \/ form["email"] = ""
      BY <1>2, <2>1, <2>3, <2>4 DEF Sent, Values, Absent
    <3> QED
      BY <1>5, <3>1 DEF Malformed, ClientValid
  <2>5. CASE \E f \in DOMAIN Payload : Payload[f] = "odd"
    BY <1>3, <2>1, <2>5
  <2>6. CASE \E f \in {"email", "mobileNumber"} : AlreadyExists(f, Payload[f])
    <3>1. PICK f \in {"email", "mobileNumber"} : AlreadyExists(f, Payload[f])
      BY <2>6
    <3>2. CASE Payload[f] = "used"
      BY <1>3, <2>1, <2>3, <3>1, <3>2
    <3>3. CASE made > 0 /\ IgnoredId = {}
      BY <1>5, <3>3 DEF IgnoredId
    <3> QED
      BY <3>1, <3>2, <3>3 DEF AlreadyExists
  <2> QED
    BY <2>2, <2>4, <2>5, <2>6 DEF StepOneRefused
<1>6. CASE fieldStep = 2
  <2>1. PICK i \in DOMAIN formRows : Breaks(PayloadRow(formRows[i]), IdentityDocumentDto)
    BY <1>6 DEF Refused
  <2>2. RowInputs[fieldStep] \subseteq IdentityDocumentDto.known
    BY <1>6 DEF RowInputs, StepTwoInputs, IdentityDocumentDto
  <2> QED
    BY <1>4, <1>6, <2>1, <2>2
<1>7. CASE fieldStep = 3
  <2>1. CASE Breaks(Payload, OccupationDto)
    <3>1. DOMAIN Payload = PayloadThree
      BY <1>7, PayloadIs, ListsAgree DEF Steps
    <3>2. Payload["retirementDate"] = "odd"
      BY <2>1, <3>1 DEF Breaks, OccupationDto
    <3>3. "retirementDate" \in Inputs[fieldStep]
      BY <1>7 DEF Inputs, StepThreeInputs
    <3> QED
      BY <1>3, <3>2, <3>3
  <2>2. CASE \E i \in DOMAIN formRows : Breaks(PayloadRow(formRows[i]), AddressDto)
    <3>1. PICK i \in DOMAIN formRows : Breaks(PayloadRow(formRows[i]), AddressDto)
      BY <2>2
    <3>2. RowInputs[fieldStep] \subseteq AddressDto.known /\ "id" \in AddressDto.known
      BY <1>7 DEF RowInputs, StepThreeRowInputs, AddressInputs, AddressDto
    <3> QED
      BY <1>4, <1>7, <3>1, <3>2
  <2> QED
    BY <1>7, <2>1, <2>2 DEF Refused
<1>8. CASE fieldStep = 4
  <2>1. CASE Breaks(Payload, FamilyDto)
    <3>1. DOMAIN Payload = PayloadFour
      BY <1>8, PayloadIs, ListsAgree DEF Steps
    <3>2. Payload["marriageDate"] = "odd"
      BY <2>1, <3>1 DEF Breaks, FamilyDto, PayloadFour
    <3>3. "marriageDate" \in Inputs[fieldStep]
      BY <1>8 DEF Inputs, StepFourInputs
    <3> QED
      BY <1>3, <3>2, <3>3
  <2>2. CASE \E i \in DOMAIN formRows : Breaks(PayloadRow(formRows[i]), ChildDto)
    <3>1. PICK i \in DOMAIN formRows : Breaks(PayloadRow(formRows[i]), ChildDto)
      BY <2>2
    <3>2. RowInputs[fieldStep] \subseteq ChildDto.known
      BY <1>8 DEF RowInputs, StepFourRowInputs, ChildDto
    <3> QED
      BY <1>4, <1>8, <3>1, <3>2
  <2> QED
    BY <1>8, <2>1, <2>2 DEF Refused
<1>9. CASE fieldStep = 5
  <2>1. PICK i \in DOMAIN formRows : Breaks(PayloadRow(formRows[i]), FinancialAccountDto)
    BY <1>9 DEF Refused
  <2>2. RowInputs[fieldStep] \subseteq FinancialAccountDto.known
    BY <1>9 DEF RowInputs, StepFiveInputs, FinancialAccountDto
  <2> QED
    BY <1>4, <1>9, <2>1, <2>2
<1> QED
  BY <1>5, <1>6, <1>7, <1>8, <1>9 DEF FieldsTypes, Steps

LEMMA RefusedKeeps ==
    ASSUME FieldsInvariant, FieldsRefused
    PROVE  FieldsInvariant'
<1>1. /\ Refused /\ fieldOutcome' = "refused"
      /\ UNCHANGED <<fieldStep, routed, made, stored, storedRows, form, formRows, touched, edits>>
  BY DEF FieldsRefused
<1>2. FieldsTypes
  BY DEF FieldsInvariant
<1>3. FieldRefusalHasACause'
  <2>1. \/ Malformed
        \/ fieldStep = 4 /\ \E i \in DOMAIN formRows : formRows[i].loaded
        \/ fieldStep = 1 /\ made > 0 /\ ~routed
    BY <1>1, <1>2, RefusalsHaveCauses
  <2>2. Malformed => Malformed'
    BY <1>1 DEF Malformed, ClientValid
  <2> QED
    BY <1>1, <2>1, <2>2 DEF FieldRefusalHasACause
<1>4. FieldsTypes'
  BY <1>1, <1>2 DEF FieldsTypes, FormRow, StoredRow, FormFields
<1>5. MadeByEdits'
  BY <1>1, Zenon DEF MadeByEdits, FieldsInvariant
<1>6. LoadedIsShown' /\ FilledInIsStored'
  BY <1>1 DEF LoadedIsShown, FilledInIsStored
<1> QED
  BY <1>1, <1>3, <1>4, <1>5, <1>6 DEF FieldsInvariant

\* A column gets the value its field shows, unless the field is empty.
LEMMA WrittenIs ==
    ASSUME FieldsTypes, NEW old \in [RecordColumns[fieldStep] -> Values]
    PROVE  /\ Written(old) \in [RecordColumns[fieldStep] -> Values]
           /\ \A f \in FormFields(fieldStep) :
                /\ form[f] # "" => Written(old)[f] = form[f]
                /\ form[f] = "" => Written(old)[f] \in {"", old[f]}
<1>1. RecordColumns[fieldStep] = FormFields(fieldStep)
  BY ListsAgree DEF FieldsTypes
<1>2. ASSUME NEW f \in FormFields(fieldStep)
      PROVE  Get(Payload, f) = Sent(f, form[f]) /\ form[f] \in Values /\ old[f] \in Values
  BY <1>1, PayloadIs DEF Get, FieldsTypes
<1>3. Written(old) = [f \in FormFields(fieldStep) |-> Column(f, Get(Payload, f), old[f])]
  BY <1>1 DEF Written
<1>4. ASSUME NEW f \in FormFields(fieldStep)
      PROVE  /\ Written(old)[f] \in Values
             /\ form[f] # "" => Written(old)[f] = form[f]
             /\ form[f] = "" => Written(old)[f] \in {"", old[f]}
  <2>1. Written(old)[f] = Column(f, Sent(f, form[f]), old[f])
    BY <1>2, <1>3
  <2>2. PICK v \in Values, o \in Values : v = form[f] /\ o = old[f]
    BY <1>2
  <2>3. PICK c : c = Column(f, Sent(f, v), o)
    OBVIOUS
  <2>4. c \in Values /\ (v # "" => c = v) /\ (v = "" => c \in {"", o})
    <3>1. CASE v # ""
      BY <2>2, <2>3, <3>1 DEF Column, Sent, Values, Absent
    <3>2. CASE v = "" /\ f \in SentAsIs
      BY <2>2, <2>3, <3>2 DEF Column, Sent, Values, Absent
    <3>3. CASE v = "" /\ f \notin SentAsIs
      BY <2>2, <2>3, <3>3 DEF Column, Sent, Values, Absent
    <3> QED
      BY <3>1, <3>2, <3>3
  <2>5. Written(old)[f] = c
    BY <2>1, <2>2, <2>3, Zenon
  <2> QED
    BY <2>2, <2>4, <2>5
<1> QED
  BY <1>1, <1>3, <1>4

\* No odd number gets past the DTOs.
LEMMA NumbersAreTexts ==
    ASSUME FieldsTypes, ~Refused, NEW i \in DOMAIN formRows, TypedNumbers(formRows[i]),
           NEW f \in RowInputs[fieldStep] \cap Sensitive
    PROVE  formRows[i].cells[f] \in {"", "text"}
<1>1. f = "number"
  BY DEF Sensitive
<1>2. fieldStep \in {2, 5}
  <2>1. fieldStep = 1 => RowInputs[fieldStep] = {}
    BY DEF RowInputs
  <2>2. fieldStep = 3 => "number" \notin RowInputs[fieldStep]
    BY DEF RowInputs, StepThreeRowInputs, AddressInputs
  <2>3. fieldStep = 4 => "number" \notin RowInputs[fieldStep]
    BY DEF RowInputs, StepFourRowInputs
  <2> QED
    BY <1>1, <2>1, <2>2, <2>3 DEF FieldsTypes, Steps
<1>3. formRows[i] \in FormRow
  BY ElementOfSeq, LenProperties DEF FieldsTypes
<1>4. formRows[i].cells["number"] \in Values \ {"used"}
  BY <1>1, <1>3 DEF TypedNumbers, FormRow, Sensitive
<1>5. formRows[i].cells["number"] # "odd"
  <2>1. \E dto \in {IdentityDocumentDto, FinancialAccountDto} : ~Breaks(PayloadRow(formRows[i]), dto)
    <3>1. fieldStep = 2 => ~Breaks(PayloadRow(formRows[i]), IdentityDocumentDto)
      BY DEF Refused
    <3>2. fieldStep = 5 => ~Breaks(PayloadRow(formRows[i]), FinancialAccountDto)
      BY DEF Refused
    <3> QED
      BY <1>2, <3>1, <3>2
  <2>2. PayloadRow(formRows[i])["number"] # "odd"
    <3>1. "number" \in DOMAIN PayloadRow(formRows[i])
      BY <1>1, <1>3, PayloadRowIs
    <3>2. "number" \in IdentityDocumentDto.formatted /\ "number" \in FinancialAccountDto.formatted
      BY DEF IdentityDocumentDto, FinancialAccountDto
    <3> QED
      BY <2>1, <3>1, <3>2 DEF Breaks
  <2>3. PayloadRow(formRows[i])["number"] = Sent("number", formRows[i].cells["number"])
    BY <1>1, <1>3, PayloadRowIs
  <2> QED
    BY <2>2, <2>3 DEF Sent
<1> QED
  BY <1>1, <1>4, <1>5 DEF Values

\* A row that is accepted is stored as it is shown.
LEMMA RowWritten ==
    ASSUME FieldsTypes, fieldStep # 1, ~Refused, NEW i \in DOMAIN formRows, TypedNumbers(formRows[i]),
           NEW w, w = WrittenRow(PayloadRow(formRows[i]))
    PROVE  /\ w \in StoredRow /\ StoredAsWritten(w)
           /\ \A f \in RowInputs[fieldStep] : Same(formRows[i].cells, Serialised(w), f)
<1>1. PICK row \in FormRow : row = formRows[i]
  BY ElementOfSeq, LenProperties DEF FieldsTypes
<1>2. w = [f \in RowInputs[fieldStep] |-> StoredCell(f, row.cells[f])]
  BY <1>1, WrittenRowIs
<1>3. ASSUME NEW f \in RowInputs[fieldStep]
      PROVE  /\ w[f] \in Values \cup {Cipher}
             /\ IF f \in Sensitive
                THEN /\ row.cells[f] \in {"", "text"}
                     /\ w[f] = IF row.cells[f] = "" THEN "" ELSE Cipher
                ELSE /\ w[f] \in Values
                     /\ w[f] = row.cells[f] \/ (f = "gender" /\ row.cells[f] = "")
             /\ f = "gender" => w[f] # ""
  <2>1. w[f] = StoredCell(f, row.cells[f]) /\ row.cells[f] \in Values
    BY <1>2 DEF FormRow
  <2>2. CASE f \in Sensitive
    <3>1. row.cells[f] \in {"", "text"}
      BY <1>1, <2>2, NumbersAreTexts
    <3>2. w[f] = EncryptIfNeeded(Sent(f, row.cells[f]))
      BY <2>1, <2>2 DEF StoredCell
    <3>3. w[f] = IF row.cells[f] = "" THEN "" ELSE Cipher
      BY <2>2, <3>1, <3>2 DEF EncryptIfNeeded, Sent, IsEncrypted, Absent, Cipher, Sensitive, SentAsIs
    <3> QED
      BY <2>2, <3>1, <3>3 DEF Sensitive, Values
  <2>3. CASE f \notin Sensitive
    BY <2>1, <2>3 DEF StoredCell, Values
  <2> QED
    BY <2>2, <2>3
<1>4. DOMAIN w = RowInputs[fieldStep] /\ RowColumns[fieldStep] = RowInputs[fieldStep]
  BY <1>2, ListsAgree DEF FieldsTypes
<1>5. w \in StoredRow
  BY <1>2, <1>3, <1>4 DEF StoredRow
<1>6. StoredAsWritten(w)
  BY <1>3, <1>4 DEF StoredAsWritten
<1>7. ASSUME NEW f \in RowInputs[fieldStep]
      PROVE  Same(row.cells, Serialised(w), f)
  <2>1. Serialised(w)[f] = IF f \in Sensitive THEN IF w[f] = "" THEN "" ELSE "text" ELSE w[f]
    BY <1>5, <1>6, SerialisedIs
  <2> QED
    BY <1>3, <2>1 DEF Same, Cipher
<1> QED
  BY <1>1, <1>5, <1>6, <1>7

LEMMA AcceptedKeeps ==
    ASSUME FieldsInvariant, FieldsAccepted
    PROVE  FieldsInvariant'
<1>1. PICK old : old = IF routed THEN stored ELSE InsertedColumns
  OBVIOUS
<1>2. /\ ~Refused /\ fieldOutcome' = "accepted"
      /\ made' = IF routed THEN made ELSE made + 1
      /\ stored' = Written(old)
      /\ storedRows' = [i \in DOMAIN formRows |-> WrittenRow(PayloadRow(formRows[i]))]
      /\ UNCHANGED <<fieldStep, routed, form, formRows, touched, edits>>
  BY <1>1 DEF FieldsAccepted
<1>3. /\ FieldsTypes /\ fieldStep \in Steps /\ formRows \in Seq(FormRow) /\ Len(formRows) <= MaxFieldRows
      /\ made \in Nat /\ edits \in 0 .. MaxEdits /\ MaxEdits \in Nat
      /\ stored \in [RecordColumns[fieldStep] -> Values] /\ form \in [FormFields(fieldStep) -> Values]
  BY BoundsAssumption DEF FieldsInvariant, FieldsTypes
<1>4. fieldStep # 1 => made = 1 /\ routed
  BY Zenon DEF FieldsInvariant, MadeByEdits
<1>5. old \in [RecordColumns[fieldStep] -> Values]
  <2>1. CASE routed
    BY <1>1, <1>3, <2>1
  <2>2. CASE ~routed
    <3>1. fieldStep = 1 /\ RecordColumns[fieldStep] = RecordColumns[1]
      BY <1>4, <2>2
    <3> QED
      BY <1>1, <2>2, <3>1 DEF InsertedColumns, Values
  <2> QED
    BY <2>1, <2>2
<1>6. /\ stored' \in [RecordColumns[fieldStep] -> Values]
      /\ \A f \in FormFields(fieldStep) : form[f] # "" => stored'[f] = form[f]
  BY <1>2, <1>3, <1>5, WrittenIs
<1>7. DOMAIN formRows = 1 .. Len(formRows) /\ Len(formRows) \in Nat
  BY <1>3, LenProperties
<1>8. fieldStep = 1 => DOMAIN formRows = {}
  BY <1>3, <1>7 DEF FieldsTypes
<1>9. ASSUME NEW i \in DOMAIN formRows
      PROVE  /\ storedRows'[i] \in StoredRow /\ StoredAsWritten(storedRows'[i])
             /\ \A f \in RowInputs[fieldStep] : Same(formRows[i].cells, Serialised(storedRows'[i]), f)
  <2>1. storedRows'[i] = WrittenRow(PayloadRow(formRows[i])) /\ fieldStep # 1
    BY <1>2, <1>8
  <2>2. TypedNumbers(formRows[i])
    BY DEF FieldsInvariant
  <2> QED
    BY <1>2, <1>3, <2>1, <2>2, RowWritten
<1>10. storedRows' \in Seq(StoredRow) /\ DOMAIN storedRows' = DOMAIN formRows
  BY <1>2, <1>7, <1>9, SeqDef
<1>11. Len(storedRows') = Len(formRows)
  BY <1>7, <1>10, LenProperties
<1>12. fieldStep = 1 => storedRows' = <<>>
  <2>1. PICK rows : rows = storedRows'
    OBVIOUS
  <2>2. fieldStep = 1 => Len(formRows) = 0
    BY <1>7, <1>8
  <2>3. rows \in Seq(StoredRow) /\ (fieldStep = 1 => Len(rows) = 0)
    BY <1>10, <1>11, <2>1, <2>2
  <2> QED
    BY <2>1, <2>3, EmptySeq
<1>13. made' \in Nat
  BY <1>2, <1>3
<1>14. FieldsTypes'
  <2>1. FormRow' = FormRow /\ StoredRow' = StoredRow /\ FormFields(fieldStep)' = FormFields(fieldStep)
    BY <1>2 DEF FormRow, StoredRow, FormFields
  <2>2. {routed', touched'} \subseteq BOOLEAN /\ fieldOutcome' \in {"none", "loaded", "accepted", "refused"}
    BY <1>2, <1>3, Zenon DEF FieldsTypes
  <2> QED
    BY <1>2, <1>3, <1>6, <1>10, <1>11, <1>12, <1>13, <2>1, <2>2 DEF FieldsTypes
<1>15. MadeByEdits'
  <2>1. CASE fieldStep # 1
    BY <1>2, <1>4, <2>1, Zenon DEF MadeByEdits
  <2>2. CASE fieldStep = 1 /\ routed
    <3>1. made <= edits
      BY <2>2, Zenon DEF FieldsInvariant, MadeByEdits
    <3> QED
      BY <1>2, <2>2, <3>1, Zenon DEF MadeByEdits
  <2>3. CASE fieldStep = 1 /\ ~routed
    <3>1. "email" \in FormFields(fieldStep) /\ StepOneInputs = DOMAIN Payload
          /\ FormFields(fieldStep) = StepOneInputs
      BY <1>3, <2>3, PayloadIs, ListsAgree DEF StepOneInputs
    <3>2. Payload["email"] = Sent("email", form["email"]) /\ form["email"] \in Values
      BY <1>3, <3>1, PayloadIs
    <3>3. Payload["email"] # Absent /\ ~AlreadyExists("email", Payload["email"])
      BY <1>2, <2>3 DEF Refused, StepOneRefused
    <3>4. form["email"] # "" /\ Payload["email"] = form["email"]
      BY <3>2, <3>3 DEF Sent, SentAsIs
    <3>5. made = 0 \/ stored["email"] # form["email"]
      <4>1. IgnoredId = {}
        BY <2>3, Zenon DEF IgnoredId
      <4>2. ~(made > 0 /\ stored["email"] = form["email"])
        BY <3>3, <3>4, <4>1 DEF AlreadyExists
      <4> QED
        BY <1>3, <4>2
    <3>6. /\ form["email"] \notin {"", stored["email"]} => made < edits
          /\ made = 0 => stored["email"] = ""
      BY <2>3, Zenon DEF FieldsInvariant, MadeByEdits
    <3>7. made < edits
      BY <3>4, <3>5, <3>6
    <3>8. made' = made + 1 /\ made' # 0 /\ made' <= edits'
      BY <1>2, <1>3, <2>3, <3>7
    <3>9. form'["email"] = stored'["email"]
      BY <1>2, <1>6, <3>1, <3>4
    <3> QED
      BY <1>2, <2>3, <3>8, <3>9, Zenon DEF MadeByEdits
  <2> QED
    BY <2>1, <2>2, <2>3
<1>16. FilledInIsStored'
  <2>1. Inputs[fieldStep] \subseteq FormFields(fieldStep)
    BY <1>3, ListsAgree
  <2>2. \A f \in Inputs[fieldStep] : form[f] # "" => stored'[f] = form[f]
    BY <1>6, <2>1
  <2> QED
    BY <1>2, <1>9, <1>11, <2>2 DEF FilledInIsStored
<1>17. LoadedIsShown' /\ FieldRefusalHasACause'
  BY <1>2 DEF LoadedIsShown, FieldRefusalHasACause
<1>18. \A i \in DOMAIN storedRows' : StoredAsWritten(storedRows'[i])
  BY <1>9, <1>10
<1>19. (\A i \in DOMAIN formRows : TypedNumbers(formRows[i]))'
  BY <1>2 DEF FieldsInvariant
<1> QED
  BY <1>14, <1>15, <1>16, <1>17, <1>18, <1>19 DEF FieldsInvariant

LEMMA FieldsStay ==
    ASSUME FieldsInvariant, UNCHANGED fieldsVars
    PROVE  FieldsInvariant'
BY DEF FieldsInvariant, fieldsVars, FieldsTypes, FormRow, StoredRow, FormFields, MadeByEdits,
       LoadedIsShown, ShownRows, FilledInIsStored, FieldRefusalHasACause, Malformed, ClientValid

LEMMA FieldsInvariantHolds == FieldsSpec => []FieldsInvariant
<1>1. FieldsInvariant /\ [FieldsNext]_fieldsVars => FieldsInvariant'
  BY TypeFieldKeeps, TypeCellKeeps, AddRowKeeps, RemoveRowKeeps, LoadKeeps, RefusedKeeps,
     AcceptedKeeps, FieldsStay DEF FieldsNext
<1> QED
  BY <1>1, FieldsInitially, PTL DEF FieldsSpec

\* No list of fields on the way forgets one, for any number of rows and edits: what is filled in is
\* stored, what is stored is shown again, numbers only ever as ciphertext, and a refusal has its
\* cause in the form.
THEOREM FieldsSurvive == FieldsSpec => []FieldsSafe
<1>1. FieldsInvariant => FieldsSafe
  <2> SUFFICES ASSUME FieldsInvariant PROVE FieldsSafe
    OBVIOUS
  <2>1. /\ FieldsTypes /\ fieldStep \in Steps /\ made \in Nat /\ edits \in 0 .. MaxEdits
        /\ MaxEdits \in Nat /\ storedRows \in Seq(StoredRow) /\ formRows \in Seq(FormRow)
        /\ Inputs[fieldStep] \subseteq FormFields(fieldStep) /\ Len(formRows) <= MaxFieldRows
        /\ stored \in [RecordColumns[fieldStep] -> Values] /\ form \in [FormFields(fieldStep) -> Values]
        /\ fieldOutcome \in {"none", "loaded", "accepted", "refused"}
    BY BoundsAssumption, ListsAgree DEF FieldsInvariant, FieldsTypes
  <2>2. \A i \in DOMAIN storedRows :
          storedRows[i] \in StoredRow /\ DOMAIN storedRows[i] = RowColumns[fieldStep]
          /\ StoredAsWritten(storedRows[i])
    BY <2>1, ElementOfSeq, LenProperties DEF StoredRow, FieldsInvariant
  <2>3. \A i \in DOMAIN formRows :
          formRows[i] \in [cells : [RowInputs[fieldStep] -> Values], loaded : BOOLEAN]
    BY <2>1, ElementOfSeq, LenProperties DEF FormRow
  <2>4. made \in 0 .. MaxEdits + 1
    <3>1. made <= edits \/ made = 1
      BY Zenon DEF FieldsInvariant, MadeByEdits
    <3> QED
      BY <2>1, <3>1
  <2>5. routed \in BOOLEAN /\ touched \in BOOLEAN
    BY <2>1, Zenon DEF FieldsTypes
  <2>6. FieldsTypeOK
    BY <2>1, <2>2, <2>3, <2>4, <2>5 DEF FieldsTypeOK
  <2>7. LoadShowsStored
    <3>1. fieldOutcome = "loaded" => form = stored /\ formRows = ShownRows
      BY Zenon DEF FieldsInvariant, LoadedIsShown
    <3> QED
      BY <2>1, <3>1, ShownRowsAre DEF LoadShowsStored
  <2>8. NumbersAreEncrypted
    BY <2>2 DEF NumbersAreEncrypted, StoredAsWritten
  <2> QED
    BY <2>6, <2>7, <2>8 DEF FieldsSafe, FieldsInvariant
<1> QED
  BY <1>1, FieldsInvariantHolds, PTL

\* Nothing is kept of rows that are blank.
LEMMA NoRows ==
    ASSUME NEW S, NEW rows \in Seq(S), \A i \in DOMAIN rows : \A f \in DOMAIN rows[i] : rows[i][f] = ""
    PROVE  Rows(rows) = <<>>
<1> DEFINE I == {i \in DOMAIN rows : \E f \in DOMAIN rows[i] : rows[i][f] # ""}
<1>1. I = {}
  OBVIOUS
<1>2. Places(rows, {}) \in Seq(S) /\ Len(Places(rows, {})) = Cardinality({})
  <2>1. {} \in SUBSET (1 .. Len(rows))
    OBVIOUS
  <2> QED
    BY <2>1, PlacesLeft
<1>3. Cardinality({}) = 0
  BY FS_EmptySet
<1>4. Places(rows, {}) = <<>>
  BY <1>2, <1>3, EmptySeq
<1> QED
  BY <1>1, <1>4 DEF Rows

\* A save of a form that was loaded and not touched writes back every value, for any number of
\* rows: an empty field reaches the column as what the column has, and a number as the same
\* ciphertext.
THEOREM UntouchedIsKept == FieldsSpec => UntouchedSaveKeeps
<1>1. FieldsInvariant /\ [FieldsNext]_fieldsVars
      => [fieldOutcome' = "accepted" /\ ~touched /\ fieldOutcome = "loaded"
            => /\ stored' = stored
               /\ Rows(storedRows') = Rows(storedRows)]_fieldsVars
  <2> SUFFICES ASSUME FieldsInvariant, FieldsNext, fieldOutcome' = "accepted", fieldOutcome = "loaded"
               PROVE  stored' = stored /\ Rows(storedRows') = Rows(storedRows)
    BY DEF fieldsVars
  <2>1. FieldsAccepted
    BY DEF FieldsNext, TypeField, TypeCell, AddRow, RemoveRow, Edited, LoadFields, FieldsRefused
  <2>2. routed /\ form = stored /\ formRows = ShownRows
    BY Zenon DEF FieldsInvariant, LoadedIsShown
  <2>3. /\ ~Refused /\ stored' = Written(stored)
        /\ storedRows' = [i \in DOMAIN formRows |-> WrittenRow(PayloadRow(formRows[i]))]
    BY <2>1, <2>2, Zenon DEF FieldsAccepted
  <2>4. /\ FieldsTypes /\ fieldStep \in Steps /\ storedRows \in Seq(StoredRow)
        /\ RecordColumns[fieldStep] = FormFields(fieldStep) /\ RowColumns[fieldStep] = RowInputs[fieldStep]
        /\ stored \in [RecordColumns[fieldStep] -> Values] /\ formRows \in Seq(FormRow)
    BY ListsAgree DEF FieldsInvariant, FieldsTypes
  <2>5. stored' = stored
    <3>1. \A f \in RecordColumns[fieldStep] : Written(stored)[f] = stored[f]
      BY <2>2, <2>4, WrittenIs
    <3>2. Written(stored) \in [RecordColumns[fieldStep] -> Values]
      BY <2>4, WrittenIs
    <3>3. PICK new \in [RecordColumns[fieldStep] -> Values] : new = Written(stored)
      BY <3>2
    <3>4. \A f \in RecordColumns[fieldStep] : new[f] = stored[f]
      BY <3>1, <3>3
    <3>5. new = stored
      BY <2>4, <3>3, <3>4
    <3> QED
      BY <2>3, <3>3, <3>5
  <2>6. FieldsInvariant'
    BY <2>1, AcceptedKeeps
  <2>7. PICK rows : rows = storedRows'
    OBVIOUS
  <2>8. rows \in Seq(StoredRow) /\ DOMAIN rows = DOMAIN formRows
    <3>1. UNCHANGED fieldStep
      BY <2>1 DEF FieldsAccepted
    <3>2. StoredRow' = StoredRow
      BY <3>1 DEF StoredRow
    <3> QED
      BY <2>3, <2>6, <2>7, <3>2 DEF FieldsInvariant, FieldsTypes
  <2>9. \A i \in DOMAIN storedRows :
          storedRows[i] \in StoredRow /\ StoredAsWritten(storedRows[i]) /\ DOMAIN storedRows[i] = RowInputs[fieldStep]
    BY <2>4, ElementOfSeq, LenProperties DEF StoredRow, FieldsInvariant
  <2>10. CASE storedRows # <<>> \/ fieldStep \notin {2, 5}
    <3>1. DOMAIN formRows = DOMAIN storedRows
          /\ \A i \in DOMAIN storedRows : formRows[i].cells = Serialised(storedRows[i])
      BY <2>2, <2>10, ShownRowsAre
    <3>2. ASSUME NEW i \in DOMAIN storedRows
          PROVE  rows[i] = storedRows[i]
      <4>1. PICK row \in StoredRow : row = storedRows[i] /\ StoredAsWritten(row)
                                     /\ DOMAIN row = RowInputs[fieldStep]
        BY <2>9
      <4>2. PICK shownRow \in FormRow : shownRow = formRows[i]
        BY <2>4, <3>1, ElementOfSeq, LenProperties
      <4>3. shownRow.cells = Serialised(row)
        BY <3>1, <4>1, <4>2
      <4>4. fieldStep # 1
        BY <2>4, LenProperties DEF FieldsTypes
      <4>5. rows[i] = [f \in RowInputs[fieldStep] |-> StoredCell(f, shownRow.cells[f])]
        BY <2>3, <2>4, <2>7, <3>1, <4>2, <4>4, WrittenRowIs
      <4>6. ASSUME NEW f \in RowInputs[fieldStep]
            PROVE  StoredCell(f, shownRow.cells[f]) = row[f]
        <5>1. shownRow.cells[f] = IF f \in Sensitive THEN IF row[f] = "" THEN "" ELSE "text" ELSE row[f]
          BY <2>4, <4>1, <4>3, SerialisedIs
        <5>2. IF f \in Sensitive THEN row[f] \in {"", Cipher} ELSE row[f] \in Values
          BY <4>1 DEF StoredAsWritten
        <5>3. f = "gender" => row[f] # ""
          BY <4>1 DEF StoredAsWritten
        <5>4. f \in Sensitive => EncryptIfNeeded(Sent(f, "")) = "" /\ EncryptIfNeeded(Sent(f, "text")) = Cipher
          BY DEF EncryptIfNeeded, Sent, IsEncrypted, Absent, Cipher, Sensitive, SentAsIs
        <5>5. CASE f \in Sensitive
          BY <5>1, <5>2, <5>4, <5>5 DEF StoredCell
        <5>6. CASE f \notin Sensitive
          BY <5>1, <5>3, <5>6 DEF StoredCell
        <5> QED
          BY <5>5, <5>6
      <4>7. rows[i] = [f \in RowInputs[fieldStep] |-> row[f]]
        BY <4>5, <4>6
      <4>8. row = [f \in RowInputs[fieldStep] |-> row[f]]
        BY <4>1 DEF StoredRow
      <4> QED
        BY <4>1, <4>7, <4>8
    <3>3. rows = storedRows
      BY <2>4, <2>8, <3>1, <3>2, SeqDef
    <3> QED
      BY <2>5, <2>7, <3>3
  <2>11. CASE storedRows = <<>> /\ fieldStep \in {2, 5}
    <3>1. formRows = <<NewFormRow(fieldStep)>>
      BY <2>2, <2>11 DEF ShownRows
    <3>2. ASSUME NEW i \in DOMAIN rows
          PROVE  \A f \in DOMAIN rows[i] : rows[i][f] = ""
      <4>1. PICK new \in FormRow : new = NewFormRow(fieldStep)
        BY <2>4, NewRowIs
      <4>2. i \in DOMAIN formRows /\ formRows[i] = new
        BY <2>8, <3>1, <4>1
      <4>3. rows[i] = [f \in RowInputs[fieldStep] |-> StoredCell(f, new.cells[f])]
        BY <2>3, <2>4, <2>7, <2>11, <4>2, WrittenRowIs
      <4>4. \A f \in RowInputs[fieldStep] : new.cells[f] = "" /\ f # "gender"
        <5>1. new.cells = [f \in RowInputs[fieldStep] |-> ""]
          BY <4>1 DEF NewFormRow, Blank
        <5>2. CASE fieldStep = 2
          BY <5>1, <5>2 DEF RowInputs, StepTwoInputs
        <5>3. CASE fieldStep = 5
          BY <5>1, <5>3 DEF RowInputs, StepFiveInputs
        <5> QED
          BY <2>11, <5>2, <5>3
      <4>5. \A f \in RowInputs[fieldStep] : StoredCell(f, "") = "" \/ f = "gender"
        BY DEF StoredCell, EncryptIfNeeded, Sent, Absent
      <4> QED
        BY <4>3, <4>4, <4>5
    <3>3. Rows(rows) = <<>>
      BY <2>8, <3>2, NoRows
    <3>4. Rows(storedRows) = <<>>
      <4>1. \A i \in DOMAIN storedRows : FALSE
        BY <2>11
      <4> QED
        BY <2>4, <4>1, NoRows
    <3> QED
      BY <2>5, <2>7, <3>3, <3>4
  <2> QED
    BY <2>10, <2>11
<1> QED
  BY <1>1, FieldsInvariantHolds, PTL DEF FieldsSpec, UntouchedSaveKeeps

=============================================================================
