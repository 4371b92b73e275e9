---------------------------- MODULE RecordReview ----------------------------
(***************************************************************************)
(* The review step: what it says is missing, section by section, and what   *)
(* the final submission asks for.  The form is edited between reviews and   *)
(* saved step by step; a field or a file is there or it is not.  The rows   *)
(* of the steps two to five only count.  Meanwhile the record may be saved,  *)
(* submitted, reopened or removed from elsewhere: another tab of its owner,  *)
(* or an administrator.                                                     *)
(***************************************************************************)
EXTENDS Naturals, Sequences, FiniteSets, SequencesExt

CONSTANTS Optional,  \* fields of the personal section that may be empty
          MaxDocs, MaxReviewRows, MaxReviewMoves  \* bounds on what the user does

ASSUME ReviewAssumption ==
    /\ Optional \cap {"firstName", "email"} = {}
    /\ MaxDocs \in Nat \ {0} /\ MaxReviewRows \in Nat /\ MaxReviewMoves \in Nat

Required == {"firstName", "email"}

Fields == Required \cup Optional

RowSteps == 2 .. 5

DocumentStep == 6

ReviewStep == 7

Document == [name : BOOLEAN, file : BOOLEAN]

\* What a row's file is: nothing, an upload the record does not have yet, one it has, a
\* document of the record by its id, or a reference to what is there no longer.
FileState == {"none", "new", "upload", "document", "gone"}

ReviewRow == [name : BOOLEAN, file : FileState]

VARIABLES
    filled,      \* the fields of step one that have a value in the form
    reviewRows,        \* rows with a type or a number, per step
    reviewDocs,        \* stepSix.documents
    reviewStored,      \* the fields that have a value in the database
    storedDocs,  \* the documents there
    reviewStep,        \* stepper.step
    hideEmpty,   \* hideEmptyFields
    recordStatus,  \* of the record, "REMOVED" when it is gone
    ready,       \* the banner said at the last submission that all is complete
    reviewAnswer,  \* of the last submission
    replaced,    \* this form has saved its documents, which gave them new ids
    elsewhere,   \* somebody else has changed the record since the form was opened
    reviewMoves

reviewState == <<filled, reviewRows, reviewDocs>>

submission == <<ready, reviewAnswer>>

reviewVars == <<reviewState, reviewStored, storedDocs, reviewStep, hideEmpty, recordStatus, submission,
                replaced, elsewhere, reviewMoves>>

-----------------------------------------------------------------------------
(* The summary of ViewComponent. *)

\* summarizeFields: what is shown, how many have a value, whether one must.
SummarizeFields(fs, required, values) ==
    [shown |-> {f \in fs : ~hideEmpty \/ f \in values \/ f \in required},
     filled |-> Cardinality(fs \cap values),
     total |-> Cardinality(fs),
     missingRequired |-> ~(required \subseteq values)]

DotFor(n, total, missingRequired, rowCount) ==
    IF missingRequired THEN "red"
    ELSE IF total > 0 /\ n = total THEN "green"
    ELSE IF n > 0 \/ rowCount > 0 THEN "amber" ELSE "neutral"

Personal == SummarizeFields(Fields, Required, filled)

\* The dot of a section; the fields of steps three and four are left out.
Dot(s) ==
    IF s = 1 THEN DotFor(Personal.filled, Personal.total, Personal.missingRequired, 0)
    ELSE DotFor(0, 0, FALSE, reviewRows[s])

MissingPersonalFields == Required \ filled

NamedWithoutFile == {i \in DOMAIN reviewDocs : reviewDocs[i].name /\ reviewDocs[i].file = "none"}  \* mutant of MissingDocuments

MissingDocuments == {i \in DOMAIN reviewDocs : reviewDocs[i].file = "none"}

\* What the banner lists, each after the step its pill leads to.
Blockers ==
    ({1} \X MissingPersonalFields) \cup ({DocumentStep} \X MissingDocuments)

DocumentsDot == IF reviewDocs # <<>> /\ MissingDocuments # {} THEN "amber" ELSE "green"

-----------------------------------------------------------------------------

\* The rows of a record's documents, as the server answers with them.
RowsOf(ds) == [i \in DOMAIN ds |-> [name |-> ds[i].name, file |-> IF ds[i].file THEN "document" ELSE "none"]]

\* The form right after its record was loaded.
ReviewInit ==
    /\ reviewStored \in {Required, Fields} /\ filled = reviewStored
    /\ reviewRows = [s \in RowSteps |-> 0]
    /\ storedDocs \in {<<>>, <<[name |-> TRUE, file |-> TRUE]>>}
    /\ reviewDocs = RowsOf(storedDocs)
    /\ reviewStep \in {1, DocumentStep, ReviewStep}
    /\ hideEmpty = TRUE
    /\ recordStatus = "DRAFT"
    /\ ready = FALSE /\ reviewAnswer = "none"
    /\ replaced = FALSE /\ elsewhere = FALSE
    /\ reviewMoves = 0

\* After an accepted submission the form is left.
ReviewMove ==
    /\ reviewAnswer # "accepted"
    /\ reviewMoves < MaxReviewMoves
    /\ reviewMoves' = reviewMoves + 1

database == <<reviewStored, storedDocs, recordStatus, submission, replaced, elsewhere>>

\* The edit form has every step in reach: the stepper's items are editable.
GoToSection(s) ==
    /\ ReviewMove
    /\ reviewStep' = s
    /\ UNCHANGED <<reviewState, database, hideEmpty>>

\* A pill of the banner, or a section's button.
JumpToStep(s) ==
    /\ reviewStep = ReviewStep
    /\ GoToSection(s)

ToggleField(f) ==
    /\ reviewStep = 1 /\ ReviewMove
    /\ filled' = IF f \in filled THEN filled \ {f} ELSE filled \cup {f}
    /\ UNCHANGED <<reviewRows, reviewDocs, database, reviewStep, hideEmpty>>

ChangeRows(s, n) ==
    /\ reviewStep = s /\ ReviewMove
    /\ reviewRows' = [reviewRows EXCEPT ![s] = n]
    /\ UNCHANGED <<filled, reviewDocs, database, reviewStep, hideEmpty>>

\* A blank row, a name typed, a file uploaded, a row removed.
ChangeDocuments ==
    /\ reviewStep = DocumentStep /\ ReviewMove
    /\ \/ /\ Len(reviewDocs) < MaxDocs
          /\ reviewDocs' = Append(reviewDocs, [name |-> FALSE, file |-> "none"])
       \/ \E i \in DOMAIN reviewDocs :
            \/ reviewDocs' = [reviewDocs EXCEPT ![i].name = ~reviewDocs[i].name]
            \/ /\ reviewDocs[i].file = "none"
               /\ reviewDocs' = [reviewDocs EXCEPT ![i].file = "new"]
            \/ reviewDocs' = RemoveAt(reviewDocs, i)
    /\ UNCHANGED <<filled, reviewRows, database, reviewStep, hideEmpty>>

\* ensureRecordEditable, after findOne.
Editable == recordStatus = "DRAFT"

\* Step one needs its required fields; a field that was emptied is left out of the
\* payload, so the column keeps its value.
SavePersonal ==
    /\ reviewStep = 1 /\ ReviewMove
    /\ Required \subseteq filled
    /\ reviewStored' = IF Editable THEN reviewStored \cup filled ELSE reviewStored
    /\ UNCHANGED <<reviewState, storedDocs, recordStatus, submission, replaced, elsewhere, reviewStep, hideEmpty>>

\* resolveDocumentMetadata: a row that names a document by an id, or an upload, that the
\* record or the storage does not have is refused.
DocumentsResolve == \A i \in DOMAIN reviewDocs : reviewDocs[i].file # "gone"

\* What createStepSix stores of the rows.
StoredRows == [i \in DOMAIN reviewDocs |-> [name |-> reviewDocs[i].name, file |-> reviewDocs[i].file # "none"]]

\* Where the rows of a form stand once the record's documents were replaced: the ids are
\* new, and the uploads that were documents are there if they still are.
AfterReplacing(rows, kept) ==
    [i \in DOMAIN rows |->
        [rows[i] EXCEPT !.file = CASE @ = "document" -> "gone"
                                   [] @ = "upload" /\ ~kept -> "gone"
                                   [] OTHER -> @]]

\* The form's own uploads are documents of the record now.
AfterSaving(rows) ==
    [i \in DOMAIN rows |->
        [rows[i] EXCEPT !.file = CASE @ = "document" -> "gone"
                                   [] @ = "new" -> "upload"
                                   [] OTHER -> @]]

\* createStepSix without a final status; the form keeps its rows.
SaveRows ==
    /\ IF Editable /\ DocumentsResolve
       THEN storedDocs' = StoredRows /\ reviewDocs' = AfterSaving(reviewDocs) /\ replaced' = TRUE
       ELSE UNCHANGED <<storedDocs, reviewDocs, replaced>>
    /\ UNCHANGED <<filled, reviewRows, reviewStored, recordStatus, submission, elsewhere, reviewStep, hideEmpty>>

\* The watchEffect of step six: no save without every file and name.
SaveDocuments ==
    /\ reviewStep = DocumentStep /\ ReviewMove
    /\ \A i \in DOMAIN reviewDocs : reviewDocs[i].file # "none" /\ reviewDocs[i].name
    /\ SaveRows

\* Save Draft of the review step has no such condition.
SaveDraftAgain ==
    /\ reviewStep = ReviewStep /\ ReviewMove
    /\ SaveRows

ToggleHideEmpty ==
    /\ reviewStep = ReviewStep /\ ReviewMove
    /\ hideEmpty' = ~hideEmpty
    /\ UNCHANGED <<reviewState, database, reviewStep>>

\* What the service asks of the stored record.
ValidateFinalSubmission == Required \subseteq reviewStored

\* Finish & Submit, as createStepSix answers it.
Submit ==
    /\ reviewStep = ReviewStep /\ ReviewMove
    /\ IF Editable /\ DocumentsResolve /\ ValidateFinalSubmission
       THEN storedDocs' = StoredRows /\ recordStatus' = "COMPLETED" /\ reviewAnswer' = "accepted"
       ELSE UNCHANGED <<storedDocs, recordStatus>> /\ reviewAnswer' = "refused"
    /\ ready' = (Blockers = {})
    /\ UNCHANGED <<reviewState, reviewStored, replaced, elsewhere, reviewStep, hideEmpty>>

\* Another tab has the record open: its step six, draft or final, with the documents as
\* they are or without any.
SavedElsewhere(final, kept) ==
    /\ ReviewMove /\ Editable
    /\ storedDocs' = IF kept THEN storedDocs ELSE <<>>
    /\ reviewDocs' = AfterReplacing(reviewDocs, kept)
    /\ recordStatus' = IF final THEN "COMPLETED" ELSE "DRAFT"
    /\ elsewhere' = TRUE
    /\ UNCHANGED <<filled, reviewRows, reviewStored, submission, replaced, reviewStep, hideEmpty>>

\* The record is reopened by its owner or an administrator, or removed with its documents.
ChangedElsewhere ==
    /\ ReviewMove
    /\ \/ recordStatus = "COMPLETED" /\ recordStatus' = "DRAFT" /\ UNCHANGED <<storedDocs, reviewDocs>>
       \/ /\ recordStatus # "REMOVED" /\ recordStatus' = "REMOVED"
          /\ storedDocs' = <<>> /\ reviewDocs' = AfterReplacing(reviewDocs, FALSE)
    /\ elsewhere' = TRUE
    /\ UNCHANGED <<filled, reviewRows, reviewStored, submission, replaced, reviewStep, hideEmpty>>

ReviewNext ==
    \/ \E s \in 1 .. ReviewStep : GoToSection(s) \/ JumpToStep(s)
    \/ \E f \in Fields : ToggleField(f)
    \/ \E s \in RowSteps, n \in 0 .. MaxReviewRows : ChangeRows(s, n)
    \/ ChangeDocuments
    \/ SavePersonal \/ SaveDocuments \/ SaveDraftAgain
    \/ ToggleHideEmpty
    \/ Submit
    \/ \E final, kept \in BOOLEAN : SavedElsewhere(final, kept)
    \/ ChangedElsewhere

ReviewSpec == ReviewInit /\ [][ReviewNext]_reviewVars

-----------------------------------------------------------------------------
(* Properties. *)

\* Every variable has its type; a record never loses a required field once stored.
ReviewTypeOK ==
    /\ filled \subseteq Fields
    /\ reviewRows \in [RowSteps -> 0 .. MaxReviewRows]
    /\ reviewDocs \in Seq(ReviewRow) /\ Len(reviewDocs) <= MaxDocs
    /\ Required \subseteq reviewStored /\ reviewStored \subseteq Fields
    /\ storedDocs \in Seq(Document)
    /\ reviewStep \in 1 .. ReviewStep
    /\ recordStatus \in {"DRAFT", "COMPLETED", "REMOVED"}
    /\ reviewAnswer \in {"none", "accepted", "refused"}
    /\ {hideEmpty, ready, replaced, elsewhere} \subseteq BOOLEAN
    /\ reviewMoves \in 0 .. MaxReviewMoves

\* The banner and the sections say the same: a section is red exactly when one of
\* its fields is on the banner, the documents are amber exactly when one is, and no
\* field on the banner is hidden.
SectionsShowBlockers ==
    /\ \A s \in 1 .. 5 : Dot(s) = "red" <=> \E b \in Blockers : b[1] = s
    /\ DocumentsDot = "amber" <=> \E b \in Blockers : b[1] = DocumentStep
    /\ MissingPersonalFields \subseteq Personal.shown

\* A submission is refused only after somebody else changed the record or after this form
\* has saved its documents once: the ids the rows have are the old ones then.
RefusalHasACause == reviewAnswer = "refused" => elsewhere \/ replaced

\* A record that was announced as complete is completed with a file for every document.
CompletedIsWhole ==
    ready /\ reviewAnswer = "accepted" =>
        recordStatus = "COMPLETED" /\ \A i \in DOMAIN storedDocs : storedDocs[i].file

\* What the review says is what the submission does.
ReviewSafe == ReviewTypeOK /\ SectionsShowBlockers /\ RefusalHasACause /\ CompletedIsWhole

\* "Everything required is complete - ready to submit.": then the submission is accepted,
\* if nobody else has touched the record.  The code refuses it once step six was saved
\* from this form, since the form goes on with the ids of the documents it loaded.
ReadyIsAccepted == ready /\ ~elsewhere => reviewAnswer = "accepted"

=============================================================================
