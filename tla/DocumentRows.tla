---------------------------- MODULE DocumentRows ----------------------------
(***************************************************************************)
(* Step six: the rows of the form, the uploads that fill them by index when *)
(* their answers come, and the saves that replace the record's documents.   *)
(*                                                                         *)
(* A row's file is nothing, an upload (/records/R/document-uploads/F) or a  *)
(* document of the record (/records/R/documents/ID/file), which is what a   *)
(* load shows; names are left out.  The form is open from its first moment, *)
(* before the record's load has answered, and every step of it is.          *)
(* Interleavings of two step sixes inside the service are the business of   *)
(* RecordsService; here a save takes effect in one step.                    *)
(***************************************************************************)
EXTENDS Naturals, Sequences, FiniteSets, SequencesExt

CONSTANTS Files,       \* what the user can choose from
          TooLarge,    \* those over the size limit
          Kept,        \* the file of a document the record has at the start
          MaxDocumentRows, MaxCalls  \* bounds on what the user does

ASSUME RowsAssumption ==
    /\ TooLarge \subseteq Files
    /\ Kept \notin Files
    /\ MaxDocumentRows \in Nat \ {0} /\ MaxCalls \in Nat

VARIABLES
    docRows,      \* stepSix.documents
    uploads,   \* uploads on their way: the file, the row's index, and the files
               \* of a bulk choice that come after it
    leftUploads,  \* those of forms that were left: no row hears of them
    fetch,     \* the load of the form's record: "asked", "read" with the rows of
               \* its answer, or "none"; and whether the documents were replaced since
    saves,     \* step sixes on their way
    objects,   \* what is in the bucket
    docs,      \* the record's documents, in order
    lastId,
    completed,
    docOutcome,   \* of the save answered last
    given,     \* files the user has chosen
    tried,     \* files whose upload was sent or refused for their size
    calls,     \* saves sent and forms loaded
    disturbed, \* while an upload of the form was on its way a row was removed, the
               \* load's answer took the place of the rows, or a row was given a second one
    stale      \* the documents were replaced since the form, or a save of it that is
               \* still on its way, got its rows

rowsVars == <<docRows, uploads, leftUploads, fetch, saves, objects, docs, lastId, completed, docOutcome,
              given, tried, calls, disturbed, stale>>

-----------------------------------------------------------------------------

NoFile == [kind |-> "none"]

Upload(f) == [kind |-> "upload", of |-> f]

Doc(id) == [kind |-> "doc", id |-> id]

\* "wanted" is the file the user meant for the row; the code has no such field.
BlankRow == [file |-> NoFile, wanted |-> "nothing"]

\* toPublicRecord and setFormFields.
PublicRows(ds) ==
    [i \in DOMAIN ds |->
        [file |-> IF ds[i].file = "nothing" THEN NoFile ELSE Doc(ds[i].id),
         wanted |-> ds[i].file]]

NoFetch == [state |-> "none", rows |-> <<>>, stale |-> FALSE]

AskedFor == [NoFetch EXCEPT !.state = "asked"]

RowsInit ==
    /\ docs \in {<<>>, <<[id |-> 1, file |-> Kept]>>}
    /\ objects = {d.file : d \in Range(docs)}
    /\ lastId = Len(docs)
    /\ docRows = <<BlankRow>>
    /\ fetch = AskedFor
    /\ uploads = {} /\ leftUploads = {}
    /\ saves = {}
    /\ completed = FALSE
    /\ docOutcome = "none"
    /\ given = {} /\ tried = {}
    /\ calls = 0
    /\ disturbed = FALSE /\ stale = FALSE

-----------------------------------------------------------------------------
(* The rows. *)

rowsServer == <<leftUploads, fetch, saves, objects, docs, lastId, completed, docOutcome, calls, stale>>

\* What the user has done: files chosen, saves and loads.
Called == Cardinality(given) + calls

AddBlankDocument ==
    /\ Len(docRows) < MaxDocumentRows
    /\ docRows' = Append(docRows, BlankRow)
    /\ UNCHANGED <<uploads, rowsServer, given, tried, disturbed>>

RemoveDocument(i) ==
    /\ docRows' = RemoveAt(docRows, i)
    /\ disturbed' = (disturbed \/ uploads # {})
    /\ UNCHANGED <<uploads, rowsServer, given, tried>>

RowOf(f) == [BlankRow EXCEPT !.wanted = f]

\* How many files the loop takes until it has to await an upload.
Turn(fs) ==
    IF \E k \in DOMAIN fs : fs[k] \notin TooLarge
    THEN CHOOSE k \in DOMAIN fs :
           fs[k] \notin TooLarge /\ \A j \in 1 .. k - 1 : fs[j] \in TooLarge
    ELSE Len(fs)

\* The index of the last of the n rows made after rs.
IndexOf(rs, n) == Len(rs) + n

\* addAndUploadDocuments, from one await to the next, on rows rs with the other
\* uploads us: a row for each file, and an upload for the last unless too large.
AddAndUploadDocuments(rs, us, fs) ==
    LET n == Turn(fs)
    IN /\ docRows' = rs \o [k \in 1 .. n |-> RowOf(fs[k])]
       /\ tried' = tried \cup {fs[k] : k \in 1 .. n}
       /\ uploads' = us \cup
            IF fs[n] \in TooLarge THEN {}
            ELSE {[file |-> fs[n], index |-> IndexOf(rs, n), rest |-> SubSeq(fs, n + 1, Len(fs))]}

\* Files are chosen or dropped in bulk.
ChooseFiles(fs) ==
    /\ given \cap Range(fs) = {}
    /\ Called + Len(fs) <= MaxCalls
    /\ given' = given \cup Range(fs)
    /\ AddAndUploadDocuments(docRows, uploads, fs)
    /\ UNCHANGED <<rowsServer, disturbed>>

\* The Upload button of a row that has no file: a file picker, then one upload.
UploadForRow(i, f) ==
    /\ docRows[i].file = NoFile
    /\ f \notin given
    /\ Called < MaxCalls
    /\ given' = given \cup {f}
    /\ tried' = tried \cup {f}
    /\ IF f \in TooLarge THEN UNCHANGED <<docRows, uploads>>
       ELSE /\ docRows' = [docRows EXCEPT ![i].wanted = f]
            /\ uploads' = uploads \cup {[file |-> f, index |-> i, rest |-> <<>>]}
    /\ disturbed' = (disturbed \/ \E u \in uploads : u.index = i)
    /\ UNCHANGED <<rowsServer>>

\* The loop of a bulk choice goes on with the next file, or is over.
Continue(u, rs) ==
    IF u.rest = <<>> THEN docRows' = rs /\ uploads' = uploads \ {u} /\ UNCHANGED tried
    ELSE AddAndUploadDocuments(rs, uploads \ {u}, u.rest)

\* setUploadUrlForDoc: the row that has the index by now; past the end it
\* throws, and the user is told that the upload failed.
UploadSucceeds(u) ==
    /\ u \in uploads
    /\ objects' = objects \cup {u.file}
    /\ Continue(u, IF u.index \in DOMAIN docRows
                   THEN [docRows EXCEPT ![u.index].file = Upload(u.file)]
                   ELSE docRows)
    /\ UNCHANGED <<leftUploads, fetch, saves, docs, lastId, completed, docOutcome, given, calls,
                   disturbed, stale>>

\* The catch of uploadFileForDocument: a message, and the loop goes on.
AfterFailure(u) == Continue(u, docRows)

UploadFails(u) ==
    /\ u \in uploads
    /\ AfterFailure(u)
    /\ UNCHANGED <<rowsServer, given, disturbed>>

\* What the loop of a form that was left sends next.
NextUpload(fs) ==
    LET n == Turn(fs)
    IN IF fs[n] \in TooLarge THEN {} ELSE {[file |-> fs[n], rest |-> SubSeq(fs, n + 1, Len(fs))]}

\* An upload of a form that was left is answered or fails: its loop goes on, on rows
\* nobody sees.
LeftUploadAnswered(u) ==
    /\ u \in leftUploads
    /\ objects' \in {objects, objects \cup {u.file}}
    /\ IF u.rest = <<>> THEN leftUploads' = leftUploads \ {u} /\ UNCHANGED tried
       ELSE /\ leftUploads' = (leftUploads \ {u}) \cup NextUpload(u.rest)
            /\ tried' = tried \cup {u.rest[k] : k \in 1 .. Turn(u.rest)}
    /\ UNCHANGED <<docRows, uploads, fetch, saves, docs, lastId, completed, docOutcome, given, calls,
                   disturbed, stale>>

-----------------------------------------------------------------------------
(* Saves. *)

\* "Save Draft" and "Finish & Submit" take the rows as they are ("Save &
\* Continue" is a draft of rows that all have a file and a name); the form waits
\* for the answer before it sends another.
Save(final) ==
    /\ Called < MaxCalls
    /\ \A s \in saves : ~s.mine
    /\ calls' = calls + 1
    /\ saves' = saves \cup {[rows |-> docRows, final |-> final, mine |-> TRUE]}
    /\ UNCHANGED <<docRows, uploads, leftUploads, fetch, objects, docs, lastId, completed, docOutcome,
                   given, tried, disturbed, stale>>

\* resolveDocumentMetadata: the object a row stands for, or no answer.
Resolves(file) ==
    CASE file.kind = "none" -> TRUE
      [] file.kind = "upload" -> file.of \in objects
      [] file.kind = "doc" -> \E d \in Range(docs) : d.id = file.id

Resolved(file) ==
    CASE file.kind = "none" -> "nothing"
      [] file.kind = "upload" -> file.of
      [] file.kind = "doc" -> (CHOOSE d \in Range(docs) : d.id = file.id).file

SubmittedUploads(s) ==  \* mutant of Retained: a document that is kept is not counted
    {s.rows[i].file.of : i \in {j \in DOMAIN s.rows : s.rows[j].file.kind = "upload"}}

Retained(s) == {Resolved(s.rows[i].file) : i \in DOMAIN s.rows}

\* createStepSix: all documents are deleted and inserted anew, with new ids.
DocumentsAccepted(s) ==
    /\ s \in saves
    /\ ~completed
    /\ \A i \in DOMAIN s.rows : Resolves(s.rows[i].file)
    /\ docs' = [i \in DOMAIN s.rows |->
                  [id |-> lastId + i, file |-> Resolved(s.rows[i].file)]]
    /\ lastId' = lastId + Len(s.rows)
    /\ objects' = objects \ ({d.file : d \in Range(docs)} \ Retained(s))
    /\ completed' = s.final
    /\ saves' = saves \ {s}
    /\ stale' = TRUE
    /\ fetch' = [fetch EXCEPT !.stale = TRUE]
    /\ docOutcome' = "accepted"
    /\ UNCHANGED <<docRows, uploads, leftUploads, given, tried, calls, disturbed>>

DocumentsRefused(s) ==
    /\ s \in saves
    /\ completed \/ \E i \in DOMAIN s.rows : ~Resolves(s.rows[i].file)
    /\ saves' = saves \ {s}
    /\ docOutcome' = IF s.mine THEN "refused" ELSE "ignored"
    /\ UNCHANGED <<docRows, uploads, leftUploads, fetch, objects, docs, lastId, completed, given, tried,
                   calls, disturbed, stale>>

-----------------------------------------------------------------------------
(* Loads. *)

\* The form is left and opened again, also while a save, an upload or a load is on its
\* way: a new instance with one blank row asks for the record.
LoadDocuments ==
    /\ Called < MaxCalls
    /\ calls' = calls + 1
    /\ docRows' = <<BlankRow>>
    /\ fetch' = AskedFor
    /\ leftUploads' = leftUploads \cup {[file |-> u.file, rest |-> u.rest] : u \in uploads}
    /\ uploads' = {}
    /\ saves' = {[s EXCEPT !.mine = FALSE] : s \in saves}
    /\ stale' = FALSE /\ disturbed' = FALSE
    /\ docOutcome' = "none"
    /\ UNCHANGED <<objects, docs, lastId, completed, given, tried>>

\* The server reads the record; until the answer comes it may be replaced.
DocumentsRead ==
    /\ fetch.state = "asked"
    /\ fetch' = [state |-> "read", rows |-> PublicRows(docs), stale |-> FALSE]
    /\ UNCHANGED <<docRows, uploads, leftUploads, saves, objects, docs, lastId, completed, docOutcome,
                   given, tried, calls, disturbed, stale>>

\* The answer takes the place of the rows of the same instance, whatever is in them and
\* whichever uploads are to write into them by index.
DocumentsLoaded ==
    /\ fetch.state = "read"
    /\ docRows' = fetch.rows
    /\ fetch' = NoFetch
    /\ disturbed' = (disturbed \/ uploads # {})
    /\ stale' = (fetch.stale \/ (stale /\ \E s \in saves : s.mine))
    /\ docOutcome' = "loaded"
    /\ UNCHANGED <<uploads, leftUploads, saves, objects, docs, lastId, completed, given, tried, calls>>

\* The load fails: logged, and the rows stay as they are.
DocumentsNotLoaded ==
    /\ fetch.state = "asked"
    /\ fetch' = NoFetch
    /\ UNCHANGED <<docRows, uploads, leftUploads, saves, objects, docs, lastId, completed, docOutcome,
                   given, tried, calls, disturbed, stale>>

-----------------------------------------------------------------------------

Selections == {fs \in UNION {[1 .. n -> Files] : n \in 1 .. 2} : IsInjective(fs)}

RowsUser ==
    \/ AddBlankDocument
    \/ \E i \in DOMAIN docRows : RemoveDocument(i)
    \/ \E fs \in Selections : ChooseFiles(fs)
    \/ \E i \in DOMAIN docRows, f \in Files : UploadForRow(i, f)
    \/ Save(FALSE)
    \/ Save(TRUE)
    \/ LoadDocuments

UploadAnswer ==
    \/ \E u \in uploads : UploadSucceeds(u) \/ UploadFails(u)
    \/ \E u \in leftUploads : LeftUploadAnswered(u)

LoadAnswer == DocumentsRead \/ DocumentsLoaded \/ DocumentsNotLoaded

SaveAnswer == \E s \in saves : DocumentsAccepted(s) \/ DocumentsRefused(s)

RowsNext == RowsUser \/ UploadAnswer \/ LoadAnswer \/ SaveAnswer

\* Uploads are answered or fail.
RowsSpec == RowsInit /\ [][RowsNext]_rowsVars /\ WF_rowsVars(UploadAnswer)

-----------------------------------------------------------------------------
(* Properties. *)

RowType ==
    [file : {NoFile} \cup {Upload(f) : f \in Files} \cup {Doc(id) : id \in 1 .. lastId},
     wanted : Files \cup {Kept, "nothing"}]

\* Every variable has its type; a row never names a document that never was.
RowsTypeOK ==
    /\ docRows \in Seq(RowType)
    /\ \A u \in uploads : u.file \in Files /\ u.index \in Nat \ {0} /\ u.rest \in Seq(Files)
    /\ \A u \in leftUploads : u.file \in Files /\ u.rest \in Seq(Files)
    /\ fetch.state \in {"none", "asked", "read"} /\ fetch.rows \in Seq(RowType) /\ fetch.stale \in BOOLEAN
    /\ \A s \in saves : s.rows \in Seq(RowType)
    /\ objects \subseteq Files \cup {Kept}
    /\ lastId \in Nat
    /\ {completed, disturbed, stale} \subseteq BOOLEAN
    /\ docOutcome \in {"none", "loaded", "accepted", "refused", "ignored"}
    /\ tried \subseteq given /\ given \subseteq Files

\* A document of the record always has its object: a save never deletes what
\* one of the new rows refers to, under whatever url the form names it.
EveryDocumentStored ==
    \A d \in Range(docs) : d.file \in objects \cup {"nothing"}

\* An upload ends up in the row that was made for it: several bulk choices and uploads of
\* single rows may overlap, forms may be left and opened again, and answers may come in any
\* order.  It may not, as an answer writes by index, once during an upload of this form a
\* row was removed or given a second file, or the record's load answered: the form lets the
\* user reach step six and upload before that.
RowGetsItsFile ==
    ~disturbed => \A i \in DOMAIN docRows : docRows[i].file.kind = "upload" => docRows[i].file.of = docRows[i].wanted

\* A save is refused only for what it says: the record is completed, or a row shows a
\* document by an id that an accepted save has replaced since the record was read.
DocumentRefusalHasACause ==
    docOutcome = "refused" => completed \/ stale

\* Rows and files stay together, on the screen and in storage, and nothing else is refused.
RowsSafe == RowsTypeOK /\ EveryDocumentStored /\ RowGetsItsFile /\ DocumentRefusalHasACause

=============================================================================
