----------------------------- MODULE MCFrontend -----------------------------
(***************************************************************************)
(* The views of the frontend on small instances.  The router mounts one of *)
(* them; they share no state but the record, which each module has as much *)
(* of as its view shows.  A behaviour is a behaviour of the mounted view,  *)
(* and the others stay at one of their initial states.                     *)
(***************************************************************************)
EXTENDS RecordForm, DocumentRows, RecordFields, RecordList, RecordReview, RecordViewer

VARIABLE mounted

frontendVars == <<mounted, formVars, rowsVars, fieldsVars, listVars, reviewVars, viewerVars>>

\* Where a view stands that is not mounted.
Unmounted ==
    /\ mounted # "form" => \A r \in FormRecords : server[r] = "none"
    /\ mounted # "documents" => docs = <<>>
    /\ mounted # "fields" => fieldStep = 1
    /\ mounted # "list" => \A r \in ListedRecords : status[r] = "DRAFT"
    /\ mounted # "review" => reviewStored = Required /\ storedDocs = <<>> /\ reviewStep = 1
    /\ mounted # "viewer" => \A d \in Documents : view[d].search = "INDEXED"

FrontendInit ==
    /\ mounted \in {"form", "documents", "fields", "list", "review", "viewer"}
    /\ FormInit /\ RowsInit /\ FieldsInit /\ ListInit /\ ReviewInit /\ ViewerInit
    /\ Unmounted

FrontendNext ==
    \/ /\ mounted = "form" /\ FormNext
       /\ UNCHANGED <<mounted, rowsVars, fieldsVars, listVars, reviewVars, viewerVars>>
    \/ /\ mounted = "documents" /\ RowsNext
       /\ UNCHANGED <<mounted, formVars, fieldsVars, listVars, reviewVars, viewerVars>>
    \/ /\ mounted = "fields" /\ FieldsNext
       /\ UNCHANGED <<mounted, formVars, rowsVars, listVars, reviewVars, viewerVars>>
    \/ /\ mounted = "list" /\ ListNext
       /\ UNCHANGED <<mounted, formVars, rowsVars, fieldsVars, reviewVars, viewerVars>>
    \/ /\ mounted = "review" /\ ReviewNext
       /\ UNCHANGED <<mounted, formVars, rowsVars, fieldsVars, listVars, viewerVars>>
    \/ /\ mounted = "viewer" /\ ViewerNext
       /\ UNCHANGED <<mounted, formVars, rowsVars, fieldsVars, listVars, reviewVars>>

\* The fairness of each module, for the mounted view.
FrontendSpec ==
    /\ FrontendInit /\ [][FrontendNext]_frontendVars
    /\ WF_formVars(mounted = "form" /\ FormAnswer)
    /\ WF_rowsVars(mounted = "documents" /\ UploadAnswer)
    /\ WF_listVars(mounted = "list" /\ ListAnswer)
    /\ WF_listVars(mounted = "list" /\ ResetAndLoad)

-----------------------------------------------------------------------------
(* Properties. *)

\* The form waits for an answer, a chosen file for its turn, or the toolbar and the list
\* disagree.
Waiting == loading \/ given # tried \/ (filter # shown /\ ~mixed)

\* No view is left waiting: the form's buttons come back whatever becomes of a save, every
\* file of a bulk choice gets its row and its try, and the list follows the toolbar.
FrontendSettles == Waiting ~> ~Waiting

=============================================================================
