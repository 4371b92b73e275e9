----------------------------- MODULE RecordForm -----------------------------
(***************************************************************************)
(* The seven-step record form of one browser tab: which step it shows, what *)
(* Save & Continue, Save Draft and Finish & Submit send, what their late    *)
(* answers do to a form the user has moved meanwhile, and how a form is     *)
(* filled when the route names a record.  "Create" and "Edit" are two       *)
(* routes of one component instance.                                        *)
(*                                                                         *)
(* Of the data a section (the object behind a step) keeps only which record *)
(* it shows and whether a rule of its step is broken; RecordFields has the  *)
(* fields and DocumentRows the rows of step six.                            *)
(***************************************************************************)
EXTENDS Naturals, FiniteSets

CONSTANTS FormRecords, NoRecord, MaxFormMoves  \* what the user does, over the whole behaviour

ASSUME FormAssumption == NoRecord \notin FormRecords /\ MaxFormMoves \in Nat

Sections == 1 .. 6

LastStep == 7  \* MAX_FORM_STEP: the review

VARIABLES
    formPage,        \* "form" or "list"
    route,       \* the record and the step the URL names
    formStep,        \* stepper.step
    rendered,    \* steps shown once: their v-form has computed a validity
    broken,      \* sections with a value that breaks a rule of their step
    content,     \* the record whose data a section shows
    unsaved,     \* sections whose data the server does not have
    loading,
    remembered,  \* recordStore.stepByRecordId, 0 for none
    server,      \* the status of each record
    progress,    \* and its lastCompletedStep
    formRequests,    \* answers still to come
    formMoves,
    strayed      \* why the form may show what is not its own: the user left the path
                 \* of Save & Continue or typed while saving ("moved"), or began a
                 \* new record on top of an open form ("reused"), or an answer meant
                 \* for an earlier route moved or filled the form ("pulled")

formState == <<formStep, rendered, broken, content, unsaved, loading>>

formVars == <<formPage, route, formState, remembered, server, progress, formRequests, formMoves, strayed>>

-----------------------------------------------------------------------------

InitiallyAllValid == {1, 2, 3, 4, 5}  \* mutant of InitiallyValid

\* The initial "valid" of a step nobody has looked at yet; step six has none
\* of its own, a watchEffect computes it.
InitiallyValid == {4, 5}

\* isCurrentStepValid; false for the review.
Valid(s) ==
    CASE s = LastStep -> FALSE
      [] s = 6 -> 6 \notin broken
      [] OTHER -> IF s \in rendered THEN s \notin broken ELSE s \in InitiallyValid

\* An empty form lacks the names of step one and the file of its document row.
BlankBroken == {1, 6}

FreshForm ==
    /\ formStep' = 1
    /\ rendered' = {1}
    /\ broken' = BlankBroken
    /\ content' = [s \in Sections |-> NoRecord]
    /\ unsaved' = Sections
    /\ loading' = FALSE

\* The create route inside a running instance: only step one is reset, the other
\* sections go on showing the record that was open.
ResetForm ==
    /\ formStep' = 1
    /\ rendered' = rendered \cup {1}
    /\ broken' = broken \cup {1}
    /\ content' = [content EXCEPT ![1] = NoRecord]
    /\ unsaved' = Sections
    /\ UNCHANGED loading

\* The form was left. Its answers still come, and a step one saved on the
\* create route still goes on to the edit route ("continue").
Gone(rs) == {[q EXCEPT !.gone = TRUE, !.clean = FALSE,
                       !.continue = @ /\ q.section = 1 /\ route.id = NoRecord] : q \in rs}

\* What was on its way belongs to data the form no longer shows.
Outdated(rs) == {[q EXCEPT !.clean = FALSE] : q \in rs}

Request(kind, id, section, continue) ==
    [kind |-> kind, id |-> id, section |-> section, continue |-> continue,
     clean |-> TRUE, gone |-> FALSE]

LoadOf(r) == [kind |-> "load", id |-> r, section |-> 1, continue |-> FALSE,
              clean |-> TRUE, gone |-> FALSE]

\* resolveInitialStep: the URL, then the memory, then the progress.
ResolveInitialStep(r, inUrl) ==
    IF inUrl # 0 THEN inUrl
    ELSE IF remembered[r] # 0 THEN remembered[r]
    ELSE IF progress[r] > 0 THEN progress[r] + 1
    ELSE 1

\* syncStepState, once the step is t and the URL names r.
SyncStepState(r, t) ==
    /\ remembered' = IF r = NoRecord THEN remembered ELSE [remembered EXCEPT ![r] = t]
    /\ route' = [id |-> r, step |-> IF r = NoRecord THEN 0 ELSE t]

SectionsButFive == Sections \ {5}  \* mutant of LoadedSections: one assignment is missing

LoadedSections == Sections

SetFormFields(r, old) == [s \in Sections |-> IF s \in LoadedSections THEN r ELSE old[s]]

-----------------------------------------------------------------------------

FormInit ==
    /\ formPage = "list"
    /\ route = [id |-> NoRecord, step |-> 0]
    /\ formStep = 1
    /\ rendered = {1}
    /\ broken = BlankBroken
    /\ content = [s \in Sections |-> NoRecord]
    /\ unsaved = Sections
    /\ loading = FALSE
    /\ remembered = [r \in FormRecords |-> 0]
    /\ server \in [FormRecords -> {"none", "draft"}]
    /\ progress = [r \in FormRecords |-> 0]
    /\ formRequests = {}
    /\ formMoves = 0
    /\ strayed = {}

FormMove == formMoves < MaxFormMoves /\ formMoves' = formMoves + 1

\* The sidebar's "Create Record", from the list or on top of an open form.
OpenCreate ==
    /\ FormMove
    /\ formPage = "list" \/ route.id # NoRecord
    /\ formPage' = "form"
    /\ route' = [id |-> NoRecord, step |-> 0]
    /\ IF formPage = "list" THEN FreshForm /\ UNCHANGED formRequests
       ELSE ResetForm /\ formRequests' = Outdated(formRequests)
    /\ strayed' = IF formPage = "form" THEN {"reused"} ELSE {}
    /\ UNCHANGED <<remembered, server, progress>>

\* The list's edit button.  The instance is new and blank until fetchRecordById answers:
\* the list's rows have numbers for ids, the route has a string, so the row is not found.
OpenEdit(r) ==
    /\ FormMove
    /\ formPage = "list"
    /\ server[r] # "none"
    /\ formPage' = "form"
    /\ route' = [id |-> r, step |-> 0]
    /\ FreshForm
    /\ formRequests' = formRequests \cup {LoadOf(r)}
    /\ strayed' = {}
    /\ UNCHANGED <<remembered, server, progress>>

\* The address bar or a link: the application starts anew.
OpenLink(r, inUrl) ==
    /\ FormMove
    /\ server[r] # "none"
    /\ formPage' = "form"
    /\ route' = [id |-> r, step |-> inUrl]
    /\ FreshForm
    /\ remembered' = [q \in FormRecords |-> 0]
    /\ formRequests' = {LoadOf(r)}
    /\ strayed' = {}
    /\ UNCHANGED <<server, progress>>

\* Back to the list.
Leave ==
    /\ FormMove
    /\ formPage = "form"
    /\ formPage' = "list"
    /\ route' = [id |-> NoRecord, step |-> 0]
    /\ FreshForm
    /\ formRequests' = Gone(formRequests)
    /\ UNCHANGED <<remembered, server, progress, strayed>>

\* The user changes the section of the step on the screen.
Edit ==
    /\ FormMove
    /\ formPage = "form"
    /\ formStep \in Sections
    /\ broken' \in {broken \cup {formStep}, broken \ {formStep}}
    /\ unsaved' = unsaved \cup {formStep}
    /\ formRequests' = {[q EXCEPT !.clean = @ /\ q.section # formStep] : q \in formRequests}
    /\ strayed' = IF formRequests # {} THEN strayed \cup {"moved"} ELSE strayed
    /\ UNCHANGED <<formPage, route, formStep, rendered, content, loading, remembered, server,
                   progress>>

\* The step becomes t by a click: Back, the stepper's header or the review's pencil.
GoToStep(t) ==
    /\ FormMove
    /\ formPage = "form"
    /\ t # formStep
    /\ \/ t = formStep - 1
       \/ route.id # NoRecord                  \* the header of an editable stepper
       \/ formStep = LastStep /\ t \in Sections    \* jump-to-step
    /\ formStep' = t
    /\ rendered' = rendered \cup {t}
    /\ strayed' = strayed \cup {"moved"}
    /\ IF route.id = NoRecord THEN UNCHANGED <<route, remembered>> ELSE SyncStepState(route.id, t)
    /\ UNCHANGED <<formPage, broken, content, unsaved, loading, server, progress, formRequests>>

Send(q) ==
    /\ FormMove
    /\ formPage = "form"
    /\ ~loading
    /\ loading' = TRUE
    /\ formRequests' = formRequests \cup {q}
    /\ UNCHANGED <<formPage, route, formStep, rendered, broken, content, unsaved, remembered, server,
                   progress, strayed>>

\* submitStepData('DRAFT', true): the button is disabled while the step is invalid.
SaveAndContinue ==
    /\ formStep \in Sections
    /\ Valid(formStep)
    /\ formStep = 1 \/ route.id # NoRecord
    /\ Send(Request("step", route.id, formStep, TRUE))

\* saveDraft: on the review it saves the documents.
SaveDraftClicked ==
    /\ formStep = 1 \/ route.id # NoRecord
    /\ Send(Request("step", route.id, IF formStep = LastStep THEN 6 ELSE formStep, FALSE))

\* submitFinalData: documents again, with the status COMPLETED.
FinishAndSubmit ==
    /\ formStep = LastStep
    /\ route.id # NoRecord
    /\ Send(Request("final", route.id, 6, FALSE))

-----------------------------------------------------------------------------
(* Answers. *)

\* continueNextStep.
Next1(t) == IF Valid(t) THEN t + 1 ELSE t

\* The step after the answer to q: onSuccess of step one, then the common tail,
\* which looks at the step that is on the screen by now.
StepAfter(q) ==
    IF ~q.continue THEN formStep
    ELSE LET shown == IF q.section = 1 THEN Next1(formStep) ELSE formStep
         IN IF shown # 1 THEN Next1(shown) ELSE shown

\* The record an accepted request writes: step one without an id inserts one.
Target(q) == IF q.id # NoRecord THEN {q.id} ELSE {r \in FormRecords : server[r] = "none"}

\* Sections the server has once it has accepted q, unless changed since it was sent.
SavedBy(q) == IF q.clean /\ ~q.gone THEN {q.section} ELSE {}

\* determineStepSubmissionAction: the form sends DRAFT, which never advances, or
\* COMPLETED, which is final.
Write(q, r) ==
    /\ server[r] # "completed"
    /\ server' = [server EXCEPT ![r] = IF q.kind = "final" THEN "completed" ELSE "draft"]
    /\ progress' = IF q.kind = "final" THEN [progress EXCEPT ![r] = 6] ELSE progress

Answered(q) == q \in formRequests /\ q.kind # "load" /\ UNCHANGED formMoves

\* A save of the instance that is on the screen, on a route of its own.
StepSaved(q) ==
    /\ Answered(q)
    /\ q.kind = "step" /\ ~q.gone
    /\ q.section # 1 \/ ~q.continue \/ route.id # NoRecord
    /\ \E r \in Target(q) : Write(q, r)
    /\ formRequests' = formRequests \ {q}
    /\ loading' = FALSE
    /\ unsaved' = unsaved \ SavedBy(q)
    /\ formStep' = StepAfter(q)
    /\ rendered' = rendered \cup {formStep'}
    /\ IF formStep' # formStep /\ route.id # NoRecord THEN SyncStepState(route.id, formStep')
       ELSE UNCHANGED <<route, remembered>>
    /\ UNCHANGED <<formPage, broken, content, strayed>>

\* "Save & Continue" on the create route goes on to the edit route, which loads the record.
RecordCreated(q) ==
    /\ Answered(q)
    /\ q.kind = "step" /\ ~q.gone
    /\ q.section = 1 /\ q.continue /\ route.id = NoRecord
    /\ \E r \in Target(q) :
         /\ Write(q, r)
         /\ route' = [id |-> r, step |-> 2]
         /\ formRequests' = (formRequests \ {q}) \cup {LoadOf(r)}
    /\ unsaved' = unsaved \ SavedBy(q)
    /\ formStep' = StepAfter(q)
    /\ rendered' = rendered \cup {formStep'}
    /\ loading' = FALSE
    /\ UNCHANGED <<formPage, broken, content, remembered, strayed>>

\* The final submission goes to the list, from wherever the user is by now.
FinalSaved(q) ==
    /\ Answered(q)
    /\ q.kind = "final"
    /\ \E r \in Target(q) : Write(q, r)
    /\ formPage' = "list"
    /\ route' = [id |-> NoRecord, step |-> 0]
    /\ FreshForm
    /\ formRequests' = Gone(formRequests \ {q})
    /\ UNCHANGED <<remembered, strayed>>

\* router.push to the edit route of r, step 2: nothing watches the step of the URL, and
\* an open form keeps what it shows until the record's load has answered.
Arrive(r, pending) ==
    /\ formPage' = "form"
    /\ route' = [id |-> r, step |-> 2]
    /\ formRequests' = pending \cup (IF formPage = "form" /\ route.id = r THEN {} ELSE {LoadOf(r)})
    /\ IF formPage = "form" THEN UNCHANGED formState ELSE FreshForm
    /\ UNCHANGED remembered

\* The answer to a form that was left: a created record still pulls the user to it.
SavedForGoneForm(q) ==
    /\ Answered(q)
    /\ q.kind = "step" /\ q.gone
    /\ \E r \in Target(q) :
         /\ Write(q, r)
         /\ IF q.continue
            THEN Arrive(r, formRequests \ {q}) /\ strayed' = strayed \cup {"pulled"}
            ELSE /\ formRequests' = formRequests \ {q}
                 /\ UNCHANGED <<formPage, route, formState, remembered, strayed>>

StuckAfterRefusal(q) == loading  \* mutant of LoadingAfterRefusal

\* The finally of the handlers; a form that was left has its own flag.
LoadingAfterRefusal(q) == IF q.gone THEN loading ELSE FALSE

\* A rule, the completed record, the network: the form stays as it is.
SaveFails(q) ==
    /\ Answered(q)
    /\ formRequests' = formRequests \ {q}
    /\ loading' = LoadingAfterRefusal(q)
    /\ UNCHANGED <<formPage, route, formStep, rendered, broken, content, unsaved, remembered, server,
                   progress, strayed>>

\* fetchRecordById has answered: whatever the route names by now, the form
\* shows the record that was asked for, and is its own again if the route names
\* it; a form that was left only writes the step of the route.
FormLoaded(q) ==
    /\ q \in formRequests
    /\ q.kind = "load"
    /\ formRequests' = Outdated(formRequests \ {q})
    /\ IF q.gone
       THEN /\ UNCHANGED formState
            /\ IF route.id = NoRecord THEN UNCHANGED <<route, remembered>>
               ELSE SyncStepState(route.id, ResolveInitialStep(q.id, route.step))
       ELSE /\ content' = SetFormFields(q.id, content)
            /\ broken' = {}
            /\ unsaved' = {}
            /\ formStep' = ResolveInitialStep(q.id, route.step)
            /\ rendered' = rendered \cup {formStep'}
            /\ IF route.id = NoRecord THEN UNCHANGED <<route, remembered>>
               ELSE SyncStepState(route.id, formStep')
            /\ UNCHANGED loading
    /\ strayed' = IF q.gone THEN strayed
                  ELSE IF q.id = route.id THEN {} ELSE strayed \cup {"pulled"}
    /\ UNCHANGED <<formPage, server, progress, formMoves>>

\* A load that fails is logged; the form keeps what it shows.
FormLoadFails(q) ==
    /\ q \in formRequests
    /\ q.kind = "load"
    /\ formRequests' = formRequests \ {q}
    /\ UNCHANGED <<formPage, route, formState, remembered, server, progress, formMoves, strayed>>

FormAnswer ==
    \E q \in formRequests :
      \/ StepSaved(q) \/ RecordCreated(q) \/ FinalSaved(q) \/ SavedForGoneForm(q)
      \/ SaveFails(q) \/ FormLoaded(q) \/ FormLoadFails(q)

FormUser ==
    \/ OpenCreate
    \/ \E r \in FormRecords : OpenEdit(r)
    \/ \E r \in FormRecords, t \in 0 .. LastStep : OpenLink(r, t)
    \/ Leave
    \/ Edit
    \/ \E t \in 1 .. LastStep : GoToStep(t)
    \/ SaveAndContinue
    \/ SaveDraftClicked
    \/ FinishAndSubmit

FormNext == FormUser \/ FormAnswer

\* Every request is answered or fails.
FormSpec == FormInit /\ [][FormNext]_formVars /\ WF_formVars(FormAnswer)
-----------------------------------------------------------------------------
(* Properties. *)

RequestType ==
    [kind : {"step", "final", "load"}, id : FormRecords \cup {NoRecord}, section : Sections,
     continue : BOOLEAN, clean : BOOLEAN, gone : BOOLEAN]

\* Every variable has its type; a review never names a step beyond the last.
FormTypeOK ==
    /\ formPage \in {"form", "list"}
    /\ route \in [id : FormRecords \cup {NoRecord}, step : 0 .. LastStep]
    /\ formStep \in 1 .. LastStep
    /\ rendered \subseteq 1 .. LastStep
    /\ broken \subseteq Sections
    /\ content \in [Sections -> FormRecords \cup {NoRecord}]
    /\ unsaved \subseteq Sections
    /\ loading \in BOOLEAN
    /\ remembered \in [FormRecords -> 0 .. LastStep]
    /\ server \in [FormRecords -> {"none", "draft", "completed"}]
    /\ progress \in [FormRecords -> {0, 6}]
    /\ formRequests \subseteq RequestType
    /\ formMoves \in 0 .. MaxFormMoves
    /\ strayed \subseteq {"moved", "reused", "pulled"}

\* Who only ever presses "Save & Continue" in a form of its own, and does not
\* type while a save is on its way, leaves no step behind that the server does not have: an answer
\* advances past the saved step only, although the handler advances twice
\* after step one.
WalkedThroughIsSaved ==
    formPage = "form" /\ strayed = {} => (1 .. formStep - 1) \cap unsaved = {}

\* Whatever loads, resets and late answers cross, a form shows one record at most, and
\* in step one that of its route (what a step shows is what its save sends there).  Two
\* things part them until the route's own record is loaded: an answer meant for an
\* earlier route, and "Create" on top of an open form, which resets step one only:
\* steps two to six go on showing the old record and would be saved as the new one's.
SectionsOfOneRecord ==
    /\ content[1] \in {NoRecord, content[2]}
    /\ \A s \in Sections \ {1} : content[s] = content[2]
    /\ formPage = "form" /\ "pulled" \notin strayed => content[1] \in {NoRecord, route.id}
    /\ formPage = "form" /\ strayed \cap {"reused", "pulled"} = {} => content[2] = content[1]

\* Once the record is loaded, the URL and the memory of the store name the step
\* on the screen, whichever way it was reached: a reload comes back to it.
\* Only an answer meant for an earlier route may part them.
UrlMirrorsStep ==
    /\ formPage = "form" /\ route.id # NoRecord /\ content[1] = route.id
    /\ "pulled" \notin strayed
    => route.step = formStep /\ remembered[route.id] = formStep

\* The form never has two saves on their way, even when it is reused for
\* another record while the first one runs.
OneSaveAtATime ==
    /\ Cardinality({q \in formRequests : q.kind # "load" /\ ~q.gone}) <= 1
    /\ (\E q \in formRequests : q.kind # "load" /\ ~q.gone) => loading

\* The form and its record stay together, whatever saves, loads and routes cross: one save
\* at a time, one record at most and the route's own, and a URL that names the step on the screen.
FormSafe == FormTypeOK /\ OneSaveAtATime /\ SectionsOfOneRecord /\ UrlMirrorsStep

=============================================================================
