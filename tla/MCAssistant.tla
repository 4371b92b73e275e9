----------------------------- MODULE MCAssistant -----------------------------
(***************************************************************************)
(* What answers questions about records and documents, on small instances:  *)
(* the chat, the paging through records, the search for passages, the OCR   *)
(* queue and the chunking.  Each module has of the others what it uses of   *)
(* them, as a choice of outcomes, so a behaviour is a behaviour of one part *)
(* while the others rest at one of their initial states.                    *)
(***************************************************************************)
EXTENDS AiChat, SearchPaging, DocumentSearch, OcrPipeline, DocumentChunking

VARIABLE part

assistantVars == <<part, chatVars, pagingVars, searchVars, ocrVars, chunkingVars>>

\* Where a part rests; an administrator's own records are all or every other one.
Resting ==
    /\ mine \in {Records} \cup (IF part = "paging" THEN {{r \in Records : r % 2 = 1}} ELSE {})
    /\ part # "search" => stored = Chunks /\ access = {} /\ about = 0
    /\ part # "chunking" => pages = <<>>

AssistantInit ==
    /\ part \in {"chat", "paging", "search", "ocr", "chunking"}
    /\ ChatInit /\ PagingInit /\ SearchInit /\ OcrInit /\ ChunkingInit
    /\ Resting

AssistantNext ==
    \/ /\ part = "chat" /\ ChatNext
       /\ UNCHANGED <<part, pagingVars, searchVars, ocrVars, chunkingVars>>
    \/ /\ part = "paging" /\ PagingNext
       /\ UNCHANGED <<part, chatVars, searchVars, ocrVars, chunkingVars>>
    \/ /\ part = "search" /\ SearchNext
       /\ UNCHANGED <<part, chatVars, pagingVars, ocrVars, chunkingVars>>
    \/ /\ part = "ocr" /\ OcrNext
       /\ UNCHANGED <<part, chatVars, pagingVars, searchVars, chunkingVars>>
    \/ /\ part = "chunking" /\ ChunkingNext
       /\ UNCHANGED <<part, chatVars, pagingVars, searchVars, ocrVars>>

\* The fairness of ChatSpec and OcrFairSpec.
AssistantSpec ==
    /\ AssistantInit /\ [][AssistantNext]_assistantVars
    /\ WF_chatVars(part = "chat" /\ ChatGivesUp)
    /\ WF_ocrVars(part = "ocr" /\ Parse) /\ WF_ocrVars(part = "ocr" /\ Tick)
    /\ WF_ocrVars(part = "ocr" /\ (Take \/ Download \/ RecognitionTimesOut \/ CleanUp))
    /\ \A i \in Images : WF_ocrVars(part = "ocr" /\ Sweep(i))

-----------------------------------------------------------------------------
(* Properties. *)

\* The access guard stands before everything that is shown or sent to the model: what a
\* record search lists and the chunks an answer is written from were the user's to see.
AnswersAreAuthorized == ShowsOnlyOnesOwn /\ SentIsAuthorized

\* The user waits for an answer, a document for its text, or a page image to be deleted.
Unsettled == isLoading \/ (\E r \in Runs : outcome[r] = "open") \/ images # {}

\* Nobody waits for ever: the user may ask again, the parser gets an answer or gives up,
\* and the page images go.
AssistantSettles == Unsettled ~> ~Unsettled

=============================================================================
