------------------------------- MODULE AiChat -------------------------------
(***************************************************************************)
(* A question to the assistant, from the widget through the event stream to *)
(* the services that answer it, and back.  The client gives up after two    *)
(* minutes, the server does not notice and goes on.  A text is a sequence   *)
(* of pieces: the notice of a fallback, parts written by the model, or a    *)
(* ready-made answer.  Paging contexts are the module SearchPaging's, the   *)
(* choice of chunks is DocumentSearch's.                                    *)
(***************************************************************************)
EXTENDS Naturals, Sequences, FiniteSets, SequencesExt

CONSTANTS MaxQuestions,   \* questions
          MaxParts   \* parts the model writes of one answer

ASSUME ChatAssumption == MaxQuestions \in Nat \ {0} /\ MaxParts \in Nat \ {0}

Questions == 1 .. MaxQuestions

VARIABLES
    messages,     \* aiChatStore.messages after the greeting
    isLoading, isStreaming,
    streaming,    \* the index of streamingMessage, or 0
    current,      \* the question whose stream is read, or 0
    wire,         \* events on their way to the client
    chatAsked,        \* questions so far
    chatStage,        \* where the server stands with each question
    noticed,      \* the notice was sent
    parts,        \* model parts sent
    filters,      \* the kinds of filters of a record search
    ended         \* the stream's last event: "none", "done" or "error"

client == <<messages, isLoading, isStreaming, streaming, current, chatAsked>>

server == <<chatStage, noticed, parts, filters, ended>>

chatVars == <<client, wire, server>>

-----------------------------------------------------------------------------

Notice == "notice"
Part == "part"
Ready == "ready"

\* The event's text is a sequence of pieces.
Event(kind, text) == [event |-> kind, text |-> text]

Message(role, ask, text, kind) == [role |-> role, ask |-> ask, text |-> text, kind |-> kind]

ChatInit ==
    /\ messages = <<>>
    /\ isLoading = FALSE /\ isStreaming = FALSE
    /\ streaming = 0 /\ current = 0 /\ chatAsked = 0
    /\ wire = <<>>
    /\ chatStage = [a \in Questions |-> "new"]
    /\ noticed = [a \in Questions |-> FALSE]
    /\ parts = [a \in Questions |-> 0]
    /\ filters = [a \in Questions |-> {}]
    /\ ended = [a \in Questions |-> "none"]

-----------------------------------------------------------------------------
(* The store. *)

\* canSend, and the guard of sendMessage.
Free == ~isLoading

SendMessage ==
    /\ chatAsked < MaxQuestions
    /\ Free
    /\ chatAsked' = chatAsked + 1
    /\ messages' = Append(messages, Message("user", chatAsked + 1, <<>>, "question"))
    /\ isLoading' = TRUE
    /\ current' = chatAsked + 1
    /\ streaming' = 0
    /\ wire' = <<>>
    /\ chatStage' = [chatStage EXCEPT ![chatAsked + 1] = "intent"]
    /\ UNCHANGED <<isStreaming, noticed, parts, filters, ended>>

\* The finally of sendMessage.
Settled == isLoading' = FALSE /\ isStreaming' = FALSE

\* The first delta makes the message the others are added to.
ReceiveDelta ==
    /\ current # 0 /\ wire # <<>> /\ Head(wire).event = "delta"
    /\ IF streaming = 0
       THEN /\ messages' = Append(messages,
                             Message("assistant", current, Head(wire).text, "streaming"))
            /\ streaming' = Len(messages) + 1
            /\ isStreaming' = TRUE
       ELSE /\ messages' = [messages EXCEPT ![streaming].text = @ \o Head(wire).text]
            /\ UNCHANGED <<streaming, isStreaming>>
    /\ wire' = Tail(wire)
    /\ UNCHANGED <<isLoading, current, chatAsked, server>>

AddedAnswer(text) ==  \* mutant of ApplyResponse: added to what was streamed
    messages' = IF streaming # 0
                THEN [messages EXCEPT ![streaming] = Message("assistant", current, @.text \o text, "final")]
                ELSE Append(messages, Message("assistant", current, text, "final"))

ApplyResponse(text) ==
    messages' = IF streaming # 0
                THEN [messages EXCEPT ![streaming] = Message("assistant", current, text, "final")]
                ELSE Append(messages, Message("assistant", current, text, "final"))

\* The stream is complete right after its last event.
ReceiveDone ==
    /\ current # 0 /\ wire # <<>> /\ Head(wire).event = "done"
    /\ ApplyResponse(Head(wire).text)
    /\ Settled
    /\ wire' = <<>> /\ current' = 0
    /\ UNCHANGED <<streaming, chatAsked, server>>

\* Whatever is thrown becomes a message; what was streamed stays above it.
Thrown ==
    /\ messages' = Append(messages, Message("assistant", current, <<>>, "error"))
    /\ Settled
    /\ wire' = <<>> /\ current' = 0
    /\ UNCHANGED <<streaming, chatAsked>>

ReceiveError ==
    /\ current # 0 /\ wire # <<>> /\ Head(wire).event = "error"
    /\ Thrown
    /\ UNCHANGED server

\* The abort after AI_CHAT_TIMEOUT_MS, or a broken connection; the server goes on.
ChatGivesUp ==
    /\ current # 0
    /\ Thrown
    /\ UNCHANGED server

\* 401, 400 for a message that is too long, or a proxy's answer: ask is not reached.
Refused ==
    /\ current # 0 /\ chatStage[current] = "intent"
    /\ Thrown
    /\ chatStage' = [chatStage EXCEPT ![current] = "ended"]
    /\ UNCHANGED <<noticed, parts, filters, ended>>

-----------------------------------------------------------------------------
(* AiChatService.ask, its stages as far as events and calls tell them apart. *)

\* subscriber.next: only an open stream carries it on.
Emits(a, e) == wire' = IF a = current THEN Append(wire, e) ELSE wire

AnswerOf(a, text) == IF noticed[a] THEN <<Notice>> \o text ELSE text

Done(a, text) ==
    /\ Emits(a, Event("done", AnswerOf(a, text)))
    /\ chatStage' = [chatStage EXCEPT ![a] = "ended"]
    /\ ended' = [ended EXCEPT ![a] = "done"]

ChatFails(a) ==
    /\ Emits(a, Event("error", <<>>))
    /\ chatStage' = [chatStage EXCEPT ![a] = "ended"]
    /\ ended' = [ended EXCEPT ![a] = "error"]

Continues(a, s) ==
    /\ chatStage' = [chatStage EXCEPT ![a] = s]
    /\ UNCHANGED <<wire, ended>>

FilterKinds == {"text", "structured"}

\* getRecordIntent: the model's answer is anything; what it makes no sense of is
\* unsupported.  A limit is no filter here.  A summary or a page may find nothing to
\* work with and asks for more.
Classify(a) ==
    /\ chatStage[a] = "intent"
    /\ \/ \E fs \in SUBSET FilterKinds :
            /\ filters' = [filters EXCEPT ![a] = fs]
            /\ Continues(a, "records")
       \/ /\ \/ Continues(a, "page") \/ Continues(a, "summary") \/ Continues(a, "documents")
             \/ Done(a, <<Ready>>) \/ ChatFails(a)
          /\ UNCHANGED filters
    /\ UNCHANGED <<client, noticed, parts>>

\* isTextOnly.
FallsBack(a) == filters[a] = {"text"}

\* onDelta with the notice; then the documents are searched.
SendNotice(a) ==
    /\ Emits(a, Event("delta", <<Notice>>))
    /\ noticed' = [noticed EXCEPT ![a] = TRUE]
    /\ chatStage' = [chatStage EXCEPT ![a] = "documents"]
    /\ UNCHANGED ended

\* getFilteredRecords: nothing, something, or an error of the database or of Redis.
SearchRecords(a) ==
    /\ chatStage[a] = "records"
    /\ \/ FallsBack(a) /\ SendNotice(a)
       \/ /\ \/ ~FallsBack(a) /\ Done(a, <<Ready>>)
             \/ Continues(a, "narrate")
             \/ ChatFails(a)
          /\ UNCHANGED noticed
    /\ UNCHANGED <<client, parts, filters>>

\* getNextOrPreviousRecords: no context or an empty page, a page, or an error.
TurnPage(a) ==
    /\ chatStage[a] = "page"
    /\ Done(a, <<Ready>>) \/ Continues(a, "narrate") \/ ChatFails(a)
    /\ UNCHANGED <<client, noticed, parts, filters>>

\* getRecordSummary: by id, or by a name that one record has; a name of several is a
\* search, a name of none falls back.
Summarize(a) ==
    /\ chatStage[a] = "summary"
    /\ \/ SendNotice(a)
       \/ /\ \/ Done(a, <<Ready>>) \/ Continues(a, "narrate")
             \/ Continues(a, "write") \/ ChatFails(a)
          /\ UNCHANGED noticed
    /\ UNCHANGED <<client, parts, filters>>

\* answerFromDocumentChunks up to the chat.
SearchDocuments(a) ==
    /\ chatStage[a] = "documents"
    /\ Done(a, <<Ready>>) \/ Continues(a, "write") \/ ChatFails(a)
    /\ UNCHANGED <<client, noticed, parts, filters>>

\* readChatStream.
ModelWrites(a) ==
    /\ chatStage[a] \in {"narrate", "write"}
    /\ parts[a] < MaxParts
    /\ parts' = [parts EXCEPT ![a] = @ + 1]
    /\ Emits(a, Event("delta", <<Part>>))
    /\ UNCHANGED <<client, chatStage, noticed, filters, ended>>

Written(a) == [i \in 1 .. parts[a] |-> Part]

ModelEnds(a) ==
    /\ chatStage[a] \in {"narrate", "write"} /\ parts[a] > 0
    /\ Done(a, Written(a))
    /\ UNCHANGED <<client, noticed, parts, filters>>

NarrationThrows(a) == ChatFails(a)  \* mutant of NarrationFails: a list without its narration is an error

\* getRecordListAnswer: the list is answered without the narration.
NarrationFails(a) == Done(a, <<Ready>>)

\* An error or an empty reply.
ModelFails(a) ==
    /\ chatStage[a] \in {"narrate", "write"}
    /\ IF chatStage[a] = "narrate" THEN NarrationFails(a) ELSE ChatFails(a)
    /\ UNCHANGED <<client, noticed, parts, filters>>

-----------------------------------------------------------------------------

Client == SendMessage \/ ReceiveDelta \/ ReceiveDone \/ ReceiveError \/ ChatGivesUp \/ Refused

Server(a) ==
    \/ Classify(a) \/ SearchRecords(a) \/ TurnPage(a) \/ Summarize(a) \/ SearchDocuments(a)
    \/ ModelWrites(a) \/ ModelEnds(a) \/ ModelFails(a)

ChatNext == Client \/ \E a \in Questions : Server(a)

\* The client's timer runs whatever the server does.
ChatSpec == ChatInit /\ [][ChatNext]_chatVars /\ WF_chatVars(ChatGivesUp)

-----------------------------------------------------------------------------
(* Properties. *)

Pieces == {Notice, Part, Ready}

\* Every variable has its type, and the busy flags say what is going on.
ChatTypeOK ==
    /\ \A i \in DOMAIN messages :
         /\ messages[i].role \in {"user", "assistant"}
         /\ messages[i].ask \in 1 .. chatAsked
         /\ messages[i].text \in Seq(Pieces)
    /\ isLoading = (current # 0)
    /\ isStreaming => isLoading /\ streaming \in DOMAIN messages
    /\ ended \in [Questions -> {"none", "done", "error"}]
    /\ parts \in [Questions -> 0 .. MaxParts]
    /\ \A a \in Questions : chatStage[a] = "new" <=> a > chatAsked

\* What may be shown below a message: to a question an answer or an error, below a part of
\* an answer only the error that broke it off, and then the next question.
Follows(x, y) ==
    \/ y.ask = x.ask /\ x.kind = "question" /\ y.kind \in {"streaming", "final", "error"}
    \/ y.ask = x.ask /\ x.kind = "streaming" /\ y.kind = "error"
    \/ y.ask = x.ask + 1 /\ x.kind \in {"final", "error"} /\ y.kind = "question"

\* The conversation reads in order: each question is followed by what was said to it
\* and nothing else - one answer, or an error, below a partial answer if one had begun;
\* what an abandoned stream still writes is never shown, and the next question comes
\* after the last one was answered or given up.
ConversationInOrder ==
    /\ messages # <<>> => messages[1].kind = "question" /\ messages[1].ask = 1
    /\ \A i \in 1 .. Len(messages) - 1 : Follows(messages[i], messages[i + 1])
    /\ chatAsked > 0 =>
         /\ messages # <<>> /\ Last(messages).ask = chatAsked
         /\ current = 0 <=> Last(messages).kind \in {"final", "error"}

\* The answer that stays is the response's, whatever was streamed before it: one that
\* fell back to the documents keeps its notice, and a narration that broke off leaves
\* no part behind.
FinalIsTheResponse ==
    \A i \in DOMAIN messages : messages[i].kind = "final" =>
      LET a == messages[i].ask
      IN messages[i].text \in {AnswerOf(a, <<Ready>>), AnswerOf(a, Written(a))}
         /\ ended[a] = "done"

\* "a working search never fails just because the narration did"
\* (StructuredRetrievalService): once records are listed, the stream ends with done.
NarrationNeverFailsASearch ==
    [][\A a \in Questions : chatStage[a] = "narrate" /\ chatStage'[a] = "ended" => ended'[a] = "done"]_chatVars

\* "Structured filters (status, city, abroad, and so on) never fall back."
\* (ai-chat/README.md, of a record search): the documents are not searched for them.
StructuredNeverFallsBack ==
    \A a \in Questions : noticed[a] => "structured" \notin filters[a]

\* The conversation is one the server led, in its order, whatever streams broke off.
ChatSafe == ChatTypeOK /\ ConversationInOrder /\ FinalIsTheResponse /\ StructuredNeverFallsBack

=============================================================================
