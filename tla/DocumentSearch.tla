--------------------------- MODULE DocumentSearch ---------------------------
(***************************************************************************)
(* A question answered from document chunks: candidates by vector distance  *)
(* in PostgreSQL and by BM25 in Elasticsearch, one order made of the two    *)
(* rankings, the chunks fetched with the user's access guard, the model's   *)
(* answer, and the sources it cites.  Chunks and access change in between.  *)
(* Elasticsearch knows nothing of access, and may still know chunks that    *)
(* are gone.  What is near or matches is any choice.                        *)
(***************************************************************************)
EXTENDS Naturals, Sequences, FiniteSets, SequencesExt, FiniteSetsExt, Orders

CONSTANTS MaxChunks,
          Limit, Bm25Limit,          \* DOCUMENT_CHUNK_LIMIT and its BM25 counterpart
          VectorWeight, Bm25Weight,  \* in tenths
          Scale,                     \* the score of the first rank, a multiple of every rank
          Hybrid                     \* values of DOCUMENT_SEARCH_HYBRID_ENABLED

ASSUME SearchAssumption ==
    /\ MaxChunks \in Nat
    /\ Scale \in Nat \ {0} /\ \A rank \in (1 .. Limit) \cup (1 .. Bm25Limit) : Scale % rank = 0
    /\ Limit \in Nat \ {0} /\ Bm25Limit \in Nat \ {0} /\ Hybrid \in (SUBSET BOOLEAN) \ {{}}
    /\ VectorWeight \in Nat \ {0} /\ Bm25Weight \in Nat \ {0}

Chunks == 1 .. MaxChunks

RecordOf(c) == IF c = MaxChunks THEN 2 ELSE 1

Place(c) == (c + 1) \div 2  \* the page of a chunk; neighbours share one

VARIABLES
    stored,    \* chunks in PostgreSQL
    access,    \* records the user may see
    about,     \* the record the question is about, or 0
    searchStage,
    vector, bm25,  \* the two rankings
    ranked,    \* candidate ids
    sent,    \* sent to the model
    cited,     \* source numbers in the model's answer
    citations, records

searchVars == <<stored, access, about, searchStage, vector, bm25, ranked, sent, cited, citations, records>>

SearchInit ==
    /\ stored \in {s \in SUBSET Chunks : s # {}} /\ access \in SUBSET {1, 2}
    /\ about \in {0, 1}
    /\ searchStage = "vector"
    /\ vector = <<>> /\ bm25 = <<>> /\ ranked = <<>> /\ sent = <<>>
    /\ cited = {} /\ citations = {} /\ records = {}

Rankings(s, n) == {q \in SeqOf(s, n) : IsInjective(q)}

Suggested(c) == about \in {0, RecordOf(c)}

Unguarded(c) == c \in stored /\ Suggested(c)  \* mutant of Authorized: without guardQueryAccess

\* buildAuthorizedChunkQuery.
Authorized(c) == c \in stored /\ RecordOf(c) \in access /\ Suggested(c)

-----------------------------------------------------------------------------
(* rankHybridChunkIds. *)

Rank(q, c) == CHOOSE i \in DOMAIN q : q[i] = c

RankScore(q, c) == IF c \in ToSet(q) THEN Scale \div Rank(q, c) ELSE 0

LastSearchOnly(c) ==  \* mutant of FinalScore: a BM25 rank replaces the vector's
    IF c \in ToSet(bm25) THEN RankScore(bm25, c) * Bm25Weight ELSE RankScore(vector, c) * VectorWeight

FinalScore(c) == RankScore(vector, c) * VectorWeight + RankScore(bm25, c) * Bm25Weight

\* The map's order: vector results, then what only BM25 found.
Merged == vector \o Places(bm25, {i \in DOMAIN bm25 : bm25[i] \notin ToSet(vector)})

\* Places of Merged: the higher score first; the sort is stable.
ByScore ==
    {p \in (DOMAIN Merged) \X (DOMAIN Merged) :
       \/ FinalScore(Merged[p[1]]) > FinalScore(Merged[p[2]])
       \/ FinalScore(Merged[p[1]]) = FinalScore(Merged[p[2]]) /\ p[1] < p[2]}

Ranked ==
    LET order == Sorted(DOMAIN Merged, ByScore)
    IN [i \in 1 .. Min({Limit, Len(Merged)}) |-> Merged[order[i]]]

-----------------------------------------------------------------------------

FindVectorChunks ==
    /\ searchStage = "vector"
    /\ vector' \in Rankings({c \in Chunks : Authorized(c)}, Limit)
    /\ \/ TRUE \in Hybrid /\ searchStage' = "bm25" /\ UNCHANGED ranked
       \/ FALSE \in Hybrid /\ searchStage' = "fetch" /\ ranked' = vector'
    /\ UNCHANGED <<stored, access, about, bm25, sent, cited, citations, records>>

\* searchDocumentChunks: candidates of anyone's records.
SearchDocumentChunks ==
    /\ searchStage = "bm25"
    /\ bm25' \in Rankings({c \in Chunks : Suggested(c)}, Bm25Limit)
    /\ searchStage' = "rank"
    /\ UNCHANGED <<stored, access, about, vector, ranked, sent, cited, citations, records>>

RankHybridChunkIds ==
    /\ searchStage = "rank"
    /\ ranked' = Ranked
    /\ searchStage' = "fetch"
    /\ UNCHANGED <<stored, access, about, vector, bm25, sent, cited, citations, records>>

VectorOnly == vector

\* The search fails: the vector's ranking alone.
Bm25Fails ==
    /\ searchStage = "bm25"
    /\ ranked' = VectorOnly
    /\ searchStage' = "fetch"
    /\ UNCHANGED <<stored, access, about, vector, bm25, sent, cited, citations, records>>

\* findAuthorizedChunksByIds keeps the order; nothing left is an answer of its own.
FetchChunks ==
    /\ searchStage = "fetch"
    /\ LET asked == SubSeq(ranked, 1, Min({Limit, Len(ranked)}))
       IN sent' = Places(asked, {i \in DOMAIN asked : Authorized(asked[i])})
    /\ searchStage' = IF sent' = <<>> THEN "nothing" ELSE "write"
    /\ UNCHANGED <<stored, access, about, vector, bm25, ranked, cited, citations, records>>

\* The chunks whose number in brackets occurs in the answer.
CitedChunks(n) == {i \in DOMAIN sent : i \in n}

\* The model cites any numbers, some of no source.
AnswerQuestion ==
    /\ searchStage = "write"
    /\ cited' \in SUBSET (0 .. Limit + 1)
    /\ citations' = {Place(sent[i]) : i \in CitedChunks(cited')}
    /\ records' = {RecordOf(sent[i]) : i \in CitedChunks(cited')}
    /\ searchStage' = "answered"
    /\ UNCHANGED <<stored, access, about, vector, bm25, ranked, sent>>

SearchFails ==
    /\ searchStage \in {"vector", "fetch", "write"}
    /\ searchStage' = "failed"
    /\ UNCHANGED <<stored, access, about, vector, bm25, ranked, sent, cited, citations, records>>

\* A document is indexed anew or removed; a record is reopened.
ChunkGoes(c) ==
    /\ searchStage \in {"bm25", "rank", "fetch"} /\ c \in stored
    /\ stored' = stored \ {c}
    /\ UNCHANGED <<access, about, searchStage, vector, bm25, ranked, sent, cited, citations, records>>

AccessGoes(r) ==
    /\ searchStage \in {"bm25", "rank", "fetch"} /\ r \in access
    /\ access' = access \ {r}
    /\ UNCHANGED <<stored, about, searchStage, vector, bm25, ranked, sent, cited, citations, records>>

SearchNext ==
    \/ FindVectorChunks \/ SearchDocumentChunks \/ RankHybridChunkIds \/ Bm25Fails
    \/ FetchChunks \/ AnswerQuestion \/ SearchFails
    \/ \E c \in Chunks : ChunkGoes(c)
    \/ \E r \in {1, 2} : AccessGoes(r)

SearchSpec == SearchInit /\ [][SearchNext]_searchVars

-----------------------------------------------------------------------------
(* Properties. *)

\* Every variable has its type; a list of candidates names no chunk twice and is no longer
\* than the limit.
SearchTypeOK ==
    /\ searchStage \in {"vector", "bm25", "rank", "fetch", "write", "nothing", "answered", "failed"}
    /\ IsInjective(ranked) /\ Len(ranked) <= Limit
    /\ IsInjective(sent) /\ ToSet(sent) \subseteq ToSet(ranked)

\* "Final chunks are always fetched from PostgreSQL through authorized queries before they
\* are sent" (rag/README.md): what the model gets was the user's to see when it was
\* fetched, whoever suggested it.
SentIsAuthorized ==
    [][\A c \in ToSet(sent') \ ToSet(sent) :
         c \in stored /\ RecordOf(c) \in access /\ about \in {0, RecordOf(c)}]_searchVars

Better(q, c, d) == c \in ToSet(q) /\ (d \notin ToSet(q) \/ Rank(q, c) < Rank(q, d))

NotWorse(q, c, d) == Better(q, c, d) \/ c = d \/ (c \notin ToSet(q) /\ d \notin ToSet(q))

\* "merge pgvector and BM25 ranks" (rag/README.md): of two candidates, the one that no
\* search ranks lower and one ranks higher comes first.
MergeKeepsOrder ==
    \A c, d \in Chunks :
      (/\ searchStage = "fetch" /\ d \in ToSet(ranked)
       /\ NotWorse(vector, c, d) /\ NotWorse(bm25, c, d)
       /\ Better(vector, c, d) \/ Better(bm25, c, d))
      => c \in ToSet(ranked) /\ Rank(ranked, c) < Rank(ranked, d)

\* Without Elasticsearch the documents are still searched (findRecordDocumentChunks):
\* the best vector match is answered from unless it goes away in between.
BestMatchIsUsed ==
    searchStage \in {"nothing", "write"} /\ vector # <<>> /\ Authorized(vector[1])
    => vector[1] \in ToSet(sent)

\* "only the sources it cites (as [1], [2]) are shown as records and citations"
\* (RecordRagService): a source is shown if and only if one of its chunks was cited by the
\* number it was sent with.
CitationsAreTheSources ==
    searchStage = "answered" =>
      /\ citations = {Place(sent[i]) : i \in cited \cap DOMAIN sent}
      /\ records = {RecordOf(sent[i]) : i \in cited \cap DOMAIN sent}
      /\ (cited \cap DOMAIN sent = {}) <=> (citations = {} /\ records = {})

\* The better match comes first and is used, and the sources shown are those it came from.
SearchSafe == SearchTypeOK /\ MergeKeepsOrder /\ BestMatchIsUsed /\ CitationsAreTheSources

=============================================================================
