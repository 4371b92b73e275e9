-------------------------- MODULE DocumentChunking --------------------------
(***************************************************************************)
(* The text of a document's pages, cut into overlapping chunks.  A chunk's  *)
(* content is the set of its positions in the page's text, numbered from 1. *)
(* Texts come redacted, with single spaces and none at the ends; what the   *)
(* redaction replaces is left out.                                          *)
(***************************************************************************)
EXTENDS Naturals, Sequences

CONSTANTS ChunkSize, Overlap,  \* 1200 and 200
          MaxText, MaxPages

ASSUME ChunkingAssumption ==
    /\ ChunkSize \in Nat /\ Overlap \in Nat /\ Overlap < ChunkSize
    /\ MaxText \in Nat /\ MaxPages \in Nat

Texts == UNION {[1 .. n -> {"x", " "}] : n \in 0 .. MaxText}

Clean(t) ==
    \A k \in DOMAIN t : t[k] = " " => k - 1 \in DOMAIN t /\ k + 1 \in DOMAIN t /\ t[k + 1] = "x"

Documents == UNION {[1 .. n -> {t \in Texts : Clean(t)}] : n \in 0 .. MaxPages}

VARIABLES
    pages,   \* pages[p]: the text of page p
    page,    \* the page at hand, 1 + Len(pages) in the end
    start,   \* what precedes the next chunk on it
    chunkIndex,
    chunks   \* [chunkIndex, pageNumber, content]

chunkingVars == <<pages, page, start, chunkIndex, chunks>>

ChunkingInit ==
    /\ pages \in Documents
    /\ page = 1 /\ start = 0 /\ chunkIndex = 0 /\ chunks = <<>>

WholeSize == ChunkSize  \* mutant of Step: no overlap

Step == ChunkSize - Overlap

Slice == {k \in DOMAIN pages[page] : start < k /\ k <= start + ChunkSize}

\* The slice without the spaces at its ends.
Trimmed ==
    {k \in Slice : /\ \E l \in Slice : l <= k /\ pages[page][l] # " "
                   /\ \E r \in Slice : k <= r /\ pages[page][r] # " "}

\* splitTextIntoOverlappingChunks.
AddChunk ==
    /\ page \in DOMAIN pages /\ start < Len(pages[page])
    /\ IF Trimmed # {}
       THEN /\ chunks' = Append(chunks, [chunkIndex |-> chunkIndex, pageNumber |-> page, content |-> Trimmed])
            /\ chunkIndex' = chunkIndex + 1
       ELSE UNCHANGED <<chunks, chunkIndex>>
    /\ start' = start + Step
    /\ UNCHANGED <<pages, page>>

NextIndex == chunkIndex

NextPage ==
    /\ page \in DOMAIN pages /\ ~(start < Len(pages[page]))
    /\ page' = page + 1 /\ start' = 0 /\ chunkIndex' = NextIndex
    /\ UNCHANGED <<pages, chunks>>

ChunkingNext == AddChunk \/ NextPage

ChunkingSpec == ChunkingInit /\ [][ChunkingNext]_chunkingVars

-----------------------------------------------------------------------------
(* Properties. *)

\* Chunks are numbered from 0 without a gap, across pages, and in the order of the pages:
\* findRecordDocumentContent reads a document back by chunkIndex alone.
ChunksAreNumbered ==
    /\ \A i \in DOMAIN chunks : chunks[i].chunkIndex = i - 1
    /\ \A i, j \in DOMAIN chunks : i <= j => chunks[i].pageNumber <= chunks[j].pageNumber

\* A passage of a page, from one word to another.
Passage(p, i, j) == i \in DOMAIN pages[p] /\ j \in DOMAIN pages[p] /\ i <= j
                    /\ pages[p][i] # " " /\ pages[p][j] # " "

InOneChunk(p, i, j) ==
    \E c \in DOMAIN chunks : chunks[c].pageNumber = p /\ i .. j \subseteq chunks[c].content

\* The overlap is there so that a passage of up to Overlap + 1 characters is never cut in
\* two: when a page is done, some chunk of it has the passage whole.
PassagesAreWhole ==
    \A p \in DOMAIN pages : p < page =>
      \A i, j \in DOMAIN pages[p] : Passage(p, i, j) /\ j - i <= Overlap => InOneChunk(p, i, j)

\* What was cut can be put together again, in order and without a loss.
ChunkingSafe == ChunksAreNumbered /\ PassagesAreWhole

=============================================================================
