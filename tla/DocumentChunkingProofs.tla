----------------------- MODULE DocumentChunkingProofs -----------------------
(***************************************************************************)
(* For every chunk size, overlap and document: no short passage is cut in   *)
(* two, and the chunks are numbered in reading order.                       *)
(***************************************************************************)
EXTENDS DocumentChunking, SequenceTheorems, TLAPS

Chunk == [chunkIndex : Nat, pageNumber : Nat, content : SUBSET Nat]

ChunksTyped ==
    /\ pages \in Documents
    /\ page \in Nat /\ start \in Nat
    /\ chunks \in Seq(Chunk) /\ chunkIndex = Len(chunks)
    /\ \A i \in DOMAIN chunks : chunks[i].pageNumber <= page

\* What lies before start on the page at hand is done as well.
PassagesSoFar ==
    \A p \in DOMAIN pages : \A i, j \in DOMAIN pages[p] :
      /\ p < page \/ (p = page /\ i <= start)
      /\ Passage(p, i, j) /\ j - i <= Overlap
      => InOneChunk(p, i, j)

ChunkingInvariant == ChunksTyped /\ ChunksAreNumbered /\ PassagesSoFar

-----------------------------------------------------------------------------

LEMMA PagesAreSequences ==
    ASSUME pages \in Documents
    PROVE  /\ Len(pages) \in Nat /\ DOMAIN pages = 1 .. Len(pages)
           /\ \A p \in DOMAIN pages : Len(pages[p]) \in Nat /\ DOMAIN pages[p] = 1 .. Len(pages[p])
<1>1. PICK n \in 0 .. MaxPages : pages \in [1 .. n -> {t \in Texts : Clean(t)}]
  BY DEF Documents
<1>2. \A t \in Texts : Len(t) \in Nat /\ DOMAIN t = 1 .. Len(t)
  <2>1. SUFFICES ASSUME NEW t \in Texts PROVE Len(t) \in Nat /\ DOMAIN t = 1 .. Len(t)
    OBVIOUS
  <2>2. PICK k \in 0 .. MaxText : t \in [1 .. k -> {"x", " "}]
    BY <2>1 DEF Texts
  <2>3. k \in Nat
    BY ChunkingAssumption
  <2>4. t \in Seq({"x", " "})
    BY <2>2, <2>3, SeqDef
  <2> QED
    BY <2>4, LenProperties
<1>3. pages \in Seq(Texts)
  BY <1>1, ChunkingAssumption, SeqDef
<1>4. \A p \in DOMAIN pages : pages[p] \in Texts
  BY <1>1
<1> QED
  BY <1>2, <1>3, <1>4, LenProperties

\* What the invariant says of types.
LEMMA TypesKnown ==
    ASSUME ChunksTyped
    PROVE  /\ page \in Nat /\ start \in Nat /\ Step \in Nat
           /\ chunks \in Seq(Chunk) /\ Len(chunks) \in Nat /\ DOMAIN chunks = 1 .. Len(chunks)
           /\ \A i \in DOMAIN chunks : chunks[i].pageNumber \in Nat
           /\ \A p \in DOMAIN pages : p \in Nat /\ Len(pages[p]) \in Nat
           /\ \A p \in DOMAIN pages : \A i \in DOMAIN pages[p] : i \in Nat /\ 0 < i /\ i <= Len(pages[p])
<1>1. chunks \in Seq(Chunk) /\ page \in Nat /\ start \in Nat
  BY DEF ChunksTyped
<1>2. Len(chunks) \in Nat /\ DOMAIN chunks = 1 .. Len(chunks)
  BY <1>1, LenProperties
<1>3. \A i \in DOMAIN chunks : chunks[i].pageNumber \in Nat
  <2>1. \A i \in DOMAIN chunks : chunks[i] \in Chunk
    BY <1>1, <1>2, ElementOfSeq
  <2> QED
    BY <2>1 DEF Chunk
<1>4. Step \in Nat
  BY ChunkingAssumption DEF Step
<1>5. \A p \in DOMAIN pages : /\ p \in Nat /\ Len(pages[p]) \in Nat
                             /\ DOMAIN pages[p] = 1 .. Len(pages[p])
  BY PagesAreSequences DEF ChunksTyped
<1> QED
  BY <1>1, <1>2, <1>3, <1>4, <1>5

\* Appending keeps the chunks before.
LEMMA AppendedChunk ==
    ASSUME chunks \in Seq(Chunk), NEW e \in Chunk, chunks' = Append(chunks, e)
    PROVE  /\ chunks' \in Seq(Chunk) /\ Len(chunks') = Len(chunks) + 1
           /\ DOMAIN chunks' = DOMAIN chunks \cup {Len(chunks) + 1}
           /\ DOMAIN chunks = 1 .. Len(chunks)
           /\ \A i \in DOMAIN chunks : chunks'[i] = chunks[i]
           /\ chunks'[Len(chunks) + 1] = e
  OBVIOUS

LEMMA InitInvariant == ChunkingInit => ChunkingInvariant
<1> SUFFICES ASSUME ChunkingInit PROVE ChunkingInvariant
  OBVIOUS
<1>1. DOMAIN chunks = {} /\ chunks \in Seq(Chunk) /\ Len(chunks) = 0
  BY DEF ChunkingInit
<1>2. ChunksTyped
  BY <1>1 DEF ChunkingInit, ChunksTyped
<1>3. ChunksAreNumbered
  BY <1>1 DEF ChunksAreNumbered
<1>4. PassagesSoFar
  <2>1. SUFFICES ASSUME NEW p \in DOMAIN pages, NEW i \in DOMAIN pages[p],
                        p < page \/ (p = page /\ i <= start)
                 PROVE FALSE
    BY DEF PassagesSoFar
  <2>2. p \in 1 .. Len(pages) /\ i \in 1 .. Len(pages[p]) /\ Len(pages) \in Nat /\ Len(pages[p]) \in Nat
    BY <2>1, PagesAreSequences DEF ChunkingInit
  <2> QED
    BY <2>1, <2>2 DEF ChunkingInit
<1> QED
  BY <1>2, <1>3, <1>4 DEF ChunkingInvariant

\* The chunk added has every short passage that begins before the next start.
LEMMA ChunkTakesPassage ==
    ASSUME ChunksTyped, page \in DOMAIN pages,
           NEW i \in DOMAIN pages[page], NEW j \in DOMAIN pages[page],
           Passage(page, i, j), j - i <= Overlap, start < i, i <= start + Step
    PROVE  i .. j \subseteq Trimmed
<1>1. DOMAIN pages[page] = 1 .. Len(pages[page]) /\ Len(pages[page]) \in Nat
  BY PagesAreSequences DEF ChunksTyped
<1>2. start \in Nat /\ i \in Nat /\ j \in Nat /\ i <= j
  <2>1. start \in Nat
    BY DEF ChunksTyped
  <2>2. i <= j
    BY DEF Passage
  <2> QED
    BY <1>1, <2>1, <2>2
<1>3. j <= start + ChunkSize
  BY <1>2, ChunkingAssumption DEF Step
<1>4. i \in Slice /\ j \in Slice
  BY <1>2, <1>3, ChunkingAssumption DEF Slice
<1>5. ASSUME NEW k \in i .. j PROVE k \in Trimmed
  <2>1. k \in Slice /\ i <= k /\ k <= j
    BY <1>1, <1>2, <1>3, <1>5, ChunkingAssumption DEF Slice
  <2> QED
    BY <1>4, <2>1 DEF Trimmed, Passage
<1> QED
  BY <1>5

LEMMA AddChunkInvariant == ChunkingInvariant /\ AddChunk => ChunkingInvariant'
<1> SUFFICES ASSUME ChunkingInvariant, AddChunk PROVE ChunkingInvariant'
  OBVIOUS
<1>1. /\ pages' = pages /\ page' = page /\ start' = start + Step
      /\ page \in DOMAIN pages
  BY DEF AddChunk
<1>2. /\ page \in Nat /\ start \in Nat /\ Step \in Nat
      /\ chunks \in Seq(Chunk) /\ Len(chunks) \in Nat /\ DOMAIN chunks = 1 .. Len(chunks)
      /\ \A i \in DOMAIN chunks : chunks[i].pageNumber \in Nat
      /\ \A p \in DOMAIN pages : \A i \in DOMAIN pages[p] : i \in Nat /\ 0 < i
  BY TypesKnown DEF ChunkingInvariant
<1>3. Len(pages[page]) \in Nat /\ DOMAIN pages[page] = 1 .. Len(pages[page])
  BY <1>1, PagesAreSequences DEF ChunkingInvariant, ChunksTyped
<1>4. Trimmed \in SUBSET Nat
  <2>1. Slice \subseteq Nat
    BY <1>3 DEF Slice
  <2> QED
    BY <2>1 DEF Trimmed
<1>5. CASE Trimmed # {}
  <2> DEFINE e == [chunkIndex |-> chunkIndex, pageNumber |-> page, content |-> Trimmed]
  <2>1. chunks' = Append(chunks, e) /\ chunkIndex' = chunkIndex + 1
    BY <1>5 DEF AddChunk
  <2>2. e \in Chunk /\ chunks \in Seq(Chunk) /\ Len(chunks) \in Nat /\ chunkIndex = Len(chunks)
    BY <1>4 DEF ChunkingInvariant, ChunksTyped, Chunk
  <2> HIDE DEF e
  <2>3. /\ chunks' \in Seq(Chunk) /\ Len(chunks') = Len(chunks) + 1
        /\ DOMAIN chunks' = DOMAIN chunks \cup {Len(chunks) + 1}
        /\ DOMAIN chunks = 1 .. Len(chunks)
        /\ \A i \in DOMAIN chunks : chunks'[i] = chunks[i]
        /\ chunks'[Len(chunks) + 1] = e
    BY <2>1, <2>2, AppendedChunk
  <2>4. e.chunkIndex = Len(chunks) /\ e.pageNumber = page /\ e.content = Trimmed
    BY <2>2 DEF e
  <2>5. ChunksTyped'
    BY <1>1, <1>2, <2>1, <2>2, <2>3, <2>4 DEF ChunkingInvariant, ChunksTyped
  <2>6. ChunksAreNumbered'
    <3>1. \A i \in DOMAIN chunks : chunks[i].pageNumber \in Nat /\ chunks[i].pageNumber <= page
      BY <1>2 DEF ChunkingInvariant, ChunksTyped
    <3>2. \A i \in DOMAIN chunks' : chunks'[i].chunkIndex = i - 1
      BY <2>2, <2>3, <2>4 DEF ChunkingInvariant, ChunksAreNumbered
    <3>3. \A i, j \in DOMAIN chunks' : i <= j => chunks'[i].pageNumber <= chunks'[j].pageNumber
      BY <1>2, <2>3, <2>4, <3>1 DEF ChunkingInvariant, ChunksAreNumbered
    <3> QED
      BY <3>2, <3>3 DEF ChunksAreNumbered
  <2>7. PassagesSoFar'
    <3>1. SUFFICES ASSUME NEW p \in DOMAIN pages, NEW i \in DOMAIN pages[p], NEW j \in DOMAIN pages[p],
                          p < page \/ (p = page /\ i <= start + Step),
                          Passage(p, i, j), j - i <= Overlap
                   PROVE InOneChunk(p, i, j)'
      BY <1>1 DEF PassagesSoFar, Passage
    <3>2. CASE InOneChunk(p, i, j)
      BY <2>3, <3>2 DEF InOneChunk
    <3>3. CASE ~InOneChunk(p, i, j)
      <4>1. p = page /\ ~(i <= start)
        BY <3>1, <3>3 DEF ChunkingInvariant, PassagesSoFar
      <4>2. start < i
        BY <1>2, <4>1
      <4>3. i .. j \subseteq Trimmed
        <5>1. i <= start + Step
          BY <3>1, <4>1, <1>2
        <5> QED
          BY <1>1, <3>1, <4>1, <4>2, <5>1, ChunkTakesPassage DEF ChunkingInvariant
      <4> QED
        BY <2>3, <2>4, <4>1, <4>3 DEF InOneChunk
    <3> QED
      BY <3>2, <3>3
  <2> QED
    BY <2>5, <2>6, <2>7 DEF ChunkingInvariant
<1>6. CASE Trimmed = {}
  <2>1. chunks' = chunks /\ chunkIndex' = chunkIndex
    BY <1>6 DEF AddChunk
  <2>2. ChunksTyped' /\ ChunksAreNumbered'
    BY <1>1, <1>2, <2>1 DEF ChunkingInvariant, ChunksTyped, ChunksAreNumbered
  <2>3. PassagesSoFar'
    <3> DEFINE Same(p, i, j) == /\ Passage(p, i, j)' <=> Passage(p, i, j)
                                /\ InOneChunk(p, i, j)' <=> InOneChunk(p, i, j)
    <3>0. \A p, i, j : Same(p, i, j)
      BY <1>1, <2>1 DEF Passage, InOneChunk
    <3>1. SUFFICES ASSUME NEW p \in DOMAIN pages, NEW i \in DOMAIN pages[p], NEW j \in DOMAIN pages[p],
                          p < page \/ (p = page /\ i <= start + Step),
                          Passage(p, i, j), j - i <= Overlap,
                          ~InOneChunk(p, i, j)
                   PROVE FALSE
      BY <1>1, <3>0 DEF PassagesSoFar
    <3>2. p = page /\ ~(i <= start)
      BY <3>1 DEF ChunkingInvariant, PassagesSoFar
    <3>3. start < i /\ i <= start + Step /\ i \in Nat /\ j \in Nat /\ i <= j
      <4>1. i <= j
        BY <3>1 DEF Passage
      <4> QED
        BY <1>1, <1>2, <3>1, <3>2, <4>1
    <3>4. i .. j \subseteq Trimmed
      BY <1>1, <3>1, <3>2, <3>3, ChunkTakesPassage DEF ChunkingInvariant
    <3> QED
      BY <1>6, <3>3, <3>4
  <2> QED
    BY <2>2, <2>3 DEF ChunkingInvariant
<1> QED
  BY <1>5, <1>6

LEMMA NextPageInvariant == ChunkingInvariant /\ NextPage => ChunkingInvariant'
<1> SUFFICES ASSUME ChunkingInvariant, NextPage PROVE ChunkingInvariant'
  OBVIOUS
<1>1. /\ pages' = pages /\ chunks' = chunks /\ chunkIndex' = chunkIndex
      /\ page' = page + 1 /\ start' = 0 /\ page \in DOMAIN pages /\ ~(start < Len(pages[page]))
  BY DEF NextPage, NextIndex
<1>2. /\ page \in Nat /\ start \in Nat
      /\ \A i \in DOMAIN chunks : chunks[i].pageNumber \in Nat
      /\ \A p \in DOMAIN pages : p \in Nat /\ Len(pages[p]) \in Nat
      /\ \A p \in DOMAIN pages : \A i \in DOMAIN pages[p] : i \in Nat /\ 0 < i /\ i <= Len(pages[p])
  BY TypesKnown DEF ChunkingInvariant
<1>3. ChunksTyped'
  BY <1>1, <1>2 DEF ChunkingInvariant, ChunksTyped
<1>4. ChunksAreNumbered'
  BY <1>1 DEF ChunkingInvariant, ChunksAreNumbered
<1>5. PassagesSoFar'
  <2> DEFINE Same(p, i, j) == /\ Passage(p, i, j)' <=> Passage(p, i, j)
                              /\ InOneChunk(p, i, j)' <=> InOneChunk(p, i, j)
  <2>0. \A p, i, j : Same(p, i, j)
    BY <1>1 DEF Passage, InOneChunk
  <2>1. SUFFICES ASSUME NEW p \in DOMAIN pages, NEW i \in DOMAIN pages[p], NEW j \in DOMAIN pages[p],
                        p < page + 1 \/ (p = page + 1 /\ i <= 0),
                        Passage(p, i, j), j - i <= Overlap
                 PROVE InOneChunk(p, i, j)
    BY <1>1, <2>0 DEF PassagesSoFar
  <2>2. p \in Nat /\ page \in Nat /\ start \in Nat /\ i \in Nat /\ 0 < i /\ i <= Len(pages[p])
    BY <1>2
  <2>3. p < page \/ p = page
    BY <2>1, <2>2
  <2>4. p = page => i <= start
    BY <1>1, <1>2, <2>2
  <2> QED
    BY <2>1, <2>3, <2>4 DEF ChunkingInvariant, PassagesSoFar
<1> QED
  BY <1>3, <1>4, <1>5 DEF ChunkingInvariant

LEMMA StutterInvariant == ChunkingInvariant /\ UNCHANGED chunkingVars => ChunkingInvariant'
<1> SUFFICES ASSUME ChunkingInvariant, UNCHANGED chunkingVars PROVE ChunkingInvariant'
  OBVIOUS
<1>1. pages' = pages /\ page' = page /\ start' = start /\ chunks' = chunks /\ chunkIndex' = chunkIndex
  BY DEF chunkingVars
<1>2. ChunksTyped' /\ ChunksAreNumbered'
  BY <1>1 DEF ChunkingInvariant, ChunksTyped, ChunksAreNumbered
<1>3. PassagesSoFar'
  <2> DEFINE Same(p, i, j) == /\ Passage(p, i, j)' <=> Passage(p, i, j)
                              /\ InOneChunk(p, i, j)' <=> InOneChunk(p, i, j)
  <2>1. \A p, i, j : Same(p, i, j)
    BY <1>1 DEF Passage, InOneChunk
  <2> QED
    BY <1>1, <2>1 DEF ChunkingInvariant, PassagesSoFar
<1> QED
  BY <1>2, <1>3 DEF ChunkingInvariant

\* The inductive invariant holds of every document, chunk size and overlap.
LEMMA ChunkingCorrect == ChunkingSpec => []ChunkingInvariant
<1>1. ChunkingInvariant /\ [ChunkingNext]_chunkingVars => ChunkingInvariant'
  BY AddChunkInvariant, NextPageInvariant, StutterInvariant DEF ChunkingNext
<1> QED
  BY InitInvariant, <1>1, PTL DEF ChunkingSpec

\* The loop of splitTextIntoOverlappingChunks, whose step is the chunk size less the
\* overlap, cuts no passage of up to Overlap + 1 characters in two, whatever the sizes.
THEOREM PassagesNeverCut == ChunkingSpec => []PassagesAreWhole
<1>1. ChunkingInvariant => PassagesAreWhole
  BY DEF ChunkingInvariant, PassagesSoFar, PassagesAreWhole
<1> QED
  BY ChunkingCorrect, <1>1, PTL

\* The counter of prepareDocumentChunks numbers the chunks of all pages in reading order.
THEOREM NumberingCorrect == ChunkingSpec => []ChunksAreNumbered
<1>1. ChunkingInvariant => ChunksAreNumbered
  BY DEF ChunkingInvariant
<1> QED
  BY ChunkingCorrect, <1>1, PTL

\* Chunks are numbered in reading order and cut no short passage, the two together.
THEOREM ChunkingIsSafe == ChunkingSpec => []ChunkingSafe
<1>1. ChunksAreNumbered /\ PassagesAreWhole => ChunkingSafe
  BY DEF ChunkingSafe
<1> QED
  BY <1>1, PassagesNeverCut, NumberingCorrect, PTL

=============================================================================
